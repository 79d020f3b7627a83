----------------------------- MODULE TextInput -----------------------------
(***************************************************************************)
(* The two text fields written by hand: the input bar under the chat       *)
(* (ChatInputBar), with its selection and its mode for a pasted image, and *)
(* the search bar (SearchBar), which has a cursor only.  They share the    *)
(* keyboard focus and the clipboard.                                       *)
(*                                                                         *)
(* A position is an index into the text, between 0 and its length; the     *)
(* layout that maps pixels to positions is left out.                       *)
(***************************************************************************)
EXTENDS Integers, Sequences

CONSTANTS Chars,     \* printable characters
          Blank,     \* the one that is white space
          Reserved,  \* the letters a, c, x and v
          MaxLen,    \* bound on the length of a text
          MaxQuery   \* bound on the length of what is searched

ASSUME CharsAssumption == Blank \in Chars /\ Reserved \subseteq Chars
ASSUME LengthsAssumption == MaxLen \in Nat \ {0} /\ MaxQuery \in Nat /\ MaxQuery <= MaxLen

VARIABLES text, cursorPos, selStart,  \* ChatInputBar
          dragging, image,            \* the mouse selects; m_pendingImage is set
          query, queryPos,            \* SearchBar's m_text and m_cursorPos
          focus,                      \* which of them has the keyboard
          clipboard, clipImage        \* its text; whether it holds an image

inputVars == <<text, cursorPos, selStart>>
searchVars == <<query, queryPos>>
clipVars == <<clipboard, clipImage>>
vars == <<inputVars, dragging, image, searchVars, focus, clipVars>>

Letters == {<<c>> : c \in Chars}
Pairs == {<<c, d>> : c, d \in Chars}  \* as an input method commits them
Texts == UNION {[1..n -> Chars] : n \in 1..MaxLen}
Positions == 0..MaxLen

TypeOK == /\ text \in Texts \union {<<>>} /\ cursorPos \in 0..Len(text)
          /\ selStart \in Positions /\ (selStart <= Len(text) \/ text = <<>>)
          /\ dragging \in BOOLEAN /\ image \in BOOLEAN
          /\ query \in Texts \union {<<>>} /\ Len(query) <= MaxQuery /\ queryPos \in 0..Len(query)
          /\ focus \in {"input", "search", "none"}
          /\ clipboard \in Texts \union {<<>>} /\ clipImage \in BOOLEAN

-----------------------------------------------------------------------------
(* Texts: remove and insert of QString, and whether trimmed leaves nothing. *)

Smaller(i, j) == IF i < j THEN i ELSE j
Greater(i, j) == IF i < j THEN j ELSE i

Removed(t, i, n) == SubSeq(t, 1, i) \o SubSeq(t, i + n + 1, Len(t))
Inserted(t, i, s) == SubSeq(t, 1, i) \o s \o SubSeq(t, i + 1, Len(t))
IsBlank(t) == \A i \in 1..Len(t) : t[i] = Blank

-----------------------------------------------------------------------------
(* The input bar's helpers.                                                *)

HasSelection == selStart # cursorPos
SelFrom == Smaller(selStart, cursorPos)
SelTo == Greater(selStart, cursorPos)
SelectedText == SubSeq(text, SelFrom + 1, Smaller(SelTo, Len(text)))

(* The new text, with the cursor at pos and the anchor at sel.  Only the   *)
(* cursor is kept inside the text.                                         *)
UpdateText(t, pos, sel) == /\ Len(t) <= MaxLen
                           /\ text' = t
                           /\ cursorPos' = Smaller(pos, Len(t))
                           /\ selStart' = sel

MoveCursor(pos) == /\ cursorPos' = Smaller(pos, Len(text)) /\ selStart' = cursorPos'
                   /\ UNCHANGED text

Clear == UpdateText(<<>>, cursorPos, selStart)

DeleteSelection == UpdateText(Removed(text, SelFrom, SelTo - SelFrom), SelFrom, SelFrom)

(* The selection is deleted first, and s inserted where it was.            *)
Insert(s) == LET t == IF HasSelection THEN Removed(text, SelFrom, SelTo - SelFrom) ELSE text
                 pos == IF HasSelection THEN SelFrom ELSE cursorPos
             IN UpdateText(Inserted(t, pos, s), pos + Len(s), pos + Len(s))

-----------------------------------------------------------------------------
(* Keys in the input bar, while it shows a text.                           *)

Typing == focus = "input" /\ ~image
Rest == UNCHANGED <<dragging, image, searchVars, focus, clipVars>>

Return == Typing /\ ~IsBlank(text) /\ Clear /\ Rest

Backspace ==
    /\ Typing /\ Rest
    /\ \/ HasSelection /\ DeleteSelection
       \/ /\ ~HasSelection /\ cursorPos > 0
          /\ UpdateText(Removed(text, cursorPos - 1, 1), cursorPos - 1, cursorPos - 1)

Delete ==
    /\ Typing /\ Rest
    /\ \/ HasSelection /\ DeleteSelection
       \/ /\ ~HasSelection /\ cursorPos < Len(text)
          /\ UpdateText(Removed(text, cursorPos, 1), cursorPos, selStart)

(* Left, Right, Home and End, with Shift or without.                       *)
Arrow(pos, shift) == /\ cursorPos' = pos /\ UNCHANGED text
                     /\ selStart' = IF shift THEN selStart ELSE pos

Left(shift) == /\ Typing /\ Rest
               /\ \/ HasSelection /\ ~shift /\ MoveCursor(SelFrom)
                  \/ (~HasSelection \/ shift) /\ cursorPos > 0 /\ Arrow(cursorPos - 1, shift)

Right(shift) == /\ Typing /\ Rest
                /\ \/ HasSelection /\ ~shift /\ MoveCursor(SelTo)
                   \/ (~HasSelection \/ shift) /\ cursorPos < Len(text)
                      /\ Arrow(cursorPos + 1, shift)

HomeKey(shift) == Typing /\ Rest /\ Arrow(0, shift)
EndKey(shift) == Typing /\ Rest /\ Arrow(Len(text), shift)

Escape ==
    /\ Typing
    /\ IF HasSelection THEN selStart' = cursorPos /\ UNCHANGED <<text, cursorPos, focus>>
       ELSE Clear /\ focus' = "none"
    /\ UNCHANGED <<dragging, image, searchVars, clipVars>>

SelectAllKey == /\ Typing /\ Rest
                /\ selStart' = 0 /\ cursorPos' = Len(text) /\ UNCHANGED text

CopyKey == /\ Typing
           /\ clipboard' = (IF HasSelection THEN SelectedText ELSE text) /\ clipImage' = FALSE
           /\ UNCHANGED <<inputVars, dragging, image, searchVars, focus>>

CutKey == /\ Typing
          /\ clipboard' = (IF HasSelection THEN SelectedText ELSE text) /\ clipImage' = FALSE
          /\ IF HasSelection THEN DeleteSelection ELSE Clear
          /\ UNCHANGED <<dragging, image, searchVars, focus>>

PasteKey ==
    /\ Typing
    /\ IF clipImage THEN image' = TRUE /\ UNCHANGED inputVars
       ELSE clipboard # <<>> /\ Insert(clipboard) /\ UNCHANGED image
    /\ UNCHANGED <<dragging, searchVars, focus, clipVars>>

Type(c) == Typing /\ Insert(<<c>>) /\ Rest

(* An input method composes, which deletes the selection, and commits.     *)
Compose == Typing /\ HasSelection /\ DeleteSelection /\ Rest
Commit(s) == Typing /\ Insert(s) /\ Rest

(* Return sends the pasted image; Escape and its button drop it.           *)
ImageLeaves == /\ image /\ image' = FALSE
               /\ UNCHANGED <<inputVars, dragging, searchVars, focus, clipVars>>

-----------------------------------------------------------------------------
(* The mouse in the input bar.                                             *)

Press(i) == /\ ~image /\ i \in 0..Len(text)
            /\ focus' = "input" /\ dragging' = TRUE
            /\ cursorPos' = i /\ selStart' = i /\ UNCHANGED text
            /\ UNCHANGED <<image, searchVars, clipVars>>

Drag(i) == /\ Typing /\ dragging /\ i \in 0..Len(text)
           /\ cursorPos' = i
           /\ UNCHANGED <<text, selStart, dragging, image, searchVars, focus, clipVars>>

(* Beside the text, and beside the buttons.                                *)
FocusBar == /\ ~image /\ focus' = "input"
            /\ UNCHANGED <<inputVars, dragging, image, searchVars, clipVars>>

Release == /\ dragging /\ dragging' = FALSE
           /\ UNCHANGED <<inputVars, image, searchVars, focus, clipVars>>

-----------------------------------------------------------------------------
(* The search bar.                                                         *)

Searching == focus = "search"
SearchRest == UNCHANGED <<inputVars, dragging, image, focus, clipVars>>

UpdateQuery(t, pos) == /\ Len(t) <= MaxQuery
                       /\ query' = t /\ queryPos' = Smaller(pos, Len(t))

InsertQuery(s) == UpdateQuery(Inserted(query, queryPos, s), queryPos + Len(s))

(* Mutant: the cursor stays where the letter was.                          *)
SearchBackspaceLate == /\ Searching /\ SearchRest /\ queryPos > 0
                       /\ UpdateQuery(Removed(query, queryPos - 1, 1), queryPos)

SearchBackspace == /\ Searching /\ SearchRest /\ queryPos > 0
                   /\ UpdateQuery(Removed(query, queryPos - 1, 1), queryPos - 1)

SearchDelete == /\ Searching /\ SearchRest /\ queryPos < Len(query)
                /\ UpdateQuery(Removed(query, queryPos, 1), queryPos)

(* Left, Right, Home, End, and Ctrl+A, which goes to the end.              *)
SearchArrow == /\ Searching /\ SearchRest /\ UNCHANGED query
               /\ \/ queryPos > 0 /\ queryPos' = queryPos - 1
                  \/ queryPos < Len(query) /\ queryPos' = queryPos + 1
                  \/ queryPos' \in {0, Len(query)}

SearchEscape == /\ Searching /\ UpdateQuery(<<>>, queryPos) /\ focus' = "none"
                /\ UNCHANGED <<inputVars, dragging, image, clipVars>>

SearchCopy(cut) == /\ Searching /\ clipboard' = query /\ clipImage' = FALSE
                   /\ IF cut THEN UpdateQuery(<<>>, queryPos) ELSE UNCHANGED searchVars
                   /\ UNCHANGED <<inputVars, dragging, image, focus>>

SearchPaste == /\ Searching /\ SearchRest /\ clipboard # <<>> /\ InsertQuery(clipboard)

(* Without Ctrl, the keys of the shortcuts do nothing.                     *)
SearchType(c) == Searching /\ SearchRest /\ c \notin Reserved /\ InsertQuery(<<c>>)

SearchCommit(s) == Searching /\ SearchRest /\ InsertQuery(s)

SearchPress == /\ focus' = "search"
               /\ UNCHANGED <<inputVars, dragging, image, searchVars, clipVars>>

-----------------------------------------------------------------------------
(* Another program fills the clipboard.                                    *)
CopiedElsewhere == /\ \/ clipImage' = TRUE /\ clipboard' = <<>>
                      \/ clipImage' = FALSE /\ clipboard' \in Letters
                   /\ UNCHANGED <<inputVars, dragging, image, searchVars, focus>>

Init == /\ text = <<>> /\ cursorPos = 0 /\ selStart = 0
        /\ dragging = FALSE /\ image = FALSE
        /\ query = <<>> /\ queryPos = 0 /\ focus = "none"
        /\ clipboard = <<>> /\ clipImage = FALSE

Next == \/ Return \/ Backspace \/ Delete \/ Escape
        \/ \E shift \in BOOLEAN : Left(shift) \/ Right(shift) \/ HomeKey(shift) \/ EndKey(shift)
        \/ SelectAllKey \/ CopyKey \/ CutKey \/ PasteKey \/ Compose
        \/ \E c \in Chars : Type(c) \/ SearchType(c)
        \/ \E s \in Pairs : Commit(s) \/ SearchCommit(s)
        \/ ImageLeaves
        \/ \E i \in Positions : Press(i) \/ Drag(i)
        \/ FocusBar \/ Release
        \/ SearchBackspace \/ SearchDelete \/ SearchArrow \/ SearchEscape
        \/ \E cut \in BOOLEAN : SearchCopy(cut)
        \/ SearchPaste \/ SearchPress \/ CopiedElsewhere

Spec == Init /\ [][Next]_vars

-----------------------------------------------------------------------------
(* Each field is a line edit: an edit changes the text at the selection or *)
(* next to the cursor and nowhere else, whatever keys, drags and input     *)
(* methods came before it.  After a message is sent the anchor of the      *)
(* input bar may be left beyond the empty text, where it selects nothing.  *)
Input == INSTANCE LineEdit WITH cursor <- cursorPos, anchor <- Smaller(selStart, Len(text))
Search == INSTANCE LineEdit WITH text <- query, cursor <- queryPos, anchor <- queryPos

Edits == Input!Spec /\ Search!Spec
=============================================================================
