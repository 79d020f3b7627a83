\* A blank and a letter that is also a shortcut; texts of up to three characters, searches of two.
SPECIFICATION Spec
CONSTANTS
  Chars = {" ", "a"}
  Blank = " "
  Reserved = {"a"}
  MaxLen = 3
  MaxQuery = 2
PROPERTY Edits
