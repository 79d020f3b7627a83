\* Two names, one of them the other name of the other, two connections, four files of up to two chunks.
SPECIFICATION SavingSpec
CONSTANTS
  Names = {"a", "a_1"}
  Other <- MCOther
  Transfers = {1, 2}
  MaxFiles = 4
  MaxChunks = 2
INVARIANT PlainKept
