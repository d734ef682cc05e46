SPECIFICATION FairSpec
CONSTANTS
  w1 = w1
  w2 = w2
  Workers = {w1, w2}
  Steps = 2
  Delta <- Unequal
  OpIds = {1, 2, 3}
  MaxFaults = 1
INVARIANTS
  TypeOK
  LinksMatchNotes
  NotesWithinLedger
  UnpaidNoteIsKnown
PROPERTIES
  BooksConverge
CHECK_DEADLOCK FALSE
