CONSTANTS
  short = short
  long = long
  None = None
  Bogus = Bogus
  Changeset <- MCChangeset
  Cells <- MCCells
  MaxWrites = 4
SPECIFICATION Spec
INVARIANTS NothingLostByCrashes
PROPERTIES ReadableStaysReadable
