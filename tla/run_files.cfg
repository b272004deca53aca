\* One file, two calls, three edits, an empty, a short and an over-long content.
SPECIFICATION Spec
CONSTANTS
  loopA = loopA
  loopB = loopB
  notes = notes
  Loops = {loopA, loopB}
  Paths = {notes}
  Sizes = {0, 1, 2}
  MaxBytes = 1
  MaxWrites = 2
  MaxEdits = 3
SYMMETRY Either
CHECK_DEADLOCK FALSE
INVARIANTS
  StoredAsRecorded
  RecordsAreTheWrites
