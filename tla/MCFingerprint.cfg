SPECIFICATION Spec
CONSTANTS
  d1 = d1
  d2 = d2
  d3 = d3
  e1 = e1
  e2 = e2
  e3 = e3
  x = x
  y = y
  Doc <- MCDoc
  Event <- MCEvent
  Content <- MCContent
  Similar <- MCSimilar
  DocOf <- MCDocOf
  Uploads <- MCUploads
  Worker = {w1, w2, w3}
  MaxCopies = 1
  MaxFaults = 2
  None = None
SYMMETRY Symmetry
INVARIANTS
  TypeOK
  SavedOnce
  EventKept
  LinkIsTrue
  LinksWellFounded
CHECK_DEADLOCK FALSE
