SPECIFICATION Spec
CONSTANTS
  x = x
  w1 = w1
  w2 = w2
  c1 = c1
  Works = {w1, w2}
  Cancels = {c1}
  ClientIds <- MCClientIds
  MaxGenerated = 2
  NoRequest = NoRequest
SYMMETRY WorkSymmetry
INVARIANTS TypeOK NoStaleEntry
PROPERTIES EntryLostForACause ForeignCancelReaches
