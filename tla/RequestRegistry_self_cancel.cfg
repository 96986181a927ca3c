SPECIFICATION Spec
CONSTANTS
  x = x
  w1 = w1
  c1 = c1
  Works = {w1}
  Cancels = {c1}
  ClientIds <- MCClientIds
  MaxGenerated = 1
  NoRequest = NoRequest
PROPERTY AcknowledgedCancelReaches
