SPECIFICATION Spec
CONSTANTS
  p1 = p1
  p2 = p2
  bob = bob
  Junk = Junk
  None = None
  Payments = {p1, p2}
  Payees = {bob}
  Sums = {1, 2}
  Funds = 2
  Mobile = TRUE
SYMMETRY Symmetry
INVARIANTS
  TypeOK
  NoIdleSpinner
PROPERTIES
  Promised
