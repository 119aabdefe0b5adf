SPECIFICATION Spec
CONSTANTS
  polygon = polygon
  base = base
  foreign = foreign
  alice = alice
  bob = bob
  None = None
  Chains = {polygon, base}
  Polygon = polygon
  Foreign = {foreign}
  Accounts = {alice, bob}
  Builds = {"privy", "metamask"}
  MaxAsked = 2
  MaxChanges = 4
INVARIANTS
  TypeOK
  BalancesSettle
  AccountKnowsLogout
SYMMETRY Symmetry
