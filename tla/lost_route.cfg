SPECIFICATION HubSpec
CONSTANTS
  alice = alice
  aliceLower = aliceLower
  bob = bob
  None = None
  k1 = k1
  k2 = k2
  k3 = k3
  t1 = t1
  t2 = t2
  SignerSets = {{}, {alice, bob}}
  Names <- MCNames
  Canonical <- MCSame
  Members = {alice, bob}
  Conns = {k1, k2}
  Tokens = {t1, t2}
  MaxChallenges = 1
INVARIANTS
  Reachable
CHECK_DEADLOCK FALSE
