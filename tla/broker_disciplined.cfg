SPECIFICATION DisciplinedSpec
CONSTANTS
  alice = alice
  bob = bob
  ca = ca
  cb = cb
  cc = cc
  polygon = polygon
  celo = celo
  Broker = broker
  Participants <- MCParticipants
  ChannelIds <- MCChannelIds
  Owner <- MCOwner
  NetworkOf <- MCNetworkOf
  Nonce <- MCNonce
  Networks = {polygon}
  AppIds = {v}
  Allocations <- MCAllocations
  Weights = {1}
  Quorums = {2}
  MaxSignatures = 1
  Deposits = {1}
  Liquidity = 1
  Changes = {0}
  MaxSigned = 2
  MaxRepeat = 0
  MaxQueue = 0
INVARIANTS
  Solvent
  CloseSettlesBalance
CHECK_DEADLOCK FALSE
