SPECIFICATION Spec
CONSTANTS
  alice = alice
  bob = bob
  ca = ca
  cb = cb
  cc = cc
  polygon = polygon
  celo = celo
  Broker = broker
  Participants <- MCParticipants
  ChannelIds <- MCChannelIds
  Owner <- MCOwner
  NetworkOf <- MCNetworkOf
  Nonce <- MCNonce
  Networks = {polygon}
  AppIds = {v}
  Allocations <- MCAllocations
  Weights = {1}
  Quorums = {2}
  MaxSignatures = 1
  Deposits = {1}
  Liquidity = 1
  Changes = {0}
  MaxSigned = 1
  MaxRepeat = 2
  MaxQueue = 1
INVARIANTS
  TypeOK
  NoOverdraft
  FundsBelong
  ClosedChannelEmpty
  LedgerBacked
PROPERTIES
  PromiseKept
  StaleByOwner
CHECK_DEADLOCK FALSE
