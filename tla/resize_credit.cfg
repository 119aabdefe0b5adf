SPECIFICATION ReliableSpec
CONSTANTS
  alice = alice
  bob = bob
  ca = ca
  cb = cb
  cc = cc
  polygon = polygon
  celo = celo
  Broker = broker
  Participants <- MCParticipants
  ChannelIds <- MCChannelIds
  Owner <- MCOwner
  NetworkOf <- MCNetworkOf
  Nonce <- MCNonce
  Networks = {polygon}
  AppIds = {}
  Allocations <- MCAllocations
  Weights = {1}
  Quorums = {2}
  MaxSignatures = 1
  Deposits = {1}
  Liquidity = 1
  Changes = {1}
  MaxSigned = 1
  MaxRepeat = 0
  MaxQueue = 0
INVARIANTS
  OpenIsCredited
CHECK_DEADLOCK FALSE
