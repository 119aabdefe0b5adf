SPECIFICATION Spec
CONSTANTS
  Keys = {k1, k2, k3}
  MaxInits = 2
  Cameras = {c1, c2}
  MaxTimers = 2
  Signers = {s1, s2}
  MaxAsked = 2
  Characters = {"0", "1", "2", "3", "4", "5", "6", "7", "8", "9", ".", ",", "-", "$"}
  Typed <- TypedTexts
  Balances <- SomeBalances
  PadKeys = {"0", "5", "."}
  MaxLength = 4
  MaxDigits = 3
  MaxDecimals = 2
  SigDigits = 2
  TokenDecimals = 2
  Scale = 4
  Limit = 3
  MaxAdded = 7
  ChatChannels = {"public", "game"}
  Others = {"lobby"}
  Chains = {polygon, base}
  Channels = {ch1, ch2}
  Slots = {slot1, slot2}
  MaxCalls = 3
  None = None
INVARIANTS
  TypeOK OneKey ClientSettles SheetSettles CameraReleased
  PollsWhileConnected PayableIsCovered EntryKeepsValue ShownIsCutOff NewestKept
  StorageFollowsChain SpinnersTurn
SYMMETRY Symmetry
CHECK_DEADLOCK FALSE
