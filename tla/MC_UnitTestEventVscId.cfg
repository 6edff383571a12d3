\* The vscID attribute of the slash request event, for random valset update
\* ids as the unit-test fixture draws them.
CONSTANTS
  a1 = a1
  ch1 = ch1
  ch2 = ch2
  Addresses = {a1}
  Channels = {ch1}
  NoChannel = NoChannel
  ByteBits = 1
  WordBytes = 2
  MaxQueued = 1
  MaxAckCalls = 0
SPECIFICATION Spec
INVARIANT SlashRequestEventCarriesVscId
CHECK_DEADLOCK FALSE
