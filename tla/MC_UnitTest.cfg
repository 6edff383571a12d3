\* A unit test queueing up to two packets of random data, with words
\* of two one-bit bytes: every conversion still wraps at the word width.
\* Acknowledgements are checked in MC_UnitTestAcks.cfg.
CONSTANTS
  a1 = a1
  ch2 = ch2
  ch1 = ch1
  Addresses = {a1}
  Channels = {ch1}
  NoChannel = NoChannel
  ByteBits = 1
  WordBytes = 2
  MaxQueued = 2
  MaxAckCalls = 0
SPECIFICATION Spec
INVARIANTS
  TypeOK
  SlashRequestEventsMatchQueue
  SendPacketsLosesNothing
\* A test stops after its last call.
CHECK_DEADLOCK FALSE
