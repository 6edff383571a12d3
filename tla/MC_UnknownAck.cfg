\* A provider whose result for a slash packet has another length or an
\* unrecognised code (a provider of a newer protocol version, say); the
\* relayer and transport are fair as in the liveness run.
CONSTANTS
  v1 = v1
  v2 = v2
  v3 = v3
  Validators = {v1, v2}
  Channels = {c1}
  Powers = {0, 1}
  NoChannel = NoChannel
  Malformed = Malformed
  Batches <- MCValidBatches
  SlashAckJunk = {}
  ProviderErrorAcks = FALSE
  UnknownAckResults = TRUE
  PacketTimeouts = FALSE
  MaxPackets = 3
  MaxVscs = 2
  MaxBounces = 1
  MaxHeight = 2
SPECIFICATION FairSpec
PROPERTY SlashReplyEventuallyHandled
\* The stall this run shows is a state with no enabled consumer step.
CHECK_DEADLOCK FALSE
