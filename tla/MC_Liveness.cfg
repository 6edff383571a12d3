\* Liveness of slash delivery under a fair relayer, transport and provider,
\* with a provider that may bounce a slash packet before handling it.
CONSTANTS
  v1 = v1
  v2 = v2
  v3 = v3
  Validators = {v1, v2}
  Channels = {c1}
  Powers = {0, 1}
  NoChannel = NoChannel
  Malformed = Malformed
  Batches <- MCValidBatches
  SlashAckJunk = {}
  ProviderErrorAcks = FALSE
  UnknownAckResults = FALSE
  PacketTimeouts = FALSE
  MaxPackets = 3
  MaxVscs = 2
  MaxBounces = 1
  MaxHeight = 2
SPECIFICATION FairSpec
PROPERTIES
  SlashEventuallyAccepted
  SlashReplyEventuallyHandled
\* Once the bounds (packets, VSCs, heights) are used up no step is enabled;
\* such a state stutters forever, and a leads-to still pending there fails.
CHECK_DEADLOCK FALSE
