\* Liveness of the downtime flag under a fair relayer, transport and
\* provider; the provider adds malformed slash acks to its VSC packets at
\* will.  Bounces play no part in the flag and are left out.
CONSTANTS
  v1 = v1
  v2 = v2
  v3 = v3
  Validators = {v1, v2}
  Channels = {c1}
  Powers = {0, 1}
  NoChannel = NoChannel
  Malformed = Malformed
  Batches <- MCValidBatches
  SlashAckJunk = {Malformed}
  ProviderErrorAcks = FALSE
  UnknownAckResults = FALSE
  PacketTimeouts = FALSE
  MaxPackets = 3
  MaxVscs = 2
  MaxBounces = 0
  MaxHeight = 2
SPECIFICATION FairSpec
PROPERTIES
  DowntimeFlagEventuallyCleared
\* Once the bounds (packets, VSCs, heights) are used up no step is enabled;
\* such a state stutters forever, and a leads-to still pending there fails.
CHECK_DEADLOCK FALSE
