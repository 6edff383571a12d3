\* Safety of the relay against an arbitrary provider: bounces, error acks,
\* invalid VSC data, failed sends, packets that time out.
CONSTANTS
  v1 = v1
  v2 = v2
  v3 = v3
  Validators = {v1, v2}
  Channels = {c1}
  Powers = {0, 1}
  NoChannel = NoChannel
  Malformed = Malformed
  Batches <- MCBatches
  SlashAckJunk = {Malformed}
  ProviderErrorAcks = TRUE
  UnknownAckResults = TRUE
  PacketTimeouts = TRUE
  MaxPackets = 3
  MaxVscs = 2
  MaxBounces = 1
  MaxHeight = 2
SPECIFICATION Spec
INVARIANTS
  TypeOK
  HeadOfLineBlocking
  AcceptedInQueueOrder
  NoSlashLost
  DowntimeGuard
  MaturityCoversEveryVsc
\* An error ack closes the channel (ChanCloseInit); nothing in the relay acts
\* on a closed channel afterwards, so the relationship really stops there.
CHECK_DEADLOCK FALSE
