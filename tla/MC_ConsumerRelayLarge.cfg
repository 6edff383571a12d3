\* Safety of the relay on a larger instance: three validators and four
\* packets, so a validator can have two downtime slashes queued beside
\* slashes of two others.  Validators are interchangeable (the batches are
\* closed under renaming them), so the run uses validator symmetry.  The
\* provider's answers are those of MC_ConsumerRelay.cfg but for results of
\* unknown kind and malformed slash acks, which that run covers.
CONSTANTS
  v1 = v1
  v2 = v2
  v3 = v3
  Validators = {v1, v2, v3}
  Channels = {c1}
  Powers = {0, 1}
  NoChannel = NoChannel
  Malformed = Malformed
  Batches <- MCSymmetricBatches
  SlashAckJunk = {}
  ProviderErrorAcks = TRUE
  UnknownAckResults = FALSE
  PacketTimeouts = FALSE
  MaxPackets = 4
  MaxVscs = 2
  MaxBounces = 1
  MaxHeight = 2
SYMMETRY ValidatorSymmetry
SPECIFICATION Spec
INVARIANTS
  HeadOfLineBlocking
  AcceptedInQueueOrder
  NoSlashLost
  DowntimeGuard
  MaturityCoversEveryVsc
\* An error ack closes the channel, after which the relay may stop.
CHECK_DEADLOCK FALSE
