\* Spec 4.5 read literally: one downtime slash per validator outstanding.
\* A conforming provider (no error acks, valid batches only).
CONSTANTS
  v1 = v1
  v2 = v2
  v3 = v3
  Validators = {v1, v2}
  Channels = {c1}
  Powers = {0, 1}
  NoChannel = NoChannel
  Malformed = Malformed
  Batches <- MCValidBatches
  SlashAckJunk = {}
  ProviderErrorAcks = FALSE
  UnknownAckResults = FALSE
  PacketTimeouts = FALSE
  MaxPackets = 3
  MaxVscs = 2
  MaxBounces = 0
  MaxHeight = 2
SPECIFICATION Spec
INVARIANT SpecDowntimeAtMostOne
