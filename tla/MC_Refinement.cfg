\* The relay implements SlashRelayQueue with its Reject and Abandon steps,
\* against a provider that bounces, answers packets with error acks, sends
\* malformed slash acks and may use either of two channels.  After an error
\* ack the provider may still receive packets already sent until a relayer
\* confirms the close on its end; a packet may time out, after which the
\* provider receives nothing more.
CONSTANTS
  v1 = v1
  v2 = v2
  v3 = v3
  Validators = {v1, v2}
  Channels = {c1, c2}
  Powers = {0, 1}
  NoChannel = NoChannel
  Malformed = Malformed
  Batches <- MCValidBatches
  SlashAckJunk = {Malformed}
  ProviderErrorAcks = TRUE
  UnknownAckResults = FALSE
  PacketTimeouts = TRUE
  MaxPackets = 3
  MaxVscs = 2
  MaxBounces = 1
  MaxHeight = 2
SPECIFICATION Spec
PROPERTY RelayRefinesQueue
\* An error ack closes the channel, after which the relay may stop.
CHECK_DEADLOCK FALSE
