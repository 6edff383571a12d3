\* A unit test that queues and sends up to two packets and then passes
\* acknowledgements to OnAcknowledgementPacket: results of every kind for
\* the packets it sent, and error acks for packets it builds on either of
\* two channels, with the mocked ChanCloseInit failing or not.  Fixture
\* words are one bit wide: the ack handler never reads the slash data.
CONSTANTS
  a1 = a1
  ch1 = ch1
  ch2 = ch2
  Addresses = {a1}
  Channels = {ch1, ch2}
  NoChannel = NoChannel
  ByteBits = 1
  WordBytes = 1
  MaxQueued = 2
  MaxAckCalls = 1
SPECIFICATION Spec
INVARIANT ErrorAckInconsistencySurfaced
\* A test stops after its last call.
CHECK_DEADLOCK FALSE
