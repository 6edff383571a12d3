------------------------ MODULE ConsumerKeeperUnitTest ------------------------
(***************************************************************************)
(* A unit test of the consumer keeper as testutil/keeper builds it: an     *)
(* in-memory keeper over an empty store and a context with an empty block *)
(* header (GetConsumerKeeperAndCtx), fed slash packet data with random     *)
(* field values (GetNewSlashPacketData) through QueueSlashPacket.          *)
(*                                                                         *)
(* Go's 64-bit words are scaled to WordBytes bytes of ByteBits bits each;  *)
(* every conversion keeps its wrap-around at that width.                   *)
(***************************************************************************)
EXTENDS Naturals, Integers, Sequences, SequencesExt, FiniteSets

CONSTANTS
  Addresses,   \* addresses of freshly generated ed25519 keys
  Channels,    \* channel ids a test uses
  NoChannel,   \* model value: no provider channel stored
  ByteBits,    \* bits per byte (8 in Go)
  WordBytes,   \* bytes per word (8 in Go)
  MaxQueued,   \* bound: packets appended in one test
  MaxAckCalls  \* bound: OnAcknowledgementPacket calls of one test

ASSUME /\ NoChannel \notin Channels
       /\ ByteBits \in Nat \ {0}
       /\ WordBytes \in Nat \ {0}
       /\ {MaxQueued, MaxAckCalls} \subseteq Nat

Width == ByteBits * WordBytes
Bytes == 0..(2^ByteBits - 1)
Words == 0..(2^Width - 1)

\* stakingtypes.Infraction, in enum order.
Infractions == <<"Unspecified", "DoubleSign", "Downtime">>

\* The answers a mocked channel keeper's SendPacket may be set to give.
SendResults == {"ok", "ErrClientNotActive", "err"}

\* Acknowledgements a test may pass: a one-byte result (the three codes
\* relay.go knows, or another one), a result of another length, or an
\* error acknowledgement.
AckResults == {"V1Result", "SlashHandled", "SlashBounced", "Unknown",
               "BadLength", "Error"}

VARIABLES
  height,              \* ctx.BlockHeight()
  providerChannel,     \* SetProviderChannel by the test; NoChannel while unset
  outstandingDowntime, \* validators with an outstanding downtime flag
  pending,             \* pending packets, with their indexes
  slashRecord,         \* "Idle", "WaitingForReply" or "WaitingForBackoff"
  events,              \* consumer_slash_request events, in emission order
  queued,              \* every packet appended (history)
  sent,                \* idxs of packets SendPacket accepted, in order
  draws,               \* the random byte strings each fixture call read
  ackLog               \* every OnAcknowledgementPacket call and its outcome

vars == <<height, providerChannel, outstandingDowntime, pending, slashRecord,
          events, queued, sent, draws, ackLog>>

-----------------------------------------------------------------------------
(* Conversions.                                                            *)

\* make([]byte, n) filled by rand.Read: any byte string of the word length.
RandBytes == [1..WordBytes -> Bytes]

\* binary.BigEndian.Uint64: the bytes are digits, most significant first.
BigEndianUint64(b) ==
  FoldLeft(LAMBDA acc, x : acc * 2^ByteBits + x, 0, b)

\* int64(u) and int(u) for a uint64 u: the same bits read in two's
\* complement, so words from 2^(Width-1) on become negative.
Int64(u) == IF u >= 2^(Width - 1) THEN u - 2^Width ELSE u

-----------------------------------------------------------------------------
(* testutil/keeper/unit_test_helpers.go                                    *)

\* A store with no keys, as the keeper's getters read it: no provider
\* channel, no downtime flags, no pending packets, no slash record (Idle).
EmptyStore == [providerChannel |-> NoChannel, outstandingDowntime |-> {},
               pending |-> <<>>, slashRecord |-> "Idle"]

\* NewInMemKeeperParams: a fresh memory database, so a store without keys,
\* and a context over an empty tmproto.Header, so block height 0.
NewInMemKeeperParams == [height |-> 0, store |-> EmptyStore]

\* NewInMemConsumerKeeper: the keeper reads and writes the params' store;
\* its external keepers are the mocks of NewMockedKeepers, whose answers
\* the test sets (here: SendResults for SendPacket).
NewInMemConsumerKeeper(params) == params.store

\* GetNewSlashPacketData: a fresh key's address, and power, valset update
\* id and infraction decoded from three random 8-byte strings.
GetNewSlashPacketData(a, b1, b2, b3) ==
  [val        |-> a,
   power      |-> Int64(BigEndianUint64(b1)),
   vscId      |-> BigEndianUint64(b2),
   infraction |-> Infractions[(BigEndianUint64(b3) % 3) + 1]]

\* GetConsumerKeeperAndCtx: the keeper and context of a fresh test; the
\* context's event manager is new and empty.
Init ==
  LET params == NewInMemKeeperParams
      keeper == NewInMemConsumerKeeper(params)
  IN  /\ height = params.height
      /\ providerChannel = keeper.providerChannel
      /\ outstandingDowntime = keeper.outstandingDowntime
      /\ pending = keeper.pending
      /\ slashRecord = keeper.slashRecord
      /\ events = <<>>
      /\ queued = <<>>
      /\ sent = <<>>
      /\ draws = <<>>
      /\ ackLog = <<>>

-----------------------------------------------------------------------------
(* x/ccv/consumer/keeper/relay.go, and the keeper calls a test makes.      *)

\* Mutant: the packet takes the last index used instead of the next one.
AppendPendingPacketIdxReused(type, data) ==
  LET p == [idx |-> Len(queued), type |-> type, data |-> data] IN
  /\ Len(queued) < MaxQueued
  /\ pending' = Append(pending, p)
  /\ queued' = Append(queued, p)

\* AppendPendingPacket: the next index is one past the last ever used.
AppendPendingPacket(type, data) ==
  LET p == [idx |-> Len(queued) + 1, type |-> type, data |-> data] IN
  /\ Len(queued) < MaxQueued
  /\ pending' = Append(pending, p)
  /\ queued' = Append(queued, p)

\* Mutant: the slash request event is emitted before the early return.
QueueSlashPacketEventFirst(d) ==
  /\ Len(queued) < MaxQueued
  /\ events' = Append(events, [val |-> d.val, vscId |-> Int64(d.vscId),
                               infraction |-> d.infraction])
  /\ IF d.infraction = "Downtime" /\ d.val \in outstandingDowntime
       THEN UNCHANGED <<outstandingDowntime, pending, queued>>
       ELSE /\ outstandingDowntime' = IF d.infraction = "Downtime"
                                        THEN outstandingDowntime \cup {d.val}
                                        ELSE outstandingDowntime
            /\ AppendPendingPacket("Slash", d)
  /\ UNCHANGED <<height, providerChannel, slashRecord, sent, ackLog>>

\* QueueSlashPacket(validator, valsetUpdateID, infraction): returns early
\* for a downtime infraction of a validator whose downtime flag is set;
\* otherwise sets the flag for downtime, appends the packet and emits the
\* event, whose vscID attribute is strconv.Itoa(int(valsetUpdateID)).
QueueSlashPacket(d) ==
  /\ ~(d.infraction = "Downtime" /\ d.val \in outstandingDowntime)
  /\ outstandingDowntime' = IF d.infraction = "Downtime"
                              THEN outstandingDowntime \cup {d.val}
                              ELSE outstandingDowntime
  /\ AppendPendingPacket("Slash", d)
  /\ events' = Append(events, [val |-> d.val, vscId |-> Int64(d.vscId),
                               infraction |-> d.infraction])
  /\ UNCHANGED <<height, providerChannel, slashRecord, sent, ackLog>>

\* The test draws fixture data and queues it.
QueueFixtureSlash(a, b1, b2, b3) ==
  /\ QueueSlashPacket(GetNewSlashPacketData(a, b1, b2, b3))
  /\ draws' = Append(draws, <<b1, b2, b3>>)

\* The test appends a VSCMatured packet.
AppendMaturedPacket ==
  /\ AppendPendingPacket("VscMatured", "none")
  /\ UNCHANGED <<height, providerChannel, outstandingDowntime, slashRecord,
                 events, sent, draws, ackLog>>

\* The test stores the provider channel.
SetProviderChannel(c) ==
  /\ providerChannel = NoChannel
  /\ providerChannel' = c
  /\ UNCHANGED <<height, outstandingDowntime, pending, slashRecord, events,
                 queued, sent, draws, ackLog>>

\* Mutant: a packet whose send failed is marked for deletion too.
SendPacketsDeleteFailed(res) ==
  LET stops == {i \in 1..Len(pending) : res[i] # "ok" \/ pending[i].type = "Slash"}
      stop == IF stops = {} THEN Len(pending) + 1 ELSE Min(stops)
      slashSent == stop <= Len(pending) /\ res[stop] = "ok"
  IN  /\ providerChannel # NoChannel
      /\ slashRecord = "Idle"
      /\ pending' = SubSeq(pending, IF slashSent THEN stop ELSE stop + 1, Len(pending))
      /\ sent' = sent \o [i \in 1..(IF slashSent THEN stop ELSE stop - 1) |-> pending[i].idx]
      /\ slashRecord' = IF slashSent THEN "WaitingForReply" ELSE slashRecord
      /\ UNCHANGED <<height, providerChannel, outstandingDowntime, events,
                     queued, draws, ackLog>>

\* SendPackets with the mocked channel keeper answering the i-th SendPacket
\* call with res[i]: no-op without a provider channel; while sending is
\* permitted the loop sends in FIFO order, stops at the first failed call
\* or after a sent slash packet (which stays, the record now waiting for
\* its reply), and deletes the matured packets sent before it stopped.
SendPackets(res) ==
  LET stops == {i \in 1..Len(pending) : res[i] # "ok" \/ pending[i].type = "Slash"}
      stop == IF stops = {} THEN Len(pending) + 1 ELSE Min(stops)
      slashSent == stop <= Len(pending) /\ res[stop] = "ok"
  IN  /\ providerChannel # NoChannel
      /\ slashRecord = "Idle"
      /\ pending' = SubSeq(pending, stop, Len(pending))
      /\ sent' = sent \o [i \in 1..(IF slashSent THEN stop ELSE stop - 1) |-> pending[i].idx]
      /\ slashRecord' = IF slashSent THEN "WaitingForReply" ELSE slashRecord
      /\ UNCHANGED <<height, providerChannel, outstandingDowntime, events,
                     queued, draws, ackLog>>

\* DeleteHeadOfPendingPackets: the first pending packet, if any, goes.
DeleteHeadOfPendingPackets(q) == IF q = <<>> THEN q ELSE Tail(q)

\* Mutant: a handled result clears the record but leaves the head queued.
AckResultWritesKeepHead(type, res) ==
  CASE res = "BadLength" \/ type = "VscMatured" \/ res \in {"Unknown", "Error"} ->
         UNCHANGED <<pending, slashRecord>>
    [] res \in {"V1Result", "SlashHandled"} ->
         /\ slashRecord' = "Idle"
         /\ UNCHANGED pending
    [] res = "SlashBounced" ->
         /\ slashRecord' = "WaitingForBackoff"
         /\ UNCHANGED pending

\* The keeper writes of OnAcknowledgementPacket for a result ack: a handled
\* (or V1) result for a slash packet clears the record and deletes the
\* head; a bounce updates the record.  A result of another length returns
\* before the packet is decoded, a matured packet's ack before the switch.
AckResultWrites(type, res) ==
  CASE res = "BadLength" \/ type = "VscMatured" \/ res \in {"Unknown", "Error"} ->
         UNCHANGED <<pending, slashRecord>>
    [] res \in {"V1Result", "SlashHandled"} ->
         /\ slashRecord' = "Idle"
         /\ pending' = DeleteHeadOfPendingPackets(pending)
    [] res = "SlashBounced" ->
         /\ slashRecord' = "WaitingForBackoff"
         /\ UNCHANGED pending

\* Mutant: an unrecognised result is handled as a bounce, then the error
\* is returned.
OnAcknowledgementPacketUnknownBounces(p, src, res, closeRes) ==
  LET closes == IF res # "Error" THEN <<>>
                ELSE IF closeRes[1] # "ok" \/ providerChannel \in {NoChannel, src}
                       THEN <<src>> ELSE <<src, providerChannel>>
      ret == CASE res = "BadLength" -> "err"
               [] res = "Error" ->
                    IF closeRes[1] # "ok" \/ providerChannel = NoChannel THEN "err"
                    ELSE IF providerChannel = src \/ closeRes[2] = "ok" THEN "nil" ELSE "err"
               [] p.type = "VscMatured" -> "nil"
               [] res = "Unknown" -> "err"
               [] OTHER -> "nil"
  IN  /\ Len(ackLog) < MaxAckCalls
      /\ IF p.type = "Slash" /\ res = "Unknown"
           THEN AckResultWrites(p.type, "SlashBounced")
           ELSE AckResultWrites(p.type, res)
      /\ ackLog' = Append(ackLog, [seq |-> p.seq, src |-> src,
                                   stored |-> providerChannel, res |-> res,
                                   ret |-> ret, closes |-> closes])
      /\ UNCHANGED <<height, providerChannel, outstandingDowntime, events,
                     queued, sent, draws>>

\* OnAcknowledgementPacket(packet, ack) for a packet p (its data's type and
\* its sequence) sent on channel src, with the mocked ChanCloseInit answering its k-th call
\* with closeRes[k].  An error ack calls ChanCloseInit on src, returning
\* its error; then it returns an error when no provider channel is stored,
\* and, when the stored channel is another, closes that one as well and
\* returns what that call returns.  The call, the stored channel, the
\* channels ChanCloseInit was called on and the return value are logged.
OnAcknowledgementPacket(p, src, res, closeRes) ==
  LET closes == IF res # "Error" THEN <<>>
                ELSE IF closeRes[1] # "ok" \/ providerChannel \in {NoChannel, src}
                       THEN <<src>> ELSE <<src, providerChannel>>
      ret == CASE res = "BadLength" -> "err"
               [] res = "Error" ->
                    IF closeRes[1] # "ok" \/ providerChannel = NoChannel THEN "err"
                    ELSE IF providerChannel = src \/ closeRes[2] = "ok" THEN "nil" ELSE "err"
               [] p.type = "VscMatured" -> "nil"
               [] res = "Unknown" -> "err"
               [] OTHER -> "nil"
  IN  /\ Len(ackLog) < MaxAckCalls
      /\ AckResultWrites(p.type, res)
      /\ ackLog' = Append(ackLog, [seq |-> p.seq, src |-> src,
                                   stored |-> providerChannel, res |-> res,
                                   ret |-> ret, closes |-> closes])
      /\ UNCHANGED <<height, providerChannel, outstandingDowntime, events,
                     queued, sent, draws>>

\* Sent packets whose ack the handler returned nil for.
AckedSeqs == {ackLog[i].seq : i \in {i \in DOMAIN ackLog : ackLog[i].ret = "nil"}} \ {0}

\* The test acknowledges the oldest sent packet whose ack was not handled
\* yet; its sequence is its position among the packets sent, its channel
\* the one SendPackets sent it on.
AckSentPacket(res, closeRes) ==
  LET n == Cardinality(AckedSeqs) + 1
  IN  /\ n <= Len(sent)
      /\ OnAcknowledgementPacket([type |-> queued[sent[n]].type, seq |-> n],
                                 providerChannel, res, closeRes)

\* The test builds a slash packet on channel src (sequence 0: none this
\* keeper sent) and passes an error ack for it, as a test of the error
\* branch does.
AckErrorForPacketOn(src, closeRes) ==
  OnAcknowledgementPacket([type |-> "Slash", seq |-> 0], src, "Error", closeRes)

Next ==
  \/ \E a \in Addresses, b1, b2, b3 \in RandBytes : QueueFixtureSlash(a, b1, b2, b3)
  \/ AppendMaturedPacket
  \/ \E c \in Channels : SetProviderChannel(c)
  \/ \E res \in [1..Len(pending) -> SendResults] : SendPackets(res)
  \/ \E res \in AckResults, cr \in [1..2 -> {"ok", "err"}] : AckSentPacket(res, cr)
  \/ \E c \in Channels, cr \in [1..2 -> {"ok", "err"}] : AckErrorForPacketOn(c, cr)

Spec == Init /\ [][Next]_vars

-----------------------------------------------------------------------------
(* Properties.                                                             *)

SlashData == [val : Addresses, power : -(2^(Width - 1))..(2^(Width - 1) - 1),
              vscId : Words, infraction : Range(Infractions)]
Packets == [idx : 1..MaxQueued, type : {"Slash"}, data : SlashData]
           \cup [idx : 1..MaxQueued, type : {"VscMatured"}, data : {"none"}]

TypeOK ==
  /\ height \in Nat
  /\ providerChannel \in Channels \cup {NoChannel}
  /\ outstandingDowntime \subseteq Addresses
  /\ pending \in Seq(Packets)
  /\ slashRecord \in {"Idle", "WaitingForReply", "WaitingForBackoff"}
  /\ events \in Seq([val : Addresses, vscId : Int,
                     infraction : Range(Infractions)])
  /\ queued \in Seq(Packets)
  /\ sent \in Seq(1..MaxQueued)
  /\ draws \in Seq(RandBytes \X RandBytes \X RandBytes)
  /\ ackLog \in Seq([seq : 0..MaxQueued, src : Channels,
                     stored : Channels \cup {NoChannel}, res : AckResults,
                     ret : {"nil", "err"}, closes : Seq(Channels)])

\* The slash packets queued, in order.
QueuedSlashes == [i \in 1..Len(SelectSeq(queued, LAMBDA p : p.type = "Slash")) |->
                    SelectSeq(queued, LAMBDA p : p.type = "Slash")[i].data]

\* One slash request event per queued slash packet, for the same validator
\* and infraction and in queue order: QueueSlashPacket emits nothing when
\* its downtime dedup returns early.
SlashRequestEventsMatchQueue ==
  /\ Len(events) = Len(QueuedSlashes)
  /\ \A i \in 1..Len(events) :
       /\ events[i].val = QueuedSlashes[i].val
       /\ events[i].infraction = QueuedSlashes[i].infraction

\* Whatever the mocked SendPacket answers, SendPackets loses and repeats
\* nothing: every packet ever appended is still pending or was sent; the
\* packets sent were sent once each and in queue order; and the only one
\* both sent and pending is a slash packet at the head whose reply the
\* record waits for (a reply, or the retry delay after a bounce).
SendPacketsLosesNothing ==
  /\ \A i \in 1..Len(queued) :
       Contains(sent, i) \/ \E j \in 1..Len(pending) : pending[j].idx = i
  /\ IsSorted(sent, <)
  /\ \A j \in 1..Len(pending) :
       Contains(sent, pending[j].idx) =>
         /\ j = 1
         /\ pending[j].type = "Slash"
         /\ slashRecord # "Idle"

\* The vscID attribute of a slash request event carries the valset update
\* id of the packet it announces.
SlashRequestEventCarriesVscId ==
  \A i \in 1..Len(events) : events[i].vscId = QueuedSlashes[i].vscId

\* The slash record and the queue move in step through SendPackets and
\* OnAcknowledgementPacket: the record waits (for a reply, or after a
\* bounce) exactly while the head of the queue is a slash packet that was
\* sent, so a handled result both unblocks sending and removes that slash.
SlashRecordTracksHead ==
  slashRecord # "Idle" <=>
    /\ pending # <<>>
    /\ Head(pending).type = "Slash"
    /\ Contains(sent, Head(pending).idx)

\* A call of OnAcknowledgementPacket that returns an error has written
\* nothing to the keeper's store: every error return of the handler comes
\* before its first write, so a unit test calling it directly sees what
\* the transaction's revert leaves in production.
FailedAckCallWritesNothing ==
  [][Len(ackLog') > Len(ackLog) /\ Last(ackLog').ret = "err" =>
       UNCHANGED <<providerChannel, outstandingDowntime, pending, slashRecord>>]_vars

\* Spec 4.4: an error acknowledgement for a packet on a channel other than
\* the stored provider channel, or with no channel stored, surfaces an
\* explicit inconsistency error instead of closing the stored channel.
ErrorAckInconsistencySurfaced ==
  \A i \in DOMAIN ackLog :
    LET a == ackLog[i] IN
    a.res = "Error" /\ a.src # a.stored =>
      /\ a.ret = "err"
      /\ ~Contains(a.closes, a.stored)
=============================================================================
