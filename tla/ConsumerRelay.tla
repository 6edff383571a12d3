---------------------------- MODULE ConsumerRelay ----------------------------
(***************************************************************************)
(* The consumer side of the cross-chain validation (CCV) relay, keeper     *)
(* x/ccv/consumer/keeper/relay.go: OnRecvVSCPacket, QueueSlashPacket,     *)
(* SendPackets and OnAcknowledgementPacket, together with the environment *)
(* they run in: the provider chain, the ordered IBC channel between the   *)
(* two chains and the consumer's block cycle.                             *)
(*                                                                         *)
(* Every handler runs atomically (one transaction or one EndBlock).  A    *)
(* handler that returns an error or panics has its writes discarded by    *)
(* the IBC/SDK layer, so such a path is the action not being enabled.     *)
(***************************************************************************)
EXTENDS Naturals, Sequences, SequencesExt, FiniteSets

CONSTANTS
  Validators,        \* consensus addresses of the validators
  Channels,          \* consumer channel ids a VSC packet may arrive on
  Powers,            \* voting powers carried by a validator update
  NoChannel,         \* model value: no provider channel stored yet
  Malformed,         \* model value: a slash ack that is no bech32 cons address
  Batches,           \* validator-update lists the provider may put in a VSC
  SlashAckJunk,      \* {} or {Malformed}: garbage the provider may add to acks
  ProviderErrorAcks, \* may the provider answer a packet with an error ack?
  UnknownAckResults, \* may it write a result of another length or code?
  PacketTimeouts,    \* may a packet in flight time out?
  MaxPackets,        \* bound: packets ever queued on the consumer
  MaxVscs,           \* bound: VSC packets the provider sends
  MaxBounces,        \* bound: slash packets the provider bounces
  MaxHeight          \* bound: consumer block height

ASSUME /\ NoChannel \notin Channels
       /\ Malformed \notin Validators
       /\ SlashAckJunk \subseteq {Malformed}
       /\ ProviderErrorAcks \in BOOLEAN
       /\ UnknownAckResults \in BOOLEAN
       /\ PacketTimeouts \in BOOLEAN
       /\ {MaxPackets, MaxVscs, MaxBounces, MaxHeight} \subseteq Nat

INSTANCE AccumulateChanges

Infractions == {"Downtime", "DoubleSign"}

SlashPackets   == [idx : 1..MaxPackets, type : {"Slash"},
                   val : Validators, infraction : Infractions]
MaturedPackets == [idx : 1..MaxPackets, type : {"VscMatured"}, vsc : 1..MaxVscs]
Packets        == SlashPackets \cup MaturedPackets

\* Acknowledgement results the provider writes; "Error" is an error ack,
\* "BadLength" a result whose length is not 1, "Unknown" a one-byte result
\* that is none of the three codes relay.go knows.
AckResults == {"V1Result", "SlashHandled", "SlashBounced", "Error",
               "BadLength", "Unknown"}

VARIABLES
  \* consumer keeper state
  providerChannel,     \* GetProviderChannel / SetProviderChannel
  pendingChanges,      \* GetPendingChanges: accumulated validator updates
  heightToVscId,       \* SetHeightValsetUpdateID: height -> vscId (0 = unset)
  outstandingDowntime, \* validators with an outstanding downtime flag
  pending,             \* GetAllPendingPacketsWithIdx: FIFO of queued packets
  slashRecord,         \* slash record: "Idle", "WaitingForReply",
                       \*   "WaitingForBackoff" or "BackoffElapsed"
  height,              \* ctx.BlockHeight()
  chanState,           \* IBC channel end state of each consumer channel
  \* environment
  queuedLog,           \* every packet ever queued (history; idx = position)
  toProvider,          \* consumer->provider packets sent, not yet received
  acks,                \* acknowledgements written, not yet delivered
  vscInFlight,         \* per channel: VSC packets sent, not yet received
  providerSlashAcks,   \* slash acks the provider will put in its next VSC
  nextVscId,           \* the provider's next valset update id
  bounces,             \* slash packets bounced so far
  accepted,            \* idxs of packets the provider accepted, in order
  rejected,            \* idxs of packets the provider answered with an error ack
  vscReceived,         \* ids of the VSC packets OnRecvVSCPacket handled
  counterpartyState,   \* the provider's end of each channel
  timedOut             \* a packet timed out: the provider receives no more

consumerVars == <<providerChannel, pendingChanges, heightToVscId,
                  outstandingDowntime, pending, slashRecord, height, chanState>>
envVars == <<queuedLog, toProvider, acks, vscInFlight, providerSlashAcks,
             nextVscId, bounces, accepted, rejected, vscReceived,
             counterpartyState, timedOut>>
vars == <<consumerVars, envVars>>

VSCs == [id : 1..MaxVscs, updates : Batches,
         slashAcks : SUBSET (Validators \cup SlashAckJunk)]

-----------------------------------------------------------------------------
(* Helpers of the keeper that relay.go calls.                              *)

\* ValidatorSetChangePacketData.Validate: no validator twice in one batch.
ValidVSC(vsc) ==
  \A i, j \in 1..Len(vsc.updates) : i # j => vsc.updates[i][1] # vsc.updates[j][1]

\* Mutant: sending resumes only from an idle record, never after a bounce.
PacketSendingPermittedNoRetry == slashRecord = "Idle"

\* PacketSendingPermitted: no slash awaiting a reply, and the retry delay
\* after a bounce has elapsed.
PacketSendingPermitted == slashRecord \in {"Idle", "BackoffElapsed"}

\* IsChannelClosed: true when the channel keeper has no such channel (as
\* for an unset provider channel) or its end is CLOSED.
IsChannelClosed(c) == c \notin Channels \/ chanState[c] = "CLOSED"

\* Number of matured packets at the head of the queue, before the first slash.
LeadingMatured ==
  LET s == SelectInSeq(pending, LAMBDA p : p.type = "Slash")
  IN  IF s = 0 THEN Len(pending) ELSE s - 1

\* Mutant: a sent slash packet is deleted with the matured ones.
TransmitDeletesSlash(k, withSlash) ==
  /\ toProvider' = toProvider \o SubSeq(pending, 1, IF withSlash THEN k + 1 ELSE k)
  /\ pending' = SubSeq(pending, IF withSlash THEN k + 2 ELSE k + 1, Len(pending))
  /\ slashRecord' = IF withSlash THEN "WaitingForReply" ELSE slashRecord

\* The effect of one SendPackets loop that sent the first k packets (all
\* matured) and then, if withSlash, the slash packet at position k+1.
\* DeletePendingDataPackets removes the k matured ones; the slash stays.
Transmit(k, withSlash) ==
  /\ toProvider' = toProvider \o SubSeq(pending, 1, IF withSlash THEN k + 1 ELSE k)
  /\ pending' = SubSeq(pending, k + 1, Len(pending))
  /\ slashRecord' = IF withSlash THEN "WaitingForReply" ELSE slashRecord

\* AppendPendingPacket: the next index is one past the last ever used.
AppendPendingPacket(p) ==
  /\ pending' = Append(pending, p)
  /\ queuedLog' = Append(queuedLog, p)

-----------------------------------------------------------------------------
(* The consumer's handlers.                                                *)

\* OnRecvVSCPacket with data that fails Validate: an error is returned,
\* the packet is consumed with an error ack and no state is written.
RecvInvalidVSCPacket(c) ==
  /\ vscInFlight[c] # <<>>
  /\ chanState[c] = "OPEN"
  /\ ~ValidVSC(Head(vscInFlight[c]))
  /\ vscInFlight' = [vscInFlight EXCEPT ![c] = Tail(@)]
  /\ UNCHANGED <<consumerVars, queuedLog, toProvider, acks, providerSlashAcks,
                 nextVscId, bounces, accepted, rejected, vscReceived, counterpartyState, timedOut>>

\* Mutant: SetHeightValsetUpdateID keeps the first vscId mapped to a height.
OnRecvVSCPacketFirstHeightWins(c) ==
  /\ vscInFlight[c] # <<>>
  /\ chanState[c] = "OPEN"
  /\ LET vsc == Head(vscInFlight[c]) IN
     /\ ValidVSC(vsc)
     /\ providerChannel \in {NoChannel, c}
     /\ providerChannel' = c
     /\ pendingChanges' = AccumulateChanges(pendingChanges, vsc.updates)
     /\ heightToVscId' = [heightToVscId EXCEPT ![height + 1] =
                            IF @ = 0 THEN vsc.id ELSE @]
     /\ outstandingDowntime' =
          outstandingDowntime \ {a \in vsc.slashAcks : a \in Validators}
     /\ vscInFlight' = [vscInFlight EXCEPT ![c] = Tail(@)]
     /\ vscReceived' = vscReceived \cup {vsc.id}
  /\ UNCHANGED <<pending, slashRecord, height, chanState, queuedLog, toProvider,
                 acks, providerSlashAcks, nextVscId, bounces, accepted, rejected, counterpartyState, timedOut>>

\* Mutant: the slash-ack loop breaks at a malformed ack instead of going
\* on, so with one in the list (in any position) no flag is cleared.
OnRecvVSCPacketBreakAtMalformed(c) ==
  /\ vscInFlight[c] # <<>>
  /\ chanState[c] = "OPEN"
  /\ LET vsc == Head(vscInFlight[c]) IN
     /\ ValidVSC(vsc)
     /\ providerChannel \in {NoChannel, c}
     /\ providerChannel' = c
     /\ pendingChanges' = AccumulateChanges(pendingChanges, vsc.updates)
     /\ heightToVscId' = [heightToVscId EXCEPT ![height + 1] = vsc.id]
     /\ outstandingDowntime' =
          IF vsc.slashAcks \subseteq Validators
            THEN outstandingDowntime \ vsc.slashAcks ELSE outstandingDowntime
     /\ vscInFlight' = [vscInFlight EXCEPT ![c] = Tail(@)]
     /\ vscReceived' = vscReceived \cup {vsc.id}
  /\ UNCHANGED <<pending, slashRecord, height, chanState, queuedLog, toProvider,
                 acks, providerSlashAcks, nextVscId, bounces, accepted, rejected, counterpartyState, timedOut>>

\* OnRecvVSCPacket on the stored channel, or on any channel when none is
\* stored yet (which binds it).  On another channel the handler panics and
\* the packet stays unreceived: no step.
OnRecvVSCPacket(c) ==
  /\ vscInFlight[c] # <<>>
  /\ chanState[c] = "OPEN"
  /\ LET vsc == Head(vscInFlight[c]) IN
     /\ ValidVSC(vsc)
     /\ providerChannel \in {NoChannel, c}
     /\ providerChannel' = c
     /\ pendingChanges' = AccumulateChanges(pendingChanges, vsc.updates)
     /\ heightToVscId' = [heightToVscId EXCEPT ![height + 1] = vsc.id]
     \* acks that do not parse as a consensus address are skipped
     /\ outstandingDowntime' =
          outstandingDowntime \ {a \in vsc.slashAcks : a \in Validators}
     /\ vscInFlight' = [vscInFlight EXCEPT ![c] = Tail(@)]
     /\ vscReceived' = vscReceived \cup {vsc.id}
  /\ UNCHANGED <<pending, slashRecord, height, chanState, queuedLog, toProvider,
                 acks, providerSlashAcks, nextVscId, bounces, accepted, rejected, counterpartyState, timedOut>>

\* Mutant: the packet takes the last index used instead of the next one.
QueueSlashPacketIdxReused(v, infraction) ==
  /\ Len(queuedLog) < MaxPackets
  /\ ~(infraction = "Downtime" /\ v \in outstandingDowntime)
  /\ outstandingDowntime' = IF infraction = "Downtime"
                              THEN outstandingDowntime \cup {v}
                              ELSE outstandingDowntime
  /\ AppendPendingPacket([idx |-> Len(queuedLog), type |-> "Slash",
                          val |-> v, infraction |-> infraction])
  /\ UNCHANGED <<providerChannel, pendingChanges, heightToVscId, slashRecord,
                 height, chanState, toProvider, acks, vscInFlight,
                 providerSlashAcks, nextVscId, bounces, accepted, rejected, vscReceived, counterpartyState, timedOut>>

\* Mutant: no early return on an outstanding downtime flag.
QueueSlashPacketNoDedup(v, infraction) ==
  /\ Len(queuedLog) < MaxPackets
  /\ outstandingDowntime' = IF infraction = "Downtime"
                              THEN outstandingDowntime \cup {v}
                              ELSE outstandingDowntime
  /\ AppendPendingPacket([idx |-> Len(queuedLog) + 1, type |-> "Slash",
                          val |-> v, infraction |-> infraction])
  /\ UNCHANGED <<providerChannel, pendingChanges, heightToVscId, slashRecord,
                 height, chanState, toProvider, acks, vscInFlight,
                 providerSlashAcks, nextVscId, bounces, accepted, rejected, vscReceived, counterpartyState, timedOut>>

\* QueueSlashPacket(validator, _, infraction); returns early for a downtime
\* infraction of a validator with an outstanding downtime flag.
QueueSlashPacket(v, infraction) ==
  /\ Len(queuedLog) < MaxPackets
  /\ ~(infraction = "Downtime" /\ v \in outstandingDowntime)
  /\ outstandingDowntime' = IF infraction = "Downtime"
                              THEN outstandingDowntime \cup {v}
                              ELSE outstandingDowntime
  /\ AppendPendingPacket([idx |-> Len(queuedLog) + 1, type |-> "Slash",
                          val |-> v, infraction |-> infraction])
  /\ UNCHANGED <<providerChannel, pendingChanges, heightToVscId, slashRecord,
                 height, chanState, toProvider, acks, vscInFlight,
                 providerSlashAcks, nextVscId, bounces, accepted, rejected, vscReceived, counterpartyState, timedOut>>

\* Mutant: no break after a slash packet; the loop sends the whole queue.
SendPacketsSucceedNoBreak ==
  /\ providerChannel # NoChannel
  /\ PacketSendingPermitted
  /\ chanState[providerChannel] = "OPEN"
  /\ toProvider' = toProvider \o pending
  /\ pending' = SelectSeq(pending, LAMBDA p : p.type = "Slash")
  /\ slashRecord' = IF LeadingMatured < Len(pending) THEN "WaitingForReply"
                                                     ELSE slashRecord
  /\ UNCHANGED <<providerChannel, pendingChanges, heightToVscId,
                 outstandingDowntime, height, chanState, queuedLog, acks,
                 vscInFlight, providerSlashAcks, nextVscId, bounces, accepted, rejected,
                 vscReceived, counterpartyState, timedOut>>

\* SendPackets when every SendIBCPacket call succeeds: the loop sends the
\* leading matured packets and, if one follows, the slash packet, then breaks.
SendPacketsSucceed ==
  /\ providerChannel # NoChannel
  /\ PacketSendingPermitted
  /\ chanState[providerChannel] = "OPEN"
  /\ Transmit(LeadingMatured, LeadingMatured < Len(pending))
  /\ UNCHANGED <<providerChannel, pendingChanges, heightToVscId,
                 outstandingDowntime, height, chanState, queuedLog, acks,
                 vscInFlight, providerSlashAcks, nextVscId, bounces, accepted, rejected,
                 vscReceived, counterpartyState, timedOut>>

\* SendPackets when the call for packet k+1 fails (client not active, or any
\* other error, which is certain on a channel that is not open): the loop
\* breaks and only the k matured packets sent before are deleted.
SendPacketsFail ==
  /\ providerChannel # NoChannel
  /\ PacketSendingPermitted
  /\ \E k \in 0..(IF chanState[providerChannel] = "OPEN" THEN LeadingMatured ELSE 0) :
       /\ k < Len(pending)
       /\ Transmit(k, FALSE)
  /\ UNCHANGED <<providerChannel, pendingChanges, heightToVscId,
                 outstandingDowntime, height, chanState, queuedLog, acks,
                 vscInFlight, providerSlashAcks, nextVscId, bounces, accepted, rejected,
                 vscReceived, counterpartyState, timedOut>>

\* OnAcknowledgementPacket: the part common to every kind of ack.  IBC core
\* delivers acks in order and only on an open channel; a packet's source
\* channel is the stored provider channel, the only one SendPackets uses.
AckDelivered ==
  /\ acks # <<>>
  /\ providerChannel # NoChannel
  /\ chanState[providerChannel] = "OPEN"
  /\ acks' = Tail(acks)
  /\ UNCHANGED <<providerChannel, pendingChanges, heightToVscId,
                 outstandingDowntime, height, queuedLog, toProvider,
                 vscInFlight, providerSlashAcks, nextVscId, bounces, accepted, rejected,
                 vscReceived, counterpartyState, timedOut>>

\* ... a result ack for a VSCMatured packet: nothing to do, whatever the
\* one-byte code (the type check comes before the switch on it).  A result
\* of another length returns an error first: no action handles it.
OnAckMatured ==
  /\ AckDelivered
  /\ Head(acks).pkt.type = "VscMatured"
  /\ Head(acks).res \notin {"Error", "BadLength"}
  /\ UNCHANGED <<pending, slashRecord, chanState>>

\* ... V1Result or SlashPacketHandledResult for a slash packet:
\* ClearSlashRecord, then DeleteHeadOfPendingPackets.
OnAckSlashHandled ==
  /\ AckDelivered
  /\ Head(acks).pkt.type = "Slash"
  /\ Head(acks).res \in {"V1Result", "SlashHandled"}
  /\ slashRecord' = "Idle"
  /\ pending' = Tail(pending)
  /\ UNCHANGED chanState

\* Mutant: a bounced slash is moved to the tail of the queue for its retry.
OnAckSlashBouncedRequeue ==
  /\ AckDelivered
  /\ Head(acks).pkt.type = "Slash"
  /\ Head(acks).res = "SlashBounced"
  /\ slashRecord' = "WaitingForBackoff"
  /\ pending' = Append(Tail(pending), Head(pending))
  /\ UNCHANGED chanState

\* Mutant: a bounce is treated like a handled result.
OnAckSlashBouncedDeletes ==
  /\ AckDelivered
  /\ Head(acks).pkt.type = "Slash"
  /\ Head(acks).res = "SlashBounced"
  /\ slashRecord' = "WaitingForBackoff"
  /\ pending' = Tail(pending)
  /\ UNCHANGED chanState

\* Mutant: the bounce leaves the record waiting for a reply.
OnAckSlashBouncedNoRecordUpdate ==
  /\ AckDelivered
  /\ Head(acks).pkt.type = "Slash"
  /\ Head(acks).res = "SlashBounced"
  /\ UNCHANGED <<pending, chanState, slashRecord>>

\* ... SlashPacketBouncedResult: UpdateSlashRecordOnBounce; the slash stays
\* at the head of the queue to be retried after the delay.
OnAckSlashBounced ==
  /\ AckDelivered
  /\ Head(acks).pkt.type = "Slash"
  /\ Head(acks).res = "SlashBounced"
  /\ slashRecord' = "WaitingForBackoff"
  /\ UNCHANGED <<pending, chanState>>

\* Mutant: an error ack also unblocks the queue as a handled result does.
OnAckErrorDeletesHead ==
  LET src == providerChannel IN
  /\ AckDelivered
  /\ Head(acks).res = "Error"
  /\ chanState' = [c \in Channels |->
                     IF c \in {src, providerChannel} THEN "CLOSED" ELSE chanState[c]]
  /\ slashRecord' = "Idle"
  /\ pending' = IF pending = <<>> THEN pending ELSE Tail(pending)

\* ... an error ack: ChanCloseInit on the packet's source channel and, when
\* the stored provider channel is a different one, on that one too.
OnAckError ==
  LET src == providerChannel IN
  /\ AckDelivered
  /\ Head(acks).res = "Error"
  /\ chanState' = [c \in Channels |->
                     IF c \in {src, providerChannel} THEN "CLOSED" ELSE chanState[c]]
  /\ UNCHANGED <<pending, slashRecord>>

-----------------------------------------------------------------------------
(* The environment: the block cycle, the provider chain and the relayer.   *)

\* EndBlock: ApplyCCValidatorChanges hands the pending changes to consensus
\* and deletes them; the next block starts.
EndBlock ==
  /\ height < MaxHeight
  /\ height' = height + 1
  /\ pendingChanges' = <<>>
  /\ UNCHANGED <<providerChannel, heightToVscId, outstandingDowntime, pending,
                 slashRecord, chanState, envVars>>

\* Block time passes the retry delay of a bounced slash packet.
RetryDelayElapses ==
  /\ slashRecord = "WaitingForBackoff"
  /\ slashRecord' = "BackoffElapsed"
  /\ UNCHANGED <<providerChannel, pendingChanges, heightToVscId,
                 outstandingDowntime, pending, height, chanState, envVars>>

\* enqueueMaturedUpdate: the oldest VSC recorded at a committed height
\* matures; a VSCMatured packet is queued and the mapping entry pruned.
QueueVSCMaturedPacket ==
  LET hs == {h \in DOMAIN heightToVscId : heightToVscId[h] # 0 /\ h <= height}
  IN  /\ hs # {}
      /\ Len(queuedLog) < MaxPackets
      /\ heightToVscId' = [heightToVscId EXCEPT ![Min(hs)] = 0]
      /\ AppendPendingPacket([idx |-> Len(queuedLog) + 1, type |-> "VscMatured",
                               vsc |-> heightToVscId[Min(hs)]])
      /\ UNCHANGED <<providerChannel, pendingChanges, outstandingDowntime,
                     slashRecord, height, chanState, toProvider, acks,
                     vscInFlight, providerSlashAcks, nextVscId, bounces, accepted, rejected,
                     vscReceived, counterpartyState, timedOut>>

\* The provider's answers to a consumer packet.
ProviderResults(p) ==
  LET err == (IF ProviderErrorAcks THEN {"Error"} ELSE {})
             \cup (IF UnknownAckResults THEN {"BadLength", "Unknown"} ELSE {})
  IN
  IF p.type = "VscMatured"
    THEN {"V1Result"} \cup err
    ELSE {"V1Result", "SlashHandled"} \cup err
         \cup (IF bounces < MaxBounces THEN {"SlashBounced"} ELSE {})

\* The provider receives the next packet of the ordered channel and writes
\* its ack.  An accepted downtime slash is acknowledged in a later VSC.
\* IBC checks the provider's own channel end: after the consumer's
\* ChanCloseInit it stays open until ChanCloseConfirm, so packets already
\* sent may still be received then.
ProviderRecvPacket ==
  /\ toProvider # <<>>
  /\ counterpartyState[providerChannel] = "OPEN"
  /\ ~timedOut
  /\ LET p == Head(toProvider) IN
     \E res \in ProviderResults(p) :
       LET accept == res \in {"V1Result", "SlashHandled"} IN
       /\ toProvider' = Tail(toProvider)
       /\ acks' = Append(acks, [pkt |-> p, res |-> res])
       /\ accepted' = IF accept THEN Append(accepted, p.idx) ELSE accepted
       /\ rejected' = IF res = "Error" THEN Append(rejected, p.idx) ELSE rejected
       /\ providerSlashAcks' =
            IF accept /\ p.type = "Slash" /\ p.infraction = "Downtime"
              THEN providerSlashAcks \cup {p.val} ELSE providerSlashAcks
       /\ bounces' = IF res = "SlashBounced" THEN bounces + 1 ELSE bounces
  /\ UNCHANGED <<consumerVars, queuedLog, vscInFlight, nextVscId, vscReceived, counterpartyState, timedOut>>

\* The provider sends a VSC packet carrying its pending slash acks.
ProviderSendVSC ==
  /\ nextVscId <= MaxVscs
  /\ \E upd \in Batches, c \in Channels, junk \in SUBSET SlashAckJunk :
       /\ counterpartyState[c] = "OPEN"
       /\ vscInFlight' = [vscInFlight EXCEPT ![c] = Append(@,
                         [id |-> nextVscId, updates |-> upd,
                          slashAcks |-> providerSlashAcks \cup junk])]
  /\ providerSlashAcks' = {}
  /\ nextVscId' = nextVscId + 1
  /\ UNCHANGED <<consumerVars, queuedLog, toProvider, acks, bounces, accepted, rejected,
                 vscReceived, counterpartyState, timedOut>>

\* A packet in flight outlives the timeout SendIBCPacket gave it
\* (GetCCVTimeoutPeriod) and a relayer proves the timeout on the consumer:
\* on an ordered channel IBC core then closes the consumer's channel end.
\* The provider can no longer receive that packet, nor, the channel being
\* ordered, any packet behind it; acks behind it are never delivered.
PacketTimesOut ==
  /\ PacketTimeouts
  /\ toProvider # <<>>
  /\ chanState[providerChannel] = "OPEN"
  /\ chanState' = [chanState EXCEPT ![providerChannel] = "CLOSED"]
  /\ timedOut' = TRUE
  /\ UNCHANGED <<providerChannel, pendingChanges, heightToVscId,
                 outstandingDowntime, pending, slashRecord, height, queuedLog,
                 toProvider, acks, vscInFlight, providerSlashAcks, nextVscId,
                 bounces, accepted, rejected, vscReceived, counterpartyState>>

\* A relayer proves to the provider that the consumer's end of c is closed
\* (ChanCloseInit after an error ack, or a timeout): the provider's end
\* closes too, and it receives nothing more on c.
ChanCloseConfirm(c) ==
  /\ IsChannelClosed(c)
  /\ counterpartyState[c] = "OPEN"
  /\ counterpartyState' = [counterpartyState EXCEPT ![c] = "CLOSED"]
  /\ UNCHANGED <<consumerVars, queuedLog, toProvider, acks, vscInFlight,
                 providerSlashAcks, nextVscId, bounces, accepted, rejected,
                 vscReceived, timedOut>>

-----------------------------------------------------------------------------
Init ==
  /\ providerChannel = NoChannel
  /\ pendingChanges = <<>>
  /\ heightToVscId = [h \in 1..(MaxHeight + 1) |-> 0]
  /\ outstandingDowntime = {}
  /\ pending = <<>>
  /\ slashRecord = "Idle"
  /\ height = 1
  /\ chanState = [c \in Channels |-> "OPEN"]
  /\ queuedLog = <<>>
  /\ toProvider = <<>>
  /\ acks = <<>>
  /\ vscInFlight = [c \in Channels |-> <<>>]
  /\ providerSlashAcks = {}
  /\ nextVscId = 1
  /\ bounces = 0
  /\ accepted = <<>>
  /\ rejected = <<>>
  /\ vscReceived = {}
  /\ counterpartyState = [c \in Channels |-> "OPEN"]
  /\ timedOut = FALSE

Next ==
  \/ \E c \in Channels : RecvInvalidVSCPacket(c) \/ OnRecvVSCPacket(c)
  \/ \E v \in Validators, inf \in Infractions : QueueSlashPacket(v, inf)
  \/ SendPacketsSucceed
  \/ SendPacketsFail
  \/ OnAckMatured
  \/ OnAckSlashHandled
  \/ OnAckSlashBounced
  \/ OnAckError
  \/ EndBlock
  \/ RetryDelayElapses
  \/ QueueVSCMaturedPacket
  \/ ProviderRecvPacket
  \/ ProviderSendVSC
  \/ PacketTimesOut
  \/ \E c \in Channels : ChanCloseConfirm(c)

Spec == Init /\ [][Next]_vars

\* The scheduler calls SendPackets every block, the relayer eventually
\* delivers packets and acks, block time advances; the transport is assumed
\* to succeed eventually (client active, channel open); the provider sends
\* its pending slash acks in a VSC packet and the relayer delivers it.
Fairness ==
  /\ WF_vars(SendPacketsSucceed)
  /\ WF_vars(ProviderRecvPacket)
  /\ WF_vars(ProviderSendVSC)
  /\ \A c \in Channels : WF_vars(OnRecvVSCPacket(c))
  /\ WF_vars(OnAckMatured) /\ WF_vars(OnAckSlashHandled)
  /\ WF_vars(OnAckSlashBounced) /\ WF_vars(OnAckError)
  /\ WF_vars(RetryDelayElapses)

FairSpec == Spec /\ Fairness

-----------------------------------------------------------------------------
(* Properties.                                                             *)

TypeOK ==
  /\ providerChannel \in Channels \cup {NoChannel}
  /\ pendingChanges \in Seq(Validators \X Powers)
  /\ heightToVscId \in [1..(MaxHeight + 1) -> 0..MaxVscs]
  /\ outstandingDowntime \subseteq Validators
  /\ pending \in Seq(Packets)
  /\ slashRecord \in {"Idle", "WaitingForReply", "WaitingForBackoff", "BackoffElapsed"}
  /\ height \in 1..MaxHeight
  /\ chanState \in [Channels -> {"OPEN", "CLOSED"}]
  /\ queuedLog \in Seq(Packets)
  /\ toProvider \in Seq(Packets)
  /\ acks \in Seq([pkt : Packets, res : AckResults])
  /\ vscInFlight \in [Channels -> Seq(VSCs)]
  /\ providerSlashAcks \subseteq Validators
  /\ nextVscId \in 1..(MaxVscs + 1)
  /\ bounces \in 0..MaxBounces
  /\ accepted \in Seq(1..MaxPackets)
  /\ rejected \in Seq(1..MaxPackets)
  /\ vscReceived \subseteq 1..MaxVscs
  /\ counterpartyState \in [Channels -> {"OPEN", "CLOSED"}]
  /\ timedOut \in BOOLEAN

\* Packets sent to the provider whose ack the consumer has not handled yet.
\* Acks are for packets sent earlier than those still travelling.
Unresolved == [i \in 1..Len(acks) |-> acks[i].pkt] \o toProvider

IsQueuedSlash(i) == i \in DOMAIN queuedLog /\ queuedLog[i].type = "Slash"

\* Head-of-line blocking (SendPackets' break after a slash, with
\* PacketSendingPermitted and the slash record): a slash packet sent and
\* not yet resolved is the last packet sent, still the head of the queue,
\* and the record waits for its reply, so no other packet overtakes it.
HeadOfLineBlocking ==
  \A i \in 1..Len(Unresolved) :
    Unresolved[i].type = "Slash" =>
      /\ i = Len(Unresolved)
      /\ pending # <<>>
      /\ Head(pending) = Unresolved[i]
      /\ slashRecord = "WaitingForReply"

\* The provider accepts packets in the order QueueSlashPacket and the
\* maturity logic queued them, and none twice: slash evidence keeps its
\* place relative to VSCMatured packets through bounces and retries.
AcceptedInQueueOrder == IsSorted(accepted, <)

\* No slash evidence is lost: a queued slash packet stays in the pending
\* queue until the provider has accepted it (OnAcknowledgementPacket only
\* deletes the head after a handled result), whatever the channel does.
NoSlashLost ==
  \A i \in DOMAIN queuedLog :
    IsQueuedSlash(i) =>
      \/ \E j \in 1..Len(pending) : pending[j].idx = i
      \/ Contains(accepted, i)

\* Downtime dedup (QueueSlashPacket's outstanding-downtime flag, cleared by
\* slash acks in OnRecvVSCPacket): per validator at most one queued downtime
\* slash the provider has not accepted yet, and while one exists the flag
\* is set, so a slash ack cannot clear it before the provider has it.
DowntimeGuard ==
  \A v \in Validators :
    LET open == {j \in 1..Len(pending) :
                   /\ pending[j].type = "Slash"
                   /\ pending[j].val = v
                   /\ pending[j].infraction = "Downtime"
                   /\ ~Contains(accepted, pending[j].idx)}
    IN  /\ Cardinality(open) <= 1
        /\ open # {} => v \in outstandingDowntime

\* Spec 4.5, literally: at most one downtime slash packet per validator is
\* outstanding, queued or sent but not acknowledged to the consumer.
SpecDowntimeAtMostOne ==
  \A v \in Validators :
    Cardinality({j \in 1..Len(pending) :
                   /\ pending[j].type = "Slash"
                   /\ pending[j].val = v
                   /\ pending[j].infraction = "Downtime"}) <= 1

\* Liveness: every queued slash packet is eventually accepted by the
\* provider, through any number of bounces -- also one QueueSlashPacket
\* queued before the channel existed, which SendPackets skips (it returns
\* early with no provider channel) until the first VSC packet binds one.
SlashEventuallyAccepted ==
  \A i \in 1..MaxPackets : IsQueuedSlash(i) ~> Contains(accepted, i)

\* Every VSC the consumer received is covered by its maturity: a later or
\* equal vscId is still mapped to a height (SetHeightValsetUpdateID in
\* OnRecvVSCPacket), or a VSCMatured packet with a later or equal id was
\* queued.  Two VSCs received in one block write the same height key; the
\* later id overwrites the earlier, which is covered only because the
\* provider's ids grow along the ordered channel.
MaturityCoversEveryVsc ==
  \A id \in vscReceived :
    \/ \E h \in DOMAIN heightToVscId : heightToVscId[h] >= id
    \/ \E j \in DOMAIN queuedLog :
         queuedLog[j].type = "VscMatured" /\ queuedLog[j].vsc >= id

\* Liveness: a sent slash packet does not block the queue for good: the
\* consumer's record, set to waiting by SendPackets, is eventually updated
\* by OnAcknowledgementPacket and the retry delay so that sending resumes.
SlashReplyEventuallyHandled ==
  slashRecord = "WaitingForReply" ~> PacketSendingPermitted

\* Liveness: the downtime flag of a validator whose downtime slash the
\* provider has accepted is eventually cleared (QueueSlashPacket sets it,
\* the slash acks of a later VSC packet clear it in OnRecvVSCPacket, which
\* skips a malformed ack and goes on), so a later downtime of the same
\* validator can be reported -- as long as the provider has a VSC left.
DowntimeFlagEventuallyCleared ==
  \A v \in Validators :
    (v \in providerSlashAcks /\ nextVscId <= MaxVscs) ~> v \notin outstandingDowntime

-----------------------------------------------------------------------------
(* Refinement of SlashRelayQueue.  The abstract queue holds the matured     *)
(* packets still travelling to the provider (already deleted from pending) *)
(* followed by the pending packets the provider has neither accepted nor   *)
(* rejected; a slash in flight is also still pending and is counted there  *)
(* once.  The abstract channel is open while the provider can receive on  *)
(* the stored channel: until ChanCloseConfirm closes the provider's end,   *)
(* or a packet times out.  Between the consumer's ChanCloseInit and that   *)
(* step the provider may still accept or reject packets already sent.      *)

QueueBar ==
  LET pendingIdx == {pending[j].idx : j \in 1..Len(pending)}
      travelling == SelectSeq(toProvider, LAMBDA p : p.idx \notin pendingIdx)
      waiting    == SelectSeq(pending, LAMBDA p : ~Contains(accepted, p.idx)
                                                 /\ ~Contains(rejected, p.idx))
      both       == travelling \o waiting
  IN  [j \in 1..Len(both) |-> both[j].idx]

Abstract == INSTANCE SlashRelayQueue
              WITH Ids <- 1..MaxPackets, queue <- QueueBar, delivered <- accepted,
                   rejected <- rejected,
                   open <- providerChannel = NoChannel
                           \/ (counterpartyState[providerChannel] = "OPEN"
                               /\ ~timedOut)

\* The relay (QueueSlashPacket, SendPackets, OnAcknowledgementPacket and the
\* provider's answers) behaves as a FIFO queue: every packet leaves it once,
\* from the head and in order, accepted or rejected by the provider, also
\* after an error ack has made the consumer close its end; nothing leaves it
\* once the provider's end is closed or a packet has timed out.
RelayRefinesQueue == Abstract!Spec
=============================================================================
