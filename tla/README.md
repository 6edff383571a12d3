# TLA+ models of the consumer-side CCV relay

This directory holds TLA+ models of the consumer keeper's relay code in
interchain-security (`src/unnamed/part_001`, lines 91-368, the Go file
`x/ccv/consumer/keeper/relay.go`). The relay keeps the validator set of a
consumer chain in sync with the provider chain. It also carries slash evidence
back to the provider over an ordered IBC channel: nothing may be lost,
duplicated or reordered.

## 1. Inventory

### Components and their state

| Component | Code | State (keeper store) | Operations |
|---|---|---|---|
| Channel binding | `OnRecvVSCPacket` 124-147 | provider channel id (optional) | bind on first VSC packet; panic on a VSC from another channel |
| VSC accumulator | `OnRecvVSCPacket` 119-163 | pending changes (validator updates); height → vscId | validate; merge the updates (`ccv.AccumulateChanges`); record `height+1 → vscId` |
| Downtime dedup guard | `QueueSlashPacket` 195-204, `OnRecvVSCPacket` 165-180 | set of validators with an outstanding downtime flag | set when a downtime slash is queued; cleared by the slash acks in a VSC packet (malformed acks are logged and skipped) |
| Outbound packet queue | `QueueSlashPacket` 191-233, `SendPackets` 243-293 | pending packets (FIFO, indexed): Slash or VSCMatured | append a slash packet; once per block, send in FIFO order, break after a slash or on a failed send, delete the matured packets that were sent |
| Ack state machine | `OnAcknowledgementPacket` 298-359 | slash record (idle / waiting for reply / backing off) | matured result: nothing; V1 or handled result: clear the record, delete the head; bounce: back off; error ack: `ChanCloseInit` |
| Channel query | `IsChannelClosed` 362-368 | none | read-only: closed, or not found |

`src/testutil/keeper/unit_test_helpers.go` holds the scaffolding of the
keepers' unit tests:
- an in-memory keeper over a fresh store, with a context whose header is
  empty (block height 0);
- gomock mocks for every external keeper, whose answers each test sets;
- fixtures such as `GetNewSlashPacketData`, which draws a slash packet's
  power, valset update id and infraction from random bytes.

`part_000` is a docs CI workflow, and `part_001` lines 1-90 are the
golangci-lint configuration. Neither is part of the system's behaviour.

### How the components interact

Each handler runs in one transaction or in EndBlock, atomically.
If a handler returns an error or panics, the SDK/IBC layer discards its
writes. Once the error ack of a failed `OnRecvPacket` is written, the
handler's state changes are gone.

- The provider sends VSC packets (validator updates plus slash acks) on the
  ordered channel. `OnRecvVSCPacket` binds the channel, accumulates the
  updates and clears downtime flags.
- The consumer's slashing logic calls `QueueSlashPacket`. The maturity logic
  queues VSCMatured packets.
- EndBlock calls `SendPackets`, which sends packets through IBC. The slash
  record and `PacketSendingPermitted` gate the sends.
- The provider answers each packet with an ack. The ack is one of: accepted
  (V1 result or slash handled), bounced (retry later) or error.
  `OnAcknowledgementPacket` applies the ack to the record and the queue.
- An accepted downtime slash comes back as a slash ack in a later VSC
  packet. Two things travel independently from the provider to the consumer:
  the slash ack and the slash packet's own acknowledgement.

### What is hard

- **Head-of-line blocking.** A sent slash packet stays at the head of the
  queue until it is resolved, and no later packet may overtake it. The
  blocking comes from a `break` in the loop, the slash record and
  `PacketSendingPermitted` working together.
- **Partial failure.** A send can fail in the middle of the loop. Only the
  matured packets that were already sent may be deleted.
- **Bounce and retry.** The same slash packet is sent again after a delay,
  and the retry must not duplicate or reorder it.
- **Two paths from provider to consumer.** The slash ack in a VSC packet and
  the slash packet's own acknowledgement can arrive in either order.
- **Channel closure.** An error ack makes the consumer close its end
  (`ChanCloseInit`). The provider's end stays open until a relayer
  confirms the close, so the provider may still receive and answer packets
  already sent; their acks never reach the consumer. A timeout on the
  ordered channel stops all delivery behind the timed-out packet.

### Properties that make each component correct

- Binding: the stored channel never changes. This is the single guard at
  line 126, and no other code writes the channel, so no run states it
  separately.
- Accumulator: there is one entry per validator, with its latest power, in
  order of first appearance (spec §8).
- Queue and ack state machine:
  - a slash in flight is the last packet sent and the head of the queue;
  - the provider accepts packets in queue order, each at most once;
  - no slash packet is lost;
  - every slash packet is eventually accepted;
  - the whole relay behaves like a FIFO queue.
- Dedup guard: per validator, at most one downtime slash that the provider
  has not yet accepted, and the flag is set while it exists.

## 2. Modules

| Module | Models |
|---|---|
| `AccumulateChanges` | the merge of validator updates (`ccv.AccumulateChanges`). It is not under `src/`, so it is modelled from spec §4.2 step 3. |
| `PendingChanges` | the accumulator component: `Ingest` = `OnRecvVSCPacket` lines 119-158, and `EndBlock` applies and deletes the changes. It includes a reference definition `ReferenceChanges`. |
| `ConsumerRelay` | the whole relay plus its environment (listed below). It INSTANCEs `AccumulateChanges`. |
| `SlashRelayQueue` | abstract specification: a FIFO queue from which the provider accepts (`Deliver`) or rejects (`Reject`) packets one at a time, until the relationship is given up (`Abandon`). |
| `ConsumerKeeperUnitTest` | a unit test of the consumer keeper as `unit_test_helpers.go` sets it up, described below. |
| `MC_ConsumerRelay`, `MC_PendingChanges`, `MC_ConsumerKeeperUnitTest` | model-checking instances: validator or address model values, and the VSC batches the provider may send. |

### ConsumerRelay in detail

**Consumer variables.** `providerChannel`, `pendingChanges`, `heightToVscId`,
`outstandingDowntime`, `pending`, `slashRecord`, `height`, and `chanState`
(the IBC channel end).

**Consumer actions:**

- `OnRecvVSCPacket(c)` and `RecvInvalidVSCPacket(c)`. A VSC on a channel
  other than the stored one makes the code panic, so it is the action not
  being enabled: the packet stays unreceived.
- `QueueSlashPacket(v, infraction)`. Its early return for an outstanding
  downtime flag is a guard.
- `SendPacketsSucceed` and `SendPacketsFail`. These are the two outcome
  classes of the `SendPackets` loop. `SendPacketsSucceed` sends the leading
  matured packets and then the first slash packet. In `SendPacketsFail`,
  the call for packet k+1 fails; k matured packets were sent and are
  deleted. A client-not-active failure and any other failure change the
  same state (only the log differs), so they share the action. On a closed
  channel every send fails. When `PacketSendingPermitted` is false the loop
  breaks at once, so there is no step.
- `OnAckMatured`, `OnAckSlashHandled`, `OnAckSlashBounced`, `OnAckError`:
  one action per branch of `OnAcknowledgementPacket`. IBC core delivers
  acks in order, only on an open channel, and only for packets this module
  sent on the stored channel.
- Some results return an error, which reverts the transaction, so no
  action handles them: a result whose length is not 1 (`BadLength`), and an
  unknown one-byte code (`Unknown`) for a slash packet. For a matured
  packet the handler returns before it looks at the code. The constant
  `UnknownAckResults` lets the provider write such results.

`IsChannelClosed(c)` is the query at lines 362-368: a channel that is not
found (here, one outside `Channels`) counts as closed. It is what the
relayer's `ChanCloseConfirm` proves about the consumer's end.

**Environment.** This code is not under `src/` and is modelled from the spec.

- `EndBlock`: pending changes are applied and deleted; the height advances.
- `RetryDelayElapses`: block time passes the slash record's backoff.
- `QueueVSCMaturedPacket`: the oldest recorded vscId matures, and its
  mapping entry is pruned.
- `ProviderRecvPacket`: the provider receives the head of the channel and
  writes an ack. IBC checks the provider's own channel end
  (`counterpartyState`), not the consumer's, so after the consumer's
  `ChanCloseInit` packets already sent may still be received. An accepted downtime slash becomes a slash ack. A packet
  answered with an error ack is recorded in the history variable
  `rejected`.
- `ProviderSendVSC`: the provider sends a VSC packet that carries its slash
  acks. It may add a malformed ack.
- `PacketTimesOut` (when `PacketTimeouts` is set): a packet in flight
  outlives the timeout `SendIBCPacket` gave it (`GetCCVTimeoutPeriod`,
  line 262). On an ordered channel IBC core then closes the consumer's
  channel end, and the provider can receive neither that packet nor any
  packet behind it (`timedOut`). The spec (§5) leaves timeouts to the
  transport, so this is all the model does on a timeout.
- `ChanCloseConfirm(c)`: a relayer proves that the consumer's end of `c`
  is closed, and the provider's end closes too. From then on the provider
  sends and receives nothing on `c`.

**History variables.** Properties refer to these:
- `queuedLog`: every packet ever queued;
- `accepted`: the provider's accepted indices, in order;
- `vscReceived`: the ids of the VSC packets `OnRecvVSCPacket` handled.

**Data abstraction.** A packet is its queue index and its type. A slash
packet also carries its validator and infraction kind. A VSCMatured packet
also carries the vscId that matured. Infraction heights, addresses and
event attributes are left out. A malformed bech32 slash ack is the model
value `Malformed`. The slash record's `backoffUntil` versus block time is
abstracted to the two states `WaitingForBackoff` and `BackoffElapsed`.

### ConsumerKeeperUnitTest in detail

This module models a unit test of the consumer keeper, built the way
`unit_test_helpers.go` builds one.

**Initial state.** `Init` is `GetConsumerKeeperAndCtx`:
`NewInMemKeeperParams` (a store with no keys, and a context at block
height 0) wrapped by `NewInMemConsumerKeeper`. So there is no provider
channel, no downtime flag, no pending packet and no slash record.

**Fixture data.** `GetNewSlashPacketData` is modelled with its
conversions:
- `binary.BigEndian.Uint64` is a fold over the bytes, most significant
  first;
- `int64(...)` is the two's-complement reading;
- `% 3` indexes the `stakingtypes.Infraction` enum, so a third of the
  draws are `Unspecified`.

Go's 8-byte words are scaled to `WordBytes` bytes of `ByteBits` bits, and
every wrap-around is kept at that width.

The unit-test `SendPackets` sends only from an idle record. A test's
context has a fixed block time, so the retry delay after a bounce never
elapses, and a bounced slash is not resent within a test.

**Test steps.**
- `QueueFixtureSlash`: `QueueSlashPacket` called with fixture data. The
  handler includes its `consumer_slash_request` event. The event's vscID
  attribute is `strconv.Itoa(int(id))`, kept as its integer value.
- `AppendMaturedPacket` and `SetProviderChannel`: keeper calls a test
  makes.
- `SendPackets(res)`: the mocked channel keeper (`NewMockedKeepers`)
  answers the i-th `SendPacket` call with `res[i]`: ok, client not active,
  or another error. This action is the whole `SendPackets` loop in one
  step.
- `AckSentPacket(res, closeRes)` and `AckErrorForPacketOn(c, closeRes)`:
  a test calling `OnAcknowledgementPacket` directly. The first acks the
  oldest sent packet not yet acknowledged, with a result of any kind
  (`AckResults`): V1, handled, bounced, an unknown code, a result whose
  length is not 1, or an error ack. The second passes an error ack for a
  packet the test builds on either of two channels. The mocked
  `ChanCloseInit` succeeds or fails for each of the at most two closes
  (`closeRes`).

**The ack handler.** `OnAcknowledgementPacket` is the whole handler.
`AckResultWrites` is the result branch (lines 299-331): clear the record
and delete the head, set the record to backing off, or write nothing.
The error branch computes the closes it asks for and the value it returns:
- if the first `ChanCloseInit` fails, it returns an error;
- if no channel is stored, it returns an error (line 351);
- if the stored channel differs, it closes that one too and returns what
  the second close returns.

A unit test has no transaction to revert. So the history variable
`ackLog` records every call: its channel, the stored channel, the result,
the closes and the returned value. The properties read it.

## 3. Runs

| Run | cfg | Checks | Result |
|---|---|---|---|
| relay_safety | `MC_ConsumerRelay.cfg` | `TypeOK`, `HeadOfLineBlocking`, `AcceptedInQueueOrder`, `NoSlashLost`, `DowntimeGuard`, `MaturityCoversEveryVsc` | pass, about 670k states |
| relay_refinement | `MC_Refinement.cfg` | `RelayRefinesQueue` = `SlashRelayQueue!Spec` under the mapping `QueueBar` | pass, about 1.6M states |
| relay_liveness | `MC_Liveness.cfg` | `SlashEventuallyAccepted`, `SlashReplyEventuallyHandled` under `FairSpec` | pass |
| unknown_ack | `MC_UnknownAck.cfg` | `SlashReplyEventuallyHandled` with `UnknownAckResults` | **violation**, expected |
| unit_test | `MC_UnitTest.cfg` | `TypeOK`, `SlashRequestEventsMatchQueue`, `SendPacketsLosesNothing` | pass, about 12k states |
| unit_test_event_vscid | `MC_UnitTestEventVscId.cfg` | `SlashRequestEventCarriesVscId` | **violation**, expected |
| relay_downtime_liveness | `MC_DowntimeLiveness.cfg` | `DowntimeFlagEventuallyCleared` under `FairSpec` | pass, about 87k states |
| relay_safety_large | `MC_ConsumerRelayLarge.cfg` | the five invariants of relay_safety other than `TypeOK`, three validators, four packets, symmetry | pass, about 1.3M states |
| unit_test_acks | `MC_UnitTestAcks.cfg` | `SlashRecordTracksHead`, `FailedAckCallWritesNothing` (action property) | pass, about 446k states |
| unit_test_error_ack | `MC_UnitTestErrorAck.cfg` | `ErrorAckInconsistencySurfaced` | **violation**, expected |
| pending_changes | `MC_PendingChanges.cfg` | `TypeOK`, `LastWriteWinsInFirstOrder` | pass |
| downtime_spec | `MC_DowntimeSpec.cfg` | `SpecDowntimeAtMostOne` (spec §4.5 literally) | **violation**, expected |

### What each run shows

- **relay_safety.** The provider here is adversarial:
  - it bounces, sends error acks, invalid batches (a validator twice) and
    malformed slash acks;
  - the transport may fail any send;
  - a packet in flight may time out, which closes the channel.

  It may also write results of another length or unknown codes, which
  the consumer never handles.

  Even so, a slash in flight is always the last packet sent and the head of
  the queue, and the record waits for its reply. The provider accepts
  packets in strictly increasing index order. No slash packet disappears
  without being accepted. Per validator there is at most one downtime slash
  not yet accepted, and its flag is set.

  Every VSC received is covered by its maturity
  (`MaturityCoversEveryVsc`): an id at least as large is still mapped to
  a height, or a VSCMatured packet for one was queued. Two VSCs received in
  one block write the same height key (line 162), and the later id
  overwrites the earlier one. This is harmless only because the provider's
  ids grow along the ordered channel. A mutant that keeps the first id
  breaks it.

  Deadlock checking is off in the relay runs with error acks: once a
  closed channel's close is confirmed, nothing in the relay can act again,
  and the relationship really stops there.
- **relay_refinement.** Two channels, with a provider that may use either
  of them, bounce, send malformed slash acks and answer with error acks;
  packets may time out.
  - The abstract queue is the matured packets still travelling, followed
    by the pending packets the provider has neither accepted nor rejected.
    Every concrete step is an abstract `Enqueue`, `Deliver`, `Reject`,
    `Abandon` or a stutter.
  - A rejected packet leaves the abstract queue by `Reject`. The
    mapping's `open` is "the provider can still receive on the stored
    channel". So the abstract `Abandon` is `ChanCloseConfirm` on that
    channel, or a packet timeout. `OnAckError` is a stutter. The provider
    may still accept or reject packets sent behind the rejected one, both
    before the consumer handles the error ack and after its
    `ChanCloseInit`, and the queue still refines. A mutant of `OnAckError` that also deletes
  the head of the queue is caught, and so is one that drops a slash
  packet while sending it.
- **relay_downtime_liveness.** Once the provider has accepted a downtime
  slash of `v`, and while it can still send VSCs, the flag of `v` is
  eventually cleared. This holds even when the provider adds a malformed
  slash ack in front of it. A mutant that stops at the malformed ack
  instead of skipping it (`continue`, line 170) is caught.
- **relay_safety_large.** Three validators and `MaxPackets = 4`. One
  validator can have two downtime slashes queued beside the slashes of
  others. The batches are one update for any validator, a set closed
  under renaming, so validator symmetry is sound. Unknown results and
  malformed acks are left to relay_safety, and `MaxBounces = 1` keeps the
  run near a minute.
- **relay_liveness.** Every queued slash is eventually accepted, through
  a bounce and a retry. This includes a slash queued before any VSC packet
  has bound the channel: `SendPackets` returns early without a channel
  (line 244), and the slash waits until the first VSC arrives. This relies
  on the fairness of `ProviderSendVSC` and VSC receipt. A sent slash never
  blocks the queue for good: the record, once waiting for a reply,
  eventually permits sending again. The fairness is described below.
- **unknown_ack.** The same fair model, but the provider may write a slash
  result of another length or an unknown code. This could be a provider
  running a newer protocol version.
  - `OnAcknowledgementPacket` returns an error, and the transaction is
    reverted.
  - The ack stays at the head of the ordered channel.
  - The record waits for a reply forever, so `SendPackets` never sends
    again.

  Spec §4.4 hands such an error to the caller "which decides higher-level
  recovery". Nothing in the code does. This is a finding in
  `PROJECT.json`.
- **unit_test.** A unit test of up to two packets on a fresh keeper.
  - `TypeOK`: queued packets keep indexes in `1..MaxQueued`. A mutant of
    `AppendPendingPacket` that reuses the last index is caught.
  - There is exactly one slash request event per queued slash packet, in
    order. A mutant that emits the event before the dedup's early return
    is caught.
  - Whatever the mocked `SendPacket` answers, `SendPackets` loses nothing
    and repeats nothing. A mutant that also deletes the packet whose send
    failed is caught.
- **unit_test_event_vscid.** With a fixture id of 2^63 or more (scaled:
  2^(Width-1)), the event attribute `strconv.Itoa(int(valsetUpdateID))`
  is negative, while the packet and the log line carry the right id.
  Half of `GetNewSlashPacketData`'s ids hit this. Real ids count up from
  1 and would need 2^63 VSCs to reach it. This is a finding in
  `PROJECT.json`.
- **unit_test_acks.** A test sends up to two packets and then makes up to
  three ack calls of any kind, on two channels.
  - The slash record is not idle exactly when the head of the queue is a
    slash that was sent (`SlashRecordTracksHead`). A mutant whose handled
    result clears the record but keeps the head is caught.
  - A call that returns an error changed nothing in the keeper's store
    (`FailedAckCallWritesNothing`). This matters here because a unit test
    has no revert. It holds for a bad length and an unknown code: the
    handler returns before it writes. A mutant that treats an unknown code
    as a bounce, and still returns the error, is caught.
- **unit_test_error_ack.** A test stores `ch1` and passes an error ack
  for a packet on `ch2`. The handler closes `ch2`, then closes `ch1` and
  returns nil. Spec §4.4 says that a mismatch must surface an explicit
  inconsistency error rather than close the bound channel. This is a
  finding in `PROJECT.json`. On a chain the branch cannot be reached (see
  section 4).
- **pending_changes.** The accumulator is compared with a reference
  definition after up to three batches per block, for three validators.
- **downtime_spec.** TLC finds this sequence:
  1. a downtime slash for v1 is sent;
  2. the provider handles it and puts v1 in the slash acks of its next VSC;
  3. that VSC arrives before the slash packet's own acknowledgement, and the
     flag is cleared;
  4. a new downtime infraction of v1 queues a second slash packet while the
     first is still pending.

  This is the finding in `PROJECT.json`. The code does not match spec §4.5's
  wording. But no duplicate claim reaches the provider, which had already
  handled the first slash: `DowntimeGuard` holds.

### Bounds

The model has two validators and powers {0, 1}.

- `MaxPackets = 3` allows a matured packet, a slash and a second slash (or
  two slashes around a matured one). That is enough for a slash to block a
  later packet and for two downtime slashes of one validator.
- `MaxVscs = 2` lets a VSC bind the channel and a second one carry a slash
  ack.
- `MaxBounces = 1` exercises a bounce and a retry.
- `MaxHeight = 2` lets two VSCs fall in the same block or in different
  blocks, and a recorded vscId mature.

Each bound is a guard on the environment action that consumes it.

The unit-test runs use one address (enough to hit the downtime dedup) and
words of two 1-bit bytes. With that width, half the words read as
negative, `% 3` yields all three infractions, and a valset update id
reaches 2^(Width-1), where `int()` turns it negative. `MaxQueued = 2` lets a matured packet precede a slash,
so a send can fail after a successful one. Three packets give about 700k
states and take over nine minutes. That is too long for a routine run and
adds no new case.

The large relay run uses three validators, `MaxPackets = 4`,
`MaxBounces = 1` and symmetry; it takes about 75 s. With two bounces and
unknown results it exceeds several million states.

The ack runs of the unit test use 1-byte words of 1 bit (the handler
never reads the slash data), two channels and up to three ack calls: a
test can ack both sent packets and pass one error ack.

### Fairness

`FairSpec` assumes weak fairness for these actions:

- `SendPacketsSucceed`: EndBlock calls `SendPackets` every block, and the
  transport is assumed to succeed eventually (client active, channel open).
  The code cannot guarantee this part; it is the environment assumption
  under which delivery is promised.
- `ProviderRecvPacket` and the four ack handlers: the relayer eventually
  relays packets and acks.
- `RetryDelayElapses`: block time advances.
- `ProviderSendVSC` and `OnRecvVSCPacket(c)` for each channel: the
  provider keeps sending VSCs while it has any to send (bounded by
  `MaxVscs`), and the relayer delivers them. This is what lets a slash ack
  reach the consumer; `DowntimeFlagEventuallyCleared` assumes it only
  while `nextVscId <= MaxVscs`.

Bounces are bounded by `MaxBounces`; a provider that bounces forever would
starve the slash.

## 4. Not modelled, and why

- **The consumer's `OnTimeoutPacket`** is not in the sources given, and
  spec §5 leaves timeouts to the transport. The model keeps what IBC core
  does on an ordered channel: it closes the channel (`PacketTimesOut`).
  Timeouts are left out of the liveness runs: they end the relationship,
  and the code has nothing that would let a slash be delivered after one.
- **The error-ack branches with no stored channel, or a stored channel
  different from the packet's** (lines 349-356), are not in
  `ConsumerRelay`. On a chain they cannot be reached: IBC delivers acks
  only for packets this module sent, and it sent them on the stored
  channel. They are modelled in `ConsumerKeeperUnitTest`, where a test
  calls the handler directly (runs unit_test_acks and
  unit_test_error_ack).
- **Events and logging** are left out of `ConsumerRelay`: they are
  observability only. The one event attribute that converts a number is
  modelled in `ConsumerKeeperUnitTest`.
- **Provider-side unit-test helpers** are not modelled:
  `NewInMemProviderKeeper`, `GetProviderKeeperAndCtx`,
  `SetupForDeleteConsumerChain` and
  `TestProviderStateIsCleanedAfterConsumerChainIsDeleted`. They drive
  provider keeper code (consumer phases, client and channel mappings,
  `DeleteConsumerChain`) that is neither under `src/` nor described by the
  spec.
- **Constant fixtures** are not modelled: `GetTest*Parameters`,
  `GetTestConsumerMetadata`, `GetNewCrossChainValidator` and `Must`.
  Nothing modelled uses them.
- **CI/lint configuration** is not behaviour.

## 5. Plan

Done in this sitting, in order of importance:

1. `ConsumerRelay`: queue, send loop and ack state machine, with the
   provider, the ordered channel and the block cycle as environment.
2. Safety of the queue (`HeadOfLineBlocking`, `AcceptedInQueueOrder`,
   `NoSlashLost`), dedup (`DowntimeGuard`) and binding.
3. `SlashRelayQueue` and the refinement check.
4. Liveness of slash delivery.
5. `PendingChanges` / `AccumulateChanges` with a reference check.

Done in the second sitting:

6. Height-to-vscId: VSCMatured packets carry their vscId, and
   `MaturityCoversEveryVsc` covers the overwrite at line 162.
   Unrecognised ack results are added (`unknown_ack`), together with
   `SlashReplyEventuallyHandled`. The unit-test harness
   `ConsumerKeeperUnitTest` is new.

Done in the third sitting:

7. A liveness property for the downtime flag. Once the provider has
   accepted a downtime slash and sends further VSCs, the flag is eventually
   cleared. This needs fairness on `ProviderSendVSC` and on VSC receipt.
8. Channel closure as part of the abstract specification. Extend
   `SlashRelayQueue` with an `Abandon` step, so that refinement can also be
   checked with error acks.
9. (Done in the fourth sitting.) Packet timeouts on the ordered channel,
   modelled from the spec as channel closure, added as an environment
   action.
10. Larger bounds (three validators, `MaxPackets = 4`) as a longer run, with
    symmetry on validators where the properties allow it.
11. The whole of `OnAcknowledgementPacket` in the unit-test model, with
    the mocked `ChanCloseInit`, covering the error branches at lines
    344-356.

Done in the fourth sitting:

12. `PacketTimesOut` (item 9), enabled in relay_safety and
    relay_refinement.
13. `SlashEventuallyAccepted` strengthened to every queued slash,
    including one queued before the channel exists.

Done in the fifth sitting:

14. The provider's own channel end (`counterpartyState`) and the relayer's
    `ChanCloseConfirm`. `ProviderRecvPacket` now checks the provider's end,
    so packets sent behind an error-acked one may still be received after
    the consumer's `ChanCloseInit`. The refinement's `open` follows the
    provider's end.
15. Properties that only restated a guard or the model's own decoding were
    removed: the binding property and the fixture-decoding property.

Next sittings:

- `GetNewCrossChainValidator` as a fixture, once a consumer operation that
  uses cross-chain validators is modelled.
