---------------------------- MODULE PendingChanges ----------------------------
(***************************************************************************)
(* The validator-set-change accumulator: OnRecvVSCPacket merges the        *)
(* updates of every valid VSC packet into the pending changes, which       *)
(* EndBlock hands to consensus and deletes.                               *)
(***************************************************************************)
EXTENDS Naturals, Sequences, SequencesExt

CONSTANTS
  Validators,   \* validator identities
  Powers,       \* voting powers
  MaxBatchLen,  \* bound: updates in one VSC packet
  MaxIngests    \* bound: VSC packets received within one block

INSTANCE AccumulateChanges

VARIABLES
  pendingChanges,  \* GetPendingChanges().ValidatorUpdates (<<>> if absent)
  received         \* history: the batches received since the last EndBlock

vars == <<pendingChanges, received>>

\* Validator-update lists a VSC packet may carry.
Batches == BoundedSeq(Validators \X Powers, MaxBatchLen)

\* ValidatorSetChangePacketData.Validate: no validator twice in one batch.
Validate(batch) == \A i, j \in 1..Len(batch) : i # j => batch[i][1] # batch[j][1]

ValidBatches == {b \in Batches : Validate(b)}

Init ==
  /\ pendingChanges = <<>>
  /\ received = <<>>

\* Mutant: the packet data is not validated before it is merged.
IngestUnvalidated(batch) ==
  /\ Len(received) < MaxIngests
  /\ pendingChanges' = AccumulateChanges(pendingChanges, batch)
  /\ received' = Append(received, batch)

\* OnRecvVSCPacket: refuse data that fails Validate; otherwise read the
\* current changes (none if not stored), merge the packet's updates with
\* AccumulateChanges and store the result.  A refused packet writes nothing.
Ingest(batch) ==
  /\ Len(received) < MaxIngests
  /\ Validate(batch)
  /\ pendingChanges' = AccumulateChanges(pendingChanges, batch)
  /\ received' = Append(received, batch)

\* EndBlock: ApplyCCValidatorChanges, then DeletePendingChanges.
EndBlock ==
  /\ pendingChanges' = <<>>
  /\ received' = <<>>

Next == (\E b \in Batches : Ingest(b)) \/ EndBlock

Spec == Init /\ [][Next]_vars

-----------------------------------------------------------------------------
TypeOK ==
  /\ pendingChanges \in Seq(Validators \X Powers)
  /\ received \in Seq(ValidBatches)

\* Reference definition of the accumulated changes of a list of updates:
\* one entry per validator seen, carrying its last power, ordered by the
\* position of its first update.
FirstAt(all, v) == SelectInSeq(all, LAMBDA u : u[1] = v)
LastPower(all, v) == all[SelectLastInSeq(all, LAMBDA u : u[1] = v)][2]
ReferenceChanges(all) ==
  SetToSortSeq({<<v, LastPower(all, v)>> : v \in {all[i][1] : i \in DOMAIN all}},
               LAMBDA a, b : FirstAt(all, a[1]) < FirstAt(all, b[1]))

\* Spec section 8: after any sequence of OnRecvVSCPacket calls the pending
\* changes hold exactly one entry per validator, with the power of its most
\* recent update, in order of first appearance across the batches.
LastWriteWinsInFirstOrder == pendingChanges = ReferenceChanges(FlattenSeq(received))
=============================================================================
