---------------------------- MODULE SlashRelayQueue ----------------------------
(***************************************************************************)
(* What the consumer's packet relay promises the provider: packets join a  *)
(* FIFO queue when they are queued on the consumer and leave it, one at a  *)
(* time from the head, when the provider accepts or rejects them.  The    *)
(* provider may stop receiving for good (its channel end closes, or the   *)
(* channel times out); from then on nothing leaves the queue.  Nothing is *)
(* reordered, duplicated or skipped on the way.                           *)
(***************************************************************************)
EXTENDS Sequences, SequencesExt

CONSTANT Ids          \* packet identities (the consumer's queue indices)

VARIABLES
  queue,              \* packets queued and not yet answered, oldest first
  delivered,          \* packets accepted by the provider, in order
  rejected,           \* packets the provider refused, in order
  open                \* can the provider still receive?

vars == <<queue, delivered, rejected, open>>

Init ==
  /\ queue = <<>>
  /\ delivered = <<>>
  /\ rejected = <<>>
  /\ open = TRUE

\* A packet that was never queued before joins the tail, also once the
\* channel is closed.
Enqueue(i) ==
  /\ ~Contains(queue, i)
  /\ ~Contains(delivered, i)
  /\ ~Contains(rejected, i)
  /\ queue' = Append(queue, i)
  /\ UNCHANGED <<delivered, rejected, open>>

\* The provider accepts the oldest packet.
Deliver ==
  /\ open
  /\ queue # <<>>
  /\ delivered' = Append(delivered, Head(queue))
  /\ queue' = Tail(queue)
  /\ UNCHANGED <<rejected, open>>

\* The provider refuses the oldest packet.
Reject ==
  /\ open
  /\ queue # <<>>
  /\ rejected' = Append(rejected, Head(queue))
  /\ queue' = Tail(queue)
  /\ UNCHANGED <<delivered, open>>

\* The provider stops receiving for good.
Abandon ==
  /\ open
  /\ open' = FALSE
  /\ UNCHANGED <<queue, delivered, rejected>>

Next == (\E i \in Ids : Enqueue(i)) \/ Deliver \/ Reject \/ Abandon

Spec == Init /\ [][Next]_vars
=============================================================================
