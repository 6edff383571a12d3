--------------------------- MODULE AccumulateChanges ---------------------------
(***************************************************************************)
(* ccv.AccumulateChanges: merge a batch of validator updates into the     *)
(* accumulated ones.  An update is <<validator, power>>.  A validator      *)
(* already present keeps its position and takes the new power; a new one  *)
(* is appended, so entries stay in order of first appearance.             *)
(***************************************************************************)
EXTENDS Naturals, Sequences, SequencesExt

\* Mutant: the first power written for a validator is kept.
MergeUpdateFirstWins(cur, u) ==
  LET i == SelectInSeq(cur, LAMBDA x : x[1] = u[1])
  IN  IF i = 0 THEN Append(cur, u) ELSE cur

\* Merge one update into the accumulated list.
MergeUpdate(cur, u) ==
  LET i == SelectInSeq(cur, LAMBDA x : x[1] = u[1])
  IN  IF i = 0 THEN Append(cur, u) ELSE [cur EXCEPT ![i] = u]

AccumulateChanges(currentChanges, newChanges) ==
  FoldLeft(MergeUpdate, currentChanges, newChanges)
=============================================================================
