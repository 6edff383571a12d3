--------------------------- MODULE MC_ConsumerRelay ---------------------------
EXTENDS ConsumerRelay, TLC

CONSTANTS v1, v2, v3

\* Validator-update lists the provider may send: empty, one update, two
\* validators, and one with a validator twice (refused by Validate).
MCBatches == { <<>>,
               << <<v1, 1>> >>,
               << <<v2, 0>>, <<v1, 0>> >>,
               << <<v1, 1>>, <<v1, 0>> >> }

\* The provider never repeats a validator within a batch.
MCValidBatches == {b \in MCBatches : ValidVSC([updates |-> b])}

\* Empty lists and one update for any validator: renaming the validators
\* maps the set onto itself, so symmetry is sound.
MCSymmetricBatches == {<<>>} \cup {<< <<v, 1>> >> : v \in Validators}

ValidatorSymmetry == Permutations(Validators)
=============================================================================
