---------------------------- MODULE MCEnrichment ----------------------------
(* People act on what live runs suggest, a few of each; backfills meet live *)
(* runs. The names of assets, people and backfills do not matter.           *)
EXTENDS Enrichment, TLC

AtWork == {w \in Backfills : backfills[w].step # "idle"}
Backfilling == used.batches > 0 \/ AtWork # {}
OneConcern ==
  /\ used.acts > 0 => ~ Backfilling /\ used.runs <= 2
  /\ Backfilling => \/ used.runs = 0
                    \/ /\ used.runs = 1 /\ used.batches <= 1
                       /\ used.faults > 0 => Cardinality(AtWork) <= 1

EnrichmentSymmetry ==
  Permutations(Asset) \cup Permutations(People) \cup Permutations(Backfills)
=============================================================================
