----------------------------- MODULE MCPipeline -----------------------------
(* Small instances of Pipeline. *)
EXTENDS Pipeline, TLC

\* Every batch, or only batches that leave for the workers.
AllShapes == SUBSET Parts
RoutedShapes == {{0}, {0, 1}}

ProducerSymmetry == Permutations(Producers)
=============================================================================
