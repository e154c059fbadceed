------------------------------ MODULE MCIngest ------------------------------
(* Small instances of Ingest: the values a .cfg cannot write down. *)
EXTENDS Ingest, TLC

\* Readings of a two-bit counter: near the top of its range, and at zero after
\* a reset the device declared.
TwoReadings == {[raw |-> 3, width |-> 2, reset |-> FALSE], [raw |-> 0, width |-> 2, reset |-> TRUE]}

TopologySymmetry == Permutations(SourceIds) \cup Permutations(LinkIds)
                      \cup Permutations(Generations) \cup Permutations(Incarnations)

OneTime == {1}
=============================================================================
