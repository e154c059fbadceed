----------------------------- MODULE MCRestart ------------------------------
(* Small instances of Restart. *)
EXTENDS Restart, TLC

OneReading == {[raw |-> 0, width |-> 2, reset |-> FALSE]}
OneTime == {1}

\* Scopes and keys are interchangeable names.
StreamSymmetry == Permutations(Incarnations) \cup Permutations(Epochs) \cup Permutations(Keys)
=============================================================================
