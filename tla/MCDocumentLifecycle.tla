--------------------------- MODULE MCDocumentLifecycle ---------------------------
(* Instances of DocumentLifecycle for TLC. *)
EXTENDS DocumentLifecycle, TLC

CommandSymmetry == Permutations(Writers) \cup Permutations(Hashes) \cup Permutations(Models)
==================================================================================
