---------------------------- MODULE MCKnowledgeSearch ----------------------------
(* Instances of KnowledgeSearch for TLC. *)
EXTENDS KnowledgeSearch, TLC

CONSTANTS near, far, w1, w2

(* One text close to the query and one too far for SearchHit. *)
MCSimilarity == [h \in Hashes |-> IF h = near THEN 2 ELSE -1]

CommandSymmetry == Permutations(Writers)
==================================================================================
