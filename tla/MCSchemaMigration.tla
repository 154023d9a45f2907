---------------------------- MODULE MCSchemaMigration ----------------------------
(* Instances of SchemaMigration for TLC. *)
EXTENDS SchemaMigration

CONSTANTS s1, a, b

(* A migration, a seed of one chunk, an import of two, and a deletion. *)
MCJobs == {[kind |-> "migrate", source |-> s1, texts |-> <<>>],
           [kind |-> "seed", source |-> s1, texts |-> <<a>>],
           [kind |-> "import", source |-> s1, texts |-> <<b, a>>],
           [kind |-> "delete", source |-> s1, texts |-> <<>>]}
(* An empty table, the document of the jobs, and it next to one without a    *)
(* source and one with a blank source.                                       *)
MCVolumes == {{}, {LegacyRow(1, s1, a)},
              {LegacyRow(1, s1, b), LegacyRow(2, Null, a), LegacyRow(3, Blank, a)}}
==================================================================================
