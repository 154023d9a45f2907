---------------------------- MODULE SchemaMigration ----------------------------
(***************************************************************************)
(* The migrations of an existing volume (scripts/migrate_documents.py over *)
(* infra/app/migrate_*.sql) next to the commands that use the table        *)
(* `documents`: a seed and a deletion, which migrate first (`seed:         *)
(* migrate` in infra/Makefile), and an import, which does not.             *)
(*                                                                         *)
(* A script is split at its semicolons and every statement commits on its  *)
(* own.  A command can die between two statements and is run again from    *)
(* the start; two commands can migrate at once; and a command of the       *)
(* release before ADR-0006 may still be writing.                           *)
(***************************************************************************)
EXTENDS Naturals, Sequences, FiniteSets

CONSTANTS Commands,       \* commands that run at once
          Jobs,           \* what an operator may run
          Sources,        \* source paths
          Blank,          \* a source of blanks
          Null,
          Texts,          \* chunk texts; content_hash tells them apart
          RowIds,         \* values of the primary key, bound: rows at once
          Volumes,        \* what the tables of the old release may hold
          MaxCrashes,     \* bound: deaths between two statements
          MaxLegacyWrites \* bound: writes of the old release

ASSUME BoundsAssumption == /\ MaxCrashes \in Nat
                           /\ MaxLegacyWrites \in Nat
                           /\ RowIds \subseteq Nat
ASSUME NullAssumption == Null \notin Sources \cup Texts \cup RowIds
(* A document that is seeded or imported has a chunk. *)
ASSUME JobsAssumption ==
    \A j \in Jobs : /\ j.kind \in {"migrate", "seed", "import", "delete"}
                    /\ j.source \in Sources
                    /\ j.texts \in Seq(Texts)
                    /\ j.kind \in {"seed", "import"} => j.texts # <<>>

(* Columns, constraints and tables by name, as far as the scripts change them. *)
Columns == {"document_id", "chunk_index", "metadata",
            "content_hash", "ingested_at", "embedding_model"}
Features == Columns \cup {"document_id NOT NULL", "documents_source_key",
                          "documents_document_id_chunk_index_key", "chainlit_oauth_tokens"}

(* infra/app/init.sql: what a new volume has and a migrated one must get. *)
Current == Features \ {"documents_source_key"}

(* One row of documents.  A column that is not there yet has the value     *)
(* ADD COLUMN will give it.  late marks the rows the old release inserted  *)
(* between the two backfills of document_id.                               *)
Rows == [id: RowIds, source: Sources \cup {Blank, Null}, text: Texts,
         parent: Sources \cup RowIds \cup {Null}, chunk: Nat,
         hash: Texts \cup {Null}, model: BOOLEAN, late: BOOLEAN]

LegacyRow(id, source, text) ==
    [id |-> id, source |-> source, text |-> text, parent |-> Null, chunk |-> 0,
     hash |-> Null, model |-> FALSE, late |-> FALSE]

VARIABLES schema,   \* the features the database has
          table,    \* the rows of documents
          pc,       \* where each command stands
          job,      \* what it is to do
          at,       \* the statement it is at, or the chunk it writes next
          crashes,  \* deaths so far
          legacy    \* writes of the old release so far

vars == <<schema, table, pc, job, at, crashes, legacy>>

(* A volume of the old release, where source is UNIQUE, or one init.sql made. *)
LegacyRows == {LegacyRow(id, source, text) :
                 id \in RowIds, source \in Sources \cup {Blank, Null}, text \in Texts}

ASSUME VolumesAssumption ==
    \A t \in Volumes : /\ t \subseteq LegacyRows
                       /\ \A r, s \in t : r # s => /\ r.id # s.id
                                                   /\ r.source # s.source \/ r.source = Null

Init == /\ \/ schema = {"documents_source_key"} /\ table \in Volumes
           \/ schema = Current /\ table = {}
        /\ pc = [c \in Commands |-> "idle"]
        /\ job = [c \in Commands |-> Null]
        /\ at = [c \in Commands |-> 0]
        /\ crashes = 0
        /\ legacy = 0

--------------------------------------------------------------------------------
(* Mutants: the index last; the two backfills swapped; the old release shut *)
(* out last.                                                                *)
ChunksScriptIndexLast ==
    <<"document_id", "chunk_index", "metadata", "parent from source", "parent from id",
      "document_id NOT NULL", "drop documents_source_key", "content_hash", "ingested_at",
      "embedding_model", "backfill hash", "backfill model",
      "documents_document_id_chunk_index_key">>
ChunksScriptBackfillsSwapped ==
    <<"document_id", "chunk_index", "metadata", "parent from id", "parent from source",
      "document_id NOT NULL", "drop documents_source_key",
      "documents_document_id_chunk_index_key", "content_hash", "ingested_at",
      "embedding_model", "backfill hash", "backfill model">>
ChunksScriptNotNullLast ==
    <<"document_id", "chunk_index", "metadata", "parent from source", "parent from id",
      "content_hash", "ingested_at", "embedding_model", "backfill hash", "backfill model",
      "document_id NOT NULL", "drop documents_source_key",
      "documents_document_id_chunk_index_key">>

(* migrate_documents_chunks.sql: a statement named for a feature adds it. *)
ChunksScript ==
    <<"document_id", "chunk_index", "metadata", "parent from source", "parent from id",
      "document_id NOT NULL", "drop documents_source_key",
      "documents_document_id_chunk_index_key", "content_hash", "ingested_at",
      "embedding_model", "backfill hash", "backfill model">>

OAuthScript == <<"chainlit_oauth_tokens">>

(* The files in the order of their names, each as its statements. *)
Script == ChunksScript \o OAuthScript

TypeOK == /\ schema \subseteq Features
          /\ table \subseteq Rows
          /\ \A r, s \in table : r.id = s.id => r = s
          /\ pc \in [Commands -> {"idle", "migrate", "fingerprint", "delete", "insert"}]
          /\ job \in [Commands -> Jobs \cup {Null}]
          /\ at \in [Commands -> Nat]
          /\ crashes \in 0 .. MaxCrashes
          /\ legacy \in 0 .. MaxLegacyWrites

HasSource(r) == r.source \in Sources

(* parent_document_id, and uuid_generate_v5 of migrate_documents_chunks.sql: *)
(* one parent for each source.                                              *)
ParentOf(source) == source

(* Each UPDATE of the script fills what is still NULL. *)
Filled(r, s) ==
    CASE s = "parent from source" /\ r.parent = Null /\ HasSource(r)
                                             -> [r EXCEPT !.parent = ParentOf(r.source)]
      [] s = "parent from id" /\ r.parent = Null -> [r EXCEPT !.parent = r.id]
      [] s = "backfill hash" /\ r.hash = Null    -> [r EXCEPT !.hash = r.text]
      [] s = "backfill model"                    -> [r EXCEPT !.model = TRUE]
      [] OTHER                                   -> r

SchemaAfter(s) ==
    IF s = "drop documents_source_key" THEN schema \ {"documents_source_key"}
    ELSE schema \cup ({s} \cap Features)

(* Mutant: ADD COLUMN without IF NOT EXISTS. *)
RefusedTwice(s) == s \in schema \cap Columns

(* SET NOT NULL looks at the rows, CREATE UNIQUE INDEX at every pair of     *)
(* them; IF [NOT] EXISTS makes the others succeed whatever is there.        *)
Refused(s) ==
    \/ s = "document_id NOT NULL" /\ \E r \in table : r.parent = Null
    \/ /\ s = "documents_document_id_chunk_index_key" /\ s \notin schema
       /\ \E r1, r2 \in table : r1 # r2 /\ <<r1.parent, r1.chunk>> = <<r2.parent, r2.chunk>>

End(c) ==
    /\ pc' = [pc EXCEPT ![c] = "idle"]
    /\ job' = [job EXCEPT ![c] = Null]
    /\ at' = [at EXCEPT ![c] = 0]

(* make migrate, seed, delete-document, import-langflow. *)
Begin(c, j) ==
    /\ pc[c] = "idle"
    /\ job' = [job EXCEPT ![c] = j]
    /\ IF j.kind = "import"
         THEN pc' = [pc EXCEPT ![c] = "fingerprint"] /\ UNCHANGED at
         ELSE pc' = [pc EXCEPT ![c] = "migrate"] /\ at' = [at EXCEPT ![c] = 1]
    /\ UNCHANGED <<schema, table, crashes, legacy>>

(* The command after its migration. *)
AfterMigration(c) ==
    CASE job[c].kind = "migrate" -> End(c)
      [] job[c].kind = "seed"    -> /\ pc' = [pc EXCEPT ![c] = "fingerprint"]
                                    /\ at' = [at EXCEPT ![c] = 0]
                                    /\ UNCHANGED job
      [] job[c].kind = "delete"  -> /\ pc' = [pc EXCEPT ![c] = "delete"]
                                    /\ at' = [at EXCEPT ![c] = 0]
                                    /\ UNCHANGED job

(* connection.execute(statement): done and committed, or the run ends. *)
Execute(c) ==
    LET s == Script[at[c]] IN
    /\ pc[c] = "migrate"
    /\ ~Refused(s)
    /\ schema' = SchemaAfter(s)
    /\ table' = {Filled(r, s) : r \in table}
    /\ IF at[c] = Len(Script)
         THEN AfterMigration(c)
         ELSE at' = [at EXCEPT ![c] = @ + 1] /\ UNCHANGED <<pc, job>>
    /\ UNCHANGED <<crashes, legacy>>

ExecuteFails(c) ==
    /\ pc[c] = "migrate"
    /\ Refused(Script[at[c]])
    /\ End(c)
    /\ UNCHANGED <<schema, table, crashes, legacy>>

--------------------------------------------------------------------------------
(* The statements of the lifecycle name these; without them they fail. *)
FingerprintNeeds == {"document_id", "chunk_index", "content_hash", "embedding_model"}
InsertNeeds == (Columns \ {"ingested_at"}) \cup {"documents_document_id_chunk_index_key"}

Chunks(source) == {r \in table : r.parent = ParentOf(source)}

(* fingerprint_matches. *)
Matches(j) ==
    /\ Chunks(j.source) # {}
    /\ {<<r.chunk, r.hash>> : r \in Chunks(j.source)} = {<<i - 1, j.texts[i]>> : i \in DOMAIN j.texts}
    /\ \A r \in Chunks(j.source) : r.model

Fingerprint(c) ==
    /\ pc[c] = "fingerprint"
    /\ IF FingerprintNeeds \subseteq schema /\ ~Matches(job[c])
         THEN pc' = [pc EXCEPT ![c] = "delete"] /\ UNCHANGED <<job, at>>
         ELSE End(c)
    /\ UNCHANGED <<schema, table, crashes, legacy>>

(* delete_by_document_id, by a replacement or by delete_document. *)
Delete(c) ==
    /\ pc[c] = "delete"
    /\ table' = table \ Chunks(job[c].source)
    /\ IF job[c].kind = "delete" THEN End(c)
       ELSE pc' = [pc EXCEPT ![c] = "insert"] /\ UNCHANGED <<job, at>>
    /\ UNCHANGED <<schema, crashes, legacy>>

(* upsert_document for one chunk, as long as the table takes it. *)
NewRow(c, id) ==
    LET j == job[c] IN
    [id |-> id, source |-> j.source, text |-> j.texts[at[c] + 1],
     parent |-> ParentOf(j.source), chunk |-> at[c],
     hash |-> j.texts[at[c] + 1], model |-> TRUE, late |-> FALSE]

Conflicting(c) == {r \in Chunks(job[c].source) : r.chunk = at[c]}

CanInsert(c) ==
    /\ InsertNeeds \subseteq schema
    /\ "documents_source_key" \in schema
         => \A r \in table \ Conflicting(c) : r.source # job[c].source

IsFree(id) == \A r \in table : r.id # id
HasRoom == \E id \in RowIds : IsFree(id)
FreeId == CHOOSE id \in RowIds : IsFree(id)

Insert(c) ==
    /\ pc[c] = "insert"
    /\ CanInsert(c)
    /\ HasRoom
    /\ table' = IF Conflicting(c) = {} THEN table \cup {NewRow(c, FreeId)}
                ELSE (table \ Conflicting(c)) \cup {NewRow(c, r.id) : r \in Conflicting(c)}
    /\ IF at[c] + 1 = Len(job[c].texts) THEN End(c)
       ELSE at' = [at EXCEPT ![c] = @ + 1] /\ UNCHANGED <<pc, job>>
    /\ UNCHANGED <<schema, crashes, legacy>>

(* A statement that fails or a command that is killed: the rest is not run. *)
Crash(c) ==
    /\ pc[c] # "idle"
    /\ crashes < MaxCrashes
    /\ crashes' = crashes + 1
    /\ End(c)
    /\ UNCHANGED <<schema, table, legacy>>

(* A seed of the old release, which knows neither document_id nor           *)
(* content_hash: it inserts a row, or gives the row of its source another   *)
(* text, as long as source is UNIQUE and document_id may be NULL.           *)
LegacyWrite(source, text) ==
    LET late == \E c \in Commands : pc[c] = "migrate" /\ Script[at[c]] = "parent from id"
        same == {r \in table : r.source = source}
    IN
    /\ legacy < MaxLegacyWrites
    /\ "document_id NOT NULL" \notin schema
    /\ \/ "documents_source_key" \in schema /\ same # {}
          /\ table' = (table \ same) \cup {[r EXCEPT !.text = text] : r \in same}
       \/ /\ "documents_source_key" \in schema => same = {}
          /\ HasRoom
          /\ table' = table \cup {[LegacyRow(FreeId, source, text) EXCEPT !.late = late]}
    /\ legacy' = legacy + 1
    /\ UNCHANGED <<schema, pc, job, at, crashes>>

Next == \/ \E c \in Commands : \/ \E j \in Jobs : Begin(c, j)
                               \/ Execute(c)
                               \/ ExecuteFails(c)
                               \/ Fingerprint(c)
                               \/ Delete(c)
                               \/ Insert(c)
                               \/ Crash(c)
        \/ \E source \in Sources, text \in Texts : LegacyWrite(source, text)

(* A statement that was sent comes to an end, and the operator runs the     *)
(* migration again when it was refused or has died, between the commands    *)
(* that fail without it (strong: those commands may keep a slot busy).      *)
Fairness ==
    \A c \in Commands :
        /\ WF_vars(Execute(c) \/ ExecuteFails(c) \/ Fingerprint(c) \/ Delete(c) \/ Insert(c))
        /\ SF_vars(\E j \in Jobs : j.kind = "migrate" /\ Begin(c, j))

Spec == Init /\ [][Next]_vars
FairSpec == Spec /\ Fairness
--------------------------------------------------------------------------------
(* A replacement that has deleted a document can write every chunk of it:   *)
(* no command gets as far as its delete while the table cannot take its     *)
(* inserts, though an import does not migrate first and a migration may be  *)
(* under way.  The order of the script is what makes this so: the columns   *)
(* the fingerprints are read from come last.                                *)
NoStrandedReplacement == \A c \in Commands : pc[c] = "insert" => CanInsert(c)

(* A content_hash is the hash of the row's text, also for a row that the    *)
(* old release rewrites: it is shut out before the hashes are filled in, or *)
(* fingerprint_matches would skip a text that is not there.                 *)
FingerprintsAreTrue == \A r \in table : r.hash \in {Null, r.text}

(* All rows with one source belong to one document (ADR-0006, decision 3),  *)
(* so that a seed of a migrated source replaces what the old release left.  *)
(* Only a row the old release inserts between the two backfills of a        *)
(* migration is made a document of its own.                                 *)
OneDocumentPerSource ==
    \A r, s \in table :
        r.source = s.source /\ HasSource(r) /\ ~r.late /\ ~s.late
          => r.parent = s.parent \/ Null \in {r.parent, s.parent}

(* Why, as an inductive invariant: of any number of migrations none sends a *)
(* statement before it or another has done those above it, and none of them *)
(* is undone.                                                               *)
Done(s) ==
    CASE s = "drop documents_source_key" -> "documents_source_key" \notin schema
      [] s = "backfill hash"             -> \A r \in table : r.hash # Null
      [] s = "backfill model"            -> \A r \in table : r.model
      [] OTHER                           -> s \in Features => s \in schema

DoneAbove(n) == \A m \in 1 .. n - 1 : Done(Script[m])

InOrder == \A n \in 1 .. Len(Script) : Script[n] \in schema => DoneAbove(n)

InPlace(c) ==
    /\ pc[c] # "idle" => job[c] \in Jobs
    /\ pc[c] = "migrate" => /\ at[c] \in 1 .. Len(Script)
                            /\ job[c].kind # "import"
                            /\ DoneAbove(at[c])
    /\ pc[c] \in {"idle", "fingerprint", "delete"} => at[c] = 0
    /\ pc[c] = "fingerprint" => job[c].kind \in {"seed", "import"}
    /\ pc[c] = "delete" => \/ job[c].kind = "delete"
                           \/ job[c].kind \in {"seed", "import"} /\ FingerprintNeeds \subseteq schema
    /\ pc[c] = "insert" => at[c] < Len(job[c].texts) /\ FingerprintNeeds \subseteq schema

(* The old release writes no hash and nothing once document_id is NOT NULL; *)
(* the second backfill of document_id finds no source without one but those *)
(* of late rows.                                                            *)
Parented(r) == HasSource(r) /\ ~r.late => r.parent # Null
RowsFollow ==
    /\ IF "document_id NOT NULL" \in schema THEN \A r \in table : r.parent # Null
                                            ELSE \A r \in table : r.hash = Null
    /\ \A r \in table : r.hash \in {Null, r.text}
    /\ \A r \in table : HasSource(r) /\ ~r.late => r.parent \in {Null, ParentOf(r.source)}
    /\ \A c \in Commands : pc[c] = "migrate" /\ Script[at[c]] = "parent from id"
                             => \A r \in table : Parented(r)

MigrationInv == TypeOK /\ InOrder /\ (\A c \in Commands : InPlace(c)) /\ RowsFollow

(* A migration that is run again until it ends brings every volume to       *)
(* init.sql's schema and every row to what the lifecycle compares, from any *)
(* point where a run died or was refused (migrate_documents.py).            *)
Migrated == /\ schema = Current
            /\ \A r \in table : r.parent # Null /\ r.hash # Null /\ r.model

RerunCompletes == <>[]Migrated
==================================================================================
