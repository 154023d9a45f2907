--------------------------- MODULE SchemaMigrationProofs ---------------------------
(***************************************************************************)
(* Proofs about SchemaMigration: MigrationInv is inductive for any number  *)
(* of commands, volumes and deaths, and what the order of the statements   *)
(* gives.                                                                  *)
(***************************************************************************)
EXTENDS SchemaMigration, SequenceTheorems, TLAPS

Statements ==
    {"document_id", "chunk_index", "metadata", "parent from source", "parent from id",
     "document_id NOT NULL", "drop documents_source_key",
     "documents_document_id_chunk_index_key", "content_hash", "ingested_at",
     "embedding_model", "backfill hash", "backfill model", "chainlit_oauth_tokens"}

LEMMA OneMore ==
    ASSUME NEW S, NEW s \in Seq(S), NEW t \in Seq(S), Len(t) = 1
    PROVE  /\ Len(s \o t) = Len(s) + 1
           /\ \A i \in 1 .. Len(s) : (s \o t)[i] = s[i]
           /\ (s \o t)[Len(s) + 1] = t[1]
<1>1. Len(s \o t) = Len(s) + Len(t)
  BY ConcatProperties
<1>2. \A i \in 1 .. Len(s) + Len(t) :
        (s \o t)[i] = IF i <= Len(s) THEN s[i] ELSE t[i - Len(s)]
  BY ConcatProperties
<1>3. Len(s) \in Nat
  OBVIOUS
<1>4. /\ Len(s) + 1 \in 1 .. Len(s) + Len(t)
      /\ ~(Len(s) + 1 <= Len(s))
      /\ (Len(s) + 1) - Len(s) = 1
  BY <1>3
<1>5. ASSUME NEW i \in 1 .. Len(s) PROVE (s \o t)[i] = s[i]
  <2>1. i \in 1 .. Len(s) + Len(t) /\ i <= Len(s)
    BY <1>3, <1>5
  <2> QED
    BY <1>2, <2>1
<1> QED
  BY <1>1, <1>2, <1>4, <1>5

(* The statements by their places. *)
LEMMA ScriptIs ==
    /\ Len(Script) = 14
    /\ Script[1] = "document_id" /\ Script[2] = "chunk_index" /\ Script[3] = "metadata"
    /\ Script[4] = "parent from source" /\ Script[5] = "parent from id"
    /\ Script[6] = "document_id NOT NULL" /\ Script[7] = "drop documents_source_key"
    /\ Script[8] = "documents_document_id_chunk_index_key"
    /\ Script[9] = "content_hash" /\ Script[10] = "ingested_at"
    /\ Script[11] = "embedding_model" /\ Script[12] = "backfill hash"
    /\ Script[13] = "backfill model" /\ Script[14] = "chainlit_oauth_tokens"
<1>1. ChunksScript \in Seq(Statements) /\ Len(ChunksScript) = 13
  BY DEF ChunksScript, Statements
<1>2. OAuthScript \in Seq(Statements) /\ Len(OAuthScript) = 1
  BY DEF OAuthScript, Statements
<1>3. /\ Len(Script) = 14
      /\ \A i \in 1 .. 13 : Script[i] = ChunksScript[i]
      /\ Script[14] = OAuthScript[1]
  <2>1. /\ Len(Script) = Len(ChunksScript) + 1
        /\ \A i \in 1 .. Len(ChunksScript) : Script[i] = ChunksScript[i]
        /\ Script[Len(ChunksScript) + 1] = OAuthScript[1]
    BY <1>1, <1>2, OneMore DEF Script
  <2>2. Len(ChunksScript) + 1 = 14
    BY <1>1
  <2> QED
    BY <1>1, <2>1, <2>2
<1>4. /\ ChunksScript[1] = "document_id" /\ ChunksScript[2] = "chunk_index"
      /\ ChunksScript[3] = "metadata" /\ ChunksScript[4] = "parent from source"
      /\ ChunksScript[5] = "parent from id" /\ ChunksScript[6] = "document_id NOT NULL"
      /\ ChunksScript[7] = "drop documents_source_key"
      /\ ChunksScript[8] = "documents_document_id_chunk_index_key"
      /\ ChunksScript[9] = "content_hash" /\ ChunksScript[10] = "ingested_at"
      /\ ChunksScript[11] = "embedding_model" /\ ChunksScript[12] = "backfill hash"
      /\ ChunksScript[13] = "backfill model" /\ OAuthScript[1] = "chainlit_oauth_tokens"
  BY DEF ChunksScript, OAuthScript
<1>5. /\ Script[1] = ChunksScript[1] /\ Script[2] = ChunksScript[2] /\ Script[3] = ChunksScript[3]
      /\ Script[4] = ChunksScript[4] /\ Script[5] = ChunksScript[5] /\ Script[6] = ChunksScript[6]
      /\ Script[7] = ChunksScript[7] /\ Script[8] = ChunksScript[8] /\ Script[9] = ChunksScript[9]
      /\ Script[10] = ChunksScript[10] /\ Script[11] = ChunksScript[11] /\ Script[12] = ChunksScript[12]
      /\ Script[13] = ChunksScript[13]
  BY <1>3
<1> QED
  BY <1>3, <1>4, <1>5

PlaceOf(s) ==
    CASE s = "document_id" -> 1          [] s = "chunk_index" -> 2
      [] s = "metadata" -> 3             [] s = "parent from source" -> 4
      [] s = "parent from id" -> 5       [] s = "document_id NOT NULL" -> 6
      [] s = "drop documents_source_key" -> 7
      [] s = "documents_document_id_chunk_index_key" -> 8
      [] s = "content_hash" -> 9         [] s = "ingested_at" -> 10
      [] s = "embedding_model" -> 11     [] s = "backfill hash" -> 12
      [] s = "backfill model" -> 13      [] s = "chainlit_oauth_tokens" -> 14

LEMMA ScriptPlaces ==
    ASSUME NEW n \in 1 .. Len(Script)
    PROVE  /\ PlaceOf(Script[n]) = n
           /\ Script[n] \in Statements
<1>1. n \in {1, 2, 3, 4, 5, 6, 7, 8, 9, 10, 11, 12, 13, 14}
  <2>1. Len(Script) = 14
    BY ScriptIs
  <2>2. n \in 1 .. 14
    BY <2>1
  <2> QED
    BY <2>2
<1> QED
  BY <1>1, ScriptIs DEF PlaceOf, Statements


LEMMA PlaceIn ==
    ASSUME NEW m \in 1 .. Len(Script), NEW n \in 1 .. Len(Script), Script[m] = Script[n]
    PROVE  m = n
BY ScriptPlaces

--------------------------------------------------------------------------------
(* What was done stays done. *)

(* A statement adds its feature, or shuts the old release out. *)
LEMMA SchemaGrows ==
    ASSUME NEW s \in Statements
    PROVE  /\ schema \ {"documents_source_key"} \subseteq SchemaAfter(s)
           /\ SchemaAfter(s) \subseteq schema \cup ({s} \cap Features)
           /\ s \in Features => s \in SchemaAfter(s)
           /\ s = "drop documents_source_key" => "documents_source_key" \notin SchemaAfter(s)
           /\ "documents_source_key" \in SchemaAfter(s) => "documents_source_key" \in schema
BY DEF SchemaAfter, Features, Columns, Statements

(* A statement of the script fills rows and empties none. *)
LEMMA FilledRow ==
    ASSUME NEW r \in Rows, NEW s \in Statements
    PROVE  /\ Filled(r, s) \in Rows
           /\ Filled(r, s).id = r.id /\ Filled(r, s).source = r.source
           /\ Filled(r, s).text = r.text /\ Filled(r, s).late = r.late
           /\ Filled(r, s).parent = r.parent \/ r.parent = Null
           /\ Filled(r, s).hash = IF s = "backfill hash" /\ r.hash = Null THEN r.text ELSE r.hash
           /\ Filled(r, s).model = (r.model \/ s = "backfill model")
           /\ s = "parent from source" /\ r.parent = Null /\ HasSource(r)
                => Filled(r, s).parent = ParentOf(r.source)
           /\ s = "parent from id" /\ r.parent = Null => Filled(r, s).parent = r.id
           /\ s # "parent from id" => Filled(r, s).parent \in {r.parent, ParentOf(r.source)}
           /\ s \notin {"parent from source", "parent from id"} => Filled(r, s).parent = r.parent
BY DEF Filled, Rows, HasSource, ParentOf, Statements

LEMMA ExecuteIs ==
    ASSUME MigrationInv, NEW c \in Commands, Execute(c)
    PROVE  /\ at[c] \in 1 .. Len(Script) /\ Script[at[c]] \in Statements
           /\ pc[c] = "migrate" /\ ~Refused(Script[at[c]]) /\ DoneAbove(at[c])
           /\ schema' = SchemaAfter(Script[at[c]])
           /\ table' = {Filled(r, Script[at[c]]) : r \in table}
BY ScriptPlaces DEF Execute, MigrationInv, InPlace

(* The table takes the inserts of a replacement that is past its fingerprint. *)
LEMMA ColumnsInOrder ==
    ASSUME InOrder, FingerprintNeeds \subseteq schema
    PROVE  InsertNeeds \subseteq schema /\ "documents_source_key" \notin schema
<1>1. Script[11] \in schema
  BY ScriptIs DEF FingerprintNeeds
<1>2. 11 \in 1 .. Len(Script)
  <2>1. Len(Script) = 14
    BY ScriptIs
  <2> QED
    BY <2>1
<1>3. DoneAbove(11)
  BY <1>1, <1>2 DEF InOrder
<1>4. /\ Done(Script[1]) /\ Done(Script[2]) /\ Done(Script[3]) /\ Done(Script[7])
      /\ Done(Script[8]) /\ Done(Script[9])
  BY <1>3 DEF DoneAbove
<1>5. /\ Done("document_id") /\ Done("chunk_index") /\ Done("metadata")
      /\ Done("drop documents_source_key")
      /\ Done("documents_document_id_chunk_index_key") /\ Done("content_hash")
  BY <1>4, ScriptIs
<1>6. {"document_id", "chunk_index", "metadata", "content_hash",
       "documents_document_id_chunk_index_key"} \subseteq schema
      /\ "documents_source_key" \notin schema
  BY <1>5 DEF Done, Features, Columns
<1>7. "embedding_model" \in schema
  BY DEF FingerprintNeeds
<1> QED
  BY <1>6, <1>7 DEF InsertNeeds, Columns

(* document_id is NOT NULL above the statements that fill content_hash.       *)
LEMMA NotNullAbove ==
    ASSUME NEW n \in 7 .. 15, DoneAbove(n)
    PROVE  "document_id NOT NULL" \in schema
<1>1. Done(Script[6])
  BY DEF DoneAbove
<1> QED
  BY <1>1, ScriptIs DEF Done, Features

LEMMA NewRowIs ==
    ASSUME MigrationInv, NEW c \in Commands, pc[c] = "insert", NEW id \in RowIds
    PROVE  /\ NewRow(c, id) \in Rows
           /\ NewRow(c, id).id = id
           /\ NewRow(c, id).source = job[c].source
           /\ NewRow(c, id).parent = ParentOf(NewRow(c, id).source)
           /\ NewRow(c, id).parent # Null
           /\ NewRow(c, id).hash = NewRow(c, id).text
           /\ NewRow(c, id).hash # Null
           /\ NewRow(c, id).model /\ ~NewRow(c, id).late
<1>1. /\ job[c].source \in Sources /\ job[c].texts \in Seq(Texts)
      /\ at[c] \in Nat /\ at[c] < Len(job[c].texts)
  BY JobsAssumption DEF MigrationInv, InPlace, TypeOK
<1>2. job[c].texts[at[c] + 1] \in Texts
  BY <1>1
<1> QED
  BY <1>1, <1>2, NullAssumption DEF NewRow, Rows, ParentOf

LEMMA FreeIdIs ==
    ASSUME HasRoom
    PROVE  FreeId \in RowIds /\ IsFree(FreeId)
BY DEF HasRoom, FreeId

LEMMA InsertIs ==
    ASSUME MigrationInv, NEW c \in Commands, Insert(c)
    PROVE  /\ pc[c] = "insert" /\ schema' = schema
           /\ \A q \in table' : q \in table \/ \E id \in RowIds : q = NewRow(c, id)
           /\ table' \subseteq Rows
           /\ \A q, r \in table' : q.id = r.id => q = r
<1>1. pc[c] = "insert" /\ schema' = schema /\ HasRoom
  BY DEF Insert
<1>2. table \subseteq Rows /\ \A q, r \in table : q.id = r.id => q = r
  BY DEF MigrationInv, TypeOK
<1>3. Conflicting(c) \subseteq table /\ \A r \in table : r.id \in RowIds
  BY <1>2 DEF Conflicting, Chunks, Rows
<1>4. CASE table' = table \cup {NewRow(c, FreeId)}
  BY <1>1, <1>2, <1>4, FreeIdIs, NewRowIs DEF IsFree
<1>5. CASE table' = (table \ Conflicting(c)) \cup {NewRow(c, r.id) : r \in Conflicting(c)}
  <2>1. \A q \in table' : q \in table \ Conflicting(c)
                          \/ \E r \in Conflicting(c) : q = NewRow(c, r.id)
    BY <1>5
  <2>2. \A q \in table' : q \in table \/ \E id \in RowIds : q = NewRow(c, id)
    BY <1>3, <2>1
  <2>3. table' \subseteq Rows
    BY <1>1, <1>2, <2>2, NewRowIs
  <2>4. ASSUME NEW q \in table', NEW r \in table', q.id = r.id PROVE q = r
    <3>1. ASSUME NEW p \in Conflicting(c)
          PROVE  NewRow(c, p.id).id = p.id
      BY <1>1, <1>3, <3>1, NewRowIs
    <3> QED
      BY <1>2, <1>3, <2>1, <2>4, <3>1
  <2> QED
    BY <1>1, <2>2, <2>3, <2>4
<1> QED
  BY <1>4, <1>5 DEF Insert

(* What the old release writes: a row of its own, or another text. *)
LEMMA LegacyIs ==
    ASSUME MigrationInv, NEW source \in Sources, NEW text \in Texts, LegacyWrite(source, text)
    PROVE  /\ schema' = schema /\ "document_id NOT NULL" \notin schema
           /\ \A q \in table' :
                \/ q \in table
                \/ \E r \in table : /\ q.id = r.id /\ q.source = r.source /\ q.late = r.late
                                    /\ q.parent = r.parent /\ q.hash = r.hash
                \/ /\ q.parent = Null /\ q.hash = Null
                   /\ q.late = \E c \in Commands :
                                 pc[c] = "migrate" /\ Script[at[c]] = "parent from id"
           /\ table' \subseteq Rows
           /\ \A q, r \in table' : q.id = r.id => q = r
<1> DEFINE other(r) == [r EXCEPT !.text = text]
           same == {r \in table : r.source = source}
           late == \E c \in Commands : pc[c] = "migrate" /\ Script[at[c]] = "parent from id"
           new == [LegacyRow(FreeId, source, text) EXCEPT !.late = late]
<1>1. table \subseteq Rows /\ \A q, r \in table : q.id = r.id => q = r
  BY DEF MigrationInv, TypeOK
<1>2. schema' = schema /\ "document_id NOT NULL" \notin schema
  BY DEF LegacyWrite
<1>3. \/ table' = (table \ same) \cup {other(r) : r \in same}
      \/ HasRoom /\ table' = table \cup {new}
  BY DEF LegacyWrite
<1>4. ASSUME NEW r \in Rows
      PROVE  /\ other(r) \in Rows
             /\ other(r).id = r.id
             /\ other(r).source = r.source
             /\ other(r).late = r.late
             /\ other(r).parent = r.parent
             /\ other(r).hash = r.hash
  BY <1>4 DEF Rows
<1>5. ASSUME HasRoom
      PROVE  /\ new \in Rows /\ new.id = FreeId
             /\ new.parent = Null /\ new.hash = Null /\ new.late = late
  <2>1. late \in BOOLEAN
    OBVIOUS
  <2> HIDE DEF late
  <2> QED
    BY <1>5, <2>1, FreeIdIs DEF LegacyRow, Rows
<1> HIDE DEF new, late, other
<1>6. CASE table' = (table \ same) \cup {other(r) : r \in same}
  <2>1. \A q \in table' : q \in table \ same \/ \E r \in same : q = other(r)
    BY <1>6
  <2>2. table' \subseteq Rows
    BY <1>1, <1>4, <2>1
  <2>3. ASSUME NEW q \in table'
        PROVE  \/ q \in table /\ q \notin same
               \/ \E r \in table : /\ r \in same /\ q = other(r)
                                   /\ q.id = r.id /\ q.source = r.source /\ q.late = r.late
                                   /\ q.parent = r.parent /\ q.hash = r.hash
    <3>1. CASE \E r \in same : q = other(r)
      <4>1. PICK r \in same : q = other(r)
        BY <3>1
      <4>2. r \in table /\ r \in Rows
        BY <1>1
      <4> QED
        BY <1>4, <4>1, <4>2
    <3> QED
      BY <2>1, <3>1
  <2>4. ASSUME NEW q \in table', NEW r \in table', q.id = r.id
        PROVE  q = r
    <3> HIDE DEF same
    <3>1. PICK q0 \in table :
             /\ q0.id = q.id
             /\ \/ q = q0 /\ q \notin same
                \/ q = other(q0) /\ q0 \in same
      BY <2>3
    <3>2. PICK r0 \in table :
             /\ r0.id = r.id
             /\ \/ r = r0 /\ r \notin same
                \/ r = other(r0) /\ r0 \in same
      BY <2>3
    <3>3. q0 = r0
      BY <1>1, <2>4, <3>1, <3>2
    <3> QED
      BY <3>1, <3>2, <3>3
  <2>5. \A q \in table' : \/ q \in table
                          \/ \E r \in table : /\ q.id = r.id /\ q.source = r.source
                                              /\ q.late = r.late /\ q.parent = r.parent
                                              /\ q.hash = r.hash
    BY <2>3
  <2> QED
    BY <1>2, <2>2, <2>4, <2>5
<1>7. CASE HasRoom /\ table' = table \cup {new}
  BY <1>1, <1>2, <1>5, <1>7, FreeIdIs DEF IsFree, late
<1> QED
  BY <1>3, <1>6, <1>7

LEMMA RestIs ==
    ASSUME [Next]_vars,
           ~ \E c \in Commands : Execute(c) \/ Insert(c) \/ Delete(c),
           ~ \E source \in Sources, text \in Texts : LegacyWrite(source, text)
    PROVE  schema' = schema /\ table' = table
BY DEF Next, vars, Begin, ExecuteFails, Fingerprint, Crash

LEMMA DeleteIs ==
    ASSUME NEW c \in Commands, Delete(c)
    PROVE  schema' = schema /\ table' \subseteq table
BY DEF Delete

(* What a statement s makes of a row r. *)
Updated(q, r, s) ==
    /\ q.source = r.source /\ q.text = r.text /\ q.late = r.late
    /\ q.parent = r.parent \/ r.parent = Null
    /\ s = "parent from source" /\ r.parent = Null /\ HasSource(r)
         => q.parent = ParentOf(r.source)
    /\ s # "parent from id" => q.parent \in {r.parent, ParentOf(r.source)}
    /\ s \notin {"parent from source", "parent from id"} => q.parent = r.parent
    /\ q.hash = IF s = "backfill hash" /\ r.hash = Null THEN r.text ELSE r.hash
    /\ q.model = (r.model \/ s = "backfill model")

LEMMA ExecutedRow ==
    ASSUME MigrationInv, NEW c \in Commands, Execute(c), NEW q \in table'
    PROVE  \E r \in table : Updated(q, r, Script[at[c]])
<1> DEFINE s == Script[at[c]]
<1>1. s \in Statements /\ table' = {Filled(r, s) : r \in table}
  BY ExecuteIs
<1> HIDE DEF s
<1>2. PICK r \in table : q = Filled(r, s)
  BY <1>1
<1>3. r \in Rows
  BY DEF MigrationInv, TypeOK
<1>4. Updated(Filled(r, s), r, s)
  BY <1>1, <1>3, FilledRow DEF Updated
<1> QED
  BY <1>2, <1>4 DEF s

(* A row of a replacement. *)
Fresh(q) == /\ q.parent = ParentOf(q.source) /\ q.parent # Null
            /\ q.hash = q.text /\ q.hash # Null
            /\ q.model /\ ~q.late

LEMMA RowStep ==
    ASSUME MigrationInv, [Next]_vars, NEW q \in table'
    PROVE  \/ q \in table
           \/ \E c \in Commands, r \in table : Execute(c) /\ Updated(q, r, Script[at[c]])
           \/ Fresh(q) /\ \E c \in Commands : pc[c] = "insert"
           \/ \E source \in Sources, text \in Texts : LegacyWrite(source, text)
<1>1. CASE \E c \in Commands : Execute(c)
  BY <1>1, ExecutedRow
<1>2. ASSUME NEW c \in Commands, Insert(c), q \notin table
      PROVE  Fresh(q) /\ pc[c] = "insert"
  <2>1. PICK id \in RowIds : q = NewRow(c, id)
    BY <1>2, InsertIs
  <2>2. pc[c] = "insert"
    BY <1>2, InsertIs
  <2>3. Fresh(NewRow(c, id))
    BY <2>2, NewRowIs DEF Fresh
  <2> QED
    BY <2>1, <2>2, <2>3
<1>3. CASE \E c \in Commands : Delete(c)
  BY <1>3, DeleteIs
<1> QED
  BY <1>1, <1>2, <1>3, RestIs

LEMMA SchemaStep ==
    ASSUME MigrationInv, [Next]_vars
    PROVE  /\ schema \ {"documents_source_key"} \subseteq schema'
           /\ "documents_source_key" \in schema' => "documents_source_key" \in schema
<1>1. ASSUME NEW c \in Commands, Execute(c)
      PROVE  /\ schema \ {"documents_source_key"} \subseteq schema'
             /\ "documents_source_key" \in schema' => "documents_source_key" \in schema
  <2>1. Script[at[c]] \in Statements /\ schema' = SchemaAfter(Script[at[c]])
    BY <1>1, ExecuteIs
  <2> QED
    BY <2>1, SchemaGrows
<1>2. CASE \E c \in Commands : Insert(c) \/ Delete(c)
  BY <1>2, InsertIs, DeleteIs
<1>3. CASE \E source \in Sources, text \in Texts : LegacyWrite(source, text)
  BY <1>3, LegacyIs
<1> QED
  BY <1>1, <1>2, <1>3, RestIs

(* No statement undoes what those above it in the script have done, and      *)
(* nothing else in the system does.                                          *)
LEMMA DoneStays ==
    ASSUME MigrationInv, [Next]_vars, NEW n \in 1 .. 15, DoneAbove(n)
    PROVE  DoneAbove(n)'
<1> SUFFICES ASSUME NEW m \in 1 .. n - 1
             PROVE  Done(Script[m])'
  BY DEF DoneAbove
<1> DEFINE s == Script[m]
<1>1. Done(s)
  BY DEF DoneAbove
<1>2. m \in 1 .. Len(Script)
  <2>1. Len(Script) = 14
    BY ScriptIs
  <2> QED
    BY <2>1
<1>3. s \in Statements /\ PlaceOf(s) = m
  BY <1>2, ScriptPlaces
<1> HIDE DEF s
<1>4. ASSUME s \in {"backfill hash", "backfill model"}
      PROVE  "document_id NOT NULL" \in schema
  <2>1. m \in {12, 13}
    BY <1>3, <1>4 DEF PlaceOf
  <2>2. n \in 7 .. 15
    BY <2>1
  <2> QED
    BY <2>2, NotNullAbove
<1>5. table \subseteq Rows
  BY DEF MigrationInv, TypeOK
<1>6. CASE s = "backfill hash"
  <2> SUFFICES ASSUME NEW q \in table' PROVE q.hash # Null
    BY <1>6 DEF Done, s
  <2>1. \A r \in table : r.hash # Null
    BY <1>1, <1>6 DEF Done
  <2>2. ASSUME NEW c \in Commands, NEW r \in table, Updated(q, r, Script[at[c]])
        PROVE  q.hash # Null
    BY <1>5, <2>1, <2>2, NullAssumption DEF Updated, Rows
  <2> QED
    BY <1>4, <1>6, <2>1, <2>2, RowStep, LegacyIs DEF Fresh
<1>7. CASE s = "backfill model"
  <2> SUFFICES ASSUME NEW q \in table' PROVE q.model
    BY <1>7 DEF Done, s
  <2>1. \A r \in table : r.model
    BY <1>1, <1>7 DEF Done
  <2>2. ASSUME NEW c \in Commands, NEW r \in table, Updated(q, r, Script[at[c]])
        PROVE  q.model
    BY <1>5, <2>1, <2>2, NullAssumption DEF Updated, Rows
  <2> QED
    BY <1>4, <1>7, <2>1, <2>2, RowStep, LegacyIs DEF Fresh
<1>8. CASE s \notin {"backfill hash", "backfill model"}
  BY <1>1, <1>3, <1>8, SchemaStep DEF Done, s, Features, Columns, Statements
<1> QED
  BY <1>6, <1>7, <1>8

--------------------------------------------------------------------------------
(* One lemma per part of the invariant. *)
LEMMA EndType ==
    ASSUME TypeOK, NEW c \in Commands, End(c)
    PROVE  /\ pc' \in [Commands -> {"idle", "migrate", "fingerprint", "delete", "insert"}]
           /\ job' \in [Commands -> Jobs \cup {Null}]
           /\ at' \in [Commands -> Nat]
BY DEF TypeOK, End

LEMMA TypeStep ==
    ASSUME MigrationInv, [Next]_vars
    PROVE  TypeOK'
<1>0. TypeOK
  BY DEF MigrationInv
<1>1. ASSUME NEW c \in Commands, Execute(c) PROVE TypeOK'
  <2> DEFINE s == Script[at[c]]
  <2>1. /\ s \in Statements
        /\ schema' = SchemaAfter(s) /\ table' = {Filled(r, s) : r \in table}
    BY <1>1, ExecuteIs
  <2>2. crashes' = crashes /\ legacy' = legacy
    BY <1>1 DEF Execute
  <2>3. /\ pc' \in [Commands -> {"idle", "migrate", "fingerprint", "delete", "insert"}]
        /\ job' \in [Commands -> Jobs \cup {Null}]
        /\ at' \in [Commands -> Nat]
    <3>1. CASE AfterMigration(c)
      <4>1. job[c].kind \in {"migrate", "seed", "delete"}
        BY <1>1, JobsAssumption DEF MigrationInv, InPlace, Execute
      <4>2. CASE job[c].kind = "migrate"
        BY <1>0, <3>1, <4>2, EndType DEF AfterMigration
      <4>3. CASE job[c].kind = "seed"
        BY <1>0, <3>1, <4>3 DEF AfterMigration, TypeOK
      <4>4. CASE job[c].kind = "delete"
        BY <1>0, <3>1, <4>4 DEF AfterMigration, TypeOK
      <4> QED
        BY <4>1, <4>2, <4>3, <4>4
    <3>2. CASE at' = [at EXCEPT ![c] = @ + 1] /\ UNCHANGED <<pc, job>>
      BY <1>0, <3>2 DEF TypeOK
    <3> QED
      BY <1>1, <3>1, <3>2 DEF Execute
  <2>4. schema' \subseteq Features
    BY <1>0, <2>1, SchemaGrows DEF TypeOK
  <2> HIDE DEF s
  <2>5. \A r \in table : Filled(r, s) \in Rows /\ Filled(r, s).id = r.id
    BY <1>0, <2>1, FilledRow DEF TypeOK
  <2>6. table' \subseteq Rows
    BY <2>1, <2>5
  <2>7. ASSUME NEW q \in table', NEW r \in table', q.id = r.id PROVE q = r
    <3>1. PICK q0 \in table : q = Filled(q0, s)
      BY <2>1
    <3>2. PICK r0 \in table : r = Filled(r0, s)
      BY <2>1
    <3>3. q0 = r0
      BY <1>0, <2>5, <2>7, <3>1, <3>2 DEF TypeOK
    <3> QED
      BY <3>1, <3>2, <3>3
  <2> QED
    BY <1>0, <2>2, <2>3, <2>4, <2>6, <2>7 DEF TypeOK
<1>2. ASSUME NEW c \in Commands, Insert(c) PROVE TypeOK'
  <2>1. /\ schema' = schema /\ table' \subseteq Rows
        /\ \A q, r \in table' : q.id = r.id => q = r
    BY <1>2, InsertIs
  <2>2. crashes' = crashes /\ legacy' = legacy
    BY <1>2 DEF Insert
  <2>3. /\ pc' \in [Commands -> {"idle", "migrate", "fingerprint", "delete", "insert"}]
        /\ job' \in [Commands -> Jobs \cup {Null}]
        /\ at' \in [Commands -> Nat]
    <3>1. CASE End(c)
      BY <1>0, <3>1, EndType
    <3>2. CASE at' = [at EXCEPT ![c] = @ + 1] /\ UNCHANGED <<pc, job>>
      BY <1>0, <3>2 DEF TypeOK
    <3> QED
      BY <1>2, <3>1, <3>2 DEF Insert
  <2> QED
    BY <1>0, <2>1, <2>2, <2>3 DEF TypeOK
<1>3. ASSUME NEW c \in Commands, Delete(c) PROVE TypeOK'
  BY <1>0, <1>3, EndType DEF Delete, TypeOK
<1>4. ASSUME NEW source \in Sources, NEW text \in Texts, LegacyWrite(source, text) PROVE TypeOK'
  <2>1. /\ schema' = schema /\ table' \subseteq Rows
        /\ \A q, r \in table' : q.id = r.id => q = r
    BY <1>4, LegacyIs
  <2>2. UNCHANGED <<pc, job, at, crashes>>
    BY <1>4 DEF LegacyWrite
  <2>3. legacy < MaxLegacyWrites /\ legacy' = legacy + 1
    BY <1>4 DEF LegacyWrite
  <2>4. legacy' \in 0 .. MaxLegacyWrites
    BY <1>0, <2>3, BoundsAssumption DEF TypeOK
  <2> QED
    BY <1>0, <2>1, <2>2, <2>4 DEF TypeOK
<1>5. ASSUME NEW c \in Commands, ExecuteFails(c) \/ Fingerprint(c) PROVE TypeOK'
  BY <1>0, <1>5, EndType DEF ExecuteFails, Fingerprint, TypeOK
<1>6. ASSUME NEW c \in Commands, Crash(c) PROVE TypeOK'
  <2>1. crashes' \in 0 .. MaxCrashes
    BY <1>0, <1>6, BoundsAssumption DEF Crash, TypeOK
  <2> QED
    BY <1>0, <1>6, <2>1, EndType DEF Crash, TypeOK
<1>7. ASSUME NEW c \in Commands, NEW j \in Jobs, Begin(c, j) PROVE TypeOK'
  BY <1>0, <1>7 DEF Begin, TypeOK
<1>8. CASE UNCHANGED vars
  BY <1>0, <1>8 DEF vars, TypeOK
<1> QED
  BY <1>1, <1>2, <1>3, <1>4, <1>5, <1>6, <1>7, <1>8 DEF Next

LEMMA InOrderStep ==
    ASSUME MigrationInv, [Next]_vars
    PROVE  InOrder'
<1> SUFFICES ASSUME NEW n \in 1 .. Len(Script), Script[n] \in schema'
             PROVE  DoneAbove(n)'
  BY DEF InOrder
<1>1. n \in 1 .. 15
  <2>1. Len(Script) = 14
    BY ScriptIs
  <2> QED
    BY <2>1
<1>2. CASE Script[n] \in schema
  BY <1>1, <1>2, DoneStays DEF MigrationInv, InOrder
<1>3. ASSUME NEW c \in Commands, Execute(c), Script[n] \notin schema
      PROVE  DoneAbove(n)'
  <2>1. at[c] \in 1 .. Len(Script) /\ DoneAbove(at[c]) /\ Script[n] = Script[at[c]]
    <3>1. /\ at[c] \in 1 .. Len(Script) /\ DoneAbove(at[c])
          /\ Script[at[c]] \in Statements /\ schema' = SchemaAfter(Script[at[c]])
      BY <1>3, ExecuteIs
    <3>2. schema' \subseteq schema \cup {Script[at[c]]}
      BY <3>1, SchemaGrows
    <3> QED
      BY <1>3, <3>1, <3>2
  <2>2. at[c] = n
    BY <2>1, PlaceIn
  <2> QED
    BY <1>1, <2>1, <2>2, DoneStays
<1>4. ASSUME ~ \E c \in Commands : Execute(c)
      PROVE  schema' = schema
  BY <1>4, InsertIs, DeleteIs, LegacyIs, RestIs
<1> QED
  BY <1>2, <1>3, <1>4

LEMMA OthersRest ==
    ASSUME MigrationInv, [Next]_vars, NEW c \in Commands,
           ~ \E j \in Jobs : Begin(c, j),
           ~(\/ Execute(c) \/ ExecuteFails(c) \/ Fingerprint(c)
             \/ Delete(c) \/ Insert(c) \/ Crash(c))
    PROVE  pc'[c] = pc[c] /\ job'[c] = job[c] /\ at'[c] = at[c]
<1> USE DEF MigrationInv, TypeOK
<1>1. ASSUME NEW d \in Commands, d # c, Execute(d)
      PROVE  pc'[c] = pc[c] /\ job'[c] = job[c] /\ at'[c] = at[c]
  <2>1. CASE AfterMigration(d)
    <3>1. job[d].kind \in {"migrate", "seed", "delete"}
      BY <1>1, JobsAssumption DEF MigrationInv, InPlace, Execute
    <3> QED
      BY <1>1, <2>1, <3>1 DEF AfterMigration, End
  <2>2. CASE at' = [at EXCEPT ![d] = @ + 1] /\ UNCHANGED <<pc, job>>
    BY <1>1, <2>2
  <2> QED
    BY <1>1, <2>1, <2>2 DEF Execute
<1>2. ASSUME NEW d \in Commands, d # c, NEW j \in Jobs, Begin(d, j)
      PROVE  pc'[c] = pc[c] /\ job'[c] = job[c] /\ at'[c] = at[c]
  BY <1>2 DEF Begin
<1>3. ASSUME NEW d \in Commands, d # c, Fingerprint(d) \/ Delete(d) \/ Insert(d)
      PROVE  pc'[c] = pc[c] /\ job'[c] = job[c] /\ at'[c] = at[c]
  BY <1>3 DEF Fingerprint, Delete, Insert, End
<1>4. ASSUME NEW d \in Commands, d # c, ExecuteFails(d) \/ Crash(d)
      PROVE  pc'[c] = pc[c] /\ job'[c] = job[c] /\ at'[c] = at[c]
  BY <1>4 DEF ExecuteFails, Crash, End
<1>5. ASSUME NEW source \in Sources, NEW text \in Texts, LegacyWrite(source, text)
      PROVE  pc'[c] = pc[c] /\ job'[c] = job[c] /\ at'[c] = at[c]
  BY <1>5 DEF LegacyWrite
<1>6. CASE UNCHANGED vars
  BY <1>6 DEF vars
<1> QED
  BY <1>1, <1>2, <1>3, <1>4, <1>5, <1>6 DEF Next

(* A command that ends holds nothing. *)
LEMMA EndInPlace ==
    ASSUME TypeOK, NEW c \in Commands, End(c)
    PROVE  InPlace(c)'
BY DEF TypeOK, End, InPlace

(* A statement that succeeded is done, next to those above it. *)
LEMMA StatementDone ==
    ASSUME MigrationInv, [Next]_vars, NEW c \in Commands, Execute(c),
           NEW n \in 1 .. Len(Script), at[c] = n
    PROVE  DoneAbove(n + 1)'
<1> DEFINE s == Script[n]
<1>1. /\ DoneAbove(n) /\ s \in Statements
      /\ schema' = SchemaAfter(s) /\ table' = {Filled(r, s) : r \in table}
  BY ExecuteIs
<1>2. n \in 1 .. 15
  <2>1. Len(Script) = 14
    BY ScriptIs
  <2> QED
    BY <2>1
<1>3. DoneAbove(n)'
  BY <1>1, <1>2, DoneStays
<1>4. ASSUME NEW r \in table
      PROVE  /\ s = "backfill hash" => Filled(r, s).hash # Null
             /\ s = "backfill model" => Filled(r, s).model
  <2>1. r \in Rows /\ r.text # Null
    BY NullAssumption DEF MigrationInv, TypeOK, Rows
  <2> HIDE DEF s
  <2> QED
    BY <1>1, <2>1, FilledRow
<1>5. s = "backfill hash" => \A q \in table' : q.hash # Null
  BY <1>1, <1>4
<1>6. s = "backfill model" => \A q \in table' : q.model
  BY <1>1, <1>4
<1>7. s = "drop documents_source_key" => "documents_source_key" \notin schema'
  BY <1>1, SchemaGrows
<1>8. s \in Features => s \in schema'
  BY <1>1, SchemaGrows
<1>9. Done(s)'
  BY <1>5, <1>6, <1>7, <1>8 DEF Done
<1> QED
  BY <1>2, <1>3, <1>9 DEF DoneAbove

LEMMA InPlaceStep ==
    ASSUME MigrationInv, [Next]_vars, NEW c \in Commands
    PROVE  InPlace(c)'
<1>0. TypeOK /\ InPlace(c) /\ InOrder
  BY DEF MigrationInv
<1>1. FingerprintNeeds \subseteq schema => FingerprintNeeds \subseteq schema'
  BY SchemaStep DEF FingerprintNeeds
<1>2. ASSUME pc'[c] = pc[c], job'[c] = job[c], at'[c] = at[c]
      PROVE  InPlace(c)'
  <2>1. CASE pc[c] = "migrate"
    <3>1. at[c] \in 1 .. Len(Script) /\ DoneAbove(at[c]) /\ job[c] \in Jobs /\ job[c].kind # "import"
      BY <1>0, <2>1 DEF InPlace
    <3>2. at[c] \in 1 .. 15
      <4>1. Len(Script) = 14
        BY ScriptIs
      <4> QED
        BY <3>1, <4>1
    <3>3. DoneAbove(at[c])'
      BY <3>1, <3>2, DoneStays, <1>2 DEF DoneAbove
    <3> QED
      BY <1>2, <2>1, <3>1, <3>3 DEF InPlace
  <2>2. CASE pc[c] # "migrate"
    BY <1>0, <1>1, <1>2, <2>2 DEF InPlace
  <2> QED
    BY <2>1, <2>2
<1>3. ASSUME NEW j \in Jobs, Begin(c, j)
      PROVE  InPlace(c)'
  <2>1. j.kind \in {"migrate", "seed", "import", "delete"} /\ pc[c] = "idle" /\ at[c] = 0
    BY <1>0, <1>3, JobsAssumption DEF Begin, InPlace
  <2>2. job'[c] = j
    BY <1>0, <1>3 DEF Begin, TypeOK
  <2>3. CASE j.kind = "import"
    <3>1. pc'[c] = "fingerprint" /\ at'[c] = 0
      BY <1>0, <1>3, <2>1, <2>3 DEF Begin, TypeOK
    <3> QED
      BY <2>2, <2>3, <3>1 DEF InPlace
  <2>4. CASE j.kind # "import"
    <3>1. pc'[c] = "migrate" /\ at'[c] = 1
      BY <1>0, <1>3, <2>4 DEF Begin, TypeOK
    <3>2. 1 \in 1 .. Len(Script)
      <4>1. Len(Script) = 14
        BY ScriptIs
      <4> QED
        BY <4>1
    <3>3. DoneAbove(at[c])'
      BY <3>1 DEF DoneAbove
    <3> QED
      BY <2>2, <2>4, <3>1, <3>2, <3>3 DEF InPlace
  <2> QED
    BY <2>3, <2>4
<1>4. CASE Execute(c)
  <2>1. pc[c] = "migrate" /\ job[c] \in Jobs /\ at[c] \in 1 .. Len(Script)
        /\ job[c].kind \in {"migrate", "seed", "delete"}
    BY <1>0, <1>4, JobsAssumption DEF Execute, InPlace
  <2>2. CASE at[c] = Len(Script)
    <3>1. AfterMigration(c)
      BY <1>4, <2>2 DEF Execute
    <3>2. CASE job[c].kind = "migrate"
      BY <1>0, <3>1, <3>2, EndInPlace DEF AfterMigration
    <3>3. CASE job[c].kind = "seed"
      <4>1. pc'[c] = "fingerprint" /\ at'[c] = 0 /\ job'[c] = job[c]
        BY <1>0, <3>1, <3>3 DEF AfterMigration, TypeOK
      <4> QED
        BY <2>1, <3>3, <4>1 DEF InPlace
    <3>4. CASE job[c].kind = "delete"
      <4>1. pc'[c] = "delete" /\ at'[c] = 0 /\ job'[c] = job[c]
        BY <1>0, <3>1, <3>4 DEF AfterMigration, TypeOK
      <4> QED
        BY <2>1, <3>4, <4>1 DEF InPlace
    <3> QED
      BY <2>1, <3>2, <3>3, <3>4
  <2>3. CASE at[c] # Len(Script)
    <3>1. pc'[c] = "migrate" /\ job'[c] = job[c] /\ at'[c] = at[c] + 1
      BY <1>0, <1>4, <2>1, <2>3 DEF Execute, TypeOK
    <3>2. PICK n \in 1 .. Len(Script) : at[c] = n
      BY <2>1
    <3>3. at'[c] = n + 1 /\ n + 1 \in 1 .. Len(Script)
      <4>1. Len(Script) = 14
        BY ScriptIs
      <4> QED
        BY <2>3, <3>1, <3>2, <4>1
    <3>4. DoneAbove(n + 1)'
      BY <1>4, <3>2, StatementDone
    <3>5. DoneAbove(at[c])'
      BY <3>3, <3>4 DEF DoneAbove
    <3> QED
      BY <2>1, <3>1, <3>3, <3>5 DEF InPlace
  <2> QED
    BY <2>2, <2>3
<1>5. CASE ExecuteFails(c) \/ Crash(c)
  BY <1>0, <1>5, EndInPlace DEF ExecuteFails, Crash
<1>6. CASE Fingerprint(c)
  <2>1. CASE End(c)
    BY <1>0, <2>1, EndInPlace
  <2>2. CASE /\ FingerprintNeeds \subseteq schema
             /\ pc' = [pc EXCEPT ![c] = "delete"] /\ UNCHANGED <<job, at>>
    <3>1. pc[c] = "fingerprint" /\ schema' = schema
      BY <1>6 DEF Fingerprint
    <3>2. pc'[c] = "delete"
      BY <1>0, <2>2 DEF TypeOK
    <3> QED
      BY <1>0, <2>2, <3>1, <3>2 DEF InPlace
  <2> QED
    BY <1>6, <2>1, <2>2 DEF Fingerprint
<1>7. CASE Delete(c)
  <2>1. CASE End(c)
    BY <1>0, <2>1, EndInPlace
  <2>2. CASE /\ job[c].kind # "delete"
             /\ pc' = [pc EXCEPT ![c] = "insert"] /\ UNCHANGED <<job, at>>
    <3>1. pc[c] = "delete" /\ schema' = schema
      BY <1>7 DEF Delete
    <3>2. pc'[c] = "insert"
      BY <1>0, <2>2 DEF TypeOK
    <3>3. /\ job[c] \in Jobs /\ job[c].kind \in {"seed", "import"} /\ at[c] = 0
          /\ FingerprintNeeds \subseteq schema
      BY <1>0, <2>2, <3>1 DEF InPlace
    <3>4. job[c].texts \in Seq(Texts) /\ job[c].texts # <<>>
      BY <3>3, JobsAssumption
    <3>5. 0 < Len(job[c].texts)
      BY <3>4
    <3> QED
      BY <2>2, <3>1, <3>2, <3>3, <3>5 DEF InPlace
  <2> QED
    BY <1>7, <2>1, <2>2 DEF Delete
<1>8. CASE Insert(c)
  <2>1. CASE End(c)
    BY <1>0, <2>1, EndInPlace
  <2>2. CASE /\ at[c] + 1 # Len(job[c].texts)
             /\ at' = [at EXCEPT ![c] = @ + 1] /\ UNCHANGED <<pc, job>>
    <3>1. pc[c] = "insert" /\ schema' = schema
      BY <1>8 DEF Insert
    <3>2. /\ job[c] \in Jobs /\ at[c] < Len(job[c].texts) /\ at[c] \in Nat
          /\ FingerprintNeeds \subseteq schema
      BY <1>0, <3>1 DEF InPlace, TypeOK
    <3>3. job[c].texts \in Seq(Texts)
      BY <3>2, JobsAssumption
    <3>4. at'[c] = at[c] + 1 /\ at[c] + 1 < Len(job[c].texts)
      BY <1>0, <2>2, <3>2, <3>3 DEF TypeOK
    <3> QED
      BY <2>2, <3>1, <3>2, <3>4 DEF InPlace
  <2> QED
    BY <1>8, <2>1, <2>2 DEF Insert
<1> QED
  BY <1>0, <1>2, <1>3, <1>4, <1>5, <1>6, <1>7, <1>8, OthersRest

LEMMA BackfillsInOrder ==
    ASSUME NEW n \in 1 .. Len(Script), n # Len(Script)
    PROVE  Script[n + 1] = "parent from id" => Script[n] = "parent from source"
<1>1. Len(Script) = 14
  BY ScriptIs
<1>2. n \in 1 .. 14 /\ n # 14
  BY <1>1
<1>3. n + 1 \in 1 .. Len(Script)
  BY <1>1, <1>2
<1>4. Script[n + 1] = "parent from id" => n + 1 = 5
  BY <1>3, ScriptPlaces DEF PlaceOf
<1>5. n + 1 = 5 => n = 4
  BY <1>2
<1> QED
  BY <1>4, <1>5, ScriptIs

(* A command comes to the second backfill of document_id from the first. *)
LEMMA ComesToParentFromId ==
    ASSUME MigrationInv, [Next]_vars, NEW c \in Commands,
           pc'[c] = "migrate", Script[at'[c]] = "parent from id"
    PROVE  \/ pc[c] = "migrate" /\ Script[at[c]] = "parent from id"
           \/ Execute(c) /\ Script[at[c]] = "parent from source"
<1>0. TypeOK
  BY DEF MigrationInv
<1>1. CASE Execute(c)
  <2>1. at[c] \in 1 .. Len(Script) /\ job[c].kind \in {"migrate", "seed", "delete"}
    BY <1>1, JobsAssumption DEF MigrationInv, InPlace, Execute
  <2>2. ~AfterMigration(c)
    BY <1>0, <2>1 DEF AfterMigration, End, TypeOK
  <2>3. at'[c] = at[c] + 1 /\ at[c] # Len(Script)
    BY <1>0, <1>1, <2>2 DEF Execute, TypeOK
  <2>4. Script[at[c] + 1] = "parent from id"
    BY <2>3
  <2> QED
    BY <1>1, <2>1, <2>3, <2>4, BackfillsInOrder
<1>2. ASSUME NEW j \in Jobs, Begin(c, j) PROVE FALSE
  <2>1. at'[c] = 1
    BY <1>0, <1>2 DEF Begin, TypeOK
  <2> QED
    BY <2>1, ScriptIs
<1>3. CASE ExecuteFails(c) \/ Fingerprint(c) \/ Delete(c) \/ Insert(c) \/ Crash(c)
  BY <1>0, <1>3 DEF ExecuteFails, Fingerprint, Delete, Insert, Crash, End, TypeOK
<1> QED
  BY <1>1, <1>2, <1>3, OthersRest

LEMMA ShutOut ==
    ASSUME MigrationInv, [Next]_vars
    PROVE  IF "document_id NOT NULL" \in schema' THEN \A q \in table' : q.parent # Null
                                                ELSE \A q \in table' : q.hash = Null
<1>0. /\ table \subseteq Rows
      /\ IF "document_id NOT NULL" \in schema THEN \A r \in table : r.parent # Null
                                              ELSE \A r \in table : r.hash = Null
  BY DEF MigrationInv, TypeOK, RowsFollow
<1>1. ASSUME "document_id NOT NULL" \in schema, NEW q \in table'
      PROVE  q.parent # Null
  <2>1. ASSUME NEW s, NEW r \in table, Updated(q, r, s)
        PROVE  q.parent # Null
    BY <1>0, <1>1, <2>1 DEF Updated
  <2> QED
    BY <1>0, <1>1, <2>1, RowStep, LegacyIs DEF Fresh
<1>2. ASSUME "document_id NOT NULL" \notin schema, "document_id NOT NULL" \in schema',
             NEW q \in table'
      PROVE  q.parent # Null
  <2>1. PICK c \in Commands : Execute(c)
    BY <1>2, InsertIs, DeleteIs, LegacyIs, RestIs
  <2>2. /\ Script[at[c]] \in Statements /\ ~Refused(Script[at[c]])
        /\ schema' = SchemaAfter(Script[at[c]])
    BY <2>1, ExecuteIs
  <2>3. Script[at[c]] = "document_id NOT NULL"
    BY <1>2, <2>2, SchemaGrows
  <2>4. PICK r \in table : Updated(q, r, Script[at[c]])
    BY <2>1, ExecutedRow
  <2>5. r.parent # Null
    BY <2>2, <2>3 DEF Refused
  <2> QED
    BY <2>4, <2>5 DEF Updated
<1>3. ASSUME "document_id NOT NULL" \notin schema', NEW q \in table'
      PROVE  q.hash = Null
  <2>1. "document_id NOT NULL" \notin schema
    BY <1>3, SchemaStep
  <2>2. \A r \in table : r.hash = Null
    BY <1>0, <2>1
  <2>3. ASSUME NEW c \in Commands, NEW r \in table, Execute(c), Updated(q, r, Script[at[c]])
        PROVE  q.hash = Null
    <3>1. at[c] \in 1 .. Len(Script) /\ DoneAbove(at[c]) /\ r.hash = Null
      BY <2>2, <2>3, ExecuteIs
    <3>2. Script[at[c]] # "backfill hash"
      <4>1. SUFFICES ASSUME at[c] = 12 PROVE FALSE
        BY <3>1, ScriptPlaces DEF PlaceOf
      <4>2. at[c] \in 7 .. 15
        BY <4>1
      <4> QED
        BY <2>1, <3>1, <4>2, NotNullAbove
    <3> QED
      BY <2>3, <3>1, <3>2 DEF Updated
  <2>4. ASSUME NEW c \in Commands PROVE pc[c] # "insert"
    <3>1. SUFFICES ASSUME FingerprintNeeds \subseteq schema PROVE FALSE
      BY DEF MigrationInv, InPlace
    <3>2. Script[11] \in schema /\ 11 \in 1 .. Len(Script) /\ 11 \in 7 .. 15
      <4>1. Len(Script) = 14 /\ Script[11] = "embedding_model"
        BY ScriptIs
      <4> QED
        BY <3>1, <4>1 DEF FingerprintNeeds
    <3>3. DoneAbove(11)
      BY <3>2 DEF MigrationInv, InOrder
    <3> QED
      BY <2>1, <3>2, <3>3, NotNullAbove
  <2> QED
    BY <2>2, <2>3, <2>4, RowStep, LegacyIs
<1> QED
  BY <1>1, <1>2, <1>3, SchemaStep

LEMMA RowsFollowStep ==
    ASSUME MigrationInv, [Next]_vars
    PROVE  RowsFollow'
<1>0. /\ table \subseteq Rows
      /\ \A r \in table : r.hash \in {Null, r.text}
      /\ \A r \in table : HasSource(r) /\ ~r.late => r.parent \in {Null, ParentOf(r.source)}
      /\ \A c \in Commands : pc[c] = "migrate" /\ Script[at[c]] = "parent from id"
                               => \A r \in table : Parented(r)
  BY DEF MigrationInv, TypeOK, RowsFollow
<1>1. ASSUME NEW source \in Sources, NEW text \in Texts, LegacyWrite(source, text)
      PROVE  \A r \in table : r.hash = Null
  BY <1>1, LegacyIs DEF MigrationInv, RowsFollow
<1>2. ASSUME NEW q \in table'
      PROVE  q.hash \in {Null, q.text}
  <2>1. ASSUME NEW s, NEW r \in table, Updated(q, r, s)
        PROVE  q.hash \in {Null, q.text}
    BY <1>0, <2>1 DEF Updated
  <2>2. ASSUME NEW source \in Sources, NEW text \in Texts, LegacyWrite(source, text)
        PROVE  q.hash \in {Null, q.text}
    BY <1>0, <1>1, <2>2, LegacyIs
  <2> QED
    BY <1>0, <2>1, <2>2, RowStep DEF Fresh
<1>3. ASSUME NEW q \in table', HasSource(q), ~q.late
      PROVE  q.parent \in {Null, ParentOf(q.source)}
  <2>1. ASSUME NEW c \in Commands, NEW r \in table, Execute(c), Updated(q, r, Script[at[c]])
        PROVE  q.parent \in {Null, ParentOf(q.source)}
    <3>1. HasSource(r) /\ ~r.late /\ q.source = r.source
      BY <1>3, <2>1 DEF Updated, HasSource
    <3>2. r.parent \in {Null, ParentOf(r.source)}
      BY <1>0, <3>1
    <3>3. r.parent = Null => Script[at[c]] # "parent from id"
      BY <1>0, <2>1, <3>1, ExecuteIs DEF Parented
    <3> QED
      BY <2>1, <3>1, <3>2, <3>3 DEF Updated
  <2>2. ASSUME NEW source \in Sources, NEW text \in Texts, LegacyWrite(source, text)
        PROVE  q.parent \in {Null, ParentOf(q.source)}
    BY <1>0, <1>3, <2>2, LegacyIs DEF HasSource
  <2> QED
    BY <1>0, <1>3, <2>1, <2>2, RowStep DEF Fresh
<1>4. ASSUME NEW c \in Commands, pc'[c] = "migrate", Script[at'[c]] = "parent from id",
             NEW q \in table', HasSource(q), ~q.late
      PROVE  q.parent # Null
  <2>1. CASE Execute(c) /\ Script[at[c]] = "parent from source"
    <3>1. PICK r \in table : Updated(q, r, "parent from source")
      BY <2>1, ExecutedRow
    <3>2. q.source = r.source /\ HasSource(r)
      BY <1>4, <3>1 DEF HasSource, Updated
    <3>3. ParentOf(r.source) # Null
      BY <3>2, NullAssumption DEF HasSource, ParentOf
    <3> QED
      BY <3>1, <3>2, <3>3 DEF Updated
  <2>2. CASE pc[c] = "migrate" /\ Script[at[c]] = "parent from id"
    <3>1. \A r \in table : HasSource(r) /\ ~r.late => r.parent # Null
      BY <1>0, <2>2 DEF Parented
    <3>2. ASSUME NEW s, NEW r \in table, Updated(q, r, s)
          PROVE  q.parent # Null
      BY <1>4, <3>1, <3>2 DEF HasSource, Updated
    <3>3. ASSUME NEW source \in Sources, NEW text \in Texts, LegacyWrite(source, text)
          PROVE  q.parent # Null
      BY <1>4, <2>2, <3>1, <3>3, LegacyIs DEF HasSource
    <3> QED
      BY <1>4, <3>1, <3>2, <3>3, RowStep DEF Fresh
  <2> QED
    BY <1>4, <2>1, <2>2, ComesToParentFromId
<1> QED
  BY <1>2, <1>3, <1>4, ShutOut DEF RowsFollow, Parented, HasSource, ParentOf

--------------------------------------------------------------------------------
LEMMA InitInv == Init => MigrationInv
<1> SUFFICES ASSUME Init PROVE MigrationInv
  OBVIOUS
<1>1. /\ \/ schema = {"documents_source_key"} /\ table \in Volumes
         \/ schema = Current /\ table = {}
      /\ \A c \in Commands : pc[c] = "idle" /\ at[c] = 0
  BY DEF Init
<1>2. ASSUME NEW r \in table
      PROVE  /\ r \in Rows /\ r.parent = Null /\ r.hash = Null
             /\ table \in Volumes
  <2>1. table \in Volumes /\ r \in LegacyRows
    BY <1>1, VolumesAssumption
  <2>2. PICK id \in RowIds, source \in Sources \cup {Blank, Null}, text \in Texts :
          r = LegacyRow(id, source, text)
    BY <2>1 DEF LegacyRows
  <2> QED
    BY <2>1, <2>2 DEF LegacyRow, Rows
<1>3. TypeOK
  <2>1. schema \subseteq Features
    BY <1>1 DEF Current, Features
  <2>2. \A r, s \in table : r.id = s.id => r = s
    BY <1>1, VolumesAssumption
  <2>3. /\ pc \in [Commands -> {"idle", "migrate", "fingerprint", "delete", "insert"}]
        /\ job \in [Commands -> Jobs \cup {Null}]
        /\ at \in [Commands -> Nat]
    BY DEF Init
  <2>4. crashes \in 0 .. MaxCrashes /\ legacy \in 0 .. MaxLegacyWrites
    BY BoundsAssumption DEF Init
  <2> QED
    BY <1>2, <2>1, <2>2, <2>3, <2>4 DEF TypeOK
<1>4. InOrder
  <2>1. CASE schema = {"documents_source_key"}
    <3>1. ASSUME NEW n \in 1 .. Len(Script) PROVE Script[n] \notin schema
      BY <2>1, ScriptPlaces DEF Statements
    <3> QED
      BY <3>1 DEF InOrder
  <2>2. CASE schema = Current /\ table = {}
    <3>1. ASSUME NEW s \in Statements PROVE Done(s)
      BY <2>2, <3>1 DEF Done, Current, Statements
    <3>2. ASSUME NEW n \in 1 .. Len(Script), NEW m \in 1 .. n - 1
          PROVE  Script[m] \in Statements
      <4>1. Len(Script) = 14
        BY ScriptIs
      <4>2. m \in 1 .. Len(Script)
        BY <4>1
      <4> QED
        BY <4>2, ScriptPlaces
    <3> QED
      BY <3>1, <3>2 DEF InOrder, DoneAbove
  <2> QED
    BY <1>1, <2>1, <2>2
<1>5. \A c \in Commands : InPlace(c)
  BY <1>1 DEF InPlace
<1>6. RowsFollow
  <2>1. table # {} => schema = {"documents_source_key"}
    BY <1>1
  <2>2. \A c \in Commands : pc[c] # "migrate"
    BY <1>1
  <2> QED
    BY <1>2, <2>1, <2>2 DEF RowsFollow
<1> QED
  BY <1>3, <1>4, <1>5, <1>6 DEF MigrationInv

(* Whatever the commands, volumes and deaths: the statements take effect in   *)
(* the order of the script, the rows follow, and the old release is shut out  *)
(* before a hash is filled in.                                                *)
THEOREM MigrationInvariance == Spec => []MigrationInv
<1>1. Init => MigrationInv
  BY InitInv
<1>2. MigrationInv /\ [Next]_vars => MigrationInv'
  BY TypeStep, InOrderStep, InPlaceStep, RowsFollowStep DEF MigrationInv
<1> QED
  BY <1>1, <1>2, PTL DEF Spec

(* A replacement that has deleted a document can write every chunk of it,     *)
(* though imports do not migrate first (infra/Makefile).                      *)
THEOREM NothingStranded == Spec => []NoStrandedReplacement
<1>1. MigrationInv => NoStrandedReplacement
  BY ColumnsInOrder DEF MigrationInv, InPlace, NoStrandedReplacement, CanInsert
<1> QED
  BY <1>1, MigrationInvariance, PTL

(* No row has the content_hash of a text it does not hold, for all the old    *)
(* release rewrites while a migration is under way.                           *)
THEOREM TrueFingerprints == Spec => []FingerprintsAreTrue
<1>1. MigrationInv => FingerprintsAreTrue
  BY DEF MigrationInv, RowsFollow, FingerprintsAreTrue
<1> QED
  BY <1>1, MigrationInvariance, PTL

(* All rows with one source are one document, except for what the old release *)
(* inserts between the two backfills of document_id.                          *)
THEOREM OneParent == Spec => []OneDocumentPerSource
<1>1. MigrationInv => OneDocumentPerSource
  BY DEF MigrationInv, RowsFollow, OneDocumentPerSource, HasSource, ParentOf
<1> QED
  BY <1>1, MigrationInvariance, PTL

(* A run that comes to the end of the scripts leaves init.sql's schema and    *)
(* no row without document_id, content_hash or embedding_model: the part of   *)
(* RerunCompletes that needs no fairness.                                     *)
THEOREM MigrationEnds ==
    Spec => [][\A c \in Commands : at[c] = Len(Script) /\ Execute(c) => Migrated']_vars
<1>1. ASSUME MigrationInv, [Next]_vars, NEW c \in Commands, at[c] = Len(Script), Execute(c)
      PROVE  Migrated'
  <2>1. Len(Script) = 14
    BY ScriptIs
  <2>2. DoneAbove(15)'
    <3>1. 14 \in 1 .. Len(Script) /\ at[c] = 14 /\ 14 + 1 = 15
      BY <1>1, <2>1
    <3>2. DoneAbove(14 + 1)'
      BY <1>1, <3>1, StatementDone
    <3> QED
      BY <3>1, <3>2
  <2>3. /\ Done("document_id")' /\ Done("chunk_index")' /\ Done("metadata")'
        /\ Done("document_id NOT NULL")' /\ Done("drop documents_source_key")'
        /\ Done("documents_document_id_chunk_index_key")'
        /\ Done("content_hash")' /\ Done("ingested_at")' /\ Done("embedding_model")'
        /\ Done("backfill hash")' /\ Done("backfill model")' /\ Done("chainlit_oauth_tokens")'
    <3>1. /\ Done(Script[1])' /\ Done(Script[2])' /\ Done(Script[3])' /\ Done(Script[6])'
          /\ Done(Script[7])' /\ Done(Script[8])' /\ Done(Script[9])' /\ Done(Script[10])'
          /\ Done(Script[11])' /\ Done(Script[12])' /\ Done(Script[13])' /\ Done(Script[14])'
      BY <2>2 DEF DoneAbove
    <3> QED
      BY <3>1, ScriptIs
  <2>4. Current \subseteq schema' /\ "documents_source_key" \notin schema'
    BY <2>3 DEF Done, Current, Features, Columns
  <2>5. schema' \subseteq Features /\ RowsFollow'
    BY <1>1, TypeStep, RowsFollowStep DEF TypeOK
  <2>6. schema' = Current
    BY <2>4, <2>5 DEF Current
  <2>7. \A r \in table' : r.hash # Null /\ r.model
    BY <2>3 DEF Done
  <2>8. \A r \in table' : r.parent # Null
    BY <2>5, <2>6 DEF RowsFollow, Current, Features
  <2> QED
    BY <2>6, <2>7, <2>8 DEF Migrated, Current, Features, Columns
<1>2. MigrationInv /\ [Next]_vars
        => [\A c \in Commands : at[c] = Len(Script) /\ Execute(c) => Migrated']_vars
  BY <1>1
<1> QED
  BY <1>2, MigrationInvariance, PTL DEF Spec
===================================================================================
