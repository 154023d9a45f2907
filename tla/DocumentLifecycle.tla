---------------------------- MODULE DocumentLifecycle ----------------------------
(***************************************************************************)
(* The document lifecycle of src/knowledge_mcp/ingest.py on the table      *)
(* `documents` of infra/app/init.sql, driven by any number of operator     *)
(* commands at once: a Langflow import (sync_document), a seed             *)
(* (fingerprint_matches, embed, replace_document) and a deletion           *)
(* (scripts/delete_document.py).                                           *)
(*                                                                         *)
(* Every repository call takes a connection of the pool and commits on its *)
(* own: one statement is one step here, and a command can die between any  *)
(* two of them (killed, statement timeout, lost connection).               *)
(***************************************************************************)
EXTENDS Naturals, Sequences

CONSTANTS Docs,       \* document_id values
          Hashes,     \* content_hash values of chunk texts
          Models,     \* embedding_model values
          MaxChunks,  \* bound: chunks of one document
          Writers,    \* concurrent commands
          CanCrash,   \* whether commands may die half-way
          NoRow,      \* no row under (document_id, chunk_index)
          NoJob,      \* the command is not running
          Mixed       \* claim: nothing is known of the document

ASSUME MaxChunksAssumption == MaxChunks \in Nat \ {0}
ASSUME CanCrashAssumption == CanCrash \in BOOLEAN

Indexes == 0 .. MaxChunks - 1

(* UNIQUE (document_id, chunk_index): at most one row under each index. The *)
(* columns the lifecycle compares are content_hash and embedding_model.     *)
Rows == [hash: Hashes, model: Models]

ASSUME NoRowAssumption == NoRow \notin Rows
ASSUME MixedAssumption == Mixed \notin [Indexes -> Rows \cup {NoRow}]

Contents == UNION {[1 .. n -> Hashes] : n \in 1 .. MaxChunks}

(* A command's input. _single_document_id has refused an empty list and a   *)
(* list of several documents; fixtures of the seed have one chunk.          *)
Jobs == [kind: {"sync"}, doc: Docs, contents: Contents, model: Models]
        \cup [kind: {"seed"}, doc: Docs, contents: [1 .. 1 -> Hashes], model: Models]
        \cup [kind: {"delete"}, doc: Docs, contents: {<<>>}]

ASSUME NoJobAssumption == NoJob \notin Jobs

(* The rows a job leaves behind when it is the only one to touch the document. *)
ImageOf(j) == [i \in Indexes |->
                 IF i < Len(j.contents)
                   THEN [hash |-> j.contents[i + 1], model |-> j.model]
                   ELSE NoRow]

Images == {ImageOf(j) : j \in Jobs}

VARIABLES rows,    \* rows[d][i]: the row of chunk i of document d, or NoRow
          pc,      \* where each command stands
          job,     \* the command's input
          next,    \* the chunk_index its next INSERT is for
          result,  \* the SyncResult action, or how the command ended
          claim    \* history: the version d holds once nobody is replacing it

vars == <<rows, pc, job, next, result, claim>>

TypeOK == /\ rows \in [Docs -> [Indexes -> Rows \cup {NoRow}]]
          /\ pc \in [Writers -> {"idle", "fingerprint", "embed", "delete", "upsert"}]
          /\ job \in [Writers -> Jobs \cup {NoJob}]
          /\ next \in [Writers -> 0 .. MaxChunks]
          /\ result \in [Writers -> {"none", "skipped", "replaced", "deleted", "failed"}]
          /\ claim \in [Docs -> Images \cup {Mixed}]

(* The index as an earlier release or migrate_documents_chunks.sql left it. *)
Init == /\ rows \in [Docs -> Images]
        /\ pc = [w \in Writers |-> "idle"]
        /\ job = [w \in Writers |-> NoJob]
        /\ next = [w \in Writers |-> 0]
        /\ result = [w \in Writers |-> "none"]
        /\ claim = rows

Replacing(d) == {w \in Writers : pc[w] = "upsert" /\ job[w].doc = d}

--------------------------------------------------------------------------------
(* list_chunk_fingerprints: the chunk_index of every row of the document.  *)
Existing(d) == {i \in Indexes : rows[d][i] # NoRow}

(* fingerprint_matches: the lists of (chunk_index, content_hash) in index   *)
(* order are equal, and every row carries this run's model.                 *)
ExistingPairs(d) == {<<i, rows[d][i].hash>> : i \in Existing(d)}
(* Mutant: chunks of the input numbered from 1. *)
IncomingPairsFromOne(j) == {<<i, j.contents[i]>> : i \in DOMAIN j.contents}

IncomingPairs(j) == {<<i - 1, j.contents[i]>> : i \in DOMAIN j.contents}
(* Mutant: the embedding model is not compared. *)
FingerprintMatchesAnyModel(d, j) ==
    Existing(d) # {} /\ ExistingPairs(d) = IncomingPairs(j)

FingerprintMatches(d, j) ==
    /\ Existing(d) # {}
    /\ ExistingPairs(d) = IncomingPairs(j)
    /\ {rows[d][i].model : i \in Existing(d)} = {j.model}

Finish(w, how) ==
    /\ pc' = [pc EXCEPT ![w] = "idle"]
    /\ job' = [job EXCEPT ![w] = NoJob]
    /\ next' = [next EXCEPT ![w] = 0]
    /\ result' = [result EXCEPT ![w] = how]

Begin(w, j) ==
    /\ pc[w] = "idle"
    /\ pc' = [pc EXCEPT ![w] = IF j.kind = "delete" THEN "delete" ELSE "fingerprint"]
    /\ job' = [job EXCEPT ![w] = j]
    /\ result' = [result EXCEPT ![w] = "none"]
    /\ UNCHANGED <<rows, next, claim>>

(* An unchanged document is skipped; a seed embeds before it deletes. *)
Fingerprint(w) ==
    /\ pc[w] = "fingerprint"
    /\ \/ /\ FingerprintMatches(job[w].doc, job[w])
          /\ Finish(w, "skipped")
       \/ /\ ~FingerprintMatches(job[w].doc, job[w])
          /\ pc' = [pc EXCEPT ![w] = IF job[w].kind = "seed" THEN "embed" ELSE "delete"]
          /\ UNCHANGED <<job, next, result>>
    /\ UNCHANGED <<rows, claim>>

(* The embedding API answers, or raises EmbeddingError and ends the seed. *)
Embed(w) ==
    /\ pc[w] = "embed"
    /\ \/ /\ pc' = [pc EXCEPT ![w] = "delete"]
          /\ UNCHANGED <<job, next, result>>
       \/ Finish(w, "failed")
    /\ UNCHANGED <<rows, claim>>

(* Mutant: only the chunks past the first are deleted. *)
DeleteRowsPastFirst(d) == [rows EXCEPT ![d] = [i \in Indexes |-> IF i = 0 THEN @[0] ELSE NoRow]]

(* Mutant: old rows are left for the inserts to overwrite. *)
DeleteNoRows(d) == rows

(* DELETE ... WHERE document_id: all rows of the document, whoever put them. *)
DeleteRows(d) == [rows EXCEPT ![d] = [i \in Indexes |-> NoRow]]

(* A delete over rows nobody else is writing settles what the document will *)
(* be; so does one by a command that installs the same version.             *)
ClaimAfterDelete(w) ==
    LET d == job[w].doc IN
    IF Replacing(d) = {} \/ claim[d] = ImageOf(job[w]) THEN ImageOf(job[w]) ELSE Mixed

Delete(w) ==
    /\ pc[w] = "delete"
    /\ rows' = DeleteRows(job[w].doc)
    /\ claim' = [claim EXCEPT ![job[w].doc] = ClaimAfterDelete(w)]
    /\ \/ /\ job[w].kind = "delete"
          /\ Finish(w, "deleted")
       \/ /\ job[w].kind # "delete"
          /\ pc' = [pc EXCEPT ![w] = "upsert"]
          /\ UNCHANGED <<job, next, result>>

(* INSERT ... ON CONFLICT (document_id, chunk_index) DO UPDATE. *)
UpsertRow(d, i, j) ==
    [rows EXCEPT ![d][i] = [hash |-> j.contents[i + 1], model |-> j.model]]

(* Mutant: the loop ends one chunk early. *)
UpsertAllButLast(w) ==
    /\ pc[w] = "upsert"
    /\ rows' = UpsertRow(job[w].doc, next[w], job[w])
    /\ \/ next[w] + 2 >= Len(job[w].contents) /\ Finish(w, "replaced")
       \/ /\ next[w] + 2 < Len(job[w].contents)
          /\ next' = [next EXCEPT ![w] = @ + 1]
          /\ UNCHANGED <<pc, job, result>>
    /\ UNCHANGED claim

Upsert(w) ==
    /\ pc[w] = "upsert"
    /\ rows' = UpsertRow(job[w].doc, next[w], job[w])
    /\ \/ /\ next[w] + 1 = Len(job[w].contents)
          /\ Finish(w, "replaced")
       \/ /\ next[w] + 1 < Len(job[w].contents)
          /\ next' = [next EXCEPT ![w] = @ + 1]
          /\ UNCHANGED <<pc, job, result>>
    /\ UNCHANGED claim

(* The command dies where it stands; what it committed stays. *)
Crash(w) ==
    /\ CanCrash
    /\ pc[w] # "idle"
    /\ claim' = IF pc[w] = "upsert" THEN [claim EXCEPT ![job[w].doc] = Mixed] ELSE claim
    /\ Finish(w, "failed")
    /\ UNCHANGED rows

Work(w) == Fingerprint(w) \/ Embed(w) \/ Delete(w) \/ Upsert(w)

Next == \E w \in Writers : \/ \E j \in Jobs : Begin(w, j)
                           \/ Fingerprint(w)
                           \/ Embed(w)
                           \/ Delete(w)
                           \/ Upsert(w)
                           \/ Crash(w)

Spec == Init /\ [][Next]_vars

--------------------------------------------------------------------------------
(* A document nobody is replacing holds exactly the version last written to *)
(* it, chunk for chunk, if no replacement of it was cut short or overlapped *)
(* with another version.  Any number of commands with the same version may  *)
(* delete and insert in any order (ADR-0007, consequences 1 and 2).         *)
ClaimedVersionInstalled ==
    \A d \in Docs : Replacing(d) = {} /\ claim[d] # Mixed => rows[d] = claim[d]

(* While it is being replaced, search reads rows of the new version only:   *)
(* no chunk of the version that goes (ADR-0007, consequence 2).             *)
NoVersionMix ==
    \A d \in Docs, i \in Indexes : claim[d] # Mixed => rows[d][i] \in {NoRow, claim[d][i]}

(* Why the two hold, as an inductive invariant.  A running command has its  *)
(* input, and between its delete and its last insert a chunk left to write; *)
(* all who replace a document with a claim bring the claimed version; and a *)
(* chunk that is missing is still ahead of one of them.                     *)
JobsInPlace ==
    \A w \in Writers :
        /\ pc[w] # "idle" => job[w] \in Jobs /\ result[w] = "none"
        /\ pc[w] \in {"fingerprint", "embed", "upsert"} => job[w].kind # "delete"
        /\ IF pc[w] = "upsert" THEN next[w] < Len(job[w].contents) ELSE next[w] = 0

ReplacersAgree ==
    \A w \in Writers : pc[w] = "upsert" /\ claim[job[w].doc] # Mixed
                         => claim[job[w].doc] = ImageOf(job[w])

MissingChunksAhead ==
    \A d \in Docs, i \in Indexes :
        claim[d] # Mixed
          => \/ rows[d][i] = claim[d][i]
             \/ rows[d][i] = NoRow /\ \E w \in Replacing(d) : next[w] <= i

LifecycleInv == TypeOK /\ JobsInPlace /\ ReplacersAgree /\ MissingChunksAhead

(* What a command reports is so: after "skipped" or "replaced" the document *)
(* is the version it was given, if nobody else is replacing it and no two   *)
(* versions met (SyncResult, ingest.py).                                    *)
ReportedVersionInstalled ==
    [][\A w \in Writers :
         /\ pc[w] # "idle"
         /\ result'[w] \in {"skipped", "replaced"}
         /\ Replacing(job[w].doc) \subseteq {w}
         /\ claim[job[w].doc] # Mixed
         => rows'[job[w].doc] = ImageOf(job[w])]_vars

(* A document that already is the incoming version when the fingerprints    *)
(* are read is left alone: its rows and their ids survive and nothing is    *)
(* embedded (ADR-0007, decision 3).                                         *)
OnlyChangedDocumentsReplaced ==
    [][\A w \in Writers : pc[w] = "fingerprint" /\ pc'[w] \in {"embed", "delete"}
         => rows[job[w].doc] # ImageOf(job[w])]_vars

--------------------------------------------------------------------------------
(* The version a reader may count on, and DocumentIndex over it. *)
VisibleVersion(d) == IF Replacing(d) = {} /\ claim[d] # Mixed THEN rows[d] ELSE claim[d]

Index == INSTANCE DocumentIndex
           WITH content <- [d \in Docs |-> VisibleVersion(d)],
                replacing <- [d \in Docs |-> Replacing(d) # {}]

(* Seen through its rows, the table behaves like the index ADR-0007         *)
(* promises: a document goes from one version to another only through the   *)
(* new one, and to Mixed only when versions or a crash meet half-way.       *)
IndexPromise == Index!ASpec
==================================================================================
