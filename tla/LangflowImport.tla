------------------------------ MODULE LangflowImport ------------------------------
(***************************************************************************)
(* scripts/import_langflow.py and sync_mapped_chunks                       *)
(* (src/knowledge_mcp/langflow_import.py): Langflow's Collection becomes   *)
(* documents, each group of chunks through sync_document (ingest.py).      *)
(* Groups whose source is a host path are always taken; a group Langflow   *)
(* could not name ("langflow:<id>", a fallback) only if no chunk of it is  *)
(* known under a host path, and fallbacks that are known are dropped at    *)
(* the end.  Every statement sent to the table is a step; several imports  *)
(* may run at once and each may die between two statements.                *)
(***************************************************************************)
EXTENDS Naturals, Sequences

CONSTANTS Hosts,        \* document_ids of host paths
          Fallbacks,    \* document_ids of "langflow:" sources
          Hashes,       \* content_hash values
          MaxChunks,    \* bound: chunks of one document
          Collections,  \* contents of the Collection: chunk hashes of each document
          Importers,    \* imports running at once
          NoRow         \* no row under (document_id, chunk_index)

Docs == Hosts \cup Fallbacks
Indexes == 0 .. MaxChunks - 1
Contents == UNION {[1 .. n -> Hashes] : n \in 0 .. MaxChunks}
NoChunks == [d \in Docs |-> <<>>]

ASSUME DocsAssumption == Hosts \cap Fallbacks = {}
ASSUME MaxChunksAssumption == MaxChunks \in Nat \ {0}
(* A fallback is named after the id of its Collection row: it is that row's *)
(* one chunk, which never changes.                                          *)
ASSUME CollectionsAssumption ==
    /\ Collections \subseteq [Docs -> Contents]
    /\ \A f \in Fallbacks : \E h \in Hashes : \A c \in Collections : c[f] \in {<<>>, <<h>>}
ASSUME NoRowAssumption == NoRow \notin Hashes

VARIABLES rows,        \* rows[d][i]: content_hash of chunk i of document d, or NoRow
          collection,  \* what Langflow's Collection holds, grouped by source
          pc,          \* where each import stands
          chunks,      \* the groups it fetched
          todo,        \* groups still to sync; at the end, fallbacks to delete
          doc, next,   \* the document being replaced and the chunk_index to insert
          hosts,       \* host hashes it read last
          dirty,       \* history: an import died, and none begun since has ended
          covers,      \* history: no import has died since this one began
          overlap,     \* history: imports overlapped since all were idle
          streak       \* history: imports of this Collection ended in a row, each alone

table == <<rows, collection>>
importer == <<pc, chunks, todo, doc, next, hosts>>
history == <<dirty, covers, overlap, streak>>
vars == <<rows, collection, pc, chunks, todo, doc, next, hosts, dirty, covers, overlap, streak>>

TypeOK == /\ rows \in [Docs -> [Indexes -> Hashes \cup {NoRow}]]
          /\ collection \in Collections
          /\ pc \in [Importers -> {"idle", "hosts", "groups", "delete", "insert",
                                   "fallbacks", "drop"}]
          /\ chunks \in [Importers -> Collections \cup {NoChunks}]
          /\ todo \in [Importers -> SUBSET Docs]
          /\ doc \in [Importers -> SUBSET Docs]
          /\ next \in [Importers -> 0 .. MaxChunks]
          /\ hosts \in [Importers -> SUBSET Hashes]
          /\ dirty \in BOOLEAN
          /\ covers \in [Importers -> BOOLEAN]
          /\ overlap \in BOOLEAN
          /\ streak \in 0 .. 2

Init == /\ rows = [d \in Docs |-> [i \in Indexes |-> NoRow]]
        /\ collection \in Collections
        /\ pc = [w \in Importers |-> "idle"]
        /\ chunks = [w \in Importers |-> NoChunks]
        /\ todo = [w \in Importers |-> {}]
        /\ doc = [w \in Importers |-> {}]
        /\ next = [w \in Importers |-> 0]
        /\ hosts = [w \in Importers |-> {}]
        /\ dirty = FALSE
        /\ covers = [w \in Importers |-> FALSE]
        /\ overlap = FALSE
        /\ streak = 0

--------------------------------------------------------------------------------
ImageOf(c) == [i \in Indexes |-> IF i < Len(c) THEN c[i + 1] ELSE NoRow]

HashesOf(d) == {rows[d][i] : i \in Indexes} \ {NoRow}
ContentHashes(c) == {c[i] : i \in DOMAIN c}

(* list_host_path_hashes, and incoming_host_hashes of what was fetched. *)
HostHashes == UNION {HashesOf(d) : d \in Hosts}
IncomingHostHashes(c) == UNION {ContentHashes(c[d]) : d \in Hosts}
(* Mutant: what the table holds is not looked at. *)
KnownIncomingOnly(c) == IncomingHostHashes(c)

KnownHashes(c) == HostHashes \cup IncomingHostHashes(c)

(* Mutants: host paths are treated like fallbacks; fallbacks like host paths. *)
ShouldSyncUnknown(c, d, known) == c[d] # <<>> /\ ContentHashes(c[d]) \cap known = {}
ShouldSyncAll(c, d, known) == c[d] # <<>>

(* should_sync_group. *)
ShouldSync(c, d, known) ==
    c[d] # <<>> /\ (d \in Hosts \/ ContentHashes(c[d]) \cap known = {})

(* fallback_ids_sharing_hashes of list_fallback_fingerprints. *)
SharingFallbacks(known) == {d \in Fallbacks : HashesOf(d) \cap known # {}}

--------------------------------------------------------------------------------
Idle(w) == pc[w] = "idle"
OthersIdle(w) == \A v \in Importers \ {w} : Idle(v)

(* An import ends, by itself or not. *)
Leave(w) ==
    /\ pc' = [pc EXCEPT ![w] = "idle"]
    /\ chunks' = [chunks EXCEPT ![w] = NoChunks]
    /\ todo' = [todo EXCEPT ![w] = {}]
    /\ doc' = [doc EXCEPT ![w] = {}]
    /\ next' = [next EXCEPT ![w] = 0]
    /\ hosts' = [hosts EXCEPT ![w] = {}]
    /\ overlap' = (overlap /\ ~OthersIdle(w))

(* Somebody ingests into Langflow or clears the Collection. *)
Edit(c) ==
    /\ c # collection
    /\ collection' = c
    /\ streak' = 0
    /\ UNCHANGED <<rows, dirty, covers>> /\ UNCHANGED importer
    /\ overlap' = (overlap \/ \E w \in Importers : ~Idle(w))

(* fetch_langflow_rows, map_langflow_rows and remap_sources. *)
Begin(w) ==
    /\ Idle(w)
    /\ pc' = [pc EXCEPT ![w] = "hosts"]
    /\ chunks' = [chunks EXCEPT ![w] = collection]
    /\ covers' = [covers EXCEPT ![w] = TRUE]
    /\ overlap' = (overlap \/ ~OthersIdle(w))
    /\ streak' = IF OthersIdle(w) THEN streak ELSE 0
    /\ UNCHANGED <<todo, doc, next, hosts, dirty>> /\ UNCHANGED table

(* list_host_path_hashes before the loop: which groups are synced depends on *)
(* it and on what was fetched only.                                          *)
GroupsToSync(c, known) == {d \in Docs : ShouldSync(c, d, known)}

ReadHosts(w) ==
    /\ pc[w] = "hosts"
    /\ todo' = [todo EXCEPT ![w] = GroupsToSync(chunks[w], KnownHashes(chunks[w]))]
    /\ pc' = [pc EXCEPT ![w] = "groups"]
    /\ UNCHANGED <<chunks, doc, next, hosts>> /\ UNCHANGED table /\ UNCHANGED history

(* sync_document of the next group: fingerprint_matches. *)
Fingerprint(w) ==
    /\ pc[w] = "groups"
    /\ \E d \in todo[w] :
         /\ todo' = [todo EXCEPT ![w] = @ \ {d}]
         /\ \/ /\ rows[d] = ImageOf(chunks[w][d])
               /\ UNCHANGED <<pc, doc>>
            \/ /\ rows[d] # ImageOf(chunks[w][d])
               /\ pc' = [pc EXCEPT ![w] = "delete"]
               /\ doc' = [doc EXCEPT ![w] = {d}]
    /\ UNCHANGED <<chunks, next, hosts>> /\ UNCHANGED table /\ UNCHANGED history

(* Mutant: old rows are left for the inserts to overwrite. *)
DeleteNoRows(w) ==
    /\ pc[w] = "delete"
    /\ pc' = [pc EXCEPT ![w] = "insert"]
    /\ UNCHANGED <<chunks, todo, doc, next, hosts>> /\ UNCHANGED table /\ UNCHANGED history

(* replace_document. *)
Delete(w) ==
    /\ pc[w] = "delete"
    /\ rows' = [d \in Docs |-> IF d \in doc[w] THEN [i \in Indexes |-> NoRow] ELSE rows[d]]
    /\ pc' = [pc EXCEPT ![w] = "insert"]
    /\ UNCHANGED <<collection, chunks, todo, doc, next, hosts>> /\ UNCHANGED history

Insert(w) ==
    /\ pc[w] = "insert"
    /\ \E d \in doc[w] :
         /\ rows' = [rows EXCEPT ![d][next[w]] = chunks[w][d][next[w] + 1]]
         /\ \/ /\ next[w] + 1 < Len(chunks[w][d])
               /\ next' = [next EXCEPT ![w] = @ + 1]
               /\ UNCHANGED <<pc, doc>>
            \/ /\ next[w] + 1 = Len(chunks[w][d])
               /\ next' = [next EXCEPT ![w] = 0]
               /\ pc' = [pc EXCEPT ![w] = "groups"]
               /\ doc' = [doc EXCEPT ![w] = {}]
    /\ UNCHANGED <<collection, chunks, todo, hosts>> /\ UNCHANGED history

(* list_host_path_hashes after the loop. *)
ReadHostsAgain(w) ==
    /\ pc[w] = "groups" /\ todo[w] = {}
    /\ hosts' = [hosts EXCEPT ![w] = KnownHashes(chunks[w])]
    /\ pc' = [pc EXCEPT ![w] = "fallbacks"]
    /\ UNCHANGED <<chunks, todo, doc, next>> /\ UNCHANGED table /\ UNCHANGED history

ReadFallbacks(w) ==
    /\ pc[w] = "fallbacks"
    /\ todo' = [todo EXCEPT ![w] = SharingFallbacks(hosts[w])]
    /\ pc' = [pc EXCEPT ![w] = "drop"]
    /\ UNCHANGED <<chunks, doc, next, hosts>> /\ UNCHANGED table /\ UNCHANGED history

DropFallback(w) ==
    /\ pc[w] = "drop"
    /\ \E d \in todo[w] : /\ rows' = [rows EXCEPT ![d] = [i \in Indexes |-> NoRow]]
                          /\ todo' = [todo EXCEPT ![w] = @ \ {d}]
    /\ UNCHANGED <<collection, pc, chunks, doc, next, hosts>> /\ UNCHANGED history

Finish(w) ==
    /\ pc[w] = "drop" /\ todo[w] = {}
    /\ Leave(w)
    /\ dirty' = (dirty /\ ~covers[w])
    /\ covers' = [covers EXCEPT ![w] = FALSE]
    /\ streak' = IF overlap \/ ~OthersIdle(w) THEN 0 ELSE IF streak = 0 THEN 1 ELSE 2
    /\ UNCHANGED table

(* Killed, or a statement failed; what was committed stays. *)
Crash(w) ==
    /\ ~Idle(w)
    /\ Leave(w)
    /\ dirty' = TRUE
    /\ covers' = [v \in Importers |-> FALSE]
    /\ streak' = 0
    /\ UNCHANGED table

Next == \/ \E c \in Collections : Edit(c)
        \/ \E w \in Importers : \/ Begin(w)
                                \/ ReadHosts(w)
                                \/ Fingerprint(w)
                                \/ Delete(w)
                                \/ Insert(w)
                                \/ ReadHostsAgain(w)
                                \/ ReadFallbacks(w)
                                \/ DropFallback(w)
                                \/ Finish(w)
                                \/ Crash(w)

Spec == Init /\ [][Next]_vars
--------------------------------------------------------------------------------
(* Between imports no text is in the index both under a host path and under *)
(* a fallback, in whatever order imports ran and overlapped, unless one     *)
(* died and none begun since has ended (docs/current/features/ingest.md:    *)
(* after both orders of ingest and import the host path stays).             *)
NoDuplicateContent ==
    (\A w \in Importers : Idle(w)) /\ ~dirty
      => \A f \in Fallbacks, h \in Hosts : HashesOf(f) \cap HashesOf(h) = {}

(* Why, as an inductive invariant.  A text that is under a host path and    *)
(* under a fallback is known to an import that has yet to drop the fallback; *)
(* an import that has not read the hashes a second time will know every one. *)
WillDrop(w, f, h) ==
    \/ pc[w] \in {"hosts", "groups", "delete", "insert"}
    \/ pc[w] = "fallbacks" /\ h \in hosts[w]
    \/ pc[w] = "drop" /\ f \in todo[w]

DuplicatesWillGo ==
    ~dirty \/ (\E w \in Importers : covers[w] /\ pc[w] \in {"fallbacks", "drop"})
      => \A f \in Fallbacks, d \in Hosts : \A h \in HashesOf(f) \cap HashesOf(d) :
           \E w \in Importers : WillDrop(w, f, h)

(* What an import holds between two statements. *)
Working(w) == pc[w] \in {"groups", "delete", "insert"}
InPlace(w) ==
    /\ ~Idle(w) => chunks[w] \in Collections
    /\ Working(w) => \A d \in todo[w] \cup doc[w] : chunks[w][d] # <<>>
    /\ pc[w] \in {"delete", "insert"} => \E d \in Docs : doc[w] = {d}
    /\ pc[w] \notin {"delete", "insert"} => doc[w] = {}
    /\ pc[w] # "insert" => next[w] = 0
    /\ pc[w] = "insert" => \A d \in doc[w] : next[w] < Len(chunks[w][d])
    /\ pc[w] = "drop" => todo[w] \subseteq Fallbacks

FallbackTexts ==
    \A f \in Fallbacks : \A c \in Collections : c[f] # <<>> => HashesOf(f) \subseteq ContentHashes(c[f])

(* An import that is alone has replaced the host documents it is done with,  *)
(* and drops every fallback that shares a text with one.                     *)
Exact(d) == rows[d] = ImageOf(collection[d])
HostsExact == \A d \in Hosts : collection[d] # <<>> => Exact(d)
NoDuplicates == \A f \in Fallbacks : HashesOf(f) \cap HostHashes = {}

AloneInPlace(w) ==
    /\ OthersIdle(w) /\ chunks[w] = collection
    /\ Working(w) => \A d \in Hosts : collection[d] # <<>> => d \in todo[w] \cup doc[w] \/ Exact(d)
    /\ pc[w] = "insert" => \A d \in doc[w], i \in Indexes :
         rows[d][i] = IF i < next[w] THEN collection[d][i + 1] ELSE NoRow
    /\ pc[w] \in {"fallbacks", "drop"} => HostsExact
    /\ pc[w] = "fallbacks" => hosts[w] = KnownHashes(collection)
    /\ pc[w] = "drop" => \A f \in Fallbacks : HashesOf(f) \cap HostHashes # {} => f \in todo[w]

Alone == ~overlap => \A w \in Importers : ~Idle(w) => AloneInPlace(w)

(* After the first import alone the second writes no host document and drops *)
(* nothing; it installs the fallbacks that no host document replaces.        *)
FallbacksExact ==
    \A f \in Fallbacks : ShouldSync(collection, f, KnownHashes(collection)) => Exact(f)

AgainInPlace(w) ==
    /\ Working(w) =>
         /\ todo[w] \cup doc[w] \subseteq GroupsToSync(collection, KnownHashes(collection))
         /\ doc[w] \subseteq Fallbacks
         /\ \A f \in Fallbacks : ShouldSync(collection, f, KnownHashes(collection))
              => f \in todo[w] \cup doc[w] \/ Exact(f)
    /\ pc[w] \in {"fallbacks", "drop"} => FallbacksExact
    /\ pc[w] = "drop" => todo[w] = {}

Again == streak > 0 => /\ ~overlap /\ HostsExact /\ NoDuplicates
                       /\ \A w \in Importers : AgainInPlace(w)
                       /\ streak = 2 => FallbacksExact /\ \A w \in Importers : doc[w] = {}

ImportInv == /\ TypeOK
             /\ \A w \in Importers : InPlace(w)
             /\ FallbackTexts
             /\ DuplicatesWillGo
             /\ Alone
             /\ Again

(* After two imports of the same Collection, each alone, the index is what  *)
(* it says: host documents exactly, and every fallback exactly or replaced  *)
(* by a host document with the same text.                                   *)
ConvergedIndex ==
    streak = 2 =>
        \A d \in Docs : collection[d] # <<>> =>
            \/ rows[d] = ImageOf(collection[d])
            \/ /\ d \in Fallbacks /\ HashesOf(d) = {}
               /\ ContentHashes(collection[d]) \cap HostHashes # {}

(* ... and more imports of it write nothing.                                *)
ThirdImportWritesNothing == [][streak = 2 => UNCHANGED rows]_vars
===================================================================================
