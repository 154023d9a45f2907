----------------------------- MODULE KnowledgeSearch -----------------------------
(***************************************************************************)
(* The tools of the knowledge MCP server (src/knowledge_mcp/server.py)     *)
(* over the table the commands of DocumentLifecycle write: search_knowledge *)
(* checks its arguments, embeds the query, and reads close rows in one     *)
(* SELECT; get_document reads a row by the id a hit carried, at any        *)
(* later time.                                                             *)
(*                                                                         *)
(* The id of a row is a UUID the database draws for every INSERT; DO       *)
(* UPDATE keeps it.  A hit therefore stands for its row as long as that    *)
(* row is there (live), and for nothing afterwards.                        *)
(***************************************************************************)
EXTENDS DocumentLifecycle, Integers, FiniteSets

CONSTANTS Readers,     \* conversations that call the tools
          Similarity,  \* similarity of a chunk's embedding to the query, in halves: -2 .. 2
          TopKs,       \* the top_k callers send
          MaxTopK      \* the most search_knowledge accepts (20)

ASSUME SimilarityAssumption == Similarity \in [Hashes -> -2 .. 2]
ASSUME TopKsAssumption == TopKs \subseteq Int
ASSUME MaxTopKAssumption == MaxTopK \in Nat

Hits == [doc: Docs, index: Indexes, text: Hashes, live: BOOLEAN]

VARIABLES at,      \* where the tool call of each reader stands
          top_k,   \* of the search under way
          hits,    \* what the last search answered with
          answer   \* how the last call ended

readerVars == <<at, top_k, hits, answer>>

SearchTypeOK == /\ TypeOK
                /\ at \in [Readers -> {"idle", "embed", "select"}]
                /\ top_k \in [Readers -> 0 .. MaxTopK]
                /\ hits \in [Readers -> SUBSET Hits]
                /\ answer \in [Readers -> {"none", "error", "invalid", "hits", "not found"} \cup Hashes]

SearchInit == /\ Init
              /\ at = [r \in Readers |-> "idle"]
              /\ top_k = [r \in Readers |-> 0]
              /\ hits = [r \in Readers |-> {}]
              /\ answer = [r \in Readers |-> "none"]

--------------------------------------------------------------------------------
(* A hit after the table changed: its row is there until it is deleted. *)
StillThere(h) == [h EXCEPT !.live = @ /\ rows'[h.doc][h.index] # NoRow]

(* A step of a command, as the readers' hits see it. *)
CommandStep ==
    /\ Next
    /\ hits' = [r \in Readers |-> {StillThere(h) : h \in hits[r]}]
    /\ UNCHANGED <<at, top_k, answer>>

(* The tool call ends; get_document and errors leave earlier hits usable. *)
Ends(r, how) ==
    /\ at' = [at EXCEPT ![r] = "idle"]
    /\ top_k' = [top_k EXCEPT ![r] = 0]
    /\ answer' = [answer EXCEPT ![r] = how]

(* Mutant: the upper bound of top_k is not checked. *)
AcceptedFromOne(k) == k >= 1

(* A query of blanks is refused like a top_k out of range. *)
Accepted(k) == k >= 1 /\ k <= MaxTopK

Search(r, k) ==
    /\ at[r] = "idle"
    /\ IF Accepted(k)
         THEN /\ at' = [at EXCEPT ![r] = "embed"]
              /\ top_k' = [top_k EXCEPT ![r] = k]
              /\ UNCHANGED answer
         ELSE Ends(r, "error")
    /\ UNCHANGED <<vars, hits>>

(* EmbeddingClient.embed: a vector, or an EmbeddingError. *)
EmbedQuery(r) ==
    /\ at[r] = "embed"
    /\ \/ /\ at' = [at EXCEPT ![r] = "select"]
          /\ UNCHANGED <<top_k, answer>>
       \/ Ends(r, "error")
    /\ UNCHANGED <<vars, hits>>

HitOf(d, i) == [doc |-> d, index |-> i, text |-> rows[d][i].hash, live |-> TRUE]

TableHits == UNION {{HitOf(d, i) : i \in Existing(d)} : d \in Docs}

(* ORDER BY the distance LIMIT top_k over the HNSW index of the table, which *)
(* is approximate: it may leave out near rows, return farther ones, or find *)
(* fewer than top_k.                                                        *)
Selected(k) == {S \in SUBSET TableHits : Cardinality(S) <= k}

(* SearchHit refuses a similarity below 0, and with it the whole answer. *)
Valid(S) == \A h \in S : Similarity[h.text] >= 0

Select(r) ==
    /\ at[r] = "select"
    /\ \/ \E S \in Selected(top_k[r]) :
            IF Valid(S) THEN Ends(r, "hits") /\ hits' = [hits EXCEPT ![r] = S]
            ELSE Ends(r, "invalid") /\ UNCHANGED hits
       \/ Ends(r, "error") /\ UNCHANGED hits   \* DatabaseError
    /\ UNCHANGED vars

(* get_document: the row with the id of an earlier hit. *)
GetDocument(r) ==
    /\ at[r] = "idle"
    /\ \E h \in hits[r] :
         \/ h.live /\ Ends(r, rows[h.doc][h.index].hash)
         \/ ~h.live /\ Ends(r, "not found")
         \/ Ends(r, "error")
    /\ UNCHANGED <<vars, hits>>

SearchNext == \/ CommandStep
              \/ \E r \in Readers : \/ \E k \in TopKs : Search(r, k)
                                    \/ EmbedQuery(r)
                                    \/ Select(r)
                                    \/ GetDocument(r)

SearchSpec == SearchInit /\ [][SearchNext]_<<vars, readerVars>>
--------------------------------------------------------------------------------
(* get_document answers with the text whose excerpt the hit showed, or not  *)
(* at all: no replacement puts another text under the id of a hit, however  *)
(* long ago the search was (ADR-0007, consequence 3), unless versions met.  *)
FetchedTextIsTheHits ==
    \A r \in Readers : \A h \in hits[r] :
        h.live /\ claim[h.doc] # Mixed
          => rows[h.doc][h.index] # NoRow /\ rows[h.doc][h.index].hash = h.text

(* Why: the commands keep their invariant whatever readers do, and a live   *)
(* hit has its row, also where nothing is known of the document.            *)
SearchInv == /\ LifecycleInv
             /\ SearchTypeOK
             /\ \A r \in Readers : \A h \in hits[r] :
                  h.live => rows[h.doc][h.index] # NoRow
             /\ FetchedTextIsTheHits
==================================================================================
