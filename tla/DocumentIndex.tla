------------------------------ MODULE DocumentIndex ------------------------------
(***************************************************************************)
(* What the search index promises about one document, seen from outside:   *)
(* ADR-0007 turns a re-ingest into "nothing happens" or "the old version   *)
(* goes, the new version comes".  A document at rest holds exactly one     *)
(* version, while it is being replaced a reader sees a part of the NEW     *)
(* version only, and nothing is promised once a replacement was cut short  *)
(* or met another version half-way (Mixed), until the next replacement     *)
(* that starts from rest.  DocumentLifecycle implements this module.       *)
(***************************************************************************)
CONSTANTS Docs,      \* document_id values
          Images,    \* what a document can consist of: one row per chunk_index
          Mixed      \* no promise

VARIABLES content,   \* content[d]: the version d holds or is getting, or Mixed
          replacing  \* replacing[d]: somebody is between the delete and the last insert

avars == <<content, replacing>>

ATypeOK == /\ content \in [Docs -> Images \cup {Mixed}]
           /\ replacing \in [Docs -> BOOLEAN]

AInit == /\ content \in [Docs -> Images]
         /\ replacing = [d \in Docs |-> FALSE]

(* A replacement by version v starts from rest: whatever was there is gone. *)
StartReplace(d, v) ==
    /\ ~replacing[d]
    /\ content' = [content EXCEPT ![d] = v]
    /\ replacing' = [replacing EXCEPT ![d] = TRUE]

(* A version that needs no insert (a deletion) is there at once. *)
Install(d, v) ==
    /\ ~replacing[d]
    /\ content' = [content EXCEPT ![d] = v]
    /\ UNCHANGED replacing

(* The last writer is through, or the last one still at work is cut short. *)
Settle(d) ==
    /\ replacing[d]
    /\ replacing' = [replacing EXCEPT ![d] = FALSE]
    /\ UNCHANGED content

(* Another version, or a crash, meets a replacement that is under way. *)
Clash(d) ==
    /\ replacing[d]
    /\ content' = [content EXCEPT ![d] = Mixed]
    /\ replacing' \in {replacing, [replacing EXCEPT ![d] = FALSE]}

ANext == \E d \in Docs : \/ \E v \in Images : StartReplace(d, v) \/ Install(d, v)
                         \/ Settle(d)
                         \/ Clash(d)

ASpec == AInit /\ [][ANext]_avars
==================================================================================
