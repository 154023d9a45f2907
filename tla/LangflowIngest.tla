------------------------------ MODULE LangflowIngest ------------------------------
(***************************************************************************)
(* scripts/run_langflow_ingest.py and ingest_files                         *)
(* (src/knowledge_mcp/langflow_ingest.py): each host file is uploaded to   *)
(* Langflow, run through the Ingest flow, which adds rows to Langflow's    *)
(* Collection, and deleted from Langflow again; when all files are done    *)
(* the whole Collection is imported under a mapping from what a row says   *)
(* of its origin to the host path.  Several commands may run at once, each *)
(* request may fail or time out, and a command may die between two.        *)
(* What the import does to the table is LangflowImport's subject; here it  *)
(* is one step, and rows that no key maps and that name no source are left *)
(* out.                                                                    *)
(***************************************************************************)
EXTENDS Naturals, Sequences

CONSTANTS Files,       \* host files; a file stands for its host_source
          Names,       \* basenames of files and last parts of upload paths
          Name,        \* Name[f]: path.name
          LastPart,    \* LastPart[u][f]: Path(uploaded.path).name if upload u is of f
          Commands,    \* ingest commands running at once
          RowKeys,     \* what a row may say of its origin, in the order of _source_keys
          MaxUploads   \* bound: uploads made

Ids == 1 .. MaxUploads  \* an upload, by its id and its path at Langflow, both new
NoUpload == 0

ASSUME NameAssumption == Name \in [Files -> Names]
(* Langflow names an upload by the file's name or by the new id.             *)
ASSUME LastPartAssumption ==
    /\ LastPart \in [Ids -> [Files -> Names]]
    /\ \A u \in Ids, f, g \in Files :
         LastPart[u][f] # Name[f] =>
             /\ LastPart[u][f] # Name[g]
             /\ \A v \in Ids \ {u} : LastPart[u][f] # LastPart[v][g]
ASSUME MaxUploadsAssumption == MaxUploads \in Nat
ASSUME RowKeysAssumption ==
    RowKeys \subseteq {keys \in Seq({"path", "part", "name"}) : Len(keys) <= 3}
ASSUME KeysAssumption == Names \cap Ids = {} /\ Files \cap (Ids \cup Names) = {}

VARIABLES fileOf,      \* history: the file of each upload so far, in their order
          uploads,     \* uploads in Langflow's storage
          flows,       \* runs the client has given up on and Langflow has not
          collection,  \* rows of the Collection
          index,       \* index[s]: uploads whose text is in the document with source s
          pc, targets, todo, cur, failed, overrides,
          mine,        \* history: uploads of this command
          leaked       \* history: uploads a request or a command failed to take away

command == <<pc, targets, todo, cur, failed, overrides, mine>>
langflow == <<fileOf, uploads, flows, collection>>
vars == <<fileOf, uploads, flows, collection, index, pc, targets, todo, cur, failed,
          overrides, mine, leaked>>

(* Each of its keys is the path of the upload, the last part of that path or *)
(* the name of the file; a row whose source is the upload path has it first. *)
Rows == [up : DOMAIN fileOf, keys : RowKeys]
Sources == Files \cup Ids
Keys == Names \cup Ids
Empty == [k \in {} |-> k]

TypeOK == /\ fileOf \in Seq(Files) /\ Len(fileOf) <= MaxUploads
          /\ uploads \subseteq DOMAIN fileOf
          /\ flows \subseteq DOMAIN fileOf
          /\ collection \subseteq Rows
          /\ index \in [Sources -> SUBSET DOMAIN fileOf]
          /\ pc \in [Commands -> {"idle", "upload", "run", "delete", "sync"}]
          /\ targets \in [Commands -> SUBSET Files]
          /\ todo \in [Commands -> SUBSET Files]
          /\ cur \in [Commands -> Ids \cup {NoUpload}]
          /\ failed \in [Commands -> BOOLEAN]
          /\ DOMAIN overrides = Commands
          /\ \A c \in Commands : /\ DOMAIN overrides[c] \subseteq Keys
                                 /\ \A k \in DOMAIN overrides[c] : overrides[c][k] \in Files
          /\ mine \in [Commands -> SUBSET DOMAIN fileOf]
          /\ leaked \subseteq DOMAIN fileOf

Init == /\ fileOf = <<>>
        /\ uploads = {} /\ flows = {} /\ collection = {}
        /\ index = [s \in Sources |-> {}]
        /\ pc = [c \in Commands |-> "idle"]
        /\ targets = [c \in Commands |-> {}]
        /\ todo = [c \in Commands |-> {}]
        /\ cur = [c \in Commands |-> NoUpload]
        /\ failed = [c \in Commands |-> FALSE]
        /\ overrides = [c \in Commands |-> Empty]
        /\ mine = [c \in Commands |-> {}]
        /\ leaked = {}

--------------------------------------------------------------------------------
(* The command ends: it returns, raises or is killed. *)
Leave(c) ==
    /\ pc' = [pc EXCEPT ![c] = "idle"]
    /\ targets' = [targets EXCEPT ![c] = {}]
    /\ todo' = [todo EXCEPT ![c] = {}]
    /\ cur' = [cur EXCEPT ![c] = NoUpload]
    /\ failed' = [failed EXCEPT ![c] = FALSE]
    /\ overrides' = [overrides EXCEPT ![c] = Empty]
    /\ mine' = [mine EXCEPT ![c] = {}]

(* Mutant: the names map although another file of the command bears them. *)
AnyNameOverrides(u, f, all) == [k \in {u, Name[f], LastPart[u][f]} |-> f]

(* What ingest_files adds to sync_overrides for an upload: its path, and if  *)
(* no other file of the command has the name of this one, that name and the  *)
(* last part of the path.                                                    *)
Overrides(u, f, all) ==
    [k \in {u} \cup {n \in {Name[f], LastPart[u][f]} : \A g \in all \ {f} : Name[g] # Name[f]}
       |-> f]

(* Keys a dict already has get the new value. *)
Updated(over, new) ==
    [k \in DOMAIN over \cup DOMAIN new |-> IF k \in DOMAIN new THEN new[k] ELSE over[k]]

(* map_langflow_rows and remap_sources: a row is filed under what the first  *)
(* of its keys that the mapping has leads to; a row no key maps keeps its    *)
(* source.                                                                   *)
Part(u) == LastPart[u][fileOf[u]]
Key(row, i) == [path |-> row.up, part |-> Part(row.up), name |-> Name[fileOf[row.up]]][row.keys[i]]

SourcesOf(row, over) ==
    LET mapped == {i \in DOMAIN row.keys : Key(row, i) \in DOMAIN over}
    IN IF mapped # {}
         THEN {over[Key(row, i)] : i \in {n \in mapped : \A m \in mapped : n <= m}}
         ELSE {row.up : i \in {n \in DOMAIN row.keys : n = 1 /\ row.keys[n] = "path"}}

(* import_langflow: every source of the Collection becomes a document again; *)
(* documents of other sources stay.                                          *)
Imported(over) ==
    LET filed == UNION {{<<row.up, s>> : s \in SourcesOf(row, over)} : row \in collection}
    IN [s \in Sources |-> LET ups == {p[1] : p \in {q \in filed : q[2] = s}}
                          IN IF ups = {} THEN index[s] ELSE ups]

--------------------------------------------------------------------------------
(* resolve_ingest_paths, authenticate and resolve_flow_id; a command they    *)
(* fail for changes nothing.                                                 *)
Begin(c) ==
    /\ pc[c] = "idle"
    /\ \E all \in (SUBSET Files) \ {{}} :
         /\ targets' = [targets EXCEPT ![c] = all]
         /\ todo' = [todo EXCEPT ![c] = all]
    /\ pc' = [pc EXCEPT ![c] = "upload"]
    /\ UNCHANGED <<index, cur, failed, overrides, mine, leaked>> /\ UNCHANGED langflow

(* upload_file of the next file: its answer names the upload, or Langflow has *)
(* stored the file and the answer is lost or says too little (extract_upload). *)
Upload(c) ==
    /\ pc[c] = "upload" /\ Len(fileOf) < MaxUploads
    /\ LET u == Len(fileOf) + 1
       IN /\ \E f \in todo[c] :
               /\ fileOf' = Append(fileOf, f)
               /\ uploads' = uploads \cup {u}
               /\ \/ /\ cur' = [cur EXCEPT ![c] = u]
                     /\ pc' = [pc EXCEPT ![c] = "run"]
                     /\ mine' = [mine EXCEPT ![c] = @ \cup {u}]
                     /\ UNCHANGED <<targets, todo, failed, overrides, leaked>>
                  \/ /\ Leave(c)
                     /\ leaked' = leaked \cup {u}
    /\ UNCHANGED <<flows, collection, index>>

UploadFails(c) ==
    /\ pc[c] = "upload"
    /\ Leave(c)
    /\ UNCHANGED <<index, leaked>> /\ UNCHANGED langflow

(* run_ingest: the flow has added the rows of the file. *)
RunSucceeds(c) ==
    /\ pc[c] = "run"
    /\ \E keys \in RowKeys :
         collection' = collection \cup {[up |-> cur[c], keys |-> keys]}
    /\ pc' = [pc EXCEPT ![c] = "delete"]
    /\ UNCHANGED <<fileOf, uploads, flows, index, targets, todo, cur, failed, overrides, mine, leaked>>

(* Mutants: no finally around the run; its failure goes unnoticed. *)
RunFailsWithoutCleanUp(c) ==
    /\ pc[c] = "run"
    /\ flows' = flows \cup {cur[c]}
    /\ Leave(c)
    /\ UNCHANGED <<fileOf, uploads, collection, index, leaked>>
RunFailsUnnoticed(c) ==
    /\ pc[c] = "run"
    /\ pc' = [pc EXCEPT ![c] = "delete"]
    /\ UNCHANGED <<fileOf, uploads, flows, collection, index, targets, todo, cur, failed,
                   overrides, mine, leaked>>

(* An error, or no answer within langflow_timeout: then the flow may still be *)
(* running (LANGFLOW_RUN_TIMEOUT).                                            *)
RunFails(c) ==
    /\ pc[c] = "run"
    /\ \/ flows' = flows \cup {cur[c]}
       \/ UNCHANGED flows
    /\ failed' = [failed EXCEPT ![c] = TRUE]
    /\ pc' = [pc EXCEPT ![c] = "delete"]
    /\ UNCHANGED <<fileOf, uploads, collection, index, targets, todo, cur, overrides, mine, leaked>>

(* A flow nobody waits for any more ends, with or without its rows. *)
LateRun(u) ==
    /\ u \in flows
    /\ flows' = flows \ {u}
    /\ \/ UNCHANGED collection
       \/ \E keys \in RowKeys :
            collection' = collection \cup {[up |-> u, keys |-> keys]}
    /\ UNCHANGED <<fileOf, uploads, index, leaked>> /\ UNCHANGED command

(* delete_file in the finally of ingest_files; a failed run raises after it. *)
DeleteFile(c) ==
    /\ pc[c] = "delete"
    /\ uploads' = uploads \ {cur[c]}
    /\ \/ failed[c] /\ Leave(c)
       \/ /\ ~failed[c]
          /\ LET f == fileOf[cur[c]]
             IN /\ overrides' = [overrides EXCEPT ![c] = Updated(@, Overrides(cur[c], f, targets[c]))]
                /\ todo' = [todo EXCEPT ![c] = @ \ {f}]
                /\ pc' = [pc EXCEPT ![c] = IF todo[c] = {f} THEN "sync" ELSE "upload"]
          /\ cur' = [cur EXCEPT ![c] = NoUpload]
          /\ UNCHANGED <<targets, failed, mine>>
    /\ UNCHANGED <<fileOf, flows, collection, index, leaked>>

(* delete_file raises, whether or not Langflow has deleted the file. *)
DeleteFileFails(c) ==
    /\ pc[c] = "delete"
    /\ \/ uploads' = uploads \ {cur[c]} /\ UNCHANGED leaked
       \/ UNCHANGED uploads /\ leaked' = leaked \cup {cur[c]}
    /\ Leave(c)
    /\ UNCHANGED <<fileOf, flows, collection, index>>

(* sync(sync_overrides). *)
Sync(c) ==
    /\ pc[c] = "sync"
    /\ index' = Imported(overrides[c])
    /\ Leave(c)
    /\ UNCHANGED leaked /\ UNCHANGED langflow

(* scripts/import_langflow.py on its own. *)
ImportLangflow ==
    /\ index' = Imported(Empty)
    /\ UNCHANGED leaked /\ UNCHANGED langflow /\ UNCHANGED command

(* The command is killed, or its import fails; a flow it waits for goes on. *)
Crash(c) ==
    /\ pc[c] # "idle"
    /\ leaked' = leaked \cup ({cur[c]} \cap uploads)
    /\ \/ pc[c] = "run" /\ flows' = flows \cup {cur[c]}
       \/ UNCHANGED flows
    /\ Leave(c)
    /\ UNCHANGED <<fileOf, uploads, collection, index>>

Next == \/ ImportLangflow
        \/ \E u \in Ids : LateRun(u)
        \/ \E c \in Commands : \/ Begin(c)
                               \/ Upload(c)
                               \/ UploadFails(c)
                               \/ RunSucceeds(c)
                               \/ RunFails(c)
                               \/ DeleteFile(c)
                               \/ DeleteFileFails(c)
                               \/ Sync(c)
                               \/ Crash(c)

Spec == Init /\ [][Next]_vars
--------------------------------------------------------------------------------
(* Langflow keeps no original: an upload is deleted on every path through    *)
(* ingest_files, unless the command was killed before or the answer to the   *)
(* upload was lost or the deletion failed                                    *)
(* (docs/decisions/ADR-0008-host-originals-langflow-api.md, consequences).   *)
NoUploadLeft == uploads \ leaked \subseteq {cur[c] : c \in Commands}

(* Why, as an inductive invariant: a command between requests holds the      *)
(* upload it is at and no other; the files it is done with have their rows;  *)
(* paths map to the file of their upload, names to the only file of the      *)
(* command that has them.                                                    *)
OnlyOfItsName(f, all) == \A g \in all \ {f} : Name[g] # Name[f]

RightKey(k, f, c) ==
    \/ k \in DOMAIN fileOf /\ f = fileOf[k]
    \/ /\ k = Name[f] \/ \E u \in mine[c] : fileOf[u] = f /\ k = Part(u)
       /\ OnlyOfItsName(f, targets[c])

InPlace(c) ==
    /\ todo[c] \subseteq targets[c]
    /\ pc[c] \in {"idle", "upload", "sync"} => cur[c] = NoUpload
    /\ pc[c] = "idle" => DOMAIN overrides[c] = {}
    /\ pc[c] \in {"run", "delete"} => cur[c] \in mine[c] /\ fileOf[cur[c]] \in todo[c]
    /\ pc[c] = "delete" /\ ~failed[c] => \E row \in collection : row.up = cur[c]
    /\ pc[c] = "sync" => todo[c] = {}
    /\ \A f \in targets[c] \ todo[c] : \E row \in collection :
         row.up \in mine[c] /\ fileOf[row.up] = f
    /\ \A u \in mine[c] : fileOf[u] \in targets[c]
    /\ mine[c] \subseteq DOMAIN overrides[c] \cup {cur[c]}
    /\ \A k \in DOMAIN overrides[c] : RightKey(k, overrides[c][k], c)

IngestInv == TypeOK /\ NoUploadLeft /\ \A c \in Commands : InPlace(c)

(* A command that imports has run every one of its files, and a row that     *)
(* records its upload path is imported under its own file's host path,       *)
(* whatever other commands and late flows have put into the Collection.      *)
RecordsPath(row) == \E i \in DOMAIN row.keys : row.keys[i] = "path"

OwnTextFiled ==
    [][\A c \in Commands : Sync(c) =>
         \A f \in targets[c] : \E row \in collection :
            /\ row.up \in mine[c] /\ fileOf[row.up] = f
            /\ RecordsPath(row) => row.up \in index'[f]]_vars

(* What else a command files under one of its files: text of a file of the   *)
(* same name that another command ingested, and only if this command has no  *)
(* second file of that name; never text of a file of another name, nor of    *)
(* another of its own (docs/current/features/ingest.md: equal names in       *)
(* different directories do not overwrite).                                  *)
NamesakesStayApart ==
    [][\A c \in Commands : Sync(c) =>
         \A row \in collection :
            row.up \in mine[c] /\ RecordsPath(row) =>
               LET f == fileOf[row.up] IN
               \A u \in index'[f] :
                  \/ fileOf[u] = f
                  \/ /\ u \notin mine[c] /\ Name[fileOf[u]] = Name[f]
                     /\ OnlyOfItsName(f, targets[c])]_vars

(* docs/decisions/ADR-0008-host-originals-langflow-api.md, decision 3: the  *)
(* path of an upload is not what a document's parent id is made from.       *)
UploadPathIsNoSource == \A u \in Ids : index[u] = {}
===================================================================================
