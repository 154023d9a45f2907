--------------------------- MODULE LangflowIngestProofs ---------------------------
(***************************************************************************)
(* What LangflowIngest guarantees for every set of files and names and any *)
(* number of commands and uploads, whichever requests fail.                *)
(***************************************************************************)
EXTENDS LangflowIngest, TLAPS

(* No upload has the number NoUpload, and an upload is no file and no name. *)
LEMMA UploadsAreIds ==
  ASSUME TypeOK
  PROVE  /\ DOMAIN fileOf \subseteq Ids /\ NoUpload \notin Ids
         /\ \A u \in DOMAIN fileOf : fileOf[u] \in Files
         /\ \A f \in Files : Name[f] \in Names /\ f \notin Ids
         /\ \A u \in Ids, f \in Files : LastPart[u][f] \in Names
         /\ \A k \in Names : k \notin Ids
<1>1. fileOf \in Seq(Files) /\ Len(fileOf) \in Nat /\ Len(fileOf) <= MaxUploads
      /\ DOMAIN fileOf = 1 .. Len(fileOf)
  BY DEF TypeOK
<1>2. DOMAIN fileOf \subseteq Ids /\ NoUpload \notin Ids
  BY <1>1, MaxUploadsAssumption DEF Ids, NoUpload
<1>3. \A u \in DOMAIN fileOf : fileOf[u] \in Files
  BY <1>1
<1> QED
  BY <1>2, <1>3, NameAssumption, LastPartAssumption, KeysAssumption

(* The variables that are not a command's, each with its type. *)
SharedTypes ==
    /\ fileOf \in Seq(Files) /\ Len(fileOf) <= MaxUploads
    /\ uploads \subseteq DOMAIN fileOf
    /\ flows \subseteq DOMAIN fileOf
    /\ collection \subseteq Rows
    /\ index \in [Sources -> SUBSET DOMAIN fileOf]
    /\ leaked \subseteq DOMAIN fileOf

(* The variables of the commands. *)
CommandTypes ==
    /\ pc \in [Commands -> {"idle", "upload", "run", "delete", "sync"}]
    /\ targets \in [Commands -> SUBSET Files]
    /\ todo \in [Commands -> SUBSET Files]
    /\ cur \in [Commands -> Ids \cup {NoUpload}]
    /\ failed \in [Commands -> BOOLEAN]
    /\ DOMAIN overrides = Commands
    /\ \A c \in Commands : /\ DOMAIN overrides[c] \subseteq Keys
                           /\ \A k \in DOMAIN overrides[c] : overrides[c][k] \in Files
    /\ mine \in [Commands -> SUBSET DOMAIN fileOf]

LEMMA Types == TypeOK <=> SharedTypes /\ CommandTypes
  BY DEF TypeOK, SharedTypes, CommandTypes

(* Nothing of the commands other than c changes. *)
OthersRest(c) ==
    \A x \in Commands \ {c} :
        /\ pc'[x] = pc[x] /\ targets'[x] = targets[x] /\ todo'[x] = todo[x]
        /\ cur'[x] = cur[x] /\ failed'[x] = failed[x] /\ overrides'[x] = overrides[x]
        /\ mine'[x] = mine[x]

(* Uploads keep their files and rows stay in the Collection. *)
Grows == /\ DOMAIN fileOf \subseteq DOMAIN fileOf'
         /\ \A u \in DOMAIN fileOf : fileOf'[u] = fileOf[u]
         /\ collection \subseteq collection'

(* What a mapping says goes on being right. *)
LEMMA KeysStayRight ==
  ASSUME IngestInv, NEW x \in Commands, Grows, targets'[x] = targets[x],
         mine[x] \subseteq mine'[x], NEW k, NEW f, RightKey(k, f, x)
  PROVE  RightKey(k, f, x)'
<1>1. mine[x] \subseteq DOMAIN fileOf
  BY DEF IngestInv, TypeOK
<1>2. CASE k \in DOMAIN fileOf /\ f = fileOf[k]
  BY <1>2 DEF RightKey, Grows
<1>3. CASE \E u \in mine[x] : fileOf[u] = f /\ k = Part(u)
  <2>1. PICK u \in mine[x] : fileOf[u] = f /\ k = Part(u)
    BY <1>3
  <2>2. u \in mine'[x] /\ fileOf'[u] = f /\ k = Part(u)'
    BY <1>1, <2>1 DEF Grows, Part
  <2> QED
    BY <1>2, <2>2 DEF RightKey, OnlyOfItsName
<1>4. CASE k = Name[f]
  BY <1>2, <1>4 DEF RightKey, OnlyOfItsName
<1> QED
  BY <1>2, <1>3, <1>4 DEF RightKey

(* A command that does not move stays in place while uploads and rows come.  *)
LEMMA RestInPlace ==
  ASSUME IngestInv, NEW x \in Commands, Grows,
         pc'[x] = pc[x], targets'[x] = targets[x], todo'[x] = todo[x],
         cur'[x] = cur[x], failed'[x] = failed[x], overrides'[x] = overrides[x],
         mine'[x] = mine[x]
  PROVE  InPlace(x)'
<1>1. InPlace(x) /\ CommandTypes
  BY Types DEF IngestInv
<1>2. mine[x] \subseteq DOMAIN fileOf
  BY <1>1 DEF CommandTypes
<1>3. \A f \in targets[x] \ todo[x] : \E row \in collection' :
        row.up \in mine[x] /\ fileOf'[row.up] = f
  BY <1>1, <1>2 DEF InPlace, Grows
<1>4. \A k \in DOMAIN overrides[x] : RightKey(k, overrides[x][k], x)'
  BY <1>1, KeysStayRight DEF InPlace
<1>5. /\ pc[x] \in {"idle", "upload", "sync"} => cur[x] = NoUpload
      /\ pc[x] \in {"run", "delete"} => cur[x] \in mine[x] /\ fileOf'[cur[x]] \in todo[x]
      /\ pc[x] = "delete" /\ ~failed[x] => \E row \in collection' : row.up = cur[x]
      /\ pc[x] = "sync" => todo[x] = {}
      /\ mine[x] \subseteq DOMAIN overrides[x] \cup {cur[x]}
  BY <1>1, <1>2 DEF InPlace, Grows
<1>6. /\ pc[x] = "idle" => DOMAIN overrides[x] = {}
      /\ todo[x] \subseteq targets[x] /\ \A u \in mine[x] : fileOf'[u] \in targets[x]
  BY <1>1, <1>2 DEF InPlace, Grows
<1> QED
  BY <1>3, <1>4, <1>5, <1>6 DEF InPlace

(* A step of command c is right if its types are, c is in place after it and *)
(* no upload is left.                                                        *)
LEMMA CommandStep ==
  ASSUME IngestInv, NEW c \in Commands, Grows, SharedTypes', CommandTypes', OthersRest(c),
         InPlace(c)',
         uploads' \ leaked' \subseteq (uploads \ leaked) \cup {cur'[c]},
         cur[c] \in uploads' \ leaked' => cur'[c] = cur[c]
  PROVE  IngestInv'
<1>1. TypeOK'
  BY Types DEF TypeOK, SharedTypes, CommandTypes
<1>2. NoUploadLeft'
  BY DEF IngestInv, NoUploadLeft, OthersRest
<1>3. ASSUME NEW x \in Commands, x # c
      PROVE  InPlace(x)'
  BY <1>3, RestInPlace DEF OthersRest
<1> QED
  BY <1>1, <1>2, <1>3 DEF IngestInv

(* A command that leaves is in place. *)
LEMMA LeaveKeeps ==
  ASSUME IngestInv, NEW c \in Commands, Leave(c), DOMAIN fileOf \subseteq DOMAIN fileOf'
  PROVE  CommandTypes' /\ OthersRest(c) /\ InPlace(c)' /\ cur'[c] = NoUpload
<1>1. CommandTypes
  BY Types DEF IngestInv
<1>2. /\ pc' = [pc EXCEPT ![c] = "idle"] /\ targets' = [targets EXCEPT ![c] = {}]
      /\ todo' = [todo EXCEPT ![c] = {}] /\ cur' = [cur EXCEPT ![c] = NoUpload]
      /\ failed' = [failed EXCEPT ![c] = FALSE] /\ overrides' = [overrides EXCEPT ![c] = Empty]
      /\ mine' = [mine EXCEPT ![c] = {}]
  BY DEF Leave
<1>3. DOMAIN Empty = {}
  BY DEF Empty
<1>4. /\ pc' \in [Commands -> {"idle", "upload", "run", "delete", "sync"}]
      /\ targets' \in [Commands -> SUBSET Files]
      /\ todo' \in [Commands -> SUBSET Files]
      /\ cur' \in [Commands -> Ids \cup {NoUpload}]
      /\ failed' \in [Commands -> BOOLEAN]
      /\ mine' \in [Commands -> SUBSET DOMAIN fileOf']
  <2>1. mine \in [Commands -> SUBSET DOMAIN fileOf']
    BY <1>1 DEF CommandTypes
  <2> QED
    BY <1>1, <1>2, <2>1 DEF CommandTypes
<1>5. DOMAIN overrides' = Commands /\ overrides'[c] = Empty
      /\ \A x \in Commands \ {c} : overrides'[x] = overrides[x]
  BY <1>1, <1>2 DEF CommandTypes
<1>6. CommandTypes'
  BY <1>1, <1>3, <1>4, <1>5 DEF CommandTypes
<1>7. OthersRest(c)
  BY <1>1, <1>2, <1>5 DEF CommandTypes, OthersRest
<1>8. pc'[c] = "idle" /\ targets'[c] = {} /\ todo'[c] = {} /\ cur'[c] = NoUpload /\ mine'[c] = {}
  BY <1>1, <1>2 DEF CommandTypes
<1>9. InPlace(c)'
  BY <1>3, <1>5, <1>8 DEF InPlace
<1> QED
  BY <1>6, <1>7, <1>8, <1>9

--------------------------------------------------------------------------------
LEMMA BeginKeeps ==
  ASSUME IngestInv, NEW c \in Commands, Begin(c)
  PROVE  IngestInv'
<1>1. CommandTypes /\ SharedTypes /\ InPlace(c) /\ pc[c] = "idle"
  BY Types DEF IngestInv, Begin
<1>2. PICK all \in SUBSET Files : /\ targets' = [targets EXCEPT ![c] = all]
                                 /\ todo' = [todo EXCEPT ![c] = all]
  BY DEF Begin
<1>3. /\ pc' = [pc EXCEPT ![c] = "upload"]
      /\ UNCHANGED <<index, cur, failed, overrides, mine, leaked>>
      /\ UNCHANGED <<fileOf, uploads, flows, collection>>
  BY DEF Begin, langflow
<1>4. CommandTypes' /\ OthersRest(c)
  BY <1>1, <1>2, <1>3 DEF CommandTypes, OthersRest
<1>5. SharedTypes' /\ Grows
  BY <1>1, <1>3 DEF SharedTypes, Grows, Rows
<1>6. targets'[c] = all /\ todo'[c] = all /\ pc'[c] = "upload"
  BY <1>1, <1>2, <1>3 DEF CommandTypes
<1>7. mine[c] = {} /\ cur[c] = NoUpload /\ DOMAIN overrides[c] = {}
  <2>1. mine[c] \subseteq DOMAIN fileOf /\ cur[c] = NoUpload /\ NoUpload \notin DOMAIN fileOf
    BY <1>1, UploadsAreIds, Types DEF CommandTypes, InPlace
  <2> QED
    BY <1>1, <2>1 DEF InPlace
<1>8. InPlace(c)'
  BY <1>3, <1>6, <1>7 DEF InPlace
<1> QED
  BY <1>3, <1>4, <1>5, <1>8, CommandStep

(* The upload gets the next number and belongs to its file. *)
LEMMA NextUpload ==
  ASSUME IngestInv, NEW f \in Files, Len(fileOf) < MaxUploads,
         NEW u, u = Len(fileOf) + 1, fileOf' = Append(fileOf, f)
  PROVE  /\ fileOf' \in Seq(Files) /\ Len(fileOf') <= MaxUploads
         /\ DOMAIN fileOf' = DOMAIN fileOf \cup {u} /\ u \in Ids
         /\ \A v \in DOMAIN fileOf : fileOf'[v] = fileOf[v]
         /\ u \notin DOMAIN fileOf /\ fileOf'[u] = f
<1>1. fileOf \in Seq(Files) /\ Len(fileOf) \in Nat /\ DOMAIN fileOf = 1 .. Len(fileOf)
  BY DEF IngestInv, TypeOK
<1>2. /\ fileOf' \in Seq(Files) /\ Len(fileOf') = u /\ DOMAIN fileOf' = 1 .. u
      /\ \A v \in 1 .. Len(fileOf) : fileOf'[v] = fileOf[v]
      /\ fileOf'[u] = f
  BY <1>1
<1> QED
  BY <1>1, <1>2, MaxUploadsAssumption DEF Ids

LEMMA UploadKeeps ==
  ASSUME IngestInv, NEW c \in Commands, Upload(c)
  PROVE  IngestInv'
<1> DEFINE u == Len(fileOf) + 1
<1>1. CommandTypes /\ SharedTypes /\ InPlace(c) /\ pc[c] = "upload"
  BY Types DEF IngestInv, Upload
<1>2. PICK f \in todo[c] :
        /\ fileOf' = Append(fileOf, f) /\ uploads' = uploads \cup {u}
        /\ \/ /\ cur' = [cur EXCEPT ![c] = u]
              /\ pc' = [pc EXCEPT ![c] = "run"]
              /\ mine' = [mine EXCEPT ![c] = @ \cup {u}]
              /\ UNCHANGED <<targets, todo, failed, overrides, leaked>>
           \/ Leave(c) /\ leaked' = leaked \cup {u}
  BY DEF Upload
<1>3. f \in Files /\ Len(fileOf) < MaxUploads /\ UNCHANGED <<flows, collection, index>>
  BY <1>1 DEF CommandTypes, Upload
<1>4. /\ fileOf' \in Seq(Files) /\ Len(fileOf') <= MaxUploads
      /\ DOMAIN fileOf' = DOMAIN fileOf \cup {u} /\ u \in Ids
      /\ \A v \in DOMAIN fileOf : fileOf'[v] = fileOf[v]
      /\ u \notin DOMAIN fileOf /\ fileOf'[u] = f
  <2> HIDE DEF u
  <2>1. u = Len(fileOf) + 1
    BY DEF u
  <2> QED
    BY <1>2, <1>3, <2>1, NextUpload
<1> HIDE DEF u
<1>5. Grows
  BY <1>3, <1>4 DEF Grows
<1>6. SharedTypes'
  <2>1. index' \in [Sources -> SUBSET DOMAIN fileOf']
    BY <1>1, <1>3, <1>4 DEF SharedTypes
  <2>2. leaked' \subseteq leaked \cup {u}
    BY <1>2
  <2> QED
    BY <1>1, <1>2, <1>3, <1>4, <2>1, <2>2 DEF SharedTypes, Rows
<1>7. cur[c] = NoUpload /\ NoUpload \notin DOMAIN fileOf' /\ uploads' \subseteq DOMAIN fileOf'
  BY <1>1, <1>4, <1>6, UploadsAreIds, Types DEF InPlace, SharedTypes
<1>8. CASE Leave(c) /\ leaked' = leaked \cup {u}
  <2>1. CommandTypes' /\ OthersRest(c) /\ InPlace(c)' /\ cur'[c] = NoUpload
    BY <1>5, <1>8, LeaveKeeps DEF Grows
  <2> QED
    BY <1>2, <1>5, <1>6, <1>7, <1>8, <2>1, CommandStep
<1>9. CASE /\ cur' = [cur EXCEPT ![c] = u] /\ pc' = [pc EXCEPT ![c] = "run"]
           /\ mine' = [mine EXCEPT ![c] = @ \cup {u}]
           /\ UNCHANGED <<targets, todo, failed, overrides, leaked>>
  <2>1. mine' \in [Commands -> SUBSET DOMAIN fileOf']
    BY <1>1, <1>4, <1>9 DEF CommandTypes
  <2>2. CommandTypes' /\ OthersRest(c)
    BY <1>1, <1>4, <1>9, <2>1 DEF CommandTypes, OthersRest
  <2>3. pc'[c] = "run" /\ cur'[c] = u /\ mine'[c] = mine[c] \cup {u} /\ mine[c] \subseteq DOMAIN fileOf
    BY <1>1, <1>9 DEF CommandTypes
  <2>4. InPlace(c)'
    <3>1. \A g \in targets[c] \ todo[c] : \E row \in collection' :
            row.up \in mine'[c] /\ fileOf'[row.up] = g
      BY <1>1, <1>3, <1>4, <2>3 DEF InPlace
    <3>2. mine'[c] \subseteq DOMAIN overrides[c] \cup {u}
      BY <1>1, <1>7, <1>4, <2>3 DEF InPlace
    <3>3. \A k \in DOMAIN overrides[c] : RightKey(k, overrides[c][k], c)'
      BY <1>1, <1>5, <1>9, <2>3, KeysStayRight DEF InPlace
    <3>4. todo[c] \subseteq targets[c] /\ \A v \in mine'[c] : fileOf'[v] \in targets[c]
      BY <1>1, <1>2, <1>4, <2>3 DEF InPlace
    <3> QED
      BY <1>1, <1>2, <1>4, <1>9, <2>3, <3>1, <3>2, <3>3, <3>4 DEF InPlace
  <2> QED
    BY <1>2, <1>5, <1>6, <1>7, <1>9, <2>2, <2>3, <2>4, CommandStep
<1> QED
  BY <1>2, <1>8, <1>9

(* Steps that leave the uploads made so far alone. *)
LEMMA Standing ==
  ASSUME IngestInv, UNCHANGED fileOf, collection \subseteq collection'
  PROVE  Grows
  BY DEF Grows

(* A command that fails, is killed or imports has nothing left at Langflow   *)
(* that it did not fail to take away.                                        *)
LEMMA LeavingKeeps ==
  ASSUME IngestInv, NEW c \in Commands, Leave(c), UNCHANGED <<fileOf, collection>>,
         uploads' \subseteq uploads, leaked \subseteq leaked', leaked' \subseteq DOMAIN fileOf,
         cur[c] \notin uploads' \ leaked',
         flows' \subseteq DOMAIN fileOf, index' \in [Sources -> SUBSET DOMAIN fileOf]
  PROVE  IngestInv'
<1>1. CommandTypes' /\ OthersRest(c) /\ InPlace(c)' /\ cur'[c] = NoUpload
  BY LeaveKeeps
<1>2. SharedTypes'
  BY DEF IngestInv, TypeOK, SharedTypes, Rows
<1> QED
  BY <1>1, <1>2, Standing, CommandStep

LEMMA FailuresKeep ==
  ASSUME IngestInv, NEW c \in Commands, UploadFails(c) \/ DeleteFileFails(c) \/ Crash(c)
  PROVE  IngestInv'
<1>1. SharedTypes /\ CommandTypes /\ InPlace(c) /\ NoUpload \notin DOMAIN fileOf
  BY UploadsAreIds, Types DEF IngestInv
<1>2. CASE UploadFails(c)
  <2>1. cur[c] \notin uploads /\ Leave(c)
    BY <1>1, <1>2 DEF SharedTypes, InPlace, UploadFails
  <2> QED
    BY <1>1, <1>2, <2>1, LeavingKeeps DEF SharedTypes, UploadFails, langflow
<1>3. CASE DeleteFileFails(c)
  <2>1. cur[c] \in DOMAIN fileOf /\ Leave(c)
    BY <1>1, <1>3 DEF CommandTypes, InPlace, DeleteFileFails
  <2> QED
    BY <1>1, <1>3, <2>1, LeavingKeeps DEF SharedTypes, DeleteFileFails
<1>4. CASE Crash(c)
  <2>1. leaked' = leaked \cup ({cur[c]} \cap uploads) /\ Leave(c)
        /\ UNCHANGED <<fileOf, uploads, collection, index>>
        /\ flows' \subseteq DOMAIN fileOf
    BY <1>1, <1>4 DEF Crash, SharedTypes, CommandTypes, InPlace
  <2> QED
    BY <1>1, <2>1, LeavingKeeps DEF SharedTypes
<1> QED
  BY <1>2, <1>3, <1>4

(* What an import leaves are uploads that were made. *)
LEMMA ImportedType ==
  ASSUME IngestInv, NEW over
  PROVE  Imported(over) \in [Sources -> SUBSET DOMAIN fileOf]
<1>1. index \in [Sources -> SUBSET DOMAIN fileOf] /\ \A row \in collection : row.up \in DOMAIN fileOf
  BY DEF IngestInv, TypeOK, Rows
<1> QED
  BY <1>1 DEF Imported

LEMMA SyncKeeps ==
  ASSUME IngestInv, NEW c \in Commands, Sync(c)
  PROVE  IngestInv'
<1>1. SharedTypes /\ CommandTypes /\ InPlace(c) /\ NoUpload \notin DOMAIN fileOf
  BY UploadsAreIds, Types DEF IngestInv
<1>2. /\ Leave(c) /\ UNCHANGED <<fileOf, uploads, flows, collection, leaked>>
      /\ index' \in [Sources -> SUBSET DOMAIN fileOf]
  BY ImportedType DEF Sync, langflow
<1>3. cur[c] \notin uploads
  BY <1>1 DEF SharedTypes, InPlace, Sync
<1> QED
  BY <1>1, <1>2, <1>3, LeavingKeeps DEF SharedTypes

(* An import on its own, a late flow and a step of nobody. *)
LEMMA NobodyKeeps ==
  ASSUME IngestInv, ImportLangflow \/ (\E u \in Ids : LateRun(u)) \/ UNCHANGED vars
  PROVE  IngestInv'
<1>1. SharedTypes /\ CommandTypes
  BY Types DEF IngestInv
<1>2. UNCHANGED <<fileOf, uploads, leaked>> /\ UNCHANGED command
  BY DEF ImportLangflow, LateRun, langflow, vars, command
<1>3. /\ flows' \subseteq flows
      /\ collection \subseteq collection' /\ collection' \subseteq Rows
  <2>1. ASSUME NEW u \in Ids, LateRun(u)
        PROVE  /\ flows' \subseteq flows
               /\ collection \subseteq collection' /\ collection' \subseteq Rows
    BY <1>1, <2>1 DEF LateRun, SharedTypes, Rows
  <2> QED
    BY <1>1, <2>1 DEF ImportLangflow, langflow, vars, SharedTypes
<1>4. index' \in [Sources -> SUBSET DOMAIN fileOf]
  BY <1>1, ImportedType DEF ImportLangflow, LateRun, vars, SharedTypes
<1>5. SharedTypes'
  BY <1>1, <1>2, <1>3, <1>4 DEF SharedTypes, Rows
<1>6. CommandTypes'
  BY <1>1, <1>2 DEF CommandTypes, command
<1>7. Grows
  BY <1>2, <1>3 DEF Grows
<1>8. \A x \in Commands : InPlace(x)'
  BY <1>2, <1>7, RestInPlace DEF command
<1>9. NoUploadLeft'
  BY <1>2 DEF IngestInv, NoUploadLeft, command
<1> QED
  BY <1>5, <1>6, <1>8, <1>9, Types DEF IngestInv, TypeOK, SharedTypes, CommandTypes

(* The flow has answered or failed: the file is deleted in both cases. *)
LEMMA RunKeeps ==
  ASSUME IngestInv, NEW c \in Commands, RunSucceeds(c) \/ RunFails(c)
  PROVE  IngestInv'
<1>1. SharedTypes /\ CommandTypes /\ InPlace(c) /\ pc[c] = "run"
  BY Types DEF IngestInv, RunSucceeds, RunFails
<1>2. cur[c] \in DOMAIN fileOf /\ cur[c] \in mine[c] /\ fileOf[cur[c]] \in todo[c]
  BY <1>1 DEF CommandTypes, InPlace
<1>3. /\ UNCHANGED <<fileOf, uploads, index, targets, todo, cur, overrides, mine, leaked>>
      /\ pc' = [pc EXCEPT ![c] = "delete"]
  BY DEF RunSucceeds, RunFails
<1>4. /\ collection \subseteq collection' /\ collection' \subseteq Rows
      /\ flows' \subseteq DOMAIN fileOf
      /\ \/ failed' = failed /\ \E row \in collection' : row.up = cur[c]
         \/ failed' = [failed EXCEPT ![c] = TRUE]
  <2>1. CASE RunSucceeds(c)
    <3>1. PICK keys \in RowKeys : collection' = collection \cup {[up |-> cur[c], keys |-> keys]}
      BY <2>1 DEF RunSucceeds
    <3>2. [up |-> cur[c], keys |-> keys] \in Rows
      BY <1>2 DEF Rows
    <3>3. \E row \in collection' : row.up = cur[c]
      <4>1. [up |-> cur[c], keys |-> keys].up = cur[c]
        OBVIOUS
      <4> QED
        BY <3>1, <4>1
    <3>4. failed' = failed /\ flows' = flows
      BY <2>1 DEF RunSucceeds
    <3> QED
      BY <1>1, <3>1, <3>2, <3>3, <3>4 DEF SharedTypes
  <2>2. CASE RunFails(c)
    BY <1>1, <1>2, <2>2 DEF RunFails, SharedTypes
  <2> QED
    BY <2>1, <2>2
<1>5. SharedTypes' /\ Grows
  BY <1>1, <1>3, <1>4 DEF SharedTypes, Rows, Grows
<1>6. CommandTypes' /\ OthersRest(c) /\ pc'[c] = "delete" /\ failed'[c] \in {failed[c], TRUE}
  BY <1>1, <1>3, <1>4 DEF CommandTypes, OthersRest
<1>7. ~failed'[c] => \E row \in collection' : row.up = cur[c]
  BY <1>1, <1>4 DEF CommandTypes
<1>8. \A k \in DOMAIN overrides[c] : RightKey(k, overrides[c][k], c)'
  BY <1>1, <1>3, <1>5, KeysStayRight DEF InPlace
<1>9. InPlace(c)'
  BY <1>1, <1>2, <1>3, <1>4, <1>6, <1>7, <1>8 DEF InPlace
<1> QED
  BY <1>3, <1>5, <1>6, <1>9, CommandStep

--------------------------------------------------------------------------------
(* What the mapping says after an upload is done with. *)
LEMMA UpdatedKeys ==
  ASSUME NEW over, NEW u, NEW f, NEW all
  PROVE  LET new == Updated(over, Overrides(u, f, all))
         IN  /\ DOMAIN new \subseteq DOMAIN over \cup {u, Name[f], LastPart[u][f]}
             /\ DOMAIN over \subseteq DOMAIN new /\ u \in DOMAIN new
             /\ \A k \in DOMAIN new :
                  \/ k \in DOMAIN over /\ new[k] = over[k]
                  \/ k = u /\ new[k] = f
                  \/ /\ k \in {Name[f], LastPart[u][f]} /\ new[k] = f
                     /\ OnlyOfItsName(f, all)
  BY DEF Updated, Overrides, OnlyOfItsName

LEMMA DeleteFileKeeps ==
  ASSUME IngestInv, NEW c \in Commands, DeleteFile(c)
  PROVE  IngestInv'
<1> DEFINE u == cur[c]
           f == fileOf[cur[c]]
           new == Updated(overrides[c], Overrides(cur[c], fileOf[cur[c]], targets[c]))
<1>1. SharedTypes /\ CommandTypes /\ InPlace(c) /\ pc[c] = "delete"
  BY Types DEF IngestInv, DeleteFile
<1>2. /\ u \in DOMAIN fileOf /\ u \in mine[c] /\ f \in todo[c] /\ f \in Files
      /\ Name[f] \in Names /\ LastPart[u][f] \in Names
      /\ u \in Ids /\ NoUpload \notin DOMAIN fileOf
  BY <1>1, UploadsAreIds, Types DEF CommandTypes, InPlace
<1>3. /\ uploads' = uploads \ {u} /\ UNCHANGED <<fileOf, flows, collection, index, leaked>>
      /\ \/ Leave(c)
         \/ /\ ~failed[c]
            /\ overrides' = [overrides EXCEPT ![c] = new]
            /\ todo' = [todo EXCEPT ![c] = todo[c] \ {f}]
            /\ pc' = [pc EXCEPT ![c] = IF todo[c] = {f} THEN "sync" ELSE "upload"]
            /\ cur' = [cur EXCEPT ![c] = NoUpload]
            /\ UNCHANGED <<targets, failed, mine>>
  BY <1>1 DEF DeleteFile, CommandTypes
<1>4. CASE Leave(c)
  BY <1>1, <1>3, <1>4, LeavingKeeps DEF SharedTypes
<1>5. CASE /\ ~failed[c]
           /\ overrides' = [overrides EXCEPT ![c] = new]
           /\ todo' = [todo EXCEPT ![c] = todo[c] \ {f}]
           /\ pc' = [pc EXCEPT ![c] = IF todo[c] = {f} THEN "sync" ELSE "upload"]
           /\ cur' = [cur EXCEPT ![c] = NoUpload]
           /\ UNCHANGED <<targets, failed, mine>>
  <2>1. /\ DOMAIN new \subseteq DOMAIN overrides[c] \cup {u, Name[f], LastPart[u][f]}
        /\ DOMAIN overrides[c] \subseteq DOMAIN new /\ u \in DOMAIN new
        /\ \A k \in DOMAIN new :
             \/ k \in DOMAIN overrides[c] /\ new[k] = overrides[c][k]
             \/ k = u /\ new[k] = f
             \/ /\ k \in {Name[f], LastPart[u][f]} /\ new[k] = f
                /\ OnlyOfItsName(f, targets[c])
    BY UpdatedKeys
  <2> HIDE DEF new
  <2>2. DOMAIN new \subseteq Keys /\ \A k \in DOMAIN new : new[k] \in Files
    BY <1>1, <1>2, <2>1 DEF CommandTypes, Keys
  <2>3. DOMAIN overrides' = Commands /\ overrides'[c] = new
        /\ \A x \in Commands \ {c} : overrides'[x] = overrides[x]
    BY <1>1, <1>5 DEF CommandTypes
  <2>4. CommandTypes'
    BY <1>1, <1>3, <1>5, <2>2, <2>3 DEF CommandTypes
  <2>5. OthersRest(c)
    BY <1>1, <1>5, <2>3 DEF CommandTypes, OthersRest
  <2>6. /\ pc'[c] \in {"sync", "upload"} /\ (pc'[c] = "sync" => todo[c] = {f})
        /\ cur'[c] = NoUpload /\ todo'[c] = todo[c] \ {f}
        /\ targets'[c] = targets[c] /\ mine'[c] = mine[c]
    BY <1>1, <1>5 DEF CommandTypes
  <2>7. \A g \in targets[c] \ todo'[c] : \E row \in collection' :
          row.up \in mine'[c] /\ fileOf'[row.up] = g
    <3>1. PICK row \in collection : row.up = u
      BY <1>1, <1>5 DEF InPlace
    <3>2. ASSUME NEW g \in targets[c] \ todo'[c]
          PROVE  \E r \in collection : r.up \in mine[c] /\ fileOf[r.up] = g
      <4>1. CASE g = f
        BY <1>2, <3>1, <4>1
      <4>2. CASE g # f
        BY <1>1, <2>6, <3>2, <4>2 DEF InPlace
      <4> QED
        BY <4>1, <4>2
    <3> QED
      BY <1>3, <2>6, <3>2
  <2>8. mine'[c] \subseteq DOMAIN overrides'[c] \cup {cur'[c]}
    BY <1>1, <2>1, <2>3, <2>6 DEF InPlace
  <2>9. SharedTypes' /\ Grows
    BY <1>1, <1>3 DEF SharedTypes, Grows, Rows
  <2>10. ASSUME NEW k \in DOMAIN new, NEW v, v = new[k]
        PROVE  RightKey(k, v, c)'
    <3>1. CASE k \in DOMAIN overrides[c] /\ new[k] = overrides[c][k]
      <4>1. RightKey(k, v, c)
        BY <1>1, <2>10, <3>1 DEF InPlace
      <4> QED
        BY <2>6, <2>9, <4>1, KeysStayRight
    <3>2. CASE k = u /\ new[k] = f
      BY <1>2, <1>3, <2>10, <3>2 DEF RightKey
    <3>3. CASE k \in {Name[f], LastPart[u][f]} /\ new[k] = f /\ OnlyOfItsName(f, targets[c])
      <4>1. PICK w \in mine[c] : w = u
        BY <1>2
      <4>2. w \in mine'[c] /\ fileOf'[w] = v /\ Part(w)' = LastPart[w][v]
        BY <1>2, <1>3, <2>6, <2>10, <3>3, <4>1 DEF Part
      <4>3. OnlyOfItsName(v, targets'[c])
        BY <2>6, <2>10, <3>3
      <4>4. k = Name[v] \/ k = Part(w)'
        BY <2>10, <3>3, <4>1, <4>2
      <4> QED
        BY <4>2, <4>3, <4>4 DEF RightKey, OnlyOfItsName
    <3> QED
      BY <2>1, <2>10, <3>1, <3>2, <3>3
  <2>11. InPlace(c)'
    <3>1. todo'[c] \subseteq targets'[c] /\ \A v \in mine'[c] : fileOf'[v] \in targets'[c]
      BY <1>1, <1>3, <2>6 DEF InPlace
    <3> QED
      BY <2>3, <2>6, <2>7, <2>8, <2>10, <3>1 DEF InPlace
  <2> QED
    BY <1>3, <2>4, <2>5, <2>6, <2>11, <2>9, CommandStep
<1> QED
  BY <1>3, <1>4, <1>5

(* Nothing has been uploaded before the first command. *)
LEMMA InitInPlace == Init => IngestInv
<1> SUFFICES ASSUME Init
             PROVE  IngestInv
  OBVIOUS
<1>1. fileOf \in Seq(Files) /\ Len(fileOf) = 0 /\ DOMAIN Empty = {}
  BY DEF Init, Empty
<1>2. CommandTypes /\ SharedTypes
  BY <1>1, MaxUploadsAssumption DEF Init, CommandTypes, SharedTypes
<1>3. \A c \in Commands : InPlace(c)
  BY <1>1 DEF Init, InPlace
<1> QED
  BY <1>2, <1>3, Types DEF Init, IngestInv, NoUploadLeft

(* Every step keeps the invariant. *)
LEMMA StepInPlace == IngestInv /\ [Next]_vars => IngestInv'
  BY NobodyKeeps, BeginKeeps, UploadKeeps, FailuresKeep, RunKeeps, DeleteFileKeeps, SyncKeeps
     DEF Next

--------------------------------------------------------------------------------
(* Langflow keeps no original that no command is at and none failed to take  *)
(* away, whichever requests fail.                                            *)
THEOREM IngestInvariance == Spec => []IngestInv
  BY InitInPlace, StepInPlace, PTL DEF Spec

(* At its import, a command's uploads are mapped to their own files, and a   *)
(* row a key leads to a file is of that file, or of a namesake of it that    *)
(* the command did not ingest.                                               *)
LEMMA MappedAtSync ==
  ASSUME IngestInv, NEW c \in Commands, pc[c] = "sync"
  PROVE  /\ todo[c] = {} /\ mine[c] \subseteq DOMAIN overrides[c]
         /\ \A u \in mine[c] : u \in Ids /\ overrides[c][u] = fileOf[u]
<1>1. /\ InPlace(c) /\ CommandTypes /\ NoUpload \notin DOMAIN fileOf /\ DOMAIN fileOf \subseteq Ids
      /\ \A f \in Files : Name[f] \in Names
      /\ \A u \in Ids, f \in Files : LastPart[u][f] \in Names
      /\ \A k \in Names : k \notin Ids
  BY UploadsAreIds, Types DEF IngestInv
<1>2. mine[c] \subseteq DOMAIN fileOf /\ \A k \in DOMAIN overrides[c] : overrides[c][k] \in Files
  BY <1>1 DEF CommandTypes
<1>3. todo[c] = {} /\ mine[c] \subseteq DOMAIN overrides[c]
  BY <1>1, <1>2 DEF InPlace
<1>4. ASSUME NEW u \in mine[c]
      PROVE  u \in Ids /\ overrides[c][u] = fileOf[u]
  <2>1. RightKey(u, overrides[c][u], c) /\ u \in Ids /\ overrides[c][u] \in Files
    BY <1>1, <1>2, <1>3 DEF InPlace
  <2>2. \A v \in mine[c] : fileOf[v] = overrides[c][u] => Part(v) \in Names
    BY <1>1, <1>2, <2>1 DEF Part
  <2> QED
    BY <1>1, <2>1, <2>2 DEF RightKey
<1> QED
  BY <1>3, <1>4

LEMMA KeyLeadsRight ==
  ASSUME IngestInv, NEW c \in Commands, NEW row \in collection, NEW i \in DOMAIN row.keys,
         NEW f \in Files, RightKey(Key(row, i), f, c)
  PROVE  \/ fileOf[row.up] = f
         \/ row.up \notin mine[c] /\ Name[fileOf[row.up]] = Name[f] /\ OnlyOfItsName(f, targets[c])
<1> DEFINE u == row.up
           g == fileOf[row.up]
<1>1. /\ u \in DOMAIN fileOf /\ u \in Ids /\ g \in Files /\ f \in Files
      /\ row.keys \in Seq({"path", "part", "name"})
      /\ mine[c] \subseteq DOMAIN fileOf /\ DOMAIN fileOf \subseteq Ids
      /\ Name[f] \in Names /\ Name[g] \in Names /\ Part(u) \in Names
      /\ \A k \in Names : k \notin Ids
  BY UploadsAreIds, RowKeysAssumption DEF IngestInv, TypeOK, Rows, Part
<1>2. Key(row, i) \in {u, Part(u), Name[g]}
  <2>1. row.keys[i] \in {"path", "part", "name"}
    BY <1>1
  <2> QED
    BY <2>1 DEF Key
<1>3. CASE Key(row, i) = u
  <2>1. ASSUME NEW v \in mine[c], fileOf[v] = f
        PROVE  Part(v) # u
    BY <1>1, <2>1, UploadsAreIds DEF Part, IngestInv
  <2> QED
    BY <1>1, <1>3, <2>1 DEF RightKey
<1>4. CASE Key(row, i) \in {Part(u), Name[g]}
  <2>1. Key(row, i) \in Names /\ OnlyOfItsName(f, targets[c])
        /\ \/ Key(row, i) = Name[f]
           \/ \E v \in mine[c] : fileOf[v] = f /\ Key(row, i) = Part(v)
    BY <1>1, <1>4 DEF RightKey
  <2>2. ASSUME Name[g] = Name[f]
        PROVE  fileOf[row.up] = f \/ row.up \notin mine[c]
    BY <2>1, <2>2 DEF IngestInv, InPlace, OnlyOfItsName
  <2>3. ASSUME Name[g] # Name[f]
        PROVE  g = f
    <3>1. Key(row, i) # Name[f]
      BY <1>1, <1>4, <2>3, LastPartAssumption DEF Part
    <3>2. PICK v \in mine[c] : fileOf[v] = f /\ Key(row, i) = Part(v)
      BY <2>1, <3>1
    <3>3. LastPart[v][f] # Name[f] /\ v \in Ids
      BY <1>1, <3>1, <3>2 DEF Part
    <3>4. Key(row, i) # Name[g]
      BY <1>1, <3>2, <3>3, LastPartAssumption DEF Part
    <3>5. LastPart[v][f] = LastPart[u][g]
      BY <1>4, <3>2, <3>4 DEF Part
    <3>6. v = u
      BY <1>1, <3>3, <3>5, LastPartAssumption
    <3> QED
      BY <3>2, <3>6
  <2> QED
    BY <2>1, <2>2, <2>3
<1> QED
  BY <1>2, <1>3, <1>4

(* The import in terms of the rows: a source rows are filed under holds      *)
(* their uploads and no other.                                               *)
LEMMA FiledIsImported ==
  ASSUME NEW over, NEW s \in Sources, NEW row \in collection, s \in SourcesOf(row, over)
  PROVE  row.up \in Imported(over)[s]
<1> DEFINE filed == UNION {{<<r.up, t>> : t \in SourcesOf(r, over)} : r \in collection}
           ups == {p[1] : p \in {q \in filed : q[2] = s}}
<1>1. <<row.up, s>> \in filed
  OBVIOUS
<1>2. row.up \in ups
  <2>1. <<row.up, s>>[1] = row.up /\ <<row.up, s>>[2] = s
    OBVIOUS
  <2> HIDE DEF filed
  <2> QED
    BY <1>1, <2>1
<1>3. Imported(over)[s] = IF ups = {} THEN index[s] ELSE ups
  BY DEF Imported
<1> HIDE DEF ups, filed
<1> QED
  BY <1>2, <1>3

LEMMA ImportedIsFiled ==
  ASSUME NEW over, NEW s \in Sources, NEW row \in collection, s \in SourcesOf(row, over),
         NEW u \in Imported(over)[s]
  PROVE  \E r \in collection : u = r.up /\ s \in SourcesOf(r, over)
<1> DEFINE filed == UNION {{<<r.up, t>> : t \in SourcesOf(r, over)} : r \in collection}
           ups == {p[1] : p \in {q \in filed : q[2] = s}}
<1>1. <<row.up, s>> \in filed
  OBVIOUS
<1>2. row.up \in ups
  <2>1. <<row.up, s>>[1] = row.up /\ <<row.up, s>>[2] = s
    OBVIOUS
  <2> HIDE DEF filed
  <2> QED
    BY <1>1, <2>1
<1>3. Imported(over)[s] = IF ups = {} THEN index[s] ELSE ups
  BY DEF Imported
<1>4. u \in ups
  <2> HIDE DEF ups
  <2> QED
    BY <1>2, <1>3
<1>5. PICK q \in filed : q[2] = s /\ u = q[1]
  BY <1>4
<1> QED
  BY <1>5

(* The first of the keys that are mapped, of the three a row may have. *)
LEMMA FirstKey ==
  ASSUME IngestInv, NEW row \in collection, NEW mapped \in SUBSET DOMAIN row.keys, mapped # {}
  PROVE  \E n \in mapped : \A m \in mapped : n <= m
<1>1. row.keys \in Seq({"path", "part", "name"}) /\ Len(row.keys) <= 3
  BY RowKeysAssumption DEF IngestInv, TypeOK, Rows
<1>2. mapped \subseteq {1, 2, 3}
  BY <1>1
<1> QED
  BY <1>2

(* A row of the command that records its path is filed under its own file,   *)
(* and nothing is filed under a file of the command but what KeyLeadsRight   *)
(* allows.                                                                   *)
LEMMA FiledRight ==
  ASSUME IngestInv, NEW c \in Commands, pc[c] = "sync", NEW row \in collection
  PROVE  /\ row.up \in mine[c] /\ RecordsPath(row) =>
               fileOf[row.up] \in SourcesOf(row, overrides[c])
         /\ \A f \in targets[c] \cap SourcesOf(row, overrides[c]) :
              \/ fileOf[row.up] = f
              \/ /\ row.up \notin mine[c] /\ Name[fileOf[row.up]] = Name[f]
                 /\ OnlyOfItsName(f, targets[c])
<1> DEFINE over == overrides[c]
           mapped == {i \in DOMAIN row.keys : Key(row, i) \in DOMAIN over}
           first == {n \in mapped : \A m \in mapped : n <= m}
<1>1. InPlace(c) /\ row.up \in Ids /\ (\A f \in Files : f \notin Ids) /\ targets[c] \subseteq Files
  BY UploadsAreIds DEF IngestInv, TypeOK, Rows
<1>2. mapped # {} => SourcesOf(row, over) = {over[Key(row, i)] : i \in first} /\ first # {}
  <2>1. mapped # {} => SourcesOf(row, over) = {over[Key(row, i)] : i \in first}
    BY DEF SourcesOf
  <2>2. mapped # {} => \E n \in mapped : \A m \in mapped : n <= m
    BY FirstKey
  <2> QED
    BY <2>1, <2>2
<1>3. mapped = {} => SourcesOf(row, over) \subseteq {row.up}
  BY DEF SourcesOf
<1>4. \A i \in mapped : RightKey(Key(row, i), over[Key(row, i)], c)
  BY <1>1 DEF InPlace
<1>5. ASSUME NEW f \in targets[c], f \in SourcesOf(row, over)
      PROVE  \/ fileOf[row.up] = f
             \/ /\ row.up \notin mine[c] /\ Name[fileOf[row.up]] = Name[f]
                /\ OnlyOfItsName(f, targets[c])
  <2>1. PICK i \in mapped : f = over[Key(row, i)]
    BY <1>1, <1>2, <1>3, <1>5
  <2>2. i \in DOMAIN row.keys /\ RightKey(Key(row, i), f, c) /\ f \in Files
    BY <1>1, <1>4, <1>5, <2>1
  <2> HIDE DEF mapped, first, over
  <2> QED
    BY <2>2, KeyLeadsRight
<1>6. ASSUME row.up \in mine[c], RecordsPath(row)
      PROVE  fileOf[row.up] \in SourcesOf(row, over)
  <2>1. PICK p \in DOMAIN row.keys : row.keys[p] = "path"
    BY <1>6 DEF RecordsPath
  <2>2. Key(row, p) = row.up /\ row.up \in DOMAIN over
    BY <1>6, <2>1, MappedAtSync DEF Key
  <2>3. p \in mapped
    BY <2>2
  <2>4. PICK i \in first : over[Key(row, i)] \in SourcesOf(row, over)
    BY <1>2, <2>3
  <2>5. i \in DOMAIN row.keys /\ RightKey(Key(row, i), over[Key(row, i)], c)
    BY <1>4, <2>4
  <2>6. over[Key(row, i)] \in Files
    BY <2>4, Types DEF IngestInv, CommandTypes
  <2> HIDE DEF mapped, first, over
  <2>7. fileOf[row.up] = over[Key(row, i)]
    BY <1>6, <2>5, <2>6, KeyLeadsRight
  <2> QED
    BY <2>4, <2>7
<1> QED
  BY <1>5, <1>6

(* A command that imports has run all of its files, and rows that record     *)
(* their upload path come under their own file's host path.                  *)
THEOREM OwnTexts == Spec => OwnTextFiled
<1> DEFINE Filed == \A c \in Commands : Sync(c) =>
              \A f \in targets[c] : \E row \in collection :
                 /\ row.up \in mine[c] /\ fileOf[row.up] = f
                 /\ RecordsPath(row) => row.up \in index'[f]
<1>1. ASSUME IngestInv, NEW c \in Commands, Sync(c), NEW f \in targets[c]
      PROVE  \E row \in collection : /\ row.up \in mine[c] /\ fileOf[row.up] = f
                                     /\ RecordsPath(row) => row.up \in index'[f]
  <2>1. pc[c] = "sync" /\ index' = Imported(overrides[c])
    BY <1>1 DEF Sync
  <2>2. InPlace(c) /\ f \in Sources
    BY <1>1, Types DEF IngestInv, CommandTypes, Sources
  <2>3. PICK row \in collection : row.up \in mine[c] /\ fileOf[row.up] = f
    BY <1>1, <2>1, <2>2, MappedAtSync DEF InPlace
  <2>4. RecordsPath(row) => f \in SourcesOf(row, overrides[c])
    BY <1>1, <2>1, <2>3, FiledRight
  <2>5. f \in SourcesOf(row, overrides[c]) => row.up \in Imported(overrides[c])[f]
    BY <2>2, <2>3, FiledIsImported
  <2> QED
    BY <2>1, <2>3, <2>4, <2>5
<1>2. IngestInv /\ [Next]_vars => [Filed]_vars
  BY <1>1
<1>3. Spec => [][Filed]_vars
  BY <1>2, IngestInvariance, PTL DEF Spec
<1> QED
  BY <1>3 DEF OwnTextFiled

(* Nothing else comes under a file of the command but a namesake's text that *)
(* another command ingested, and that only under the one file of its name.   *)
THEOREM Namesakes == Spec => NamesakesStayApart
<1> DEFINE Apart == \A c \in Commands : Sync(c) =>
              \A row \in collection :
                 row.up \in mine[c] /\ RecordsPath(row) =>
                    LET f == fileOf[row.up] IN
                    \A u \in index'[f] :
                       \/ fileOf[u] = f
                       \/ /\ u \notin mine[c] /\ Name[fileOf[u]] = Name[f]
                          /\ OnlyOfItsName(f, targets[c])
<1>1. ASSUME IngestInv, NEW c \in Commands, Sync(c), NEW row \in collection,
             row.up \in mine[c], RecordsPath(row), NEW u \in index'[fileOf[row.up]]
      PROVE  LET f == fileOf[row.up]
             IN  \/ fileOf[u] = f
                 \/ /\ u \notin mine[c] /\ Name[fileOf[u]] = Name[f]
                    /\ OnlyOfItsName(f, targets[c])
  <2>1. pc[c] = "sync" /\ index' = Imported(overrides[c])
    BY <1>1 DEF Sync
  <2>2. fileOf[row.up] \in targets[c] /\ fileOf[row.up] \in Sources
    BY <1>1, Types DEF IngestInv, InPlace, CommandTypes, Sources
  <2>3. fileOf[row.up] \in SourcesOf(row, overrides[c])
    BY <1>1, <2>1, FiledRight
  <2>4. PICK r \in collection : u = r.up /\ fileOf[row.up] \in SourcesOf(r, overrides[c])
    BY <1>1, <2>1, <2>2, <2>3, ImportedIsFiled
  <2> QED
    BY <1>1, <2>1, <2>2, <2>4, FiledRight
<1>2. IngestInv /\ [Next]_vars => [Apart]_vars
  BY <1>1
<1>3. Spec => [][Apart]_vars
  BY <1>2, IngestInvariance, PTL DEF Spec
<1> QED
  BY <1>3 DEF NamesakesStayApart
===================================================================================
