------------------------------ MODULE KnowledgeProofs ------------------------------
(***************************************************************************)
(* What the document lifecycle guarantees for every number of commands,    *)
(* documents and chunks, and, on top of its invariant, what the tools of   *)
(* the knowledge server guarantee for every number of readers.             *)
(***************************************************************************)
EXTENDS KnowledgeSearch, TLAPS

(* Chunks are numbered from 0. *)
LEMMA IndexesType == Indexes \subseteq Nat /\ 0 \in Indexes
  BY MaxChunksAssumption DEF Indexes

(* A chunk list is a nonempty sequence of hashes of bounded length. *)
LEMMA ContentsType ==
  ASSUME NEW c \in Contents
  PROVE  /\ Len(c) \in 1 .. MaxChunks
         /\ DOMAIN c = 1 .. Len(c)
         /\ \A i \in 1 .. Len(c) : c[i] \in Hashes
<1>1. PICK n \in 1 .. MaxChunks : c \in [1 .. n -> Hashes]
  BY DEF Contents
<1>2. c \in Seq(Hashes) /\ Len(c) = n
  BY <1>1, MaxChunksAssumption
<1> QED
  BY <1>1, <1>2

(* What the input of a command is made of, by kind. *)
LEMMA JobsType ==
  ASSUME NEW j \in Jobs
  PROVE  /\ j.doc \in Docs
         /\ j.kind = "delete" => j.contents = <<>> /\ Len(j.contents) = 0
         /\ j.kind # "delete" => j.contents \in Contents /\ j.model \in Models
<1>1. [1 .. 1 -> Hashes] \subseteq Contents
  <2>1. 1 \in 1 .. MaxChunks
    BY MaxChunksAssumption
  <2> QED
    BY <2>1 DEF Contents
<1> QED
  BY <1>1 DEF Jobs

(* The row a command inserts for one of its chunks is a row of the table. *)
LEMMA RowType ==
  ASSUME NEW j \in Jobs, j.kind # "delete", NEW i \in Nat, i < Len(j.contents)
  PROVE  /\ i \in Indexes
         /\ [hash |-> j.contents[i + 1], model |-> j.model] \in Rows
         /\ ImageOf(j)[i] = [hash |-> j.contents[i + 1], model |-> j.model]
<1>1. j.contents \in Contents /\ j.model \in Models
  BY JobsType
<1>2. Len(j.contents) \in 1 .. MaxChunks /\ i + 1 \in 1 .. Len(j.contents)
  BY <1>1, ContentsType, MaxChunksAssumption
<1>3. j.contents[i + 1] \in Hashes
  BY <1>1, <1>2, ContentsType
<1>4. i \in Indexes
  BY <1>2, MaxChunksAssumption DEF Indexes
<1> QED
  BY <1>1, <1>3, <1>4 DEF Rows, ImageOf

(* The version a command installs is a row, or no row, under every index. *)
LEMMA ImageType ==
  ASSUME NEW j \in Jobs
  PROVE  /\ ImageOf(j) \in [Indexes -> Rows \cup {NoRow}]
         /\ ImageOf(j) \in Images
         /\ ImageOf(j) # Mixed
         /\ \A i \in Indexes : i >= Len(j.contents) => ImageOf(j)[i] = NoRow
         /\ j.kind = "delete" => ImageOf(j) = [i \in Indexes |-> NoRow]
<1>1. ASSUME NEW i \in Indexes, i < Len(j.contents)
      PROVE  [hash |-> j.contents[i + 1], model |-> j.model] \in Rows
  <2>1. j.kind # "delete"
    BY <1>1, JobsType, IndexesType
  <2> QED
    BY <2>1, <1>1, RowType, IndexesType
<1>2. ImageOf(j) \in [Indexes -> Rows \cup {NoRow}]
  BY <1>1 DEF ImageOf
<1>3. ASSUME j.kind = "delete"
      PROVE  ImageOf(j) = [i \in Indexes |-> NoRow]
  BY <1>3, JobsType, IndexesType DEF ImageOf
<1>4. \A i \in Indexes : i >= Len(j.contents) => ImageOf(j)[i] = NoRow
  <2>1. Len(j.contents) \in Nat
    BY JobsType, ContentsType
  <2> QED
    BY <2>1, IndexesType DEF ImageOf
<1> QED
  BY <1>2, <1>3, <1>4, MixedAssumption DEF Images

--------------------------------------------------------------------------------
(* The fingerprint check of ingest.py is exact: it says "unchanged" for the *)
(* rows the incoming version would leave, and for no others.                *)
THEOREM FingerprintExact ==
  ASSUME NEW d \in Docs, rows[d] \in [Indexes -> Rows \cup {NoRow}],
         NEW j \in Jobs, j.kind # "delete"
  PROVE  FingerprintMatches(d, j) <=> rows[d] = ImageOf(j)
<1> DEFINE n == Len(j.contents)
           chunk(i) == [hash |-> j.contents[i + 1], model |-> j.model]
<1>1. /\ n \in 1 .. MaxChunks /\ DOMAIN j.contents = 1 .. n
      /\ j.model \in Models
      /\ \A i \in Nat : i < n => i \in Indexes /\ chunk(i) \in Rows /\ ImageOf(j)[i] = chunk(i)
      /\ \A i \in Indexes : i >= n => ImageOf(j)[i] = NoRow
      /\ ImageOf(j) \in [Indexes -> Rows \cup {NoRow}]
  BY JobsType, ContentsType, RowType, ImageType
<1>2. \A i \in Existing(d) : rows[d][i] \in Rows /\ i \in Indexes
  BY DEF Existing
<1>3. ASSUME rows[d] = ImageOf(j)
      PROVE  FingerprintMatches(d, j)
  <2>1. Existing(d) = 0 .. n - 1
    <3>1. ASSUME NEW i \in Existing(d)
          PROVE  i \in 0 .. n - 1
      <4>1. i \in Indexes /\ i \in Nat /\ ImageOf(j)[i] # NoRow
        BY <1>3, <3>1, IndexesType DEF Existing
      <4>2. i < n
        BY <1>1, <4>1
      <4> QED
        BY <4>1, <4>2, <1>1
    <3>2. ASSUME NEW i \in 0 .. n - 1
          PROVE  i \in Existing(d)
      <4> HIDE DEF n, chunk
      <4>1. i \in Nat /\ i < n
        BY <1>1, <3>2
      <4>2. i \in Indexes /\ chunk(i) \in Rows /\ ImageOf(j)[i] = chunk(i)
        BY <1>1, <4>1
      <4> QED
        BY <4>2, <1>3, NoRowAssumption DEF Existing
    <3> QED
      BY <3>1, <3>2
  <2>2. ASSUME NEW i \in Existing(d)
        PROVE  rows[d][i].hash = j.contents[i + 1] /\ rows[d][i].model = j.model
    <3>1. i \in Nat /\ i < n
      BY <1>1, <2>1
    <3>2. rows[d][i] = chunk(i)
      BY <1>1, <1>3, <3>1
    <3> QED
      BY <3>2
  <2>3. ExistingPairs(d) = {<<i, j.contents[i + 1]>> : i \in 0 .. n - 1}
    BY <2>1, <2>2 DEF ExistingPairs
  <2>4. IncomingPairs(j) = {<<i, j.contents[i + 1]>> : i \in 0 .. n - 1}
    <3>1. ASSUME NEW x \in IncomingPairs(j)
          PROVE  x \in {<<i, j.contents[i + 1]>> : i \in 0 .. n - 1}
      <4>1. PICK k \in 1 .. n : x = <<k - 1, j.contents[k]>>
        BY <1>1, <3>1 DEF IncomingPairs
      <4>2. k - 1 \in 0 .. n - 1 /\ (k - 1) + 1 = k
        BY <1>1, <4>1
      <4> QED
        BY <4>1, <4>2
    <3>2. ASSUME NEW i \in 0 .. n - 1
          PROVE  <<i, j.contents[i + 1]>> \in IncomingPairs(j)
      <4>1. i + 1 \in DOMAIN j.contents /\ (i + 1) - 1 = i
        BY <1>1
      <4> QED
        BY <4>1 DEF IncomingPairs
    <3> QED
      BY <3>1, <3>2
  <2>5. {rows[d][i].model : i \in Existing(d)} = {j.model}
    <3>1. 0 \in Existing(d)
      BY <2>1, <1>1
    <3>2. \A i \in Existing(d) : rows[d][i].model = j.model
      BY <2>2
    <3> QED
      BY <3>1, <3>2
  <2> QED
    BY <2>1, <2>3, <2>4, <2>5, <1>1 DEF FingerprintMatches
<1>4. ASSUME FingerprintMatches(d, j)
      PROVE  rows[d] = ImageOf(j)
  <2>1. ASSUME NEW i \in Indexes, i < n
        PROVE  rows[d][i] = chunk(i)
    <3>1. <<i, j.contents[i + 1]>> \in IncomingPairs(j)
      <4>1. i + 1 \in DOMAIN j.contents /\ (i + 1) - 1 = i
        BY <1>1, <2>1, IndexesType
      <4> QED
        BY <4>1 DEF IncomingPairs
    <3>2. <<i, j.contents[i + 1]>> \in ExistingPairs(d)
      BY <1>4, <3>1 DEF FingerprintMatches
    <3>3. PICK k \in Existing(d) : <<i, j.contents[i + 1]>> = <<k, rows[d][k].hash>>
      BY <3>2 DEF ExistingPairs
    <3>4. i \in Existing(d) /\ rows[d][i].hash = j.contents[i + 1]
      BY <3>3
    <3>5. rows[d][i].model = j.model
      BY <1>4, <3>4 DEF FingerprintMatches
    <3>6. rows[d][i] \in Rows
      BY <1>2, <3>4
    <3> QED
      BY <3>4, <3>5, <3>6 DEF Rows
  <2>2. ASSUME NEW i \in Indexes, i >= n
        PROVE  rows[d][i] = NoRow
    <3> SUFFICES ASSUME rows[d][i] # NoRow
                 PROVE  FALSE
      OBVIOUS
    <3>1. <<i, rows[d][i].hash>> \in ExistingPairs(d)
      BY DEF Existing, ExistingPairs
    <3>2. <<i, rows[d][i].hash>> \in IncomingPairs(j)
      BY <1>4, <3>1 DEF FingerprintMatches
    <3>3. PICK k \in 1 .. n : <<i, rows[d][i].hash>> = <<k - 1, j.contents[k]>>
      BY <1>1, <3>2 DEF IncomingPairs
    <3>4. i = k - 1
      BY <3>3
    <3> QED
      BY <1>1, <2>2, <3>3, <3>4, IndexesType
  <2>3. \A i \in Indexes : rows[d][i] = ImageOf(j)[i]
    <3> TAKE i \in Indexes
    <3>1. i \in Nat /\ n \in Nat
      BY <1>1, IndexesType
    <3>2. CASE i < n
      BY <1>1, <2>1, <3>1, <3>2
    <3>3. CASE i >= n
      BY <1>1, <2>2, <3>3
    <3> QED
      BY <3>1, <3>2, <3>3
  <2> QED
    BY <2>3, <1>1
<1> QED
  BY <1>3, <1>4

--------------------------------------------------------------------------------
(* One command takes a step: what the others are doing stays as it is. *)

LEMMA InitInv == Init => LifecycleInv
<1> SUFFICES ASSUME Init
             PROVE  LifecycleInv
  OBVIOUS
<1>1. \A im \in Images : im \in [Indexes -> Rows \cup {NoRow}]
  BY ImageType DEF Images
<1>2. TypeOK
  BY <1>1, MaxChunksAssumption DEF Init, TypeOK
<1>3. JobsInPlace
  BY DEF Init, JobsInPlace
<1>4. ReplacersAgree /\ MissingChunksAhead
  BY DEF Init, ReplacersAgree, MissingChunksAhead
<1> QED
  BY <1>2, <1>3, <1>4 DEF LifecycleInv

(* A command that begins has touched nothing yet. *)
LEMMA BeginInv ==
  ASSUME LifecycleInv, NEW w \in Writers, NEW j \in Jobs, Begin(w, j)
  PROVE  LifecycleInv'
<1>1. TypeOK'
  BY DEF LifecycleInv, TypeOK, Begin
<1>2. JobsInPlace'
  BY DEF LifecycleInv, TypeOK, JobsInPlace, Begin
<1>3. \A v \in Writers : pc'[v] = "upsert" => pc[v] = "upsert" /\ job'[v] = job[v]
  BY DEF LifecycleInv, TypeOK, Begin
<1>4. \A v \in Writers : pc[v] = "upsert" => pc'[v] = "upsert" /\ job'[v] = job[v]
  BY DEF LifecycleInv, TypeOK, Begin
<1>5. ReplacersAgree'
  BY <1>3 DEF LifecycleInv, ReplacersAgree, Begin
<1>6. MissingChunksAhead'
  BY <1>4 DEF LifecycleInv, MissingChunksAhead, Replacing, Begin
<1> QED
  BY <1>1, <1>2, <1>5, <1>6 DEF LifecycleInv

(* A step that neither writes rows nor moves a command in or out of the     *)
(* replacing phase keeps what is known of the rows.                         *)
LEMMA QuietStep ==
  ASSUME LifecycleInv, NEW w \in Writers,
         TypeOK', pc[w] # "upsert", pc'[w] # "upsert",
         \A v \in Writers \ {w} : pc'[v] = pc[v] /\ job'[v] = job[v] /\ next'[v] = next[v],
         UNCHANGED <<rows, claim>>
  PROVE  ReplacersAgree' /\ MissingChunksAhead'
<1>1. \A v \in Writers : pc'[v] = "upsert" <=> pc[v] = "upsert"
  OBVIOUS
<1>2. \A v \in Writers : pc[v] = "upsert" => job'[v] = job[v] /\ next'[v] = next[v]
  OBVIOUS
<1>3. ReplacersAgree'
  BY <1>1, <1>2 DEF LifecycleInv, ReplacersAgree
<1>4. \A d \in Docs : Replacing(d)' = Replacing(d)
  BY <1>1, <1>2 DEF Replacing
<1>5. \A d \in Docs : \A v \in Replacing(d) : next'[v] = next[v]
  BY <1>2 DEF Replacing
<1>6. MissingChunksAhead'
  BY <1>4, <1>5 DEF LifecycleInv, MissingChunksAhead
<1> QED
  BY <1>3, <1>6

(* Reading the fingerprints (fingerprint_matches) changes no row and no     *)
(* claim.                                                                   *)
LEMMA FingerprintInv ==
  ASSUME LifecycleInv, NEW w \in Writers, Fingerprint(w)
  PROVE  LifecycleInv'
<1>1. TypeOK' /\ JobsInPlace'
  <2>1. TypeOK'
    <3>1. TypeOK /\ UNCHANGED <<rows, claim>>
      BY DEF LifecycleInv, Fingerprint
    <3>2. CASE \E how \in {"skipped", "failed"} : Finish(w, how)
      BY <3>1, <3>2, MaxChunksAssumption DEF TypeOK, Finish
    <3>3. CASE \E where \in {"embed", "delete"} :
                 pc' = [pc EXCEPT ![w] = where] /\ UNCHANGED <<job, next, result>>
      BY <3>1, <3>3 DEF TypeOK
    <3> QED
      BY <3>2, <3>3 DEF Fingerprint
  <2>2. JobsInPlace'
    BY MaxChunksAssumption DEF LifecycleInv, TypeOK, JobsInPlace, Fingerprint, Finish
  <2> QED
    BY <2>1, <2>2
<1>2. /\ pc[w] # "upsert" /\ pc'[w] # "upsert"
      /\ \A v \in Writers \ {w} : pc'[v] = pc[v] /\ job'[v] = job[v] /\ next'[v] = next[v]
      /\ UNCHANGED <<rows, claim>>
  BY DEF LifecycleInv, TypeOK, Fingerprint, Finish
<1> QED
  BY <1>1, <1>2, QuietStep DEF LifecycleInv

(* The call of the embedding API changes no row and no claim. *)
LEMMA EmbedInv ==
  ASSUME LifecycleInv, NEW w \in Writers, Embed(w)
  PROVE  LifecycleInv'
<1>1. TypeOK' /\ JobsInPlace'
  <2>1. TypeOK'
    <3>1. TypeOK /\ UNCHANGED <<rows, claim>>
      BY DEF LifecycleInv, Embed
    <3>2. CASE \E how \in {"skipped", "failed"} : Finish(w, how)
      BY <3>1, <3>2, MaxChunksAssumption DEF TypeOK, Finish
    <3>3. CASE \E where \in {"embed", "delete"} :
                 pc' = [pc EXCEPT ![w] = where] /\ UNCHANGED <<job, next, result>>
      BY <3>1, <3>3 DEF TypeOK
    <3> QED
      BY <3>2, <3>3 DEF Embed
  <2>2. JobsInPlace'
    BY MaxChunksAssumption DEF LifecycleInv, TypeOK, JobsInPlace, Embed, Finish
  <2> QED
    BY <2>1, <2>2
<1>2. /\ pc[w] # "upsert" /\ pc'[w] # "upsert"
      /\ \A v \in Writers \ {w} : pc'[v] = pc[v] /\ job'[v] = job[v] /\ next'[v] = next[v]
      /\ UNCHANGED <<rows, claim>>
  BY DEF LifecycleInv, TypeOK, Embed, Finish
<1> QED
  BY <1>1, <1>2, QuietStep DEF LifecycleInv

(* A command that dies half-way takes its promise with it: the claim is     *)
(* Mixed.                                                                   *)
LEMMA CrashInv ==
  ASSUME LifecycleInv, NEW w \in Writers, Crash(w)
  PROVE  LifecycleInv'
<1>1. job[w] \in Jobs /\ job[w].doc \in Docs
  BY JobsType DEF LifecycleInv, JobsInPlace, Crash
<1>2. TypeOK' /\ JobsInPlace'
  BY <1>1, MaxChunksAssumption DEF LifecycleInv, TypeOK, JobsInPlace, Crash, Finish
<1>3. /\ pc'[w] # "upsert"
      /\ \A v \in Writers \ {w} : pc'[v] = pc[v] /\ job'[v] = job[v] /\ next'[v] = next[v]
  BY DEF LifecycleInv, TypeOK, Crash, Finish
<1>4. CASE pc[w] # "upsert"
  BY <1>2, <1>3, <1>4, QuietStep DEF LifecycleInv, Crash
<1>5. CASE pc[w] = "upsert"
  <2>1. \A d \in Docs : claim'[d] # Mixed => d # job[w].doc /\ claim'[d] = claim[d]
    BY <1>1, <1>5 DEF LifecycleInv, TypeOK, Crash
  <2>2. rows' = rows
    BY DEF Crash
  <2>3. ReplacersAgree'
    <3> SUFFICES ASSUME NEW v \in Writers, pc'[v] = "upsert", claim'[job'[v].doc] # Mixed
                 PROVE  claim'[job'[v].doc] = ImageOf(job'[v])
      BY DEF ReplacersAgree
    <3>1. v # w /\ pc[v] = "upsert" /\ job'[v] = job[v]
      BY <1>3
    <3>2. job[v].doc \in Docs
      BY <3>1, JobsType DEF LifecycleInv, JobsInPlace
    <3> QED
      BY <2>1, <3>1, <3>2 DEF LifecycleInv, ReplacersAgree
  <2>4. MissingChunksAhead'
    <3> SUFFICES ASSUME NEW d \in Docs, NEW i \in Indexes, claim'[d] # Mixed
                 PROVE  \/ rows'[d][i] = claim'[d][i]
                        \/ rows'[d][i] = NoRow /\ \E v \in Replacing(d)' : next'[v] <= i
      BY DEF MissingChunksAhead
    <3>1. \A v \in Replacing(d) : v # w /\ v \in Replacing(d)' /\ next'[v] = next[v]
      BY <1>3, <2>1 DEF Replacing
    <3> QED
      BY <2>1, <2>2, <3>1 DEF LifecycleInv, MissingChunksAhead
  <2> QED
    BY <1>2, <2>3, <2>4 DEF LifecycleInv
<1> QED
  BY <1>4, <1>5

(* A delete leaves no row: every chunk of a version that is claimed is ahead  *)
(* of the command that deleted, and of everybody else who brings it.          *)
LEMMA DeleteInv ==
  ASSUME LifecycleInv, NEW w \in Writers, Delete(w)
  PROVE  LifecycleInv'
<1> DEFINE D == job[w].doc
           im == ImageOf(job[w])
<1>1. /\ job[w] \in Jobs /\ D \in Docs /\ pc[w] = "delete" /\ next[w] = 0
      /\ im \in [Indexes -> Rows \cup {NoRow}] /\ im \in Images /\ im # Mixed
      /\ \A i \in Indexes : i >= Len(job[w].contents) => im[i] = NoRow
  BY JobsType, ImageType DEF LifecycleInv, JobsInPlace, Delete
<1>2. /\ \A d \in Docs \ {D} : rows'[d] = rows[d] /\ claim'[d] = claim[d]
      /\ \A i \in Indexes : rows'[D][i] = NoRow
      /\ claim'[D] \in {im, Mixed}
      /\ claim'[D] = im => Replacing(D) = {} \/ claim[D] = im
  BY <1>1 DEF LifecycleInv, TypeOK, Delete, DeleteRows, ClaimAfterDelete
<1>3. \A v \in Writers \ {w} : /\ pc'[v] = pc[v] /\ job'[v] = job[v]
                               /\ next'[v] = next[v] /\ result'[v] = result[v]
  BY DEF LifecycleInv, TypeOK, Delete, Finish
<1>4. \/ job[w].kind = "delete" /\ pc'[w] = "idle" /\ next'[w] = 0
      \/ /\ job[w].kind # "delete" /\ pc'[w] = "upsert" /\ job'[w] = job[w] /\ next'[w] = 0
         /\ result'[w] = "none"
  BY <1>1 DEF LifecycleInv, TypeOK, JobsInPlace, Delete, Finish
<1>5. TypeOK'
  <2>1. rows' \in [Docs -> [Indexes -> Rows \cup {NoRow}]]
    BY <1>1 DEF LifecycleInv, TypeOK, Delete, DeleteRows
  <2>2. claim' \in [Docs -> Images \cup {Mixed}]
    BY <1>1 DEF LifecycleInv, TypeOK, Delete, ClaimAfterDelete
  <2>3. next' \in [Writers -> 0 .. MaxChunks]
    BY <1>1, MaxChunksAssumption DEF LifecycleInv, TypeOK, Delete, Finish
  <2>4. /\ pc' \in [Writers -> {"idle", "fingerprint", "embed", "delete", "upsert"}]
        /\ job' \in [Writers -> Jobs \cup {NoJob}]
        /\ result' \in [Writers -> {"none", "skipped", "replaced", "deleted", "failed"}]
    BY <1>1 DEF LifecycleInv, TypeOK, Delete, Finish
  <2> QED
    BY <2>1, <2>2, <2>3, <2>4 DEF TypeOK
<1>6. JobsInPlace'
  <2> SUFFICES ASSUME NEW v \in Writers
               PROVE  /\ pc'[v] # "idle" => job'[v] \in Jobs /\ result'[v] = "none"
                      /\ pc'[v] \in {"fingerprint", "embed", "upsert"} => job'[v].kind # "delete"
                      /\ IF pc'[v] = "upsert" THEN next'[v] < Len(job'[v].contents)
                                              ELSE next'[v] = 0
    BY DEF JobsInPlace
  <2>1. CASE v # w
    BY <1>3, <2>1 DEF LifecycleInv, JobsInPlace
  <2>2. CASE v = w
    <3>1. job[w].kind # "delete" => Len(job[w].contents) \in 1 .. MaxChunks
      BY <1>1, JobsType, ContentsType
    <3> QED
      BY <1>1, <1>4, <2>2, <3>1, MaxChunksAssumption
  <2> QED
    BY <2>1, <2>2
<1>7. ReplacersAgree'
  <2> SUFFICES ASSUME NEW v \in Writers, pc'[v] = "upsert", claim'[job'[v].doc] # Mixed
               PROVE  claim'[job'[v].doc] = ImageOf(job'[v])
    BY DEF ReplacersAgree
  <2>1. CASE v = w
    BY <1>1, <1>2, <1>4, <2>1
  <2>2. CASE v # w
    <3>1. pc[v] = "upsert" /\ job'[v] = job[v] /\ job[v].doc \in Docs
      BY <1>3, <2>2, JobsType DEF LifecycleInv, JobsInPlace
    <3>2. CASE job[v].doc # D
      BY <1>2, <3>1, <3>2 DEF LifecycleInv, ReplacersAgree
    <3>3. CASE job[v].doc = D
      <4>1. Replacing(D) # {}
        BY <3>1, <3>3 DEF Replacing
      <4>2. claim'[D] = im /\ claim[D] = im
        BY <1>2, <3>1, <3>3, <4>1
      <4> QED
        BY <1>1, <3>1, <3>3, <4>2 DEF LifecycleInv, ReplacersAgree
    <3> QED
      BY <3>2, <3>3
  <2> QED
    BY <2>1, <2>2
<1>8. MissingChunksAhead'
  <2> SUFFICES ASSUME NEW d \in Docs, NEW i \in Indexes, claim'[d] # Mixed
               PROVE  \/ rows'[d][i] = claim'[d][i]
                      \/ rows'[d][i] = NoRow /\ \E v \in Replacing(d)' : next'[v] <= i
    BY DEF MissingChunksAhead
  <2>1. CASE d = D
    <3>1. rows'[d][i] = NoRow /\ claim'[d] = im
      BY <1>2, <2>1
    <3>2. CASE job[w].kind = "delete"
      BY <1>1, <3>1, <3>2, ImageType
    <3>3. CASE job[w].kind # "delete"
      <4>1. w \in Replacing(d)' /\ next'[w] <= i
        BY <1>4, <2>1, <3>3, IndexesType DEF Replacing
      <4> QED
        BY <3>1, <4>1
    <3> QED
      BY <3>2, <3>3
  <2>2. CASE d # D
    <3>1. \A v \in Replacing(d) : v \in Replacing(d)' /\ next'[v] = next[v]
      BY <1>1, <1>3 DEF Replacing
    <3>2. rows'[d] = rows[d] /\ claim'[d] = claim[d]
      BY <1>2, <2>2
    <3> QED
      BY <3>1, <3>2 DEF LifecycleInv, MissingChunksAhead
  <2> QED
    BY <2>1, <2>2
<1> QED
  BY <1>5, <1>6, <1>7, <1>8 DEF LifecycleInv

(* An insert writes a chunk of the claimed version.  The chunks behind it are *)
(* there, or another command has them ahead; the chunks after it are ahead of *)
(* this command still, and after its last insert there are none.              *)
LEMMA UpsertInv ==
  ASSUME LifecycleInv, NEW w \in Writers, Upsert(w)
  PROVE  LifecycleInv'
<1> DEFINE D == job[w].doc
           k == next[w]
           n == Len(job[w].contents)
           row == [hash |-> job[w].contents[k + 1], model |-> job[w].model]
<1>1. /\ job[w] \in Jobs /\ D \in Docs /\ pc[w] = "upsert"
      /\ job[w].kind # "delete" /\ k \in Nat /\ k < n
  BY JobsType, MaxChunksAssumption DEF LifecycleInv, TypeOK, JobsInPlace, Upsert
<1>2. /\ k \in Indexes /\ row \in Rows /\ ImageOf(job[w])[k] = row
      /\ n \in 1 .. MaxChunks
      /\ \A i \in Indexes : i >= n => ImageOf(job[w])[i] = NoRow
  BY <1>1, RowType, ImageType, JobsType, ContentsType
<1>3. /\ \A d \in Docs \ {D} : rows'[d] = rows[d]
      /\ \A i \in Indexes \ {k} : rows'[D][i] = rows[D][i]
      /\ rows'[D][k] = row
      /\ claim' = claim
  BY <1>1, <1>2 DEF LifecycleInv, TypeOK, Upsert, UpsertRow
<1>4. \A v \in Writers \ {w} : /\ pc'[v] = pc[v] /\ job'[v] = job[v]
                               /\ next'[v] = next[v] /\ result'[v] = result[v]
  BY DEF LifecycleInv, TypeOK, Upsert, Finish
<1>5. \/ k + 1 = n /\ pc'[w] = "idle" /\ next'[w] = 0
      \/ /\ k + 1 < n /\ pc'[w] = "upsert" /\ job'[w] = job[w] /\ next'[w] = k + 1
         /\ result'[w] = "none"
  BY <1>1 DEF LifecycleInv, TypeOK, JobsInPlace, Upsert, Finish
<1>6. TypeOK'
  <2>1. rows' \in [Docs -> [Indexes -> Rows \cup {NoRow}]]
    BY <1>1, <1>2 DEF LifecycleInv, TypeOK, Upsert, UpsertRow
  <2>2. next' \in [Writers -> 0 .. MaxChunks]
    <3>1. next \in [Writers -> 0 .. MaxChunks]
      BY DEF LifecycleInv, TypeOK
    <3>2. k + 1 \in 0 .. MaxChunks \/ next' = [next EXCEPT ![w] = 0]
      BY <1>1, <1>2, MaxChunksAssumption DEF Upsert, Finish
    <3>3. next' = [next EXCEPT ![w] = 0] \/ next' = [next EXCEPT ![w] = k + 1]
      BY DEF Upsert, Finish
    <3>4. 0 \in 0 .. MaxChunks
      BY MaxChunksAssumption
    <3> HIDE DEF k
    <3> QED
      BY <3>1, <3>2, <3>3, <3>4
  <2>3. /\ pc' \in [Writers -> {"idle", "fingerprint", "embed", "delete", "upsert"}]
        /\ job' \in [Writers -> Jobs \cup {NoJob}]
        /\ result' \in [Writers -> {"none", "skipped", "replaced", "deleted", "failed"}]
        /\ claim' \in [Docs -> Images \cup {Mixed}]
    BY DEF LifecycleInv, TypeOK, Upsert, Finish
  <2> QED
    BY <2>1, <2>2, <2>3 DEF TypeOK
<1>7. JobsInPlace'
  <2> SUFFICES ASSUME NEW v \in Writers
               PROVE  /\ pc'[v] # "idle" => job'[v] \in Jobs /\ result'[v] = "none"
                      /\ pc'[v] \in {"fingerprint", "embed", "upsert"} => job'[v].kind # "delete"
                      /\ IF pc'[v] = "upsert" THEN next'[v] < Len(job'[v].contents)
                                              ELSE next'[v] = 0
    BY DEF JobsInPlace
  <2>1. CASE v # w
    BY <1>4, <2>1 DEF LifecycleInv, JobsInPlace
  <2>2. CASE v = w
    BY <1>1, <1>5, <2>2
  <2> QED
    BY <2>1, <2>2
<1>8. ReplacersAgree'
  BY <1>1, <1>3, <1>4, <1>5 DEF LifecycleInv, ReplacersAgree
<1>9. MissingChunksAhead'
  <2> SUFFICES ASSUME NEW d \in Docs, NEW i \in Indexes, claim'[d] # Mixed
               PROVE  \/ rows'[d][i] = claim'[d][i]
                      \/ rows'[d][i] = NoRow /\ \E v \in Replacing(d)' : next'[v] <= i
    BY DEF MissingChunksAhead
  <2>1. \/ rows[d][i] = claim[d][i]
        \/ rows[d][i] = NoRow /\ \E v \in Replacing(d) : next[v] <= i
    BY <1>3 DEF LifecycleInv, MissingChunksAhead
  <2>2. \A v \in Replacing(d) \ {w} : v \in Replacing(d)' /\ next'[v] = next[v]
    BY <1>4 DEF Replacing
  <2>3. CASE d # D
    <3>1. w \notin Replacing(d)
      BY <2>3 DEF Replacing
    <3> QED
      BY <1>3, <2>1, <2>2, <2>3, <3>1
  <2>4. CASE d = D
    <3>1. claim'[d] = ImageOf(job[w])
      BY <1>1, <1>3, <2>4 DEF LifecycleInv, ReplacersAgree
    <3>2. CASE i = k
      BY <1>2, <1>3, <2>4, <3>1, <3>2
    <3>3. CASE i # k
      <4>1. rows'[d][i] = rows[d][i]
        BY <1>3, <2>4, <3>3
      <4>2. CASE rows[d][i] = claim[d][i]
        BY <1>3, <4>1, <4>2
      <4>3. CASE rows[d][i] = NoRow /\ \E v \in Replacing(d) : next[v] <= i
        <5>1. PICK v \in Replacing(d) : next[v] <= i
          BY <4>3
        <5>2. CASE v # w
          BY <2>2, <4>1, <4>3, <5>1, <5>2
        <5>3. CASE v = w
          <6>1. i \in Nat /\ k + 1 <= i
            BY <1>1, <3>3, <5>1, <5>3, IndexesType
          <6>2. CASE k + 1 = n
            BY <1>1, <1>2, <3>1, <4>1, <4>3, <6>1, <6>2
          <6>3. CASE k + 1 < n
            <7>1. w \in Replacing(d)' /\ next'[w] = k + 1
              BY <1>1, <1>5, <2>4, <6>3 DEF Replacing
            <7> QED
              BY <4>1, <4>3, <6>1, <7>1
          <6> QED
            BY <1>5, <6>2, <6>3
        <5> QED
          BY <5>2, <5>3
      <4> QED
        BY <2>1, <4>2, <4>3
    <3> QED
      BY <3>2, <3>3
  <2> QED
    BY <2>3, <2>4
<1> QED
  BY <1>6, <1>7, <1>8, <1>9 DEF LifecycleInv

--------------------------------------------------------------------------------
(* Every step of a command, and a step of nobody, keeps the invariant. *)
LEMMA NextInv == LifecycleInv /\ [Next]_vars => LifecycleInv'
<1> SUFFICES ASSUME LifecycleInv, [Next]_vars
             PROVE  LifecycleInv'
  OBVIOUS
<1>1. CASE UNCHANGED vars
  BY <1>1 DEF LifecycleInv, TypeOK, JobsInPlace, ReplacersAgree, MissingChunksAhead,
              Replacing, vars
<1>2. CASE Next
  <2>1. PICK w \in Writers : \/ \E j \in Jobs : Begin(w, j)
                             \/ Fingerprint(w) \/ Embed(w) \/ Delete(w) \/ Upsert(w)
                             \/ Crash(w)
    BY <1>2 DEF Next
  <2> QED
    BY <2>1, BeginInv, FingerprintInv, EmbedInv, DeleteInv, UpsertInv, CrashInv
<1> QED
  BY <1>1, <1>2

(* The inductive invariant holds in every reachable state, however many      *)
(* commands run and crash.                                                   *)
THEOREM Invariance == Spec => []LifecycleInv
<1>1. Init => LifecycleInv
  BY InitInv
<1>2. LifecycleInv /\ [Next]_vars => LifecycleInv'
  BY NextInv
<1> QED
  BY <1>1, <1>2, PTL DEF Spec

(* Every variable keeps its type: one row at most under each chunk_index,    *)
(* and every row a hash and a model.                                         *)
THEOREM TypeCorrect == Spec => []TypeOK
<1>1. LifecycleInv => TypeOK
  BY DEF LifecycleInv
<1> QED
  BY <1>1, Invariance, PTL

(* A document at rest is the version last written to it, chunk for chunk:    *)
(* no chunk is missing, and none of an older, longer version is left.        *)
LEMMA AtRest == LifecycleInv => ClaimedVersionInstalled
<1> SUFFICES ASSUME LifecycleInv, NEW d \in Docs, Replacing(d) = {}, claim[d] # Mixed
             PROVE  rows[d] = claim[d]
  BY DEF ClaimedVersionInstalled
<1>1. \A i \in Indexes : rows[d][i] = claim[d][i]
  BY DEF LifecycleInv, MissingChunksAhead
<1>2. \A im \in Images : im \in [Indexes -> Rows \cup {NoRow}]
  BY ImageType DEF Images
<1>3. rows[d] \in [Indexes -> Rows \cup {NoRow}] /\ claim[d] \in [Indexes -> Rows \cup {NoRow}]
  BY <1>2 DEF LifecycleInv, TypeOK
<1> QED
  BY <1>1, <1>3

(* A document nobody is replacing is the version claimed for it. *)
THEOREM VersionInstalled == Spec => []ClaimedVersionInstalled
  BY AtRest, Invariance, PTL

(* Whatever a reader sees of a document with a claim is of the new version.  *)
THEOREM OneVersionVisible == Spec => []NoVersionMix
<1>1. LifecycleInv => NoVersionMix
  BY DEF LifecycleInv, MissingChunksAhead, NoVersionMix
<1> QED
  BY <1>1, Invariance, PTL

(* What a step that ends a command's work may be: the fingerprint check or   *)
(* the last insert of that very command.                                     *)
LEMMA ReportingStep ==
  ASSUME LifecycleInv, Next, NEW w \in Writers, pc[w] # "idle",
         result'[w] \in {"skipped", "replaced"}
  PROVE  \/ Fingerprint(w) /\ FingerprintMatches(job[w].doc, job[w]) /\ UNCHANGED rows
         \/ Upsert(w) /\ pc'[w] = "idle"
<1>1. PICK v \in Writers : \/ \E j \in Jobs : Begin(v, j)
                           \/ Fingerprint(v) \/ Embed(v) \/ Delete(v) \/ Upsert(v)
                           \/ Crash(v)
  BY DEF Next
<1>2. result[w] = "none" /\ result \in [Writers ->
         {"none", "skipped", "replaced", "deleted", "failed"}] /\ pc \in [Writers ->
         {"idle", "fingerprint", "embed", "delete", "upsert"}]
  BY DEF LifecycleInv, TypeOK, JobsInPlace
<1>3. CASE \E j \in Jobs : Begin(v, j)
  BY <1>2, <1>3 DEF Begin
<1>4. CASE Fingerprint(v)
  BY <1>2, <1>4 DEF Fingerprint, Finish
<1>5. CASE Embed(v)
  BY <1>2, <1>5 DEF Embed, Finish
<1>6. CASE Delete(v)
  BY <1>2, <1>6 DEF Delete, Finish
<1>7. CASE Upsert(v)
  BY <1>2, <1>7 DEF Upsert, Finish
<1>8. CASE Crash(v)
  BY <1>2, <1>8 DEF Crash, Finish
<1> QED
  BY <1>1, <1>3, <1>4, <1>5, <1>6, <1>7, <1>8

(* "skipped" and "replaced" are true when they are reported.                 *)
THEOREM ReportsAreTrue == Spec => ReportedVersionInstalled
<1>1. ASSUME LifecycleInv, ClaimedVersionInstalled', Next, NEW w \in Writers,
             pc[w] # "idle", result'[w] \in {"skipped", "replaced"},
             Replacing(job[w].doc) \subseteq {w}, claim[job[w].doc] # Mixed
      PROVE  rows'[job[w].doc] = ImageOf(job[w])
  <2>1. job[w] \in Jobs /\ job[w].doc \in Docs
    BY <1>1, JobsType DEF LifecycleInv, JobsInPlace
  <2> PICK D \in Docs : D = job[w].doc
    BY <2>1
  <2>2. CASE Fingerprint(w) /\ FingerprintMatches(D, job[w]) /\ UNCHANGED rows
    <3>1. job[w].kind # "delete" /\ rows[D] \in [Indexes -> Rows \cup {NoRow}]
      BY <1>1, <2>1, <2>2 DEF LifecycleInv, TypeOK, JobsInPlace, Fingerprint
    <3> QED
      BY <2>1, <2>2, <3>1, FingerprintExact
  <2>3. CASE Upsert(w) /\ pc'[w] = "idle"
    <3>1. \A v \in Writers \ {w} : pc'[v] = pc[v] /\ job'[v] = job[v]
      BY <1>1, <2>3 DEF LifecycleInv, TypeOK, Upsert, Finish
    <3>2. Replacing(D)' = {}
      BY <1>1, <2>3, <3>1 DEF Replacing
    <3>3. claim'[D] = claim[D] /\ claim[D] = ImageOf(job[w])
      BY <1>1, <2>1, <2>3 DEF Upsert, LifecycleInv, ReplacersAgree
    <3> QED
      BY <1>1, <2>1, <3>2, <3>3 DEF ClaimedVersionInstalled
  <2> QED
    BY <1>1, <2>2, <2>3, ReportingStep
<1> DEFINE Reported == \A w \in Writers :
         /\ pc[w] # "idle"
         /\ result'[w] \in {"skipped", "replaced"}
         /\ Replacing(job[w].doc) \subseteq {w}
         /\ claim[job[w].doc] # Mixed
         => rows'[job[w].doc] = ImageOf(job[w])
<1>2. LifecycleInv /\ ClaimedVersionInstalled' /\ [Next]_vars => [Reported]_vars
  BY <1>1
<1>3. Spec => [][Reported]_vars
  BY <1>2, Invariance, VersionInstalled, PTL DEF Spec
<1> QED
  BY <1>3 DEF ReportedVersionInstalled

(* A command goes on to embed or delete only if the document differs from    *)
(* the incoming version in a chunk, a hash, a model or its length.           *)
THEOREM UnchangedDocumentSkipped == Spec => OnlyChangedDocumentsReplaced
<1> DEFINE Changed == \A w \in Writers :
         pc[w] = "fingerprint" /\ pc'[w] \in {"embed", "delete"}
           => rows[job[w].doc] # ImageOf(job[w])
<1>1. ASSUME LifecycleInv, Next, NEW w \in Writers,
             pc[w] = "fingerprint", pc'[w] \in {"embed", "delete"}
      PROVE  rows[job[w].doc] # ImageOf(job[w])
  <2>1. ~FingerprintMatches(job[w].doc, job[w])
    BY <1>1 DEF Next, LifecycleInv, TypeOK, Begin, Fingerprint, Embed, Delete, Upsert, Crash, Finish
  <2>2. job[w] \in Jobs /\ job[w].doc \in Docs /\ job[w].kind # "delete"
        /\ rows[job[w].doc] \in [Indexes -> Rows \cup {NoRow}]
    BY <1>1, JobsType DEF LifecycleInv, TypeOK, JobsInPlace
  <2> QED
    BY <2>1, <2>2, FingerprintExact
<1>2. LifecycleInv /\ [Next]_vars => [Changed]_vars
  BY <1>1
<1>3. Spec => [][Changed]_vars
  BY <1>2, Invariance, PTL DEF Spec
<1> QED
  BY <1>3 DEF OnlyChangedDocumentsReplaced

--------------------------------------------------------------------------------
(* Refinement: what a reader sees is DocumentIndex. *)

Busy == [d \in Docs |-> Replacing(d) # {}]

(* What a reader may count on is the claim, at rest and while rows move.      *)
LEMMA ReaderView == LifecycleInv => [d \in Docs |-> VisibleVersion(d)] = claim
<1> SUFFICES ASSUME LifecycleInv
             PROVE  [d \in Docs |-> VisibleVersion(d)] = claim
  OBVIOUS
<1>1. \A d \in Docs : VisibleVersion(d) = claim[d]
  BY AtRest DEF ClaimedVersionInstalled, VisibleVersion
<1> QED
  BY <1>1 DEF LifecycleInv, TypeOK

(* The same after a step. *)
LEMMA ReaderViewNext == (LifecycleInv => [d \in Docs |-> VisibleVersion(d)] = claim)'
  BY ReaderView, PTL

(* A step of one command on one document leaves the others' replacements be.  *)
LEMMA BusyElsewhere ==
  ASSUME LifecycleInv, NEW w \in Writers, NEW D \in Docs,
         \A v \in Writers \ {w} : pc'[v] = pc[v] /\ job'[v] = job[v],
         pc[w] = "upsert" => job[w].doc = D,
         pc'[w] = "upsert" => job'[w].doc = D
  PROVE  /\ Busy' = [Busy EXCEPT ![D] = Busy'[D]]
         /\ Busy[D] \in BOOLEAN /\ Busy'[D] \in BOOLEAN
         /\ (pc[w] = "upsert" <=> pc'[w] = "upsert") => Busy' = Busy
         /\ pc[w] = "upsert" => Busy[D] = TRUE
         /\ pc'[w] = "upsert" => Busy'[D] = TRUE
<1>1. \A d \in Docs \ {D} : Replacing(d)' = Replacing(d)
  BY DEF Replacing
<1>2. (pc[w] = "upsert" <=> pc'[w] = "upsert") => Replacing(D)' = Replacing(D)
  BY DEF Replacing
<1>3. /\ pc[w] = "upsert" => w \in Replacing(D)
      /\ pc'[w] = "upsert" => w \in Replacing(D)'
  BY DEF Replacing
<1> QED
  BY <1>1, <1>2, <1>3 DEF Busy

(* The abstract steps, over the reader's view.                                *)
LEMMA AbstractStep ==
  ASSUME LifecycleInv, LifecycleInv', NEW D \in Docs,
         \/ claim' = claim /\ Busy' = Busy
         \/ \E v \in Images : /\ ~Busy[D]
                             /\ claim' = [claim EXCEPT ![D] = v]
                             /\ Busy' \in {Busy, [Busy EXCEPT ![D] = TRUE]}
         \/ Busy[D] /\ claim' = claim /\ Busy' = [Busy EXCEPT ![D] = FALSE]
         \/ /\ Busy[D]
            /\ claim' = [claim EXCEPT ![D] = Mixed]
            /\ Busy' \in {Busy, [Busy EXCEPT ![D] = FALSE]}
  PROVE  [Index!ANext]_(Index!avars)
<1>1. [d \in Docs |-> VisibleVersion(d)] = claim
  BY ReaderView
<1>2. [d \in Docs |-> VisibleVersion(d)]' = claim'
  BY ReaderViewNext
<1>3. [d \in Docs |-> Replacing(d) # {}] = Busy
  BY DEF Busy
<1>4. [d \in Docs |-> Replacing(d) # {}]' = Busy'
  BY DEF Busy
<1> QED
  BY <1>1, <1>2, <1>3, <1>4
     DEF Index!ANext, Index!avars, Index!StartReplace, Index!Install, Index!Settle, Index!Clash

(* Every step of a command is a step of the index, or changes nothing a     *)
(* reader sees.                                                             *)
LEMMA StepRefines ==
  ASSUME LifecycleInv, LifecycleInv', [Next]_vars
  PROVE  [Index!ANext]_(Index!avars)
<1>1. CASE UNCHANGED vars
  <2>1. UNCHANGED <<[d \in Docs |-> VisibleVersion(d)], [d \in Docs |-> Replacing(d) # {}]>>
    BY <1>1 DEF vars, VisibleVersion, Replacing
  <2> QED
    BY <2>1 DEF Index!avars
<1>2. CASE Next
  <2>1. PICK w \in Writers : \/ \E j \in Jobs : Begin(w, j)
                             \/ Fingerprint(w) \/ Embed(w) \/ Delete(w) \/ Upsert(w)
                             \/ Crash(w)
    BY <1>2 DEF Next
  <2>2. /\ pc \in [Writers -> {"idle", "fingerprint", "embed", "delete", "upsert"}]
        /\ job \in [Writers -> Jobs \cup {NoJob}]
        /\ claim \in [Docs -> Images \cup {Mixed}]
    BY DEF LifecycleInv, TypeOK
  <2>3. \A v \in Writers \ {w} : pc'[v] = pc[v] /\ job'[v] = job[v]
    BY <2>1, <2>2 DEF Begin, Fingerprint, Embed, Delete, Upsert, Crash, Finish
  <2>4. ASSUME NEW j \in Jobs, Begin(w, j)
        PROVE  [Index!ANext]_(Index!avars)
    <3>1. j.doc \in Docs /\ pc[w] # "upsert" /\ pc'[w] # "upsert" /\ claim' = claim
      BY <2>2, <2>4, JobsType DEF Begin
    <3> QED
      BY <2>3, <3>1, BusyElsewhere, AbstractStep
  <2>5. CASE pc[w] # "idle"
    <3>1. job[w] \in Jobs /\ job[w].doc \in Docs
      BY <2>5, JobsType DEF LifecycleInv, JobsInPlace
    <3> PICK D \in Docs : D = job[w].doc
      BY <3>1
    <3>2. pc'[w] = "upsert" => job'[w] = job[w]
      BY <2>1, <2>2, <2>5 DEF Begin, Fingerprint, Embed, Delete, Upsert, Crash, Finish
    <3>3. /\ Busy' = [Busy EXCEPT ![D] = Busy'[D]]
          /\ Busy[D] \in BOOLEAN /\ Busy'[D] \in BOOLEAN
          /\ (pc[w] = "upsert" <=> pc'[w] = "upsert") => Busy' = Busy
          /\ pc[w] = "upsert" => Busy[D] = TRUE
          /\ pc'[w] = "upsert" => Busy'[D] = TRUE
      <4>1. pc[w] = "upsert" => job[w].doc = D
        OBVIOUS
      <4>2. pc'[w] = "upsert" => job'[w].doc = D
        BY <3>2
      <4> QED
        BY <2>3, <4>1, <4>2, BusyElsewhere
    <3>4. CASE Fingerprint(w) \/ Embed(w)
      <4>1. pc[w] # "upsert" /\ pc'[w] # "upsert" /\ claim' = claim
        BY <2>2, <3>4 DEF Fingerprint, Embed, Finish
      <4> QED
        BY <3>3, <4>1, AbstractStep
    <3>5. CASE Delete(w)
      <4> DEFINE im == ImageOf(job[w])
      <4>1. im \in Images
        BY <3>1, ImageType
      <4>2. claim' = [claim EXCEPT ![D] = IF Replacing(D) = {} \/ claim[D] = im THEN im ELSE Mixed]
        BY <3>5 DEF Delete, ClaimAfterDelete
      <4>3. pc[w] # "upsert"
        BY <3>5 DEF Delete
      <4>4. Busy[D] <=> Replacing(D) # {}
        BY DEF Busy
      <4>5. Busy' \in {Busy, [Busy EXCEPT ![D] = TRUE]}
        BY <3>3, <4>3
      <4>6. CASE ~Busy[D]
        BY <4>1, <4>2, <4>4, <4>5, <4>6, AbstractStep
      <4>7. CASE Busy[D]
        <5>1. Busy' = Busy
          BY <3>3, <4>5, <4>7 DEF Busy
        <5>2. claim' = claim \/ claim' = [claim EXCEPT ![D] = Mixed]
          <6>1. claim[D] = im => [claim EXCEPT ![D] = im] = claim
            BY <2>2
          <6> QED
            BY <4>2, <4>4, <4>7, <6>1
        <5> QED
          BY <4>7, <5>1, <5>2, AbstractStep
      <4> QED
        BY <4>6, <4>7
    <3>6. CASE Upsert(w)
      <4>1. Busy[D] /\ claim' = claim
        BY <3>3, <3>6 DEF Upsert
      <4>2. Busy' = Busy \/ Busy' = [Busy EXCEPT ![D] = FALSE]
        <5>1. CASE Busy'[D] = TRUE
          BY <3>3, <4>1, <5>1 DEF Busy
        <5>2. CASE Busy'[D] = FALSE
          BY <3>3, <5>2
        <5> QED
          BY <3>3, <5>1, <5>2
      <4> QED
        BY <4>1, <4>2, AbstractStep
    <3>7. CASE Crash(w)
      <4>1. pc'[w] # "upsert"
        BY <2>2, <3>7 DEF Crash, Finish
      <4>2. CASE pc[w] # "upsert"
        <5>1. claim' = claim /\ Busy' = Busy
          BY <3>3, <3>7, <4>1, <4>2 DEF Crash
        <5> QED
          BY <5>1, AbstractStep
      <4>3. CASE pc[w] = "upsert"
        <5>1. Busy[D] /\ claim' = [claim EXCEPT ![D] = Mixed]
          BY <3>3, <3>7, <4>3 DEF Crash
        <5>2. Busy' = Busy \/ Busy' = [Busy EXCEPT ![D] = FALSE]
          <6>1. CASE Busy'[D] = TRUE
            BY <3>3, <5>1, <6>1 DEF Busy
          <6>2. CASE Busy'[D] = FALSE
            BY <3>3, <6>2
          <6> QED
            BY <3>3, <6>1, <6>2
        <5> QED
          BY <5>1, <5>2, AbstractStep
      <4> QED
        BY <4>2, <4>3
    <3> QED
      BY <2>1, <2>5, <3>4, <3>5, <3>6, <3>7 DEF Begin
  <2> QED
    BY <2>1, <2>4, <2>5 DEF Fingerprint, Embed, Delete, Upsert, Crash
<1> QED
  BY <1>1, <1>2

(* The lifecycle implements the index ADR-0007 promises.                     *)
THEOREM Refinement == Spec => IndexPromise
<1>1. Init => Index!AInit
  <2> SUFFICES ASSUME Init
               PROVE  Index!AInit
    OBVIOUS
  <2>1. [d \in Docs |-> VisibleVersion(d)] = claim
    BY InitInv, ReaderView
  <2>2. claim \in [Docs -> Images]
    BY DEF Init
  <2>3. [d \in Docs |-> Replacing(d) # {}] = [d \in Docs |-> FALSE]
    BY DEF Init, Replacing
  <2> QED
    BY <2>1, <2>2, <2>3 DEF Index!AInit
<1>2. LifecycleInv /\ LifecycleInv' /\ [Next]_vars => [Index!ANext]_(Index!avars)
  BY StepRefines
<1> QED
  BY <1>1, <1>2, Invariance, PTL DEF Spec, IndexPromise, Index!ASpec

--------------------------------------------------------------------------------
(* The tools that read the index: KnowledgeSearch. *)

(* A row of a document with a claim that a command does not delete keeps     *)
(* its text: an insert over it is one of the version it belongs to.          *)
LEMMA RowKeepsText ==
  ASSUME LifecycleInv, [Next]_vars, NEW d \in Docs, NEW i \in Indexes,
         claim'[d] # Mixed, rows'[d][i] # NoRow
  PROVE  /\ claim[d] # Mixed
         /\ rows[d][i] # NoRow => rows'[d][i] = rows[d][i]
<1>1. /\ rows \in [Docs -> [Indexes -> Rows \cup {NoRow}]]
      /\ claim \in [Docs -> Images \cup {Mixed}]
  BY DEF LifecycleInv, TypeOK
<1>2. CASE UNCHANGED <<rows, claim>>
  BY <1>2
<1>3. ASSUME NEW w \in Writers, Delete(w)
      PROVE  claim[d] # Mixed /\ rows'[d][i] = rows[d][i]
  <2>1. d # job[w].doc
    BY <1>1, <1>3 DEF Delete, DeleteRows
  <2> QED
    BY <1>1, <1>3, <2>1 DEF Delete, DeleteRows
<1>4. ASSUME NEW w \in Writers, Upsert(w)
      PROVE  claim[d] # Mixed /\ (rows[d][i] # NoRow => rows'[d][i] = rows[d][i])
  <2> DEFINE row == [hash |-> job[w].contents[next[w] + 1], model |-> job[w].model]
  <2>1. /\ claim[d] # Mixed
        /\ rows' = [rows EXCEPT ![job[w].doc][next[w]] = row]
    BY <1>4 DEF Upsert, UpsertRow
  <2>2. CASE d = job[w].doc /\ i = next[w]
    <3>1. /\ job[w] \in Jobs /\ job[w].kind # "delete"
          /\ next[w] \in Nat /\ next[w] < Len(job[w].contents)
      BY <1>4 DEF Upsert, LifecycleInv, TypeOK, JobsInPlace
    <3>2. ImageOf(job[w])[i] = row
      BY <2>2, <3>1, RowType
    <3>3. claim[d] = ImageOf(job[w])
      BY <1>4, <2>1, <2>2 DEF Upsert, LifecycleInv, ReplacersAgree
    <3>4. rows[d][i] # NoRow => rows[d][i] = claim[d][i]
      BY <2>1 DEF LifecycleInv, MissingChunksAhead
    <3>5. rows'[d][i] = row
      BY <1>1, <2>1, <2>2
    <3> QED
      BY <2>1, <3>2, <3>3, <3>4, <3>5
  <2>3. CASE ~(d = job[w].doc /\ i = next[w])
    BY <1>1, <2>1, <2>3
  <2> QED
    BY <2>2, <2>3
<1>5. ASSUME NEW w \in Writers, Crash(w)
      PROVE  claim[d] # Mixed /\ rows'[d][i] = rows[d][i]
  BY <1>1, <1>5 DEF Crash
<1>6. \/ UNCHANGED <<rows, claim>>
      \/ \E w \in Writers : Delete(w) \/ Upsert(w) \/ Crash(w)
  BY DEF Next, vars, Begin, Fingerprint, Embed
<1> QED
  BY <1>2, <1>3, <1>4, <1>5, <1>6

(* A step of a command: hits whose row goes are dead, the others still show  *)
(* the text of their row.                                                    *)
LEMMA CommandKeepsHits == SearchInv /\ CommandStep => SearchInv'
<1> SUFFICES ASSUME SearchInv, CommandStep
             PROVE  SearchInv'
  OBVIOUS
<1>1. LifecycleInv'
  BY NextInv DEF SearchInv, CommandStep
<1>2. ASSUME NEW r \in Readers, NEW h \in hits'[r]
      PROVE  \E g \in hits[r] : h = StillThere(g)
  BY <1>2 DEF CommandStep
<1>3. ASSUME NEW r \in Readers, NEW g \in hits[r]
      PROVE  /\ StillThere(g) \in Hits
             /\ StillThere(g).doc = g.doc /\ StillThere(g).index = g.index
             /\ StillThere(g).text = g.text
             /\ StillThere(g).live => g.live /\ rows'[g.doc][g.index] # NoRow
  <2>1. g \in Hits
    BY DEF SearchInv, SearchTypeOK
  <2> QED
    BY <2>1 DEF StillThere, Hits
<1>4. SearchTypeOK'
  <2>1. hits' \in [Readers -> SUBSET Hits]
    BY <1>3 DEF CommandStep
  <2> QED
    BY <1>1, <2>1 DEF SearchInv, SearchTypeOK, CommandStep, LifecycleInv
<1>5. ASSUME NEW r \in Readers, NEW h \in hits'[r], h.live
      PROVE  rows'[h.doc][h.index] # NoRow
  BY <1>2, <1>3, <1>5
<1>6. ASSUME NEW r \in Readers, NEW h \in hits'[r], h.live, claim'[h.doc] # Mixed
      PROVE  rows'[h.doc][h.index] # NoRow /\ rows'[h.doc][h.index].hash = h.text
  <2>1. PICK g \in hits[r] : h = StillThere(g)
    BY <1>2
  <2>2. g \in Hits /\ g.doc \in Docs /\ g.index \in Indexes
    <3>1. g \in Hits
      BY DEF SearchInv, SearchTypeOK
    <3> QED
      BY <3>1 DEF Hits
  <2>3. /\ g.live /\ h.doc = g.doc /\ h.index = g.index /\ h.text = g.text
        /\ rows'[g.doc][g.index] # NoRow
    BY <1>3, <1>6, <2>1
  <2>4. /\ claim[g.doc] # Mixed
        /\ rows[g.doc][g.index] # NoRow
             => rows'[g.doc][g.index] = rows[g.doc][g.index]
    BY <1>6, <2>2, <2>3, RowKeepsText DEF SearchInv, CommandStep
  <2>5. rows[g.doc][g.index] # NoRow /\ rows[g.doc][g.index].hash = g.text
    BY <2>3, <2>4 DEF SearchInv, FetchedTextIsTheHits
  <2> QED
    BY <2>3, <2>4, <2>5
<1> QED
  BY <1>1, <1>4, <1>5, <1>6 DEF SearchInv, FetchedTextIsTheHits

(* What a search reads are rows as they are in the table. *)
LEMMA TableHitsType ==
  ASSUME TypeOK
  PROVE  /\ TableHits \in SUBSET Hits
         /\ \A h \in TableHits : rows[h.doc][h.index] # NoRow
                                 /\ rows[h.doc][h.index].hash = h.text
<1>1. ASSUME NEW d \in Docs, NEW i \in Existing(d)
      PROVE  HitOf(d, i) \in Hits
  <2>1. i \in Indexes /\ rows[d][i] \in Rows
    BY DEF Existing, TypeOK
  <2> QED
    BY <2>1 DEF HitOf, Hits, Rows
<1> QED
  BY <1>1 DEF TableHits, HitOf, Existing

(* No search is under way: top_k is 0. *)
LEMMA NoTopK == 0 \in 0 .. MaxTopK
  BY MaxTopKAssumption

(* However a call ends, the reader's variables keep their types. *)
LEMMA EndsTypes ==
  ASSUME SearchTypeOK, NEW r \in Readers,
         NEW how \in {"none", "error", "invalid", "hits", "not found"} \cup Hashes,
         Ends(r, how)
  PROVE  /\ at' \in [Readers -> {"idle", "embed", "select"}]
         /\ top_k' \in [Readers -> 0 .. MaxTopK]
         /\ answer' \in [Readers -> {"none", "error", "invalid", "hits", "not found"} \cup Hashes]
<1>1. at' = [at EXCEPT ![r] = "idle"] /\ at \in [Readers -> {"idle", "embed", "select"}]
  BY DEF Ends, SearchTypeOK
<1>2. top_k' = [top_k EXCEPT ![r] = 0] /\ top_k \in [Readers -> 0 .. MaxTopK]
  BY DEF Ends, SearchTypeOK
<1>3. 0 \in 0 .. MaxTopK
  BY NoTopK
<1>4. answer' = [answer EXCEPT ![r] = how]
      /\ answer \in [Readers -> {"none", "error", "invalid", "hits", "not found"} \cup Hashes]
  BY DEF Ends, SearchTypeOK
<1> QED
  BY <1>1, <1>2, <1>3, <1>4

(* A search answers with such rows, or leaves the earlier hits. *)
LEMMA SelectShowsRows ==
  ASSUME SearchInv, NEW r \in Readers, Select(r)
  PROVE  SearchInv'
<1>1. UNCHANGED vars
  BY DEF Select
<1>2. LifecycleInv'
  BY <1>1, NextInv DEF SearchInv
<1>3. TableHits \in SUBSET Hits
      /\ \A h \in TableHits : rows[h.doc][h.index] # NoRow /\ rows[h.doc][h.index].hash = h.text
  BY TableHitsType DEF SearchInv, SearchTypeOK
<1>4. \/ UNCHANGED hits
      \/ \E S \in SUBSET TableHits : hits' = [hits EXCEPT ![r] = S]
  BY DEF Select, Selected, Ends
<1>5. \E how \in {"hits", "invalid", "error"} : Ends(r, how)
  BY DEF Select
<1>6. SearchTypeOK'
  <2>1. hits' \in [Readers -> SUBSET Hits]
    BY <1>3, <1>4 DEF SearchInv, SearchTypeOK
  <2>2. /\ at' \in [Readers -> {"idle", "embed", "select"}]
        /\ top_k' \in [Readers -> 0 .. MaxTopK]
        /\ answer' \in [Readers -> {"none", "error", "invalid", "hits", "not found"} \cup Hashes]
    BY <1>5, EndsTypes DEF SearchInv
  <2> QED
    BY <1>2, <2>1, <2>2 DEF SearchTypeOK, LifecycleInv
<1>7. \A q \in Readers : \A h \in hits'[q] : h \in hits[q] \/ h \in TableHits
  BY <1>4 DEF SearchInv, SearchTypeOK
<1> QED
  BY <1>1, <1>2, <1>3, <1>6, <1>7 DEF SearchInv, FetchedTextIsTheHits, vars

(* The steps of readers that change no hit. *)
LEMMA OthersKeepHits ==
  ASSUME SearchInv, UNCHANGED <<vars, hits>>, SearchTypeOK'
  PROVE  SearchInv'
  BY NextInv DEF SearchInv, FetchedTextIsTheHits, vars

(* SearchInv holds in every reachable state: readers disturb no command, and *)
(* no command puts another text under a hit.                                 *)
THEOREM SearchInvariance == SearchSpec => []SearchInv
<1>1. SearchInit => SearchInv
  BY InitInv, MaxTopKAssumption
     DEF SearchInit, SearchInv, SearchTypeOK, FetchedTextIsTheHits, LifecycleInv
<1>2. SearchInv /\ [SearchNext]_<<vars, readerVars>> => SearchInv'
  <2> SUFFICES ASSUME SearchInv, [SearchNext]_<<vars, readerVars>>
               PROVE  SearchInv'
    OBVIOUS
  <2>1. CASE CommandStep
    BY <2>1, CommandKeepsHits
  <2>2. ASSUME NEW r \in Readers, Select(r)
        PROVE  SearchInv'
    BY <2>2, SelectShowsRows
  <2>3. ASSUME UNCHANGED <<vars, hits>>
        PROVE  TypeOK' /\ hits' \in [Readers -> SUBSET Hits]
    BY <2>3 DEF SearchInv, SearchTypeOK, TypeOK, vars
  <2>4. ASSUME NEW r \in Readers, NEW k \in TopKs, Search(r, k)
        PROVE  SearchInv'
    <3>1. CASE Accepted(k)
      <4>1. k \in 0 .. MaxTopK
        BY <3>1, TopKsAssumption, MaxTopKAssumption DEF Accepted
      <4>2. /\ at' = [at EXCEPT ![r] = "embed"] /\ top_k' = [top_k EXCEPT ![r] = k]
            /\ UNCHANGED <<vars, hits, answer>>
        BY <2>4, <3>1 DEF Search
      <4>3. SearchTypeOK'
        BY <2>3, <4>1, <4>2 DEF SearchInv, SearchTypeOK
      <4> QED
        BY <4>2, <4>3, OthersKeepHits
    <3>2. CASE ~Accepted(k)
      <4>1. Ends(r, "error") /\ UNCHANGED <<vars, hits>>
        BY <2>4, <3>2 DEF Search
      <4>2. SearchTypeOK'
        BY <2>3, <4>1, EndsTypes DEF SearchInv, SearchTypeOK
      <4> QED
        BY <4>1, <4>2, OthersKeepHits
    <3> QED
      BY <3>1, <3>2
  <2>5. ASSUME NEW r \in Readers, EmbedQuery(r)
        PROVE  SearchInv'
    <3>1. UNCHANGED <<vars, hits>>
      BY <2>5 DEF EmbedQuery
    <3>2. CASE at' = [at EXCEPT ![r] = "select"] /\ UNCHANGED <<top_k, answer>>
      BY <2>3, <3>1, <3>2, OthersKeepHits DEF SearchInv, SearchTypeOK
    <3>3. CASE Ends(r, "error")
      BY <2>3, <3>1, <3>3, EndsTypes, OthersKeepHits DEF SearchInv, SearchTypeOK
    <3> QED
      BY <2>5, <3>2, <3>3 DEF EmbedQuery
  <2>6. ASSUME NEW r \in Readers, GetDocument(r)
        PROVE  SearchInv'
    <3>1. PICK h \in hits[r] : \/ h.live /\ Ends(r, rows[h.doc][h.index].hash)
                               \/ Ends(r, "not found")
                               \/ Ends(r, "error")
      BY <2>6 DEF GetDocument
    <3>2. h.live => rows[h.doc][h.index].hash \in Hashes
      <4>1. h \in Hits /\ (h.live => rows[h.doc][h.index] # NoRow)
        BY DEF SearchInv, SearchTypeOK
      <4>2. h.doc \in Docs /\ h.index \in Indexes
        BY <4>1 DEF Hits
      <4>3. rows \in [Docs -> [Indexes -> Rows \cup {NoRow}]]
        BY DEF SearchInv, LifecycleInv, TypeOK
      <4>4. rows[h.doc][h.index] \in Rows \cup {NoRow}
        BY <4>2, <4>3
      <4> QED
        BY <4>1, <4>4 DEF Rows
    <3>3. \E how \in {"none", "error", "invalid", "hits", "not found"} \cup Hashes : Ends(r, how)
      BY <3>1, <3>2
    <3>4. UNCHANGED <<vars, hits>>
      BY <2>6 DEF GetDocument
    <3>5. SearchTypeOK'
      BY <2>3, <3>3, <3>4, EndsTypes DEF SearchInv, SearchTypeOK
    <3> QED
      BY <3>4, <3>5, OthersKeepHits
  <2>7. CASE UNCHANGED <<vars, readerVars>>
    <3>1. SearchTypeOK'
      BY <2>3, <2>7 DEF SearchInv, SearchTypeOK, readerVars
    <3> QED
      BY <2>7, <3>1, OthersKeepHits DEF readerVars
  <2> QED
    BY <2>1, <2>2, <2>4, <2>5, <2>6, <2>7 DEF SearchNext
<1> QED
  BY <1>1, <1>2, PTL DEF SearchSpec

(* get_document never answers with another text than the hit it was called   *)
(* for had shown, unless two versions or a crash met in the document.        *)
THEOREM FetchedText == SearchSpec => []FetchedTextIsTheHits
<1>1. SearchInv => FetchedTextIsTheHits
  BY DEF SearchInv
<1> QED
  BY <1>1, SearchInvariance, PTL
==================================================================================
