--------------------------- MODULE LangflowImportProofs ---------------------------
(* Proofs about LangflowImport: ImportInv is inductive, and what follows from it. *)
EXTENDS LangflowImport, TLAPS

Emptied == [i \in Indexes |-> NoRow]

--------------------------------------------------------------------------------
(* Contents, and the texts of rows. *)
LEMMA ContentsType ==
    ASSUME NEW c \in Contents
    PROVE  /\ c \in Seq(Hashes)
           /\ Len(c) \in 0 .. MaxChunks
           /\ DOMAIN c = 1 .. Len(c)
           /\ \A i \in 1 .. Len(c) : c[i] \in Hashes
           /\ c # <<>> => Len(c) > 0
<1>1. PICK n \in 0 .. MaxChunks : c \in [1 .. n -> Hashes]
  BY DEF Contents
<1>2. n \in Nat
  BY MaxChunksAssumption
<1>3. c \in Seq(Hashes)
  BY <1>1, <1>2
<1>4. Len(c) = n
  BY <1>1, <1>2, <1>3
<1> QED
  BY <1>1, <1>2, <1>3, <1>4

LEMMA CollectionType ==
    ASSUME NEW c \in Collections, NEW d \in Docs
    PROVE  c[d] \in Contents
BY CollectionsAssumption

LEMMA HashesRest ==
    ASSUME NEW d, rows'[d] = rows[d]
    PROVE  HashesOf(d)' = HashesOf(d)
BY DEF HashesOf

LEMMA HostHashesRest ==
    ASSUME \A d \in Hosts : rows'[d] = rows[d]
    PROVE  HostHashes' = HostHashes
BY HashesRest DEF HostHashes

LEMMA NoHashesLeft ==
    ASSUME NEW d, rows'[d] = Emptied
    PROVE  HashesOf(d)' = {}
BY DEF HashesOf, Emptied

LEMMA InHostHashes ==
    ASSUME NEW d \in Hosts, NEW h \in HashesOf(d)
    PROVE  h \in HostHashes
BY DEF HostHashes

(* A row that is the image of a content holds its texts. *)
LEMMA ImageHashes ==
    ASSUME NEW d \in Docs, NEW c \in Contents, rows[d] = ImageOf(c)
    PROVE  HashesOf(d) = ContentHashes(c)
<1> USE ContentsType
<1>1. ASSUME NEW h \in HashesOf(d) PROVE h \in ContentHashes(c)
  <2>1. PICK i \in Indexes : rows[d][i] = h /\ h # NoRow
    BY <1>1 DEF HashesOf
  <2>2. i < Len(c) /\ h = c[i + 1]
    BY <2>1 DEF ImageOf
  <2>3. i + 1 \in DOMAIN c
    BY <2>2 DEF Indexes
  <2> QED
    BY <2>2, <2>3 DEF ContentHashes
<1>2. ASSUME NEW h \in ContentHashes(c) PROVE h \in HashesOf(d)
  <2>1. PICK i \in 1 .. Len(c) : c[i] = h
    BY <1>2 DEF ContentHashes
  <2>2. i - 1 \in Indexes /\ i - 1 < Len(c) /\ (i - 1) + 1 = i
    BY MaxChunksAssumption DEF Indexes
  <2>3. rows[d][i - 1] = h
    BY <2>1, <2>2 DEF ImageOf
  <2>4. h # NoRow
    BY <2>1, NoRowAssumption
  <2> QED
    BY <2>2, <2>3, <2>4 DEF HashesOf
<1> QED
  BY <1>1, <1>2

--------------------------------------------------------------------------------
(* What the statements do to the table. *)
LEMMA DeleteEmpties ==
    ASSUME ImportInv, NEW w \in Importers, Delete(w)
    PROVE  \E d \in Docs :
             /\ doc[w] = {d}
             /\ rows'[d] = Emptied
             /\ \A e \in Docs \ {d} : rows'[e] = rows[e]
             /\ rows' \in [Docs -> [Indexes -> Hashes \cup {NoRow}]]
<1>1. PICK d \in Docs : doc[w] = {d}
  BY DEF ImportInv, InPlace, Delete
<1>2. rows' \in [Docs -> [Indexes -> Hashes \cup {NoRow}]]
  BY DEF Delete, ImportInv, TypeOK
<1>3. rows'[d] = Emptied /\ \A e \in Docs \ {d} : rows'[e] = rows[e]
  BY <1>1 DEF Delete, Emptied
<1> QED
  BY <1>1, <1>2, <1>3

LEMMA InsertWrites ==
    ASSUME ImportInv, NEW w \in Importers, Insert(w)
    PROVE  \E d \in Docs :
             /\ doc[w] = {d}
             /\ chunks[w] \in Collections /\ chunks[w][d] \in Contents
             /\ next[w] \in Indexes /\ next[w] \in Nat
             /\ next[w] < Len(chunks[w][d])
             /\ chunks[w][d][next[w] + 1] \in ContentHashes(chunks[w][d]) \cap Hashes
             /\ rows'[d] = [rows[d] EXCEPT ![next[w]] = chunks[w][d][next[w] + 1]]
             /\ \A e \in Docs \ {d} : rows'[e] = rows[e]
             /\ rows' \in [Docs -> [Indexes -> Hashes \cup {NoRow}]]
             /\ \/ /\ next[w] + 1 < Len(chunks[w][d])
                   /\ next' = [next EXCEPT ![w] = @ + 1]
                   /\ UNCHANGED <<pc, doc>>
                \/ /\ next[w] + 1 = Len(chunks[w][d])
                   /\ next' = [next EXCEPT ![w] = 0]
                   /\ pc' = [pc EXCEPT ![w] = "groups"]
                   /\ doc' = [doc EXCEPT ![w] = {}]
<1> DEFINE c(d) == chunks[w][d]
           Row == [Indexes -> Hashes \cup {NoRow}]
<1>1. PICK d \in doc[w] :
         /\ rows' = [rows EXCEPT ![d][next[w]] = c(d)[next[w] + 1]]
         /\ \/ /\ next[w] + 1 < Len(c(d))
               /\ next' = [next EXCEPT ![w] = @ + 1]
               /\ UNCHANGED <<pc, doc>>
            \/ /\ next[w] + 1 = Len(c(d))
               /\ next' = [next EXCEPT ![w] = 0]
               /\ pc' = [pc EXCEPT ![w] = "groups"]
               /\ doc' = [doc EXCEPT ![w] = {}]
  BY DEF Insert
<1>2. doc[w] = {d} /\ d \in Docs /\ pc[w] = "insert"
  BY <1>1 DEF ImportInv, InPlace, Insert
<1>3. chunks[w] \in Collections /\ c(d) \in Contents
  BY <1>2, CollectionType DEF ImportInv, InPlace, Idle
<1>4. next[w] \in 0 .. MaxChunks /\ next[w] < Len(c(d))
  BY <1>2 DEF ImportInv, InPlace, TypeOK
<1>5. next[w] \in Indexes /\ next[w] \in Nat /\ next[w] + 1 \in 1 .. Len(c(d))
  BY <1>3, <1>4, ContentsType, MaxChunksAssumption DEF Indexes
<1>6. c(d)[next[w] + 1] \in ContentHashes(c(d)) \cap Hashes
  BY <1>3, <1>5, ContentsType DEF ContentHashes
<1>7. rows \in [Docs -> Row]
  BY DEF ImportInv, TypeOK
<1>8. rows'[d] = [rows[d] EXCEPT ![next[w]] = c(d)[next[w] + 1]]
      /\ \A e \in Docs \ {d} : rows'[e] = rows[e]
  BY <1>1, <1>2, <1>7
<1>9. rows'[d] \in Row
  BY <1>2, <1>5, <1>6, <1>7, <1>8
<1>10. rows' \in [Docs -> Row]
  BY <1>1, <1>2, <1>7, <1>8, <1>9
<1> QED
  BY <1>1, <1>2, <1>3, <1>4, <1>5, <1>6, <1>8, <1>10

LEMMA InsertHashes ==
    ASSUME NEW d, NEW n \in Indexes, NEW h, rows[d] \in [Indexes -> Hashes \cup {NoRow}],
           rows'[d] = [rows[d] EXCEPT ![n] = h]
    PROVE  HashesOf(d)' \subseteq HashesOf(d) \cup {h}
BY DEF HashesOf

LEMMA DropEmpties ==
    ASSUME ImportInv, NEW w \in Importers, DropFallback(w)
    PROVE  \E d \in Fallbacks :
             /\ d \in todo[w]
             /\ todo' = [todo EXCEPT ![w] = @ \ {d}]
             /\ rows'[d] = Emptied
             /\ \A e \in Docs \ {d} : rows'[e] = rows[e]
             /\ rows' \in [Docs -> [Indexes -> Hashes \cup {NoRow}]]
<1>1. PICK d \in todo[w] : /\ rows' = [rows EXCEPT ![d] = Emptied]
                           /\ todo' = [todo EXCEPT ![w] = @ \ {d}]
  BY DEF DropFallback, Emptied
<1>2. d \in Fallbacks /\ d \in Docs
  BY <1>1 DEF ImportInv, InPlace, DropFallback, Docs
<1>3. Emptied \in [Indexes -> Hashes \cup {NoRow}]
  BY DEF Emptied
<1> QED
  BY <1>1, <1>2, <1>3 DEF ImportInv, TypeOK

LEMMA KeptLeave ==
    ASSUME TypeOK, NEW w \in Importers, Leave(w)
    PROVE  /\ pc' \in [Importers -> {"idle", "hosts", "groups", "delete", "insert",
                                     "fallbacks", "drop"}]
           /\ chunks' \in [Importers -> Collections \cup {NoChunks}]
           /\ todo' \in [Importers -> SUBSET Docs]
           /\ doc' \in [Importers -> SUBSET Docs]
           /\ next' \in [Importers -> 0 .. MaxChunks]
           /\ hosts' \in [Importers -> SUBSET Hashes]
           /\ overlap' \in BOOLEAN
<1>1. 0 \in 0 .. MaxChunks
  BY MaxChunksAssumption
<1> QED
  BY <1>1 DEF TypeOK, Leave

LEMMA KnownType ==
    ASSUME TypeOK, NEW c \in Collections
    PROVE  KnownHashes(c) \subseteq Hashes
<1>1. ASSUME NEW d \in Hosts PROVE HashesOf(d) \subseteq Hashes
  BY <1>1 DEF TypeOK, HashesOf, Docs
<1>2. ASSUME NEW d \in Hosts PROVE ContentHashes(c[d]) \subseteq Hashes
  BY <1>2, CollectionType, ContentsType DEF ContentHashes, Docs
<1> QED
  BY <1>1, <1>2 DEF KnownHashes, HostHashes, IncomingHostHashes

--------------------------------------------------------------------------------
(* One lemma per part of the invariant. *)
LEMMA TypeStep ==
    ASSUME ImportInv, [Next]_vars
    PROVE  TypeOK'
<1> DEFINE Pcs == {"idle", "hosts", "groups", "delete", "insert", "fallbacks", "drop"}
<1> USE DEF ImportInv, TypeOK
<1>1. CASE UNCHANGED vars
  BY <1>1 DEF vars
<1>2. ASSUME NEW c \in Collections, Edit(c) PROVE TypeOK'
  BY <1>2 DEF Edit, importer
<1>3. ASSUME NEW w \in Importers, Begin(w) PROVE TypeOK'
  BY <1>3 DEF Begin, table
<1>4. ASSUME NEW w \in Importers, ReadHosts(w) PROVE TypeOK'
  BY <1>4 DEF ReadHosts, table, history, GroupsToSync
<1>5. ASSUME NEW w \in Importers, Fingerprint(w) PROVE TypeOK'
  BY <1>5 DEF Fingerprint, table, history
<1>6. ASSUME NEW w \in Importers, Delete(w) PROVE TypeOK'
  <2>1. rows' \in [Docs -> [Indexes -> Hashes \cup {NoRow}]]
    BY <1>6, DeleteEmpties
  <2> QED
    BY <1>6, <2>1 DEF Delete, history
<1>7. ASSUME NEW w \in Importers, Insert(w) PROVE TypeOK'
  <2>1. PICK d \in Docs :
          /\ rows' \in [Docs -> [Indexes -> Hashes \cup {NoRow}]]
          /\ next[w] \in Indexes
          /\ \/ next' = [next EXCEPT ![w] = @ + 1] /\ UNCHANGED <<pc, doc>>
             \/ /\ next' = [next EXCEPT ![w] = 0]
                /\ pc' = [pc EXCEPT ![w] = "groups"]
                /\ doc' = [doc EXCEPT ![w] = {}]
    BY <1>7, InsertWrites
  <2>2. next[w] + 1 \in 0 .. MaxChunks /\ 0 \in 0 .. MaxChunks
    BY <2>1, MaxChunksAssumption DEF Indexes
  <2>3. next' \in [Importers -> 0 .. MaxChunks]
    BY <2>1, <2>2
  <2>4. pc' \in [Importers -> Pcs] /\ doc' \in [Importers -> SUBSET Docs]
    BY <2>1
  <2> QED
    BY <1>7, <2>1, <2>3, <2>4 DEF Insert, history
<1>8. ASSUME NEW w \in Importers, ReadHostsAgain(w) PROVE TypeOK'
  <2>1. KnownHashes(chunks[w]) \subseteq Hashes
    BY <1>8, KnownType DEF InPlace, Idle, ReadHostsAgain
  <2> QED
    BY <1>8, <2>1 DEF ReadHostsAgain, table, history
<1>9. ASSUME NEW w \in Importers, ReadFallbacks(w) PROVE TypeOK'
  BY <1>9 DEF ReadFallbacks, table, history, SharingFallbacks, Docs
<1>10. ASSUME NEW w \in Importers, DropFallback(w) PROVE TypeOK'
  <2>1. /\ rows' \in [Docs -> [Indexes -> Hashes \cup {NoRow}]]
        /\ \E d \in Fallbacks : todo' = [todo EXCEPT ![w] = @ \ {d}]
    BY <1>10, DropEmpties
  <2> QED
    BY <1>10, <2>1 DEF DropFallback, history
<1>11. ASSUME NEW w \in Importers, Finish(w) PROVE TypeOK'
  BY <1>11, KeptLeave DEF Finish, table
<1>12. ASSUME NEW w \in Importers, Crash(w) PROVE TypeOK'
  BY <1>12, KeptLeave DEF Crash, table
<1> QED
  BY <1>1, <1>2, <1>3, <1>4, <1>5, <1>6, <1>7, <1>8, <1>9, <1>10, <1>11, <1>12 DEF Next

Step(w) == \/ Begin(w) \/ ReadHosts(w) \/ Fingerprint(w) \/ Delete(w) \/ Insert(w)
           \/ ReadHostsAgain(w) \/ ReadFallbacks(w) \/ DropFallback(w)
           \/ Finish(w) \/ Crash(w)

(* The step of another import leaves what an import holds. *)
LEMMA OthersRest ==
    ASSUME TypeOK, [Next]_vars, NEW v \in Importers,
           ~Step(v)
    PROVE  /\ pc'[v] = pc[v] /\ chunks'[v] = chunks[v] /\ todo'[v] = todo[v]
           /\ doc'[v] = doc[v] /\ next'[v] = next[v] /\ hosts'[v] = hosts[v]
<1> USE DEF TypeOK
<1>1. CASE UNCHANGED vars
  BY <1>1 DEF vars
<1>2. CASE \E c \in Collections : Edit(c)
  BY <1>2 DEF Edit, importer
<1>3. ASSUME NEW w \in Importers, w # v, Finish(w) \/ Crash(w)
      PROVE  /\ pc'[v] = pc[v] /\ chunks'[v] = chunks[v] /\ todo'[v] = todo[v]
             /\ doc'[v] = doc[v] /\ next'[v] = next[v] /\ hosts'[v] = hosts[v]
  BY <1>3 DEF Finish, Crash, Leave
<1>4. ASSUME NEW w \in Importers, w # v, Fingerprint(w) \/ Insert(w) \/ DropFallback(w)
      PROVE  /\ pc'[v] = pc[v] /\ chunks'[v] = chunks[v] /\ todo'[v] = todo[v]
             /\ doc'[v] = doc[v] /\ next'[v] = next[v] /\ hosts'[v] = hosts[v]
  BY <1>4 DEF Fingerprint, Insert, DropFallback
<1>5. ASSUME NEW w \in Importers, w # v, Begin(w) \/ ReadHosts(w) \/ Delete(w)
                                         \/ ReadHostsAgain(w) \/ ReadFallbacks(w)
      PROVE  /\ pc'[v] = pc[v] /\ chunks'[v] = chunks[v] /\ todo'[v] = todo[v]
             /\ doc'[v] = doc[v] /\ next'[v] = next[v] /\ hosts'[v] = hosts[v]
  BY <1>5 DEF Begin, ReadHosts, Delete, ReadHostsAgain, ReadFallbacks
<1> QED
  BY <1>1, <1>2, <1>3, <1>4, <1>5 DEF Next, Step

LEMMA InPlaceStep ==
    ASSUME ImportInv, [Next]_vars, NEW w \in Importers
    PROVE  InPlace(w)'
<1>0. TypeOK /\ InPlace(w)
  BY DEF ImportInv
<1>1. CASE ~Step(w)
  BY <1>0, <1>1, OthersRest DEF InPlace, Idle, Working
<1>2. CASE Begin(w)
  BY <1>0, <1>2 DEF Begin, InPlace, Idle, Working, TypeOK, table
<1>3. CASE ReadHosts(w)
  BY <1>0, <1>3 DEF ReadHosts, InPlace, Idle, Working, TypeOK, GroupsToSync, ShouldSync
<1>4. CASE Fingerprint(w)
  BY <1>0, <1>4 DEF Fingerprint, InPlace, Idle, Working, TypeOK
<1>5. CASE Delete(w)
  <2>1. PICK d \in Docs : doc[w] = {d}
    BY <1>5, DeleteEmpties
  <2>2. chunks[w] \in Collections /\ chunks[w][d] # <<>> /\ next[w] = 0
    BY <1>0, <1>5, <2>1 DEF Delete, InPlace, Idle, Working
  <2>3. 0 < Len(chunks[w][d])
    BY <2>2, CollectionType, ContentsType
  <2> QED
    BY <1>0, <1>5, <2>1, <2>2, <2>3 DEF Delete, InPlace, Idle, Working, TypeOK
<1>6. CASE Insert(w)
  <2>1. PICK d \in Docs :
          /\ doc[w] = {d}
          /\ next[w] \in Nat
          /\ \/ /\ next[w] + 1 < Len(chunks[w][d])
                /\ next' = [next EXCEPT ![w] = @ + 1]
                /\ UNCHANGED <<pc, doc>>
             \/ /\ next' = [next EXCEPT ![w] = 0]
                /\ pc' = [pc EXCEPT ![w] = "groups"]
                /\ doc' = [doc EXCEPT ![w] = {}]
    BY <1>6, InsertWrites
  <2>2. pc[w] = "insert" /\ chunks' = chunks /\ todo' = todo
    BY <1>6 DEF Insert
  <2>3. CASE UNCHANGED <<pc, doc>> /\ next' = [next EXCEPT ![w] = @ + 1]
    BY <1>0, <2>1, <2>2, <2>3 DEF InPlace, Idle, Working, TypeOK
  <2>4. CASE /\ next' = [next EXCEPT ![w] = 0]
             /\ pc' = [pc EXCEPT ![w] = "groups"]
             /\ doc' = [doc EXCEPT ![w] = {}]
    BY <1>0, <2>2, <2>4 DEF InPlace, Idle, Working, TypeOK
  <2> QED
    BY <2>1, <2>3, <2>4
<1>7. CASE ReadHostsAgain(w)
  BY <1>0, <1>7 DEF ReadHostsAgain, InPlace, Idle, Working, TypeOK
<1>8. CASE ReadFallbacks(w)
  BY <1>0, <1>8 DEF ReadFallbacks, InPlace, Idle, Working, TypeOK, SharingFallbacks
<1>9. CASE DropFallback(w)
  <2>1. PICK d \in Fallbacks : todo' = [todo EXCEPT ![w] = @ \ {d}]
    BY <1>9, DropEmpties
  <2> QED
    BY <1>0, <1>9, <2>1 DEF DropFallback, InPlace, Idle, Working, TypeOK
<1>10. CASE Finish(w) \/ Crash(w)
  BY <1>0, <1>10 DEF Finish, Crash, Leave, InPlace, Idle, Working, TypeOK
<1> QED
  BY <1>1, <1>2, <1>3, <1>4, <1>5, <1>6, <1>7, <1>8, <1>9, <1>10 DEF Step

(* The rows of a document after a step. *)
LEMMA RowsStep ==
    ASSUME ImportInv, [Next]_vars, NEW d \in Docs, rows'[d] # rows[d]
    PROVE  \/ rows'[d] = Emptied
           \/ \E w \in Importers :
                /\ Insert(w)
                /\ doc[w] = {d}
                /\ HashesOf(d)' \subseteq HashesOf(d) \cup {chunks[w][d][next[w] + 1]}
<1>1. CASE \E w \in Importers : Delete(w)
  BY <1>1, DeleteEmpties
<1>2. CASE \E w \in Importers : DropFallback(w)
  BY <1>2, DropEmpties
<1>3. ASSUME NEW w \in Importers, Insert(w)
      PROVE  /\ doc[w] = {d}
             /\ HashesOf(d)' \subseteq HashesOf(d) \cup {chunks[w][d][next[w] + 1]}
  <2>1. PICK e \in Docs :
          /\ doc[w] = {e}
          /\ next[w] \in Indexes
          /\ rows'[e] = [rows[e] EXCEPT ![next[w]] = chunks[w][e][next[w] + 1]]
          /\ \A f \in Docs \ {e} : rows'[f] = rows[f]
    BY <1>3, InsertWrites
  <2>2. d = e
    BY <2>1
  <2>3. rows[d] \in [Indexes -> Hashes \cup {NoRow}]
    BY DEF ImportInv, TypeOK
  <2> HIDE DEF HashesOf
  <2> QED
    BY <2>1, <2>2, <2>3, InsertHashes
<1>4. CASE \E w \in Importers : \/ Begin(w) \/ ReadHosts(w) \/ Fingerprint(w)
                                \/ ReadHostsAgain(w) \/ ReadFallbacks(w)
                                \/ Finish(w) \/ Crash(w)
  BY <1>4 DEF Begin, ReadHosts, Fingerprint, ReadHostsAgain, ReadFallbacks, Finish, Crash, table
<1>5. CASE (\E c \in Collections : Edit(c)) \/ UNCHANGED vars
  BY <1>5 DEF Edit, vars
<1> QED
  BY <1>1, <1>2, <1>3, <1>4, <1>5 DEF Next

LEMMA FallbackTextsStep ==
    ASSUME ImportInv, [Next]_vars
    PROVE  FallbackTexts'
<1> SUFFICES ASSUME NEW f \in Fallbacks, NEW c \in Collections, c[f] # <<>>
             PROVE  HashesOf(f)' \subseteq ContentHashes(c[f])
  BY DEF FallbackTexts
<1>1. HashesOf(f) \subseteq ContentHashes(c[f]) /\ f \in Docs
  BY DEF ImportInv, FallbackTexts, Docs
<1>2. CASE rows'[f] = rows[f]
  BY <1>1, <1>2, HashesRest
<1>3. CASE rows'[f] = Emptied
  BY <1>3, NoHashesLeft
<1>4. ASSUME NEW w \in Importers, Insert(w), doc[w] = {f},
             HashesOf(f)' \subseteq HashesOf(f) \cup {chunks[w][f][next[w] + 1]}
      PROVE  HashesOf(f)' \subseteq ContentHashes(c[f])
  <2>1. /\ chunks[w] \in Collections
        /\ chunks[w][f] # <<>>
        /\ chunks[w][f][next[w] + 1] \in ContentHashes(chunks[w][f])
    <3>1. pc[w] = "insert" /\ InPlace(w)
      BY <1>4 DEF Insert, ImportInv
    <3>2. chunks[w] \in Collections /\ chunks[w][f] # <<>>
      BY <1>4, <3>1 DEF InPlace, Working, Idle
    <3>3. chunks[w][f][next[w] + 1] \in ContentHashes(chunks[w][f])
      BY <1>4, InsertWrites
    <3> QED
      BY <3>2, <3>3
  <2>2. chunks[w][f] = c[f]
    BY <2>1, CollectionsAssumption
  <2> QED
    BY <1>1, <1>4, <2>1, <2>2
<1> QED
  BY <1>1, <1>2, <1>3, <1>4, RowsStep

(* Whoever is to drop a fallback does so before it ends; a statement that     *)
(* adds a text is sent by an import that has its second look ahead.           *)
LEMMA DuplicatesStep ==
    ASSUME ImportInv, [Next]_vars
    PROVE  DuplicatesWillGo'
<1> DEFINE Claim == ~dirty \/ (\E w \in Importers : covers[w] /\ pc[w] \in {"fallbacks", "drop"})
<1>0. TypeOK /\ DuplicatesWillGo
  BY DEF ImportInv
<1>1. SUFFICES ASSUME Claim', NEW f \in Fallbacks, NEW d \in Hosts,
                      NEW h \in HashesOf(f)' \cap HashesOf(d)'
               PROVE  \E w \in Importers : WillDrop(w, f, h)'
  BY DEF DuplicatesWillGo
<1>2. f \in Docs /\ d \in Docs /\ f # d
  BY DocsAssumption DEF Docs
<1>3. ASSUME Claim, h \in HashesOf(f) \cap HashesOf(d)
      PROVE  \E w \in Importers : WillDrop(w, f, h)
  BY <1>0, <1>3 DEF DuplicatesWillGo
<1> HIDE DEF Claim
<1>4. ASSUME NEW w \in Importers, Begin(w) \/ ReadHosts(w)
      PROVE  WillDrop(w, f, h)'
  BY <1>0, <1>4 DEF Begin, ReadHosts, WillDrop, TypeOK
<1>5. ASSUME NEW w \in Importers, Fingerprint(w) \/ Delete(w) \/ Insert(w)
      PROVE  WillDrop(w, f, h)'
  BY <1>0, <1>5 DEF Fingerprint, Delete, Insert, WillDrop, TypeOK
<1>6. ASSUME NEW w \in Importers, ReadHostsAgain(w)
      PROVE  WillDrop(w, f, h)'
  <2>1. HashesOf(d)' = HashesOf(d)
    BY <1>6, HashesRest DEF ReadHostsAgain, table
  <2>2. h \in KnownHashes(chunks[w])
    BY <1>1, <2>1, InHostHashes DEF KnownHashes
  <2> QED
    BY <1>0, <1>6, <2>2 DEF ReadHostsAgain, WillDrop, TypeOK
<1>7. ASSUME NEW w \in Importers, ReadFallbacks(w)
      PROVE  \E v \in Importers : WillDrop(v, f, h)'
  <2>1. HashesOf(d)' = HashesOf(d) /\ HashesOf(f)' = HashesOf(f)
    BY <1>7, HashesRest DEF ReadFallbacks, table
  <2>2. Claim
    BY <1>0, <1>1, <1>7 DEF Claim, ReadFallbacks, TypeOK, history
  <2>3. PICK v \in Importers : WillDrop(v, f, h)
    BY <1>1, <1>3, <2>1, <2>2
  <2>4. CASE v = w
    <3>1. h \in hosts[w]
      BY <1>7, <2>3, <2>4 DEF ReadFallbacks, WillDrop
    <3>2. f \in SharingFallbacks(hosts[w])
      BY <1>1, <2>1, <3>1 DEF SharingFallbacks
    <3> QED
      BY <1>0, <1>7, <3>2 DEF ReadFallbacks, WillDrop, TypeOK
  <2>5. CASE v # w
    BY <1>0, <1>7, <2>3, <2>5 DEF ReadFallbacks, WillDrop, TypeOK
  <2> QED
    BY <2>4, <2>5
<1>8. ASSUME NEW w \in Importers, DropFallback(w)
      PROVE  \E v \in Importers : WillDrop(v, f, h)'
  <2>1. PICK e \in Fallbacks : /\ todo' = [todo EXCEPT ![w] = @ \ {e}]
                               /\ rows'[e] = Emptied
                               /\ \A g \in Docs \ {e} : rows'[g] = rows[g]
    BY <1>8, DropEmpties
  <2>2. e # f /\ e # d
    BY <1>1, <2>1, NoHashesLeft
  <2>3. HashesOf(d)' = HashesOf(d) /\ HashesOf(f)' = HashesOf(f)
    BY <1>2, <2>1, <2>2, HashesRest
  <2>4. Claim
    BY <1>0, <1>1, <1>8 DEF Claim, DropFallback, TypeOK, history
  <2>5. PICK v \in Importers : WillDrop(v, f, h)
    BY <1>1, <1>3, <2>3, <2>4
  <2>6. pc' = pc /\ hosts' = hosts
    BY <1>8 DEF DropFallback
  <2>7. f \in todo[v] => f \in todo'[v]
    BY <1>0, <2>1, <2>2 DEF TypeOK
  <2>8. WillDrop(v, f, h)'
    BY <2>5, <2>6, <2>7 DEF WillDrop
  <2> QED
    BY <2>8
<1>9. ASSUME NEW w \in Importers, Finish(w)
      PROVE  \E v \in Importers : WillDrop(v, f, h)'
  <2>1. HashesOf(d)' = HashesOf(d) /\ HashesOf(f)' = HashesOf(f)
    BY <1>9, HashesRest DEF Finish, table
  <2>2. Claim
    BY <1>0, <1>1, <1>9 DEF Claim, Finish, Leave, TypeOK
  <2>3. PICK v \in Importers : WillDrop(v, f, h)
    BY <1>1, <1>3, <2>1, <2>2
  <2>4. v # w
    BY <1>9, <2>3 DEF Finish, WillDrop
  <2>5. WillDrop(v, f, h)'
    BY <1>0, <1>9, <2>3, <2>4 DEF Finish, Leave, WillDrop, TypeOK
  <2> QED
    BY <2>5
<1>10. ASSUME NEW w \in Importers, Crash(w)
       PROVE  FALSE
  BY <1>1, <1>10 DEF Claim, Crash
<1>11. CASE (\E c \in Collections : Edit(c)) \/ UNCHANGED vars
  <2>1. UNCHANGED <<rows, pc, todo, hosts, dirty, covers>>
    BY <1>11 DEF Edit, importer, vars
  <2>2. HashesOf(d)' = HashesOf(d) /\ HashesOf(f)' = HashesOf(f)
    BY <2>1, HashesRest
  <2>3. Claim
    BY <1>1, <2>1 DEF Claim
  <2>4. PICK v \in Importers : WillDrop(v, f, h)
    BY <1>1, <1>3, <2>2, <2>3
  <2>5. WillDrop(v, f, h)'
    BY <2>1, <2>4 DEF WillDrop
  <2> QED
    BY <2>5
<1> QED
  BY <1>4, <1>5, <1>6, <1>7, <1>8, <1>9, <1>10, <1>11 DEF Next

(* A step of an import that is alone, other than its first or last.           *)
Amid(w) == \/ ReadHosts(w) \/ Fingerprint(w) \/ Delete(w) \/ Insert(w)
           \/ ReadHostsAgain(w) \/ ReadFallbacks(w) \/ DropFallback(w)

LEMMA AmidSteps ==
    ASSUME NEW w \in Importers, Amid(w)
    PROVE  ~Idle(w) /\ UNCHANGED history /\ collection' = collection /\ chunks' = chunks
BY DEF Amid, ReadHosts, Fingerprint, Delete, Insert, ReadHostsAgain, ReadFallbacks,
       DropFallback, table, history, Idle

LEMMA ExactRests ==
    ASSUME NEW d, rows'[d] = rows[d], collection' = collection
    PROVE  Exact(d)' = Exact(d)
BY DEF Exact, ImageOf

LEMMA DocsApart == \A d \in Hosts : d \in Docs /\ d \notin Fallbacks
BY DocsAssumption DEF Docs

LEMMA TableRests ==
    ASSUME rows' = rows, collection' = collection
    PROVE  /\ \A d \in Docs : Exact(d)' = Exact(d)
           /\ HostsExact' = HostsExact
           /\ \A d \in Docs : HashesOf(d)' = HashesOf(d)
           /\ HostHashes' = HostHashes
           /\ KnownHashes(collection)' = KnownHashes(collection)
<1>1. \A d \in Docs : Exact(d)' = Exact(d) /\ HashesOf(d)' = HashesOf(d)
  BY ExactRests, HashesRest
<1>2. HostHashes' = HostHashes
  BY HostHashesRest
<1> QED
  BY <1>1, <1>2, DocsApart DEF HostsExact, KnownHashes, IncomingHostHashes, ContentHashes

(* The chunks inserted one after the other are the image of the content.      *)
LEMMA InsertInstalls ==
    ASSUME ImportInv, NEW w \in Importers, Insert(w), AloneInPlace(w),
           NEW d \in doc[w], next[w] + 1 = Len(chunks[w][d])
    PROVE  Exact(d)'
<1>0. PICK e \in Docs :
         /\ doc[w] = {e}
         /\ next[w] \in Nat
         /\ rows'[e] = [rows[e] EXCEPT ![next[w]] = chunks[w][e][next[w] + 1]]
         /\ rows' \in [Docs -> [Indexes -> Hashes \cup {NoRow}]]
  BY InsertWrites
<1>1. /\ d \in Docs
      /\ next[w] \in Nat
      /\ rows'[d] = [rows[d] EXCEPT ![next[w]] = chunks[w][d][next[w] + 1]]
      /\ rows' \in [Docs -> [Indexes -> Hashes \cup {NoRow}]]
  <2>1. d = e
    BY <1>0
  <2> QED
    BY <1>0, <2>1
<1>2. chunks[w] = collection /\ pc[w] = "insert" /\ collection' = collection
  BY DEF AloneInPlace, Insert
<1>3. ASSUME NEW i \in Indexes
      PROVE  rows[d][i] = IF i < next[w] THEN collection[d][i + 1] ELSE NoRow
  BY <1>2 DEF AloneInPlace
<1>4. rows[d] \in [Indexes -> Hashes \cup {NoRow}]
  BY <1>1 DEF ImportInv, TypeOK
<1>5. ASSUME NEW i \in Indexes
      PROVE  rows'[d][i] = IF i < Len(collection[d]) THEN collection[d][i + 1] ELSE NoRow
  <2>1. i \in Nat
    BY DEF Indexes
  <2>2. CASE i = next[w]
    BY <1>1, <1>2, <1>4, <2>2
  <2>3. CASE i # next[w]
    <3>1. rows'[d][i] = rows[d][i]
      BY <1>1, <1>4, <2>3
    <3>2. i < next[w] <=> i < Len(collection[d])
      BY <1>1, <1>2, <2>1, <2>3
    <3> QED
      BY <1>3, <3>1, <3>2
  <2> QED
    BY <2>2, <2>3
<1>6. rows'[d] = ImageOf(collection[d])
  BY <1>1, <1>5 DEF ImageOf
<1> QED
  BY <1>2, <1>6 DEF Exact, ImageOf

LEMMA AloneAmid ==
    ASSUME ImportInv, NEW w \in Importers, Amid(w), AloneInPlace(w), [Next]_vars
    PROVE  AloneInPlace(w)'
<1>0. TypeOK /\ InPlace(w) /\ InPlace(w)'
  BY InPlaceStep DEF ImportInv
<1>1. collection' = collection /\ chunks' = chunks /\ chunks[w] = collection
  BY AmidSteps DEF AloneInPlace
<1>2. OthersIdle(w)'
  <2>1. ASSUME NEW v \in Importers \ {w} PROVE pc'[v] = pc[v]
    BY <1>0, <2>1 DEF TypeOK, Amid, ReadHosts, Fingerprint, Delete, Insert,
       ReadHostsAgain, ReadFallbacks, DropFallback
  <2> QED
    BY <2>1 DEF AloneInPlace, OthersIdle, Idle
<1> DEFINE HostsDue == Working(w) => \A d \in Hosts : collection[d] # <<>>
                                       => d \in todo[w] \cup doc[w] \/ Exact(d)
           Filled == pc[w] = "insert" => \A d \in doc[w], i \in Indexes :
                       rows[d][i] = IF i < next[w] THEN collection[d][i + 1] ELSE NoRow
           Dropping == pc[w] = "drop" => \A f \in Fallbacks :
                         HashesOf(f) \cap HostHashes # {} => f \in todo[w]
<1>3. HostsDue /\ Filled /\ Dropping
  BY DEF AloneInPlace
<1>4. SUFFICES /\ HostsDue' /\ Filled'
               /\ pc'[w] \in {"fallbacks", "drop"} => HostsExact'
               /\ pc'[w] = "fallbacks" => hosts'[w] = KnownHashes(collection)'
               /\ Dropping'
  BY <1>1, <1>2 DEF AloneInPlace
<1>5. ASSUME rows' = rows
      PROVE  /\ \A d \in Docs : Exact(d)' = Exact(d)
             /\ HostsExact' = HostsExact
             /\ \A d \in Docs : HashesOf(d)' = HashesOf(d)
             /\ HostHashes' = HostHashes
             /\ KnownHashes(collection)' = KnownHashes(collection)
  BY <1>1, <1>5, TableRests
<1>6. CASE ReadHosts(w)
  BY <1>0, <1>1, <1>6, DocsApart DEF ReadHosts, TypeOK, GroupsToSync, ShouldSync, Working
<1>7. CASE Fingerprint(w)
  <2>1. PICK d \in todo[w] :
          /\ todo' = [todo EXCEPT ![w] = @ \ {d}]
          /\ \/ rows[d] = ImageOf(chunks[w][d]) /\ UNCHANGED <<pc, doc>>
             \/ pc' = [pc EXCEPT ![w] = "delete"] /\ doc' = [doc EXCEPT ![w] = {d}]
    BY <1>7 DEF Fingerprint
  <2>2. rows' = rows /\ pc[w] = "groups" /\ doc[w] = {}
    BY <1>0, <1>7 DEF Fingerprint, table, InPlace
  <2>3. pc'[w] \in {"groups", "delete"}
    BY <1>0, <2>1, <2>2 DEF TypeOK
  <2>4. ASSUME NEW e \in Hosts, collection[e] # <<>>
        PROVE  e \in todo'[w] \cup doc'[w] \/ Exact(e)'
    <3>1. e \in todo[w] \/ Exact(e)
      BY <1>3, <2>2, <2>4 DEF Working
    <3>2. CASE e # d
      BY <1>0, <1>5, <2>1, <2>2, <3>1, <3>2, DocsApart DEF TypeOK
    <3>3. CASE e = d
      BY <1>0, <1>1, <1>5, <2>1, <2>2, <3>3, DocsApart DEF TypeOK, Exact
    <3> QED
      BY <3>2, <3>3
  <2> QED
    BY <1>1, <2>3, <2>4
<1>8. CASE Delete(w)
  <2>1. PICK d \in Docs : /\ doc[w] = {d}
                          /\ rows'[d] = Emptied
                          /\ \A e \in Docs \ {d} : rows'[e] = rows[e]
    BY <1>8, DeleteEmpties
  <2>2. /\ pc[w] = "delete" /\ pc'[w] = "insert" /\ doc' = doc /\ todo' = todo
        /\ next'[w] = 0
    BY <1>0, <1>8 DEF Delete, TypeOK, InPlace
  <2>3. HostsDue'
    BY <1>1, <1>3, <2>1, <2>2, ExactRests, DocsApart DEF Working
  <2>4. Filled'
    <3>1. \A i \in Indexes : ~(i < 0) /\ rows'[d][i] = NoRow
      BY <2>1 DEF Emptied, Indexes
    <3> QED
      BY <2>1, <2>2, <3>1
  <2> QED
    BY <2>2, <2>3, <2>4
<1>9. CASE Insert(w)
  <2> DEFINE Row == [Indexes -> Hashes \cup {NoRow}]
  <2>1. PICK d \in Docs :
          /\ doc[w] = {d}
          /\ next[w] \in Nat
          /\ rows'[d] = [rows[d] EXCEPT ![next[w]] = chunks[w][d][next[w] + 1]]
          /\ \A e \in Docs \ {d} : rows'[e] = rows[e]
          /\ \/ /\ next[w] + 1 < Len(chunks[w][d])
                /\ next' = [next EXCEPT ![w] = @ + 1]
                /\ UNCHANGED <<pc, doc>>
             \/ /\ next[w] + 1 = Len(chunks[w][d])
                /\ pc' = [pc EXCEPT ![w] = "groups"]
                /\ doc' = [doc EXCEPT ![w] = {}]
    BY <1>9, InsertWrites
  <2>2. pc[w] = "insert" /\ todo' = todo
    BY <1>9 DEF Insert
  <2>3. ASSUME NEW e \in Hosts, collection[e] # <<>>, e # d
        PROVE  e \in todo'[w] \/ Exact(e)'
    BY <1>1, <1>3, <2>1, <2>2, <2>3, ExactRests, DocsApart DEF Working
  <2>4. CASE /\ next' = [next EXCEPT ![w] = @ + 1]
             /\ UNCHANGED <<pc, doc>>
    <3>1. pc'[w] = "insert" /\ doc'[w] = {d} /\ next'[w] = next[w] + 1
      BY <1>0, <2>1, <2>2, <2>4 DEF TypeOK
    <3>2. rows[d] \in Row
      BY <1>0 DEF TypeOK
    <3>3. ASSUME NEW i \in Indexes
          PROVE  rows'[d][i] = IF i < next'[w] THEN collection[d][i + 1] ELSE NoRow
      <4>1. i \in Nat
        BY DEF Indexes
      <4>2. CASE i = next[w]
        BY <1>1, <2>1, <3>1, <3>2, <4>1, <4>2
      <4>3. CASE i # next[w]
        <5>1. rows'[d][i] = IF i < next[w] THEN collection[d][i + 1] ELSE NoRow
          BY <1>3, <2>1, <2>2, <3>2, <4>3
        <5> QED
          BY <2>1, <3>1, <4>1, <4>3, <5>1
      <4> QED
        BY <4>2, <4>3
    <3>4. Filled'
      BY <1>1, <3>1, <3>3
    <3>5. HostsDue'
      BY <1>1, <2>3, <3>1
    <3> QED
      BY <3>1, <3>4, <3>5
  <2>5. CASE /\ next[w] + 1 = Len(chunks[w][d])
             /\ pc' = [pc EXCEPT ![w] = "groups"]
             /\ doc' = [doc EXCEPT ![w] = {}]
    <3>1. pc'[w] = "groups"
      BY <1>0, <2>5 DEF TypeOK
    <3>2. Exact(d)'
      BY <1>9, <2>1, <2>5, InsertInstalls
    <3>3. HostsDue'
      BY <1>1, <2>3, <3>2
    <3> QED
      BY <3>1, <3>3
  <2> QED
    BY <2>1, <2>4, <2>5
<1>10. CASE ReadHostsAgain(w)
  <2>1. /\ pc[w] = "groups" /\ todo[w] = {} /\ rows' = rows /\ pc'[w] = "fallbacks"
        /\ hosts'[w] = KnownHashes(chunks[w])
    BY <1>0, <1>10 DEF ReadHostsAgain, table, TypeOK
  <2>2. HostsExact
    BY <1>0, <1>3, <2>1 DEF HostsExact, Working, InPlace
  <2> QED
    BY <1>1, <1>5, <2>1, <2>2 DEF Working
<1>11. CASE ReadFallbacks(w)
  <2>1. /\ pc[w] = "fallbacks" /\ rows' = rows /\ pc'[w] = "drop"
        /\ todo'[w] = SharingFallbacks(hosts[w])
    BY <1>0, <1>11 DEF ReadFallbacks, table, TypeOK
  <2>2. HostsExact /\ hosts[w] = KnownHashes(collection)
    BY <2>1 DEF AloneInPlace
  <2>3. Dropping'
    BY <1>5, <2>1, <2>2 DEF SharingFallbacks, KnownHashes, Docs
  <2> QED
    BY <1>5, <2>1, <2>2, <2>3 DEF Working
<1>12. CASE DropFallback(w)
  <2>1. PICK d \in Fallbacks : /\ todo' = [todo EXCEPT ![w] = @ \ {d}]
                               /\ rows'[d] = Emptied
                               /\ \A e \in Docs \ {d} : rows'[e] = rows[e]
    BY <1>12, DropEmpties
  <2>2. pc' = pc /\ pc[w] = "drop"
    BY <1>12 DEF DropFallback
  <2>3. \A e \in Hosts : rows'[e] = rows[e]
    BY <2>1, DocsApart
  <2>4. HostsExact'
    <3>1. HostsExact
      BY <2>2 DEF AloneInPlace
    <3> QED
      BY <1>1, <2>3, <3>1, ExactRests DEF HostsExact
  <2>5. HostHashes' = HostHashes
    BY <2>3, HostHashesRest
  <2>6. ASSUME NEW f \in Fallbacks, HashesOf(f)' \cap HostHashes # {}
        PROVE  f \in todo'[w]
    <3>1. f # d
      BY <2>1, <2>6, NoHashesLeft
    <3>2. HashesOf(f)' = HashesOf(f)
      BY <2>1, <3>1, HashesRest DEF Docs
    <3> QED
      BY <1>0, <1>3, <2>1, <2>2, <2>6, <3>1, <3>2 DEF TypeOK
  <2> QED
    BY <2>2, <2>4, <2>5, <2>6 DEF Working
<1> QED
  BY <1>6, <1>7, <1>8, <1>9, <1>10, <1>11, <1>12 DEF Amid

LEMMA AloneStep ==
    ASSUME ImportInv, [Next]_vars
    PROVE  Alone'
<1>0. TypeOK /\ Alone
  BY DEF ImportInv
<1>1. SUFFICES ASSUME ~overlap', NEW w \in Importers, ~Idle(w)'
               PROVE  AloneInPlace(w)'
  BY DEF Alone
<1>2. CASE UNCHANGED vars
  <2>1. AloneInPlace(w)
    BY <1>0, <1>1, <1>2 DEF Alone, Idle, vars
  <2>2. /\ \A d \in Hosts : Exact(d)' = Exact(d)
        /\ HostsExact' = HostsExact
        /\ \A f \in Fallbacks : HashesOf(f)' = HashesOf(f)
        /\ HostHashes' = HostHashes
        /\ KnownHashes(collection)' = KnownHashes(collection)
    BY <1>2, TableRests, DocsApart DEF vars, Docs
  <2> QED
    BY <1>2, <2>1, <2>2 DEF vars, AloneInPlace, OthersIdle, Idle, Working
<1>3. ASSUME NEW c \in Collections, Edit(c) PROVE FALSE
  BY <1>1, <1>3 DEF Edit, importer, Idle
<1>4. ASSUME NEW v \in Importers, Begin(v) PROVE AloneInPlace(w)'
  <2>1. OthersIdle(v) /\ pc' = [pc EXCEPT ![v] = "hosts"]
    BY <1>0, <1>1, <1>4 DEF Begin, TypeOK
  <2>2. w = v
    BY <1>0, <1>1, <2>1 DEF OthersIdle, Idle, TypeOK
  <2> QED
    BY <1>0, <1>4, <2>1, <2>2 DEF Begin, table, AloneInPlace, OthersIdle, Idle, Working, TypeOK
<1>5. ASSUME NEW v \in Importers, Amid(v) PROVE AloneInPlace(w)'
  <2>1. AloneInPlace(v)
    BY <1>0, <1>1, <1>5, AmidSteps DEF Alone, history
  <2>2. AloneInPlace(v)'
    BY <1>5, <2>1, AloneAmid
  <2>3. w = v
    BY <1>1, <2>2 DEF AloneInPlace, OthersIdle
  <2> QED
    BY <2>2, <2>3
<1>6. ASSUME NEW v \in Importers, Finish(v) \/ Crash(v) PROVE FALSE
  <2>1. ~Idle(v) /\ Leave(v)
    BY <1>6 DEF Finish, Crash, Idle
  <2>2. OthersIdle(v)
    BY <1>0, <1>1, <2>1 DEF Leave, Alone, AloneInPlace
  <2> QED
    BY <1>0, <1>1, <2>1, <2>2 DEF Leave, OthersIdle, Idle, TypeOK
<1> QED
  BY <1>2, <1>3, <1>4, <1>5, <1>6 DEF Next, Amid

--------------------------------------------------------------------------------
(* Imports of one Collection, one after the other and each alone.             *)

(* What a host document of the Collection holds is in the index.              *)
LEMMA IncomingInstalled ==
    ASSUME TypeOK, HostsExact
    PROVE  IncomingHostHashes(collection) \subseteq HostHashes
<1> SUFFICES ASSUME NEW d \in Hosts, NEW h \in ContentHashes(collection[d])
             PROVE  h \in HostHashes
  BY DEF IncomingHostHashes
<1>1. collection[d] # <<>>
  BY DEF ContentHashes
<1>2. d \in Docs /\ collection[d] \in Contents
  BY CollectionType, DocsApart DEF TypeOK
<1>3. HashesOf(d) = ContentHashes(collection[d])
  BY <1>1, <1>2, ImageHashes DEF HostsExact, Exact
<1> QED
  BY <1>3, InHostHashes

(* An import that is not the first writes fallbacks no host document replaces. *)
LEMMA AgainWrites ==
    ASSUME ImportInv, streak > 0, NEW w \in Importers, Delete(w) \/ Insert(w)
    PROVE  /\ streak # 2
           /\ \E d \in Fallbacks :
                /\ doc[w] = {d}
                /\ ShouldSync(collection, d, KnownHashes(collection))
                /\ HashesOf(d)' \subseteq HashesOf(d) \cup ContentHashes(collection[d])
                /\ \A e \in Docs \ {d} : rows'[e] = rows[e]
                /\ HostHashes' = HostHashes
                /\ KnownHashes(collection)' = KnownHashes(collection)
<1>1. pc[w] \in {"delete", "insert"} /\ collection' = collection
  BY DEF Delete, Insert
<1>2. PICK d \in Docs : /\ doc[w] = {d}
                        /\ \A e \in Docs \ {d} : rows'[e] = rows[e]
  BY DeleteEmpties, InsertWrites
<1>3. /\ streak # 2
      /\ d \in Fallbacks
      /\ d \in GroupsToSync(collection, KnownHashes(collection))
      /\ AloneInPlace(w)
  BY <1>1, <1>2 DEF ImportInv, Again, AgainInPlace, Alone, Working, Idle
<1>4. HostHashes' = HostHashes
  BY <1>2, <1>3, DocsApart, HostHashesRest
<1>5. KnownHashes(collection)' = KnownHashes(collection)
  BY <1>1, <1>4 DEF KnownHashes, IncomingHostHashes, ContentHashes
<1>6. HashesOf(d)' \subseteq HashesOf(d) \cup ContentHashes(collection[d])
  <2>1. CASE Delete(w)
    <3>1. rows'[d] = Emptied
      BY <1>2, <2>1, DeleteEmpties
    <3> QED
      BY <3>1, NoHashesLeft
  <2>2. CASE Insert(w)
    <3>1. PICK e \in Docs :
            /\ doc[w] = {e}
            /\ next[w] \in Indexes
            /\ chunks[w][e][next[w] + 1] \in ContentHashes(chunks[w][e])
            /\ rows'[e] = [rows[e] EXCEPT ![next[w]] = chunks[w][e][next[w] + 1]]
      BY <2>2, InsertWrites
    <3>2. e = d /\ chunks[w] = collection
      BY <1>2, <1>3, <3>1 DEF AloneInPlace
    <3>3. rows[d] \in [Indexes -> Hashes \cup {NoRow}]
      BY DEF ImportInv, TypeOK
    <3>4. HashesOf(d)' \subseteq HashesOf(d) \cup {chunks[w][e][next[w] + 1]}
      BY <3>1, <3>2, <3>3, InsertHashes
    <3> QED
      BY <3>1, <3>2, <3>4
  <2> QED
    BY <2>1, <2>2
<1> QED
  BY <1>2, <1>3, <1>4, <1>5, <1>6 DEF GroupsToSync

LEMMA AgainDropsNothing ==
    ASSUME ImportInv, streak > 0, NEW w \in Importers
    PROVE  ~DropFallback(w)
BY DropEmpties DEF ImportInv, Again, AgainInPlace, DropFallback

LEMMA ShouldSyncRests ==
    ASSUME TypeOK, collection' = collection, HostHashes' = HostHashes, NEW d \in Docs
    PROVE  /\ KnownHashes(collection)' = KnownHashes(collection)
           /\ ShouldSync(collection, d, KnownHashes(collection))'
                = ShouldSync(collection, d, KnownHashes(collection))
BY DEF KnownHashes, IncomingHostHashes, ContentHashes, ShouldSync

LEMMA AgainAmid ==
    ASSUME ImportInv, [Next]_vars, streak' > 0, NEW w \in Importers, Amid(w)
    PROVE  Again'
<1> DEFINE Due(d) == ShouldSync(collection, d, KnownHashes(collection))
           Fs == {d \in Docs : Due(d)}
           Lasting == \A f \in Fallbacks : Due(f) => f \in todo[w] \cup doc[w] \/ Exact(f)
<1>0. /\ TypeOK /\ InPlace(w)
      /\ streak > 0 /\ streak' = streak /\ overlap' = overlap /\ collection' = collection
      /\ chunks' = chunks
  BY AmidSteps DEF ImportInv, history
<1>1. /\ ~overlap /\ HostsExact /\ NoDuplicates /\ AgainInPlace(w)
      /\ streak = 2 => FallbacksExact /\ \A v \in Importers : doc[v] = {}
  BY <1>0 DEF ImportInv, Again
<1>2. AloneInPlace(w) /\ AloneInPlace(w)' /\ chunks[w] = collection
  BY <1>1, AmidSteps, AloneAmid DEF ImportInv, Alone, AloneInPlace
<1>3. ASSUME NEW v \in Importers, v # w
      PROVE  AgainInPlace(v)' /\ doc'[v] = {}
  <2>1. pc'[v] = "idle" /\ InPlace(v)'
    BY <1>2, <1>3, InPlaceStep DEF AloneInPlace, OthersIdle, Idle
  <2> QED
    BY <2>1 DEF AgainInPlace, InPlace, Working
<1>4. SUFFICES /\ HostsExact' /\ NoDuplicates' /\ AgainInPlace(w)'
               /\ streak = 2 => FallbacksExact' /\ doc'[w] = {}
  BY <1>0, <1>1, <1>3 DEF Again
<1>5. ASSUME rows' = rows
      PROVE  /\ \A d \in Docs : Exact(d)' = Exact(d) /\ Due(d)' = Due(d)
             /\ HostsExact' /\ NoDuplicates'
             /\ GroupsToSync(collection, KnownHashes(collection))' = Fs
             /\ FallbacksExact' = FallbacksExact
  <2>1. /\ \A d \in Docs : Exact(d)' = Exact(d) /\ Due(d)' = Due(d)
        /\ HostsExact'
        /\ \A d \in Docs : HashesOf(d)' = HashesOf(d)
        /\ HostHashes' = HostHashes
    BY <1>0, <1>1, <1>5, TableRests, ShouldSyncRests
  <2> HIDE DEF Due
  <2>2. NoDuplicates'
    BY <1>1, <2>1 DEF NoDuplicates, Docs
  <2>3. FallbacksExact' = FallbacksExact
    BY <2>1 DEF FallbacksExact, Docs, Due
  <2>4. GroupsToSync(collection, KnownHashes(collection))' = Fs
    BY <2>1 DEF GroupsToSync, Due
  <2> QED
    BY <2>1, <2>2, <2>3, <2>4
<1>6. GroupsToSync(collection, KnownHashes(collection)) = Fs
  BY DEF GroupsToSync
<1>7. FallbacksExact = \A f \in Fallbacks : Due(f) => Exact(f)
  BY DEF FallbacksExact
<1>8. Fallbacks \subseteq Docs
  BY DEF Docs
<1>9. SUFFICES /\ HostsExact' /\ NoDuplicates'
               /\ Working(w)' => /\ todo'[w] \cup doc'[w]
                                      \subseteq GroupsToSync(collection, KnownHashes(collection))'
                                 /\ doc'[w] \subseteq Fallbacks
                                 /\ Lasting'
               /\ pc'[w] \in {"fallbacks", "drop"} => FallbacksExact'
               /\ pc'[w] = "drop" => todo'[w] = {}
               /\ streak = 2 => FallbacksExact' /\ doc'[w] = {}
  BY <1>4 DEF AgainInPlace
<1>10. Working(w) => todo[w] \cup doc[w] \subseteq Fs /\ doc[w] \subseteq Fallbacks /\ Lasting
  BY <1>1, <1>6 DEF AgainInPlace
<1> HIDE DEF Due
<1>11. CASE ReadHosts(w)
  <2>1. /\ rows' = rows /\ pc'[w] = "groups" /\ doc'[w] = {}
        /\ todo'[w] = Fs
    BY <1>0, <1>2, <1>6, <1>11 DEF ReadHosts, table, TypeOK, InPlace
  <2> QED
    BY <1>1, <1>5, <1>8, <2>1 DEF Working
<1>12. CASE Fingerprint(w)
  <2>1. PICK d \in todo[w] :
          /\ todo' = [todo EXCEPT ![w] = @ \ {d}]
          /\ \/ rows[d] = ImageOf(chunks[w][d]) /\ UNCHANGED <<pc, doc>>
             \/ /\ rows[d] # ImageOf(chunks[w][d])
                /\ pc' = [pc EXCEPT ![w] = "delete"] /\ doc' = [doc EXCEPT ![w] = {d}]
    BY <1>12 DEF Fingerprint
  <2>2. rows' = rows /\ pc[w] = "groups" /\ doc[w] = {}
    BY <1>0, <1>12 DEF Fingerprint, table, InPlace
  <2>3. d \in Fs /\ d \in Docs /\ todo[w] \subseteq Fs /\ Lasting
    BY <1>10, <2>1, <2>2 DEF Working
  <2>4. CASE Exact(d)
    <3>1. rows[d] = ImageOf(chunks[w][d])
      BY <1>2, <2>4 DEF Exact
    <3>2. /\ pc'[w] = "groups" /\ doc'[w] = {}
          /\ todo'[w] = todo[w] \ {d}
      BY <1>0, <2>1, <2>2, <3>1 DEF TypeOK
    <3>3. Lasting'
      BY <1>5, <1>8, <2>2, <2>3, <2>4, <3>2
    <3> QED
      BY <1>1, <1>5, <2>2, <2>3, <3>2, <3>3 DEF Working
  <2>5. CASE ~Exact(d)
    <3>1. rows[d] # ImageOf(chunks[w][d])
      BY <1>2, <2>5 DEF Exact
    <3>2. /\ pc'[w] = "delete" /\ doc'[w] = {d}
          /\ todo'[w] = todo[w] \ {d}
      BY <1>0, <2>1, <2>2, <3>1 DEF TypeOK
    <3>3. d \in Fallbacks
      BY <1>1, <2>3, <2>5 DEF HostsExact, Due, ShouldSync, Docs
    <3>4. streak # 2
      BY <1>1, <1>7, <2>3, <2>5, <3>3
    <3>5. Lasting'
      BY <1>5, <1>8, <2>2, <2>3, <3>2
    <3> QED
      BY <1>5, <2>2, <2>3, <3>2, <3>3, <3>4, <3>5 DEF Working
  <2> QED
    BY <2>4, <2>5
<1>13. CASE Delete(w) \/ Insert(w)
  <2>1. PICK d \in Fallbacks :
          /\ doc[w] = {d}
          /\ Due(d)
          /\ HashesOf(d)' \subseteq HashesOf(d) \cup ContentHashes(collection[d])
          /\ \A e \in Docs \ {d} : rows'[e] = rows[e]
          /\ HostHashes' = HostHashes
    BY <1>0, <1>13, AgainWrites DEF Due
  <2>2. streak # 2
    BY <1>0, <1>13, AgainWrites
  <2>3. HostsExact'
    BY <1>0, <1>1, <2>1, DocsApart, ExactRests DEF HostsExact
  <2>4. NoDuplicates'
    <3>1. ContentHashes(collection[d]) \cap HostHashes = {}
      BY <2>1, DocsApart DEF Due, ShouldSync, KnownHashes
    <3>2. \A f \in Fallbacks \ {d} : HashesOf(f)' = HashesOf(f)
      BY <1>8, <2>1, HashesRest
    <3> QED
      BY <1>1, <2>1, <3>1, <3>2 DEF NoDuplicates
  <2>5. \A e \in Docs : Due(e)' = Due(e)
    BY <1>0, <2>1, ShouldSyncRests DEF Due
  <2>6. GroupsToSync(collection, KnownHashes(collection))' = Fs
    BY <2>5 DEF GroupsToSync, Due
  <2>7. pc[w] \in {"delete", "insert"} /\ todo' = todo /\ doc'[w] \subseteq doc[w]
    BY <1>0, <1>13 DEF Delete, Insert, TypeOK
  <2>8. pc'[w] \in {"groups", "insert"}
    BY <1>0, <1>13 DEF Delete, Insert, TypeOK
  <2>9. d \in doc'[w] \/ Exact(d)'
    <3>1. CASE Delete(w)
      BY <2>1, <3>1 DEF Delete
    <3>2. CASE Insert(w)
      BY <1>2, <2>1, <3>2, InsertInstalls DEF Insert
    <3> QED
      BY <1>13, <3>1, <3>2
  <2>10. \A f \in Fallbacks \ {d} : Exact(f)' = Exact(f)
    BY <1>0, <1>8, <2>1, ExactRests
  <2>11. Lasting'
    BY <1>8, <1>10, <2>1, <2>5, <2>7, <2>9, <2>10 DEF Working
  <2> QED
    BY <1>10, <2>2, <2>3, <2>4, <2>6, <2>7, <2>8, <2>11 DEF Working
<1>14. CASE ReadHostsAgain(w)
  <2>1. /\ pc[w] = "groups" /\ todo[w] = {} /\ rows' = rows /\ pc'[w] = "fallbacks"
        /\ doc' = doc
    BY <1>0, <1>14 DEF ReadHostsAgain, table, TypeOK
  <2>2. FallbacksExact
    BY <1>0, <1>7, <1>10, <2>1 DEF Working, InPlace
  <2> QED
    BY <1>1, <1>5, <2>1, <2>2 DEF Working
<1>15. CASE ReadFallbacks(w)
  <2>1. /\ pc[w] = "fallbacks" /\ rows' = rows /\ pc'[w] = "drop" /\ doc' = doc
        /\ todo'[w] = SharingFallbacks(hosts[w])
    BY <1>0, <1>15 DEF ReadFallbacks, table, TypeOK
  <2>2. hosts[w] = HostHashes
    <3>1. hosts[w] = KnownHashes(collection)
      BY <1>2, <2>1 DEF AloneInPlace
    <3> QED
      BY <1>0, <1>1, <3>1, IncomingInstalled DEF KnownHashes
  <2>3. todo'[w] = {}
    BY <1>1, <2>1, <2>2 DEF SharingFallbacks, NoDuplicates
  <2>4. FallbacksExact
    BY <1>1, <2>1 DEF AgainInPlace
  <2> QED
    BY <1>1, <1>5, <2>1, <2>3, <2>4 DEF Working
<1>16. CASE DropFallback(w)
  BY <1>0, <1>16, AgainDropsNothing
<1> QED
  BY <1>11, <1>12, <1>13, <1>14, <1>15, <1>16 DEF Amid

LEMMA AgainStep ==
    ASSUME ImportInv, [Next]_vars
    PROVE  Again'
<1> DEFINE Due(d) == ShouldSync(collection, d, KnownHashes(collection))
<1>0. TypeOK /\ Alone /\ Again /\ \A w \in Importers : InPlace(w) /\ InPlace(w)'
  BY InPlaceStep DEF ImportInv
<1>1. SUFFICES ASSUME streak' > 0 PROVE Again'
  BY DEF Again
<1>2. CASE UNCHANGED vars
  <2>1. streak > 0
    BY <1>1, <1>2 DEF vars
  <2>2. /\ \A d \in Docs : Exact(d)' = Exact(d) /\ Due(d)' = Due(d)
        /\ HostsExact' = HostsExact
        /\ \A d \in Docs : HashesOf(d)' = HashesOf(d)
        /\ HostHashes' = HostHashes
        /\ KnownHashes(collection)' = KnownHashes(collection)
    BY <1>0, <1>2, TableRests, ShouldSyncRests DEF vars
  <2>3. FallbacksExact' = FallbacksExact /\ NoDuplicates' = NoDuplicates
    BY <2>2 DEF FallbacksExact, NoDuplicates, Docs
  <2>4. ASSUME NEW w \in Importers PROVE AgainInPlace(w)'
    <3>1. AgainInPlace(w)
      BY <1>0, <2>1, <2>4 DEF Again
    <3> QED
      BY <1>2, <2>2, <2>3, <3>1 DEF vars, AgainInPlace, Working, GroupsToSync, Docs
  <2> QED
    BY <1>0, <1>2, <2>1, <2>2, <2>3, <2>4 DEF Again, vars
<1>3. ASSUME NEW c \in Collections, Edit(c) PROVE FALSE
  BY <1>1, <1>3 DEF Edit
<1>4. ASSUME NEW w \in Importers, Crash(w) PROVE FALSE
  BY <1>1, <1>4 DEF Crash
<1>5. ASSUME NEW w \in Importers, Begin(w) PROVE Again'
  <2>1. /\ streak > 0 /\ streak' = streak /\ OthersIdle(w) /\ ~overlap'
        /\ rows' = rows /\ collection' = collection /\ doc' = doc
    BY <1>0, <1>1, <1>5 DEF Begin, table, Again, TypeOK
  <2>2. /\ \A d \in Docs : Exact(d)' = Exact(d) /\ Due(d)' = Due(d)
        /\ HostsExact' = HostsExact
        /\ \A d \in Docs : HashesOf(d)' = HashesOf(d)
        /\ HostHashes' = HostHashes
    BY <1>0, <2>1, TableRests, ShouldSyncRests
  <2>3. FallbacksExact' = FallbacksExact /\ NoDuplicates' = NoDuplicates
    BY <2>2 DEF FallbacksExact, NoDuplicates, Docs
  <2>4. ASSUME NEW v \in Importers PROVE pc'[v] \in {"idle", "hosts"}
    BY <1>0, <1>5, <2>1, <2>4 DEF Begin, OthersIdle, Idle, TypeOK
  <2>5. ASSUME NEW v \in Importers PROVE AgainInPlace(v)'
    BY <2>4, <2>5 DEF AgainInPlace, Working
  <2> QED
    BY <1>0, <2>1, <2>2, <2>3, <2>5 DEF Again
<1>6. ASSUME NEW w \in Importers, Finish(w) PROVE Again'
  <2>1. /\ ~overlap /\ OthersIdle(w) /\ pc[w] = "drop" /\ todo[w] = {}
        /\ ~overlap' /\ (streak' = 2 => streak > 0)
        /\ rows' = rows /\ collection' = collection
    BY <1>0, <1>1, <1>6 DEF Finish, Leave, table, TypeOK
  <2>2. AloneInPlace(w)
    BY <1>0, <2>1 DEF Alone, Idle
  <2>3. HostsExact /\ NoDuplicates
    BY <2>1, <2>2 DEF AloneInPlace, NoDuplicates
  <2>4. streak' = 2 => FallbacksExact
    BY <1>0, <2>1 DEF Again, AgainInPlace
  <2>5. ASSUME NEW v \in Importers PROVE pc'[v] = "idle" /\ doc'[v] = {}
    BY <1>0, <1>6, <2>1, <2>5 DEF Finish, Leave, OthersIdle, Idle, InPlace, TypeOK
  <2>6. /\ \A d \in Docs : Exact(d)' = Exact(d) /\ Due(d)' = Due(d)
        /\ HostsExact' = HostsExact
        /\ \A d \in Docs : HashesOf(d)' = HashesOf(d)
        /\ HostHashes' = HostHashes
    BY <1>0, <2>1, TableRests, ShouldSyncRests
  <2>7. FallbacksExact' = FallbacksExact /\ NoDuplicates' = NoDuplicates
    BY <2>6 DEF FallbacksExact, NoDuplicates, Docs
  <2>8. ASSUME NEW v \in Importers PROVE AgainInPlace(v)'
    BY <2>5, <2>8 DEF AgainInPlace, Working
  <2> QED
    BY <2>1, <2>3, <2>4, <2>5, <2>6, <2>7, <2>8 DEF Again
<1>7. ASSUME NEW w \in Importers, Amid(w) PROVE Again'
  BY <1>0, <1>1, <1>7, AgainAmid
<1> QED
  BY <1>2, <1>3, <1>4, <1>5, <1>6, <1>7 DEF Next, Amid

--------------------------------------------------------------------------------
LEMMA InitInv == Init => ImportInv
<1> SUFFICES ASSUME Init PROVE ImportInv
  OBVIOUS
<1>1. TypeOK
  <2>1. 0 \in 0 .. MaxChunks
    BY MaxChunksAssumption
  <2>2. rows \in [Docs -> [Indexes -> Hashes \cup {NoRow}]]
    BY DEF Init
  <2>3. /\ pc \in [Importers -> {"idle", "hosts", "groups", "delete", "insert",
                                 "fallbacks", "drop"}]
        /\ chunks \in [Importers -> Collections \cup {NoChunks}]
    BY DEF Init
  <2>4. /\ todo \in [Importers -> SUBSET Docs] /\ doc \in [Importers -> SUBSET Docs]
        /\ next \in [Importers -> 0 .. MaxChunks]
        /\ hosts \in [Importers -> SUBSET Hashes]
    BY <2>1 DEF Init
  <2>5. dirty \in BOOLEAN /\ overlap \in BOOLEAN /\ covers \in [Importers -> BOOLEAN]
    BY Zenon DEF Init
  <2>6. streak \in 0 .. 2 /\ collection \in Collections
    BY DEF Init
  <2> QED
    BY <2>2, <2>3, <2>4, <2>5, <2>6 DEF TypeOK
<1>2. \A w \in Importers : InPlace(w)
  BY DEF Init, InPlace, Idle, Working
<1>3. \A d \in Docs : HashesOf(d) = {}
  BY DEF Init, HashesOf
<1>4. FallbackTexts /\ DuplicatesWillGo
  BY <1>3 DEF FallbackTexts, DuplicatesWillGo, Docs
<1>5. Alone /\ Again
  BY DEF Init, Alone, Again, Idle
<1> QED
  BY <1>1, <1>2, <1>4, <1>5 DEF ImportInv

LEMMA StepInv == ImportInv /\ [Next]_vars => ImportInv'
BY TypeStep, InPlaceStep, FallbackTextsStep, DuplicatesStep, AloneStep, AgainStep DEF ImportInv

(* Every duplicated text has an import that will drop it, an import that is   *)
(* alone replaces every host document, and a second one writes none: whatever *)
(* order the statements of import_langflow.py reach the table in.             *)
THEOREM ImportInvariance == Spec => []ImportInv
<1>1. Init => ImportInv
  BY InitInv
<1>2. ImportInv /\ [Next]_vars => ImportInv'
  BY StepInv
<1> QED
  BY <1>1, <1>2, PTL DEF Spec

(* With every import ended, and none dead since the last whole one began, no  *)
(* text is under a host path and under "langflow:<id>" (sync_mapped_chunks    *)
(* reads the host hashes a second time before it drops fallbacks).            *)
THEOREM NoTextTwice == Spec => []NoDuplicateContent
<1>1. ImportInv => NoDuplicateContent
  <2> SUFFICES ASSUME ImportInv, \A w \in Importers : Idle(w), ~dirty,
                      NEW f \in Fallbacks, NEW d \in Hosts,
                      NEW h \in HashesOf(f) \cap HashesOf(d)
               PROVE  FALSE
    BY DEF NoDuplicateContent
  <2>1. PICK w \in Importers : WillDrop(w, f, h)
    BY DEF ImportInv, DuplicatesWillGo
  <2> QED
    BY <2>1 DEF WillDrop, Idle
<1> QED
  BY <1>1, ImportInvariance, PTL

(* Two imports of one Collection, each alone, leave the index as the          *)
(* Collection says: ingest and import may have come in either order before.   *)
THEOREM TwoImportsConverge == Spec => []ConvergedIndex
<1>1. ImportInv => ConvergedIndex
  <2> SUFFICES ASSUME ImportInv, streak = 2, NEW d \in Docs, collection[d] # <<>>, ~Exact(d)
               PROVE  /\ d \in Fallbacks /\ HashesOf(d) = {}
                      /\ ContentHashes(collection[d]) \cap HostHashes # {}
    BY DEF ConvergedIndex, Exact
  <2>1. TypeOK /\ HostsExact /\ NoDuplicates /\ FallbacksExact /\ FallbackTexts
    BY DEF ImportInv, Again
  <2>2. d \in Fallbacks
    BY <2>1 DEF HostsExact, Docs
  <2>3. ContentHashes(collection[d]) \cap KnownHashes(collection) # {}
    BY <2>1, <2>2 DEF FallbacksExact, ShouldSync
  <2>4. PICK h : h \in ContentHashes(collection[d]) /\ h \in HostHashes
    BY <2>1, <2>3, IncomingInstalled DEF KnownHashes
  <2>5. \A g \in ContentHashes(collection[d]) : g = h
    <3>1. PICK t \in Hashes : collection[d] = <<t>>
      BY <2>1, <2>2, CollectionsAssumption DEF TypeOK
    <3> QED
      BY <2>4, <3>1 DEF ContentHashes
  <2>6. HashesOf(d) \subseteq {h} /\ h \notin HashesOf(d)
    BY <2>1, <2>2, <2>4, <2>5 DEF FallbackTexts, NoDuplicates, TypeOK
  <2> QED
    BY <2>2, <2>4, <2>6
<1> QED
  BY <1>1, ImportInvariance, PTL

(* After them an import of the same Collection sends no statement that        *)
(* changes the table.                                                         *)
THEOREM ImportsSettle == Spec => ThirdImportWritesNothing
<1>1. ImportInv /\ [Next]_vars => [streak = 2 => UNCHANGED rows]_vars
  <2> SUFFICES ASSUME ImportInv, [Next]_vars, streak = 2
               PROVE  rows' = rows
    OBVIOUS
  <2>1. streak > 0
    OBVIOUS
  <2>2. ASSUME NEW w \in Importers PROVE ~Delete(w) /\ ~Insert(w) /\ ~DropFallback(w)
    BY <2>1, AgainWrites, AgainDropsNothing
  <2>3. CASE \E w \in Importers : \/ Begin(w) \/ ReadHosts(w) \/ Fingerprint(w)
                                  \/ ReadHostsAgain(w) \/ ReadFallbacks(w)
                                  \/ Finish(w) \/ Crash(w)
    BY <2>3 DEF Begin, ReadHosts, Fingerprint, ReadHostsAgain, ReadFallbacks, Finish, Crash, table
  <2>4. CASE (\E c \in Collections : Edit(c)) \/ UNCHANGED vars
    BY <2>4 DEF Edit, vars
  <2> QED
    BY <2>2, <2>3, <2>4 DEF Next
<1> QED
  BY <1>1, ImportInvariance, PTL DEF Spec, ThirdImportWritesNothing
===================================================================================
