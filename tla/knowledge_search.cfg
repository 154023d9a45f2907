CONSTANTS
  near = near
  far = far
  w1 = w1
  w2 = w2
  Docs = {d1}
  Hashes = {near, far}
  Models = {m1}
  MaxChunks = 2
  Writers = {w1, w2}
  CanCrash = TRUE
  NoRow = NoRow
  NoJob = NoJob
  Mixed = Mixed
  Readers = {r1}
  Similarity <- MCSimilarity
  TopKs = {0, 1, 2, 3}
  MaxTopK = 2
SPECIFICATION SearchSpec
SYMMETRY CommandSymmetry
INVARIANTS SearchInv FetchedTextIsTheHits
