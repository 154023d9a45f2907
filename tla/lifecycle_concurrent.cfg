CONSTANTS
  Docs = {d1}
  Hashes = {a, b}
  Models = {m1, m2}
  MaxChunks = 2
  Writers = {w1, w2, w3}
  CanCrash = TRUE
  NoRow = NoRow
  NoJob = NoJob
  Mixed = Mixed
SPECIFICATION Spec
SYMMETRY CommandSymmetry
INVARIANTS ClaimedVersionInstalled NoVersionMix LifecycleInv
PROPERTIES ReportedVersionInstalled OnlyChangedDocumentsReplaced IndexPromise
