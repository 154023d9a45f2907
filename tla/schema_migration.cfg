CONSTANTS
  s1 = s1
  a = a
  b = b
  Commands = {c1, c2}
  Jobs <- MCJobs
  Sources = {s1}
  Blank = Blank
  Null = Null
  Volumes <- MCVolumes
  Texts = {a, b}
  RowIds = {1, 2, 3, 4, 5}
  MaxCrashes = 1
  MaxLegacyWrites = 1
SPECIFICATION FairSpec
INVARIANTS MigrationInv NoStrandedReplacement FingerprintsAreTrue OneDocumentPerSource
PROPERTIES RerunCompletes
