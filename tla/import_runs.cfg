CONSTANTS
  h1 = h1
  f1 = f1
  a = a
  b = b
  Hosts = {h1}
  Fallbacks = {f1}
  Hashes = {a, b}
  MaxChunks = 2
  Collections <- MCCollections
  Importers = {w1, w2}
  NoRow = NoRow
SPECIFICATION Spec
SYMMETRY ImportSymmetry
INVARIANTS ImportInv NoDuplicateContent ConvergedIndex
PROPERTY ThirdImportWritesNothing
