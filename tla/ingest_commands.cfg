CONSTANTS
  teamA = teamA
  teamB = teamB
  notes = notes
  stored = stored
  Files = {teamA, teamB}
  Names = {notes, stored}
  Name <- MCName
  LastPart <- MCLastPart
  Commands = {c1, c2}
  RowKeys <- MCPathOrTitle
  MaxUploads = 3
SPECIFICATION Spec
SYMMETRY CommandSymmetry
INVARIANT IngestInv
PROPERTIES OwnTextFiled NamesakesStayApart

