CONSTANTS
  teamA = teamA
  teamB = teamB
  notes = notes
  stored = stored
  Files = {teamA, teamB}
  Names = {notes, stored}
  Name <- MCName
  LastPart <- MCLastPart
  Commands = {c1}
  RowKeys <- MCPathOnly
  MaxUploads = 2
SPECIFICATION Spec
INVARIANT UploadPathIsNoSource
