CONSTANTS
  None = None
  MaxOpens = 2
  Handlers = {h1, h2, h3}
SPECIFICATION FairSpec
INVARIANT ConnectInv
PROPERTIES UsableSessionIsReused ConnectedMeansOpen HandlersAnswer
