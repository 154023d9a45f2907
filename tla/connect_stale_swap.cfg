CONSTANTS
  None = None
  MaxOpens = 3
  Handlers = {h1}
SPECIFICATION Spec
INVARIANT ConnectedSessionOffersTools
