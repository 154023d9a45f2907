CONSTANTS
  g = g
  l = l
  Servers = {g, l}
  Gateway = {g}
  MaxOpens = 2
  MaxTurns = 2
  MaxCalls = 3
  NoServer = NoServer
SPECIFICATION Spec
INVARIANTS ChatInv RequestsWellFormed CallReachesItsServer
PROPERTY ToolErrorsAreShown
