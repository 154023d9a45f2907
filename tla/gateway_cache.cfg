CONSTANTS
  early = early
  late = late
  alien = alien
  s1 = s1
  s2 = s2
  s3 = s3
  s4 = s4
  t1 = t1
  t2 = t2
  Requests = {r1, r2}
  Sources = {early, late, alien}
  SourceExp <- MCSourceExp
  Servers = {s1, s2, s3, s4}
  Trusted = {early, late}
  RolesOf <- MCRolesOf
  Enabled = {s1, s2, s4}
  Configured = {s1, s2}
  Addressable = {s1}
  Inputs <- MCInputs
  Tools = {t1, t2}
  AllowedTools <- MCAllowedTools
  RequiredRoles <- MCRequiredRoles
  Lifespans = {2}
  MaxTtl = 2
  Margin = 1
  Leeway = 1
  DefaultLife = 4
  MaxTime = 2
  None = None
SPECIFICATION Spec
SYMMETRY RequestSymmetry
INVARIANTS ForwardedTokenIsOurs CacheInv
PROPERTIES CachedTokenIsLive CatalogueIsCallable
