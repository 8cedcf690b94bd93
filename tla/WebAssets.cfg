SPECIFICATION Spec
CONSTANTS
  Builds = {old, new}
  Contents = {c1, c2}
  None = None
  MaxRequests = 6
INVARIANTS
  CacheTransparent
  Revalidates
