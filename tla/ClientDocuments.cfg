SPECIFICATION Spec
CONSTANTS
  g1 = g1
  g2 = g2
  k1 = k1
  x = x
  own = own
  bare = bare
  foreign = foreign
  NoDoc = NoDoc
  NoKeys = NoKeys
  Callers = {g1, g2}
  Kids = {x}
  OtherKids = {x}
  UsableKids = {x}
  Docs = {own, bare, foreign}
  TrustedDocs = {own, bare}
  NoJwksDocs = {bare}
  DiscoveryTTL = 1
  MaxAge = 1
  RefetchInterval = 1
  Timeout = 0
  MaxClock = 1
INVARIANT EndpointsAreCurrent
PROPERTY CallsReturn
