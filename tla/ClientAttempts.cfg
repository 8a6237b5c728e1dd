SPECIFICATION Spec
CONSTANTS
  g1 = g1
  g2 = g2
  k1 = k1
  x = x
  own = own
  bare = bare
  foreign = foreign
  NoDoc = NoDoc
  NoKeys = NoKeys
  Callers = {g1}
  Kids = {k1, x}
  OtherKids = {x}
  UsableKids = {k1, x}
  Docs = {own}
  TrustedDocs = {own}
  NoJwksDocs = {}
  DiscoveryTTL = 5
  MaxAge = 2
  RefetchInterval = 1
  Timeout = 1
  MaxClock = 4
PROPERTY AttemptsSpaced
