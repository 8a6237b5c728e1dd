SPECIFICATION Spec
CONSTANTS
  p1 = p1
  p2 = p2
  k1 = k1
  x = x
  own = own
  bare = bare
  foreign = foreign
  NoDoc = NoDoc
  NoKeys = NoKeys
  Calls = {p1}
  Kids = {k1, x}
  OtherKids = {x}
  UsableKids = {k1, x}
  Docs = {own}
  TrustedDocs = {own}
  NoJwksDocs = {}
  DiscoveryTTL = 1
  RefetchInterval = 2
  Timeout = 1
  MaxClock = 4
PROPERTY RefetchesSpaced
