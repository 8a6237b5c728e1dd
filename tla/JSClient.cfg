SPECIFICATION Spec
CONSTANTS
  p1 = p1
  p2 = p2
  k1 = k1
  x = x
  own = own
  bare = bare
  foreign = foreign
  NoDoc = NoDoc
  NoKeys = NoKeys
  Calls = {p1, p2}
  Kids = {k1, x}
  OtherKids = {x}
  UsableKids = {k1, x}
  Docs = {own, bare, foreign}
  TrustedDocs = {own, bare}
  NoJwksDocs = {bare}
  DiscoveryTTL = 1
  RefetchInterval = 1
  Timeout = 1
  MaxClock = 1
INVARIANTS TypeOK AcceptedKeysWereOurs RequestsToCheckedDocs
PROPERTY OnlyBodiesHang
VIEW WithoutRetiredAt
