SPECIFICATION Spec
CONSTANTS
  a = a
  b = b
  n1 = n1
  n2 = n2
  Ids <- MCIds
  Nonces <- MCNonces
  None = None
  NoAud = NoAud
  Truthy = Truthy
  Falsy = Falsy
  Audiences <- MCAudiences
  Skew = 1
  Lifetime = 1
  Second = 2
  MaxDrift = 3
  MaxClock = 14
  MaxIllTyped = 1
SYMMETRY MCSymmetry
INVARIANTS OneLoginPerToken GenuineAccepted DeadRefused ClientsAgree
