SPECIFICATION Spec
CONSTANTS
  s1 = s1
  s2 = s2
  s3 = s3
  Scopes = {s1, s2, s3}
  MaxGen = 3
  Legacy = Legacy
  NoHead = NoHead
SYMMETRY Symmetry
INVARIANTS
  CompatibilityInv
  OwnRowsAreTheHeads
PROPERTIES
  HeadsAdvance
