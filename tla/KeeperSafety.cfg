SPECIFICATION Spec
CONSTANTS
  NoCall = NoCall
  NoVault = NoVault
  RefusedVault = RefusedVault
  Calls = {a, b}
  Bound = {k1}
  Refused = {r1}
  MaxLoads = 2
  MaxVersion = 2
CHECK_DEADLOCK FALSE
SYMMETRY CallSymmetry
INVARIANTS TypeOK LoadsAreApart
PROPERTIES ImplementsBackend
