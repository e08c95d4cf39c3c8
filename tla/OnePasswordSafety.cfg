SPECIFICATION Spec
CONSTANTS
  NoCall = NoCall
  NoToken = NoToken
  Calls = {a, b}
  Tokens = {t1, t2}
  MaxLoads = 2
  MaxVersion = 2
SYMMETRY CallSymmetry
INVARIANTS FailedClientNotReused ClientIsOfItsToken LoadsAreApart
PROPERTIES ImplementsBackend
