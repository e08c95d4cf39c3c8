\* Two calls: one names a subscription, the other does not.
CONSTANTS
  Calls = {c1, c2}
  Subs = {s1, s2}
  NoSub = NoSub
  MaxLoads = 1
SYMMETRY Alike
SPECIFICATION Spec
INVARIANTS RefusesToGuess
CHECK_DEADLOCK FALSE
