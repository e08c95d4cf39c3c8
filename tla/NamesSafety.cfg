\* Two calls, of one plugin: two auth keys, of which a listing reads one; or two
\* kinds of record, and two API keys.
CONSTANTS
  Calls = {c1, c2}
  KeyIds = {k1, k2}
  Devices = {d1}
  Tags = {x}
  maxListedKeys = 1
  Unborn = Unborn
  Gone = Gone
  Keys = {k1, k2}
  NoKey = NoKey
  Shapes = {www, mx}
  MX = {mx}
  Hidden = {mx}
  Most = 2
  Asked <- MCAsked
  www = www
  mx = mx
  TTL = 1800
SYMMETRY Alike
SPECIFICATION MCSpec
CHECK_DEADLOCK FALSE
INVARIANTS TypesOK ExchangesOnlyWhenNeeded
PROPERTIES ZoneIsAsGiven OnlyUnloadHarms ListIsWhole ChangesAreAsShown
