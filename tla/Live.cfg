\* Two calls, of one plugin, over one reload.
CONSTANTS
  NoCall = NoCall
  NoToken = NoToken
  Calls = {a, b}
  Tokens = {t1}
  MaxLoads = 1
  MaxVersion = 1
  NoVault = NoVault
  RefusedVault = RefusedVault
  Bound = {k1}
  Refused = {}
  KeyIds = {k1}
  Devices = {}
  Tags = {}
  maxListedKeys = 1
  Unborn = Unborn
  Gone = Gone
SPECIFICATION MCSpec
CHECK_DEADLOCK FALSE
PROPERTIES EveryCallReturns DeadlinesHonoured
