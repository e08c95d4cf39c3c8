\* Two calls of one plugin, under a host that loads and unloads at any moment.
CONSTANTS
  Calls = {c1, c2}
  Tokens = {t1}
  NoToken = NoToken
  Ids = {r1, r2}
  Tailnet = {a1}
  Public = {p1}
  TTLs = {60}
  Names = {b1}
  Jurisdictions = {"", "eu"}
  Keys = {k1}
  Unborn = Unborn
  Gone = Gone
  Profiles <- MCProfiles
  NoFile = NoFile
  Trees = {r1, r2}
  Unbuilt = Unbuilt
  Outputs <- MCOutputs
SPECIFICATION Spec
CHECK_DEADLOCK FALSE
SYMMETRY Alike
INVARIANTS TypeOK LearnedStaysUnsaid
PROPERTIES KeysAreInOrder UpsertIsSafe DoesWhatWasShown GateHolds DeploysAsPlanned OutputIsReadAndScrubbed
