\* One call at a time, on a checkout with a commit and two ways to differ from it.
CONSTANTS
  Calls = {c1}
  Tokens = {t1}
  NoToken = NoToken
  Ids = {r1}
  Tailnet = {a1}
  Public = {p1}
  TTLs = {60}
  Names = {b1}
  Jurisdictions = {""}
  Keys = {k1}
  Unborn = Unborn
  Gone = Gone
  Profiles <- MCProfiles
  NoFile = NoFile
  Trees = {v1, v2, v3}
  Unbuilt = Unbuilt
  Outputs <- MCOutputs
SPECIFICATION Spec
CHECK_DEADLOCK FALSE
PROPERTY ChangedCheckoutIsStale
