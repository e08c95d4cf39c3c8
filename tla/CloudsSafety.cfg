\* Two calls, of one plugin, under a host that loads and unloads at any moment and
\* while others change what the plugin acts on.
CONSTANTS
  Calls = {c1, c2}
  Tokens = {t1}
  Ids = {w1}
  Fields = {"inbound_rules", "droplet_ids"}
  Items = {d1}
  Forms = {"absent", "bool", "text", "junk"}
  NoToken = NoToken
  Unborn = Unborn
  Gone = Gone
  Subs = {s1, s2}
  NoSub = NoSub
  MaxLoads = 2
  Things = {"v1", "v2", "v3", "ip", "web"}
  Places = {"web"}
  Nobody = Nobody
  Tags = {"blue"}
  Absent = Absent
  MaxGB = 2
  PageSize = 1
  MaxPages = 2
SYMMETRY Alike
SPECIFICATION MCSpec
CHECK_DEADLOCK FALSE
INVARIANTS TypesOK ReportIsTrue FleetIsAsTold SubscriptionIsExplained
PROPERTIES IsInventory
