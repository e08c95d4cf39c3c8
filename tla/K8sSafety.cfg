\* Two calls, overlapping or not, while others change the cluster once; or one
\* call that finds its way; or one read of up to three items.
CONSTANTS
  Calls = {c1, c2}
  Deployments = {d1, d2}
  StatefulSets = {}
  DaemonSets = {m1}
  Nodes = {n1}
  Pods = {p1}
  Asked = {1, 3, 4}
  Half = 2
  Limits = {3}
  ReadLimits = {0, 3}
  DefaultLimit = 1
  MaxLimit = 2
  MaxRev = 1
  Absent = Absent
  Lookups = {"call"}
  Contexts = {"prod", "dev"}
  Namespaces = {"apps", "ops"}
  Places = {"PATH", "credential_path", "absolute"}
  Files <- MCFiles
  Configs <- MCConfigs
  MaxItems = 3
  MaxEvents = 2
  MaxCPU = 1
  MaxLines = 3
  MaxGroup = 1
  DescribeLimit = 1
SYMMETRY Alike
SPECIFICATION MCSpec
CHECK_DEADLOCK FALSE
INVARIANTS TypesOK ReadsAreTrue
PROPERTIES ScaleHitsWhatItRead WritesAreAsTold WholeListIsWhole GoesWhereItSays
