\* Two calls over one file, whatever goes wrong; two over one Forge site; and the
\* texts of their previews.
CONSTANTS
  Calls = {c1, c2}
  Configs = {v1, v2, bad}
  Valid = {v1, v2}
  Absent = Absent
  Faults = {"crash", "kill", "disk", "edit"}
  MaxByHand = 3
  diffContext = 1
  maxDiffCells = 20
  Lower = {0, 1, 2}
  maxPort = 2
  Scripts <- MCScripts
  Pairs <- MCPairs
  Declarations <- MCDeclarations
SYMMETRY Alike
SPECIFICATION MCSpec
CHECK_DEADLOCK FALSE
INVARIANTS TypesOK DiskIsInOrder TextsAreRight
PROPERTIES AnswerIsTrue IsTransaction SiteIsAsTold
