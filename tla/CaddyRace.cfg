\* Two applies of one file at once, with nothing going wrong.
CONSTANTS
  Calls = {c1, c2}
  Configs = {v1, v2, bad}
  Valid = {v1, v2}
  Absent = Absent
  Faults = {}
SYMMETRY Alike
SPECIFICATION Spec
PROPERTIES PreviousFileIsBack
CHECK_DEADLOCK FALSE
