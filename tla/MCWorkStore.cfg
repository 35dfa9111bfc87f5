SPECIFICATION Spec
CONSTANTS
  WorkIds = {1}
  Agents = {a1, a2}
  Guarded = {1}
  Statuses = {"active", "suspended"}
  Absent = Absent
  Unexpected = Unexpected
  None = None
  Torn = Torn
  ForeignKinds = {"overwrite", "delete", "restore"}
  ForeignInWindow = TRUE
  MaxRev = 4
  MaxFaults = 2
  MaxForeign = 1
SYMMETRY AgentSymmetry
INVARIANTS StoreSound
PROPERTIES ObservedOnlyAdvances
