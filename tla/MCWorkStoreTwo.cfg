SPECIFICATION FairSpec
CONSTANTS
  WorkIds = {1, 2}
  Agents = {a1, a2}
  Guarded = {1}
  Statuses = {"active", "suspended"}
  Absent = Absent
  Unexpected = Unexpected
  None = None
  Torn = Torn
  ForeignKinds = {"overwrite"}
  ForeignInWindow = FALSE
  MaxRev = 3
  MaxFaults = 1
  MaxForeign = 1
INVARIANTS
  SingleActive
PROPERTIES
  AcknowledgedMeansSettled
  ImplementsLedger
  EventsPublished
