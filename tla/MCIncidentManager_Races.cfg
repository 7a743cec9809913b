SPECIFICATION Spec
CONSTANTS
  j1 = j1
  j2 = j2
  i1 = i1
  i2 = i2
  i3 = i3
  i4 = i4
  r1 = r1
  g1 = g1
  g2 = g2
  None = None
  Jobs = {j1, j2}
  Locations = {g1, g2}
  Incidents = {i1, i2, i3, i4}
  Requests = {r1}
  Batches <- OneSignal
  Approvers = {"operator"}
  AutoRemediate = FALSE
  DiagnosisMayFail = FALSE
  StoreMayFail = FALSE
  MaxRestarts = 0
SYMMETRY Interchangeable
INVARIANT OpenIsUnresolved
INVARIANT SweepTargetsCurrent
INVARIANT ResolvedIsIndexed
INVARIANT EveryRunAudited
PROPERTY RecordForward
