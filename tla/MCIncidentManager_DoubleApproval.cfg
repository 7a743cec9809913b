SPECIFICATION Spec
CONSTANTS
  j1 = j1
  i1 = i1
  r1 = r1
  r2 = r2
  g1 = g1
  g2 = g2
  None = None
  Jobs = {j1}
  Locations = {g1, g2}
  Incidents = {i1}
  Requests = {r1, r2}
  Batches <- OneSignal
  Approvers = {"operator"}
  AutoRemediate = FALSE
  DiagnosisMayFail = FALSE
  StoreMayFail = FALSE
  MaxRestarts = 0
SYMMETRY Interchangeable
INVARIANT AppliedOnce
