SPECIFICATION Spec
CONSTANTS
  j1 = j1
  i1 = i1
  i2 = i2
  i3 = i3
  g1 = g1
  g2 = g2
  None = None
  Jobs = {j1}
  Locations = {g1, g2}
  Incidents = {i1, i2, i3}
  Requests = {}
  Batches <- OneSignal
  Approvers = {"operator"}
  AutoRemediate = TRUE
  DiagnosisMayFail = FALSE
  StoreMayFail = FALSE
  MaxRestarts = 0
SYMMETRY Interchangeable
INVARIANT OneUnresolvedPerJob
