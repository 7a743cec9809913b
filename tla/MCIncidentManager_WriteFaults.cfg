SPECIFICATION Spec
CONSTANTS
  j1 = j1
  i1 = i1
  r1 = r1
  r2 = r2
  g1 = g1
  g2 = g2
  None = None
  Jobs = {j1}
  Locations = {g1, g2}
  Incidents = {i1}
  Requests = {r1, r2}
  Batches <- ThreeSignals
  Approvers = {"operator", None}
  AutoRemediate = TRUE
  DiagnosisMayFail = FALSE
  StoreMayFail = TRUE
  MaxRestarts = 1
SYMMETRY Interchangeable
INVARIANT TypeOK
INVARIANT WellReferenced
INVARIANT RecordedRunsHappened
PROPERTY VerdictSettled
