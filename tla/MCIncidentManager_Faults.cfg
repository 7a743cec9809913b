SPECIFICATION Spec
CONSTANTS
  j1 = j1
  i1 = i1
  i2 = i2
  r1 = r1
  r2 = r2
  g1 = g1
  g2 = g2
  None = None
  Jobs = {j1}
  Locations = {g1, g2}
  Incidents = {i1, i2}
  Requests = {r1, r2}
  Batches <- LowThenHigh
  Approvers = {"operator", None}
  AutoRemediate = TRUE
  DiagnosisMayFail = TRUE
  StoreMayFail = FALSE
  MaxRestarts = 1
SYMMETRY Interchangeable
INVARIANT RowsAgree
INVARIANT RowTracksOpen
PROPERTY GatedExecution
INVARIANT DiagnosisOfItsSignals
INVARIANT PlanCoversVerdict
PROPERTY RecordForward
PROPERTY SignalsKept
PROPERTY RunsStayOnRecord
