SPECIFICATION OrderedSpec
CONSTANTS
  r1 = r1
  g1 = g1
  g2 = g2
  None = None
  Jobs = {1, 2}
  Locations = {g1, g2}
  Incidents <- ThreeAndOne
  Requests = {r1}
  Batches <- OneSignal
  Approvers = {"operator"}
  AutoRemediate = FALSE
  DiagnosisMayFail = TRUE
  StoreMayFail = FALSE
  MaxRestarts = 0
PROPERTY QuietJobClosesOrStuck
PROPERTY EveryIncidentAlerted
