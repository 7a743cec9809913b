SPECIFICATION FairSpec
CONSTANTS
  g1 = g1
  g2 = g2
  g3 = g3
  j1 = j1
  j2 = j2
  c1 = c1
  r1 = r1
  lane = lane
  None = None
  Lanes = {lane}
  Containers = {c1}
  Gpus = {g1, g2, g3}
  JobOf <- Jobs
  LaneOf <- OneLane
  Reports <- Posted
  WindowLength = 2
  MinSamples = 20
  BatchSize = 2
  RetryAttempts = 1
  MaxRecords = 2
  MaxExecutions = 3
  MaxFaults = 1
  Executions <- Few
  Remediations = {r1}
  DiagnoseRetries = 1
  MaxErrors = 1
  MaxFailures = 1
CHECK_DEADLOCK FALSE
INVARIANT TypeOK
INVARIANT AcknowledgedIsStarted
INVARIANT StartedInOrder
INVARIANT AlarmsCountDeliveries
INVARIANT AlertedIsOnRecord
INVARIANT ResolvedThroughGate
PROPERTY TableForward
PROPERTY FaultReachesOperator
