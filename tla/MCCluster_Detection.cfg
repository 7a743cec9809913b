SPECIFICATION Spec
CONSTANTS
  g1 = g1
  g2 = g2
  g3 = g3
  g4 = g4
  None = None
  Fleet <- TwoNodes
  NodeOf <- HalfEach
  Noise <- Uneven
  StragglerPaces = {210, 260}
  EccErrors = {2, 3}
  Scenarios <- AllScenarios
  Targets = {g1, g3}
  BaselineAlarms <- HotBaseline
  WindowLength = 3
  MinSamples = 1
  MaxFaults = 2
  Durations = {2}
  MaxBacklog = 0
INVARIANT TypeOK
INVARIANT SlowRankFound
INVARIANT FalseAlarmsPass
INVARIANT PlanFitsFault
