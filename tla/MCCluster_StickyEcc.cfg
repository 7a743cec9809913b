SPECIFICATION FairSpec
CONSTANTS
  g1 = g1
  g2 = g2
  g3 = g3
  g4 = g4
  None = None
  Fleet <- TwoNodes
  NodeOf <- HalfEach
  Noise <- Uneven
  StragglerPaces = {210, 260}
  EccErrors = {2, 3}
  Scenarios = {"ecc"}
  Targets = {g1}
  BaselineAlarms = {}
  WindowLength = 2
  MinSamples = 1
  MaxFaults = 1
  Durations = {3}
  MaxBacklog = 0
PROPERTY AlarmsStop
