SPECIFICATION Spec
CONSTANTS
  Num = 3
  Den = 10
  Threshold = 3
  MinSamples = 2
  Values = {0, 1, 2, 3, 4}
  MaxSamples = 4
CHECK_DEADLOCK FALSE
INVARIANT TypeOK
INVARIANT StatIsWeighted
PROPERTY AlarmNeedsRise
