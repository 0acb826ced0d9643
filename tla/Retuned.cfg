CONSTANTS
  PMUs = {a, b}
  Stamps = {6, 7, 8, 9}
  Capacities = {1, 2}
  Rates = {0, 2, 6}
  DefaultPeriod = 2
  MaxChurn = 0
SPECIFICATION RetunedSpec
INVARIANTS BuffersFit CurvesRunForward
PROPERTY RulerNeverRewindsAStep
