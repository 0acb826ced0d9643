CONSTANTS
  PMUs = {a, b}
  Stamps = {4, 5, 6}
  Capacities = {2}
  Rates = {2}
  DefaultPeriod = 2
  MaxChurn = 2
SYMMETRY Symmetry
SPECIFICATION Spec
INVARIANTS TypeOK RowsAwaitEveryPMU NoStaleTick
PROPERTY ChartFeedSpec
