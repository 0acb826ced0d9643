CONSTANTS
  PMUs = {a, b}
  Stamps = {4, 5, 6, 7, 8, 9, 10, 11}
  Capacities = {4}
  Rates = {2}
  DefaultPeriod = 2
  MaxChurn = 0
SPECIFICATION SteadySpec
PROPERTIES RulerAwaitsSlowest EverySampleCharted
