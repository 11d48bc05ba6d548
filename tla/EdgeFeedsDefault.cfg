SPECIFICATION EdgeSpec
CONSTANTS
  Configurations = {{"liq"}, {"ticker"}}
  Sides = {long, short}
  Never = Never
  Missing = Missing
  Window = 2
  Baseline = 3
  CountCap = 1
  LiqMaxAge = 0
  TickerMaxAge = 1
  Notional = 2
  MaxReconnects = 1
  MaxSkew = 1
  MaxClock = 6
  MaxEvents = 4
  MaxWire = 2
INVARIANT DeadLiqIsMissing
CHECK_DEADLOCK FALSE
