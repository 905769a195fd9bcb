CONSTANTS
  Bits <- SmallBits
  FixedBits <- SmallFixed
  MantissaBits = 5
  MaxI16 = 4
  TicksPerSecond = 2
  SecondsPerMinute = 2
  MinutesPerHour = 2
  HoursPerDay = 3
  Talks <- NoTalks
  Echoes <- AllMantissas
  Probes = {}
  MaxExchanges = 1
SPECIFICATION Spec
CHECK_DEADLOCK FALSE
INVARIANT DecimalsSurvive
