CONSTANTS
  Bits <- SmallBits
  FixedBits <- SmallFixed
  MantissaBits = 10
  MaxI16 = 4
  TicksPerSecond = 2
  SecondsPerMinute = 2
  MinutesPerHour = 2
  HoursPerDay = 3
  Talks <- SomeTalks
  Echoes <- SomeEchoes
  Probes <- SomeProbes
  MaxExchanges = 2
SPECIFICATION Spec
CHECK_DEADLOCK FALSE
INVARIANTS
  RequestsArrive
  RepliesAreRead
  NamesAreAttributed
  DatesAreShown
  NumbersSurvive
