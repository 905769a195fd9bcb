CONSTANTS
  Bits <- SmallBits
  FixedBits <- SmallFixed
  MantissaBits = 10
  MaxI16 = 4
  TicksPerSecond = 2
  SecondsPerMinute = 2
  MinutesPerHour = 2
  HoursPerDay = 3
  Talks <- Spoilers
  Echoes = {}
  Probes = {2, 6}
  MaxExchanges = 2
SPECIFICATION Spec
CHECK_DEADLOCK FALSE
INVARIANT PacketsBelongTogether
