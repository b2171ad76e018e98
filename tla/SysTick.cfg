SPECIFICATION TickSpec
CONSTANTS
  Ticks = 6
  MaxElapsed = 13
INVARIANTS NeverEarly ExpiredStays
