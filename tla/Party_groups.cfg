CONSTANTS
  a = a  b = b  c = c  town = town  arena = arena
  Sessions = {a, b, c}
  NoOne = NoOne
  MaxSeats = 3
  MaxParties = 2
  Zones = {town, arena}
  EventZones = {arena}
  Suits <- AllSuit
SYMMETRY Symmetric
SPECIFICATION Spec
INVARIANTS TypeOK RecordedIsSeated SeatedIsRecorded PartySound
PROPERTY IsTeams
CHECK_DEADLOCK FALSE
