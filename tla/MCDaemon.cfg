CONSTANTS
  Client = {c1, c2}
  Proc = {p1, p2, p3}
  None = None
  Torn = Torn
  MaxFaults = 1
  MaxCommands = 1
SPECIFICATION FairSpec
INVARIANTS
  OneRuntime
  RegistrationTrue
PROPERTIES
  Recovers
  CallsEnd
