SPECIFICATION Spec
CHECK_DEADLOCK FALSE
CONSTANTS
  Node = {home, web}
  PrivateNode = {home}
  Path = {secret, open}
  PrivatePath = {secret}
  OriginPath = {open}
  Header = {None, "public"}
  Origin = Origin
  Client = Client
  Gone = Gone
  None = None
  MaxWrites = 2
  MaxGets = 1
  MaxFaults = 1
INVARIANTS
  PrivateStays
  Agreement
PROPERTIES
  TrafficEnds
  GetAnswered
