SPECIFICATION FairSpec
CONSTANTS
  s1 = s1
  a = a
  b = b
  c1 = c1
  c2 = c2
  Scopes = {s1}
  Operations = {a}
  MaxGen = 2
  Clients = {c1, c2}
  MaxFlights = 2
  MaxPages = 1
  Limit = 1
CHECK_DEADLOCK FALSE
INVARIANTS GenerationFence LiveIndex SubscribersAccountedFor
PROPERTIES FlightsEnd ImplementsService
