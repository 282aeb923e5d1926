CONSTANTS
  c1 = c1
  c2 = c2
  c3 = c3
  Clients = {c1, c2, c3}
  Releasers = {c1, c2}
  Fixtures = {c3}
  None = None
  MaxCalls = 6
SPECIFICATION Spec
INVARIANTS CreatedIsTrue
PROPERTIES NoDoubleDelete GetIsAlive FixtureGetsMock OnlyRacesLeak
