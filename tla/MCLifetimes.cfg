SPECIFICATION LifetimesSpec
CONSTANTS
  Packets = {p1, p2, p3, p4, p5}
  MaxObjects = 2
  Observers = {a, b, c}
  MaxSlots = 4
  MaxWalks = 2
  MaxErased = 2
  NoObserver = none
  MaxOpens = 3
  Animal = {a, b, c}
  Names = {"cat", "dog"}
  Types = {"Cat", "Dog"}
  Signatures = {"void(string)", "void(A, string)"}
  Addresses = {"p1", "p2"}
INVARIANTS WalkSurvives HandleTells AnimalsAgree LookupsTell
PROPERTY PoolFreezes
CHECK_DEADLOCK FALSE
