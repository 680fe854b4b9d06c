SPECIFICATION FairSpec
CONSTANTS
  s1 = s1
  s2 = s2
  a = a
  b = b
  Services = {s1}
  Data <- McData
  Width = 2
  Garbage = Garbage
  Capacity = 2
  Pending = 1
  None = None
INVARIANTS
  TypeOK
  OnlyOffered
  ListsAvailable
PROPERTIES
  ListedAgain
