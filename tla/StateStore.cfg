SPECIFICATION Spec
CONSTANTS
  Items = {i1, i2}
  Values = {New, GivenUp, Noted, Moved}
  New = New
  GivenUp = GivenUp
  Noted = Noted
  Moved = Moved
  Absent = Absent
  Workers = {w1}
  Requests = {r1, r2}
  MaxWrites = 5
  None = None
  i1 = i1
  i2 = i2
  w1 = w1
  r1 = r1
  r2 = r2
SYMMETRY
  Alike
INVARIANTS
  TypeOK
  MutatesCurrent
PROPERTIES
  ImplementsRecordStore
