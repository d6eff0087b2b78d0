SPECIFICATION Spec
CONSTANTS
  a = a
  b = b
  z1 = z1
  z2 = z2
  p1 = p1
  p2 = p2
  g1 = g1
  Code = {a, b}
  Controller = {c1, c2}
  Zip = {z1, z2}
  Row = {p1, p2, g1}
  PrintRow = {p1, p2}
  CodeOf <- MCCodeOf
  Contains <- MCContains
  Readable <- MCReadable
  LiveRows = {g1}
  Touched = {}
  Native = native
  Time <- MCTime
  None = None
INVARIANTS
  CleanMeansConverged
