SPECIFICATION Spec
CONSTANTS
  Name = {n1, n2}
  Password = {p1, p2}
  Handler = {h1, h2}
  None = None
  MaxAsked = 4
INVARIANTS
  TypeOK
  MemoryFollowsFile
  ToldCanLogIn
