SPECIFICATION Spec
CONSTANTS
  small = small
  large = large
  Proc = {p1, p2, p3}
  Name = {n1, n2}
  Payload = {small, large}
  NoPayload = NoPayload
  Raw <- MCRaw
  Limit = 23
  MaxRaw = 13
  JobSize = 1
  Reserve = 9
  MaxFiles = 8
  Operations = {"publish", "job", "inspect", "purge"}
  NoItem = NoItem
  Nobody = Nobody
  MaxFaults = 2
SYMMETRY Symmetry
INVARIANTS RootSound
PROPERTY ImplementsBoard
CHECK_DEADLOCK FALSE
