\* Two calls over one root, and one process killed or one file refused anywhere.
SPECIFICATION FairSpec
CONSTANTS
  Call = {c1, c2}
  Nobody = Nobody
  MaxFaults = 1
INVARIANT LeaseIsSupervised
PROPERTIES SuccessIsWholeAndTimely CallEnds OrphanEnds
CHECK_DEADLOCK FALSE
