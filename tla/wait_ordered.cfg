CONSTANTS
  Waiters = {w1, w2, w3}
  Nobody = Nobody
  StoreBuffering = FALSE
SPECIFICATION FairSpec
INVARIANTS NobodyLeftWaiting OrderedInv
PROPERTIES WaitersReturn
CHECK_DEADLOCK FALSE
