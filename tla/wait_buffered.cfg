CONSTANTS
  Waiters = {w1, w2}
  Nobody = Nobody
  StoreBuffering = TRUE
SPECIFICATION BufferedSpec
PROPERTIES WaitersReturn
CHECK_DEADLOCK FALSE
