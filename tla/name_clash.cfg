SPECIFICATION StoreSpec
CONSTANTS
  Upload = {u1, u2}
  None = None
  MaxChunks = 2
  MaxSecond = 2
  MaxRestarts = 0
INVARIANT NoClash
CHECK_DEADLOCK FALSE
