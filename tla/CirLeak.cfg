SPECIFICATION Spec
CONSTANTS
  values = values
  delays = delays
  m1 = m1
  m2 = m2
  m3 = m3
  NoBlock = NoBlock
  Buffer = {values, delays}
  Block = {m1, m2, m3}
  Chunks = 2
  MaxKeys = 2
  MaxComputes = 2
INVARIANT NothingLeaks
CHECK_DEADLOCK FALSE
