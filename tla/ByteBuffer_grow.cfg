SPECIFICATION BufferSpec
CONSTANTS
  Capacities = {4}
  Half = 2
  Junk = Junk
  MaxPuts = 2
  MaxEmpties = 1
INVARIANT PutsAreKept
CHECK_DEADLOCK FALSE
