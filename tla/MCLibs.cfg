SPECIFICATION MCSpec
CONSTANTS
  Conns = {c1, c2, c3}
  Fds = {3, 4}
  WorkerCount = 2
  PipeSize = 1
  None = None
  Threads = {h1, h2, h3, h4}
  Capacities = {2, 5}
  Half = 2
  Junk = Junk
  MaxPuts = 2
  MaxEmpties = 1
INVARIANT CountersExact
INVARIANT TcpStatusExact
INVARIANT RoundTrip
INVARIANT OneOwner
PROPERTY ImplementsRWLock
PROPERTY WriterPreference
PROPERTY LockProgress
PROPERTY TcpImplementsRWLock
PROPERTY TcpLockProgress
PROPERTY AcceptedIsServed
CHECK_DEADLOCK FALSE
