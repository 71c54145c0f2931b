\* Two threads that run, one that posts, a handler, two operations on a socket
\* on which up to two messages pile up.
CONSTANTS
  t1 = t1
  t2 = t2
  main = main
  h1 = h1
  r1 = r1
  r2 = r2
  d1 = d1
  Threads <- MCThreads
  Outsiders <- MCOutsiders
  Handlers <- MCHandlers
  Operations <- MCOperations
  Descriptors <- MCDescriptors
  Uses <- MCUses
  Task = Task
  Nothing = Nothing
  MaxData = 2
  Overlapping = FALSE
SPECIFICATION Spec
SYMMETRY MCSymmetry
INVARIANTS
  WorkCounted
  QueuedOnce
  NoneStranded
PROPERTIES
  ServesAsPool
