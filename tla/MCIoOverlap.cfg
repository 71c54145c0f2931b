\* The same, in a program that opens a socket in one thread while another closes one.
CONSTANTS
  t1 = t1
  t2 = t2
  main = main
  h1 = h1
  r1 = r1
  r2 = r2
  d1 = d1
  Threads <- MCThreads
  Outsiders <- MCOutsiders
  Handlers <- MCHandlers
  Operations <- MCOperations
  Descriptors <- MCDescriptors
  Uses <- MCUses
  Task = Task
  Nothing = Nothing
  MaxData = 1
  Overlapping = TRUE
SPECIFICATION Spec
SYMMETRY MCSymmetry
INVARIANT QueuedOnce
