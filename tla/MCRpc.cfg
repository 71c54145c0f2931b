\* Two lines of one client against one of another; three spots, two cars at a
\* time.
CONSTANTS
  a = a
  b = b
  Clients <- MCClients
  MaxLines <- MCMaxLines
  Capacity = 3
  Amounts = {2}
  MaxInt = 7
  Methods = {"free", "hello", "hashCode", "notify", "exit"}
  NotANumber = NotANumber
SPECIFICATION FairSpec
INVARIANTS
  TypeOK
  AnswersMatch
  AcceptsUnlessDeserted
  OnItsWay
PROPERTIES
  Linearizable
  NoHang
  Welcomed
  ExitEndsServer
  ThreadsEnd
