\* Two clients with one command each, one of them in, on two servers
\* of one spot, one of which can hold a single connection; the network may reset
\* one connection.
CONSTANTS
  s1 = s1
  s2 = s2
  a = a
  b = b
  Clients <- MCClients
  Servers <- MCServers
  Hosts <- MCHosts
  MaxCommands = 1
  Commands = {"in", "out", "free", "quit"}
  Nothing = Nothing
  Capacity = 1
  MaxSockets <- MCMaxSockets
  Typed <- MCTyped
  Fragile <- MCFragile
SPECIFICATION FairSpec
INVARIANTS
  TypeOK
  Ledger
  AtMostOneGrant
  BroadcastOutcome
  EndsForCause
  OnItsWay
PROPERTIES
  NoHang
  QuitArrives
  SocketsClosed
