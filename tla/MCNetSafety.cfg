\* Two clients with one command each, any command, on two servers of one spot.
CONSTANTS
  s1 = s1
  s2 = s2
  Clients = {a, b}
  Servers <- MCServers
  Hosts <- MCHosts
  MaxCommands = 1
  Commands = {"in", "out", "free", "quit", "help"}
  Nothing = Nothing
  Capacity = 1
SPECIFICATION Spec
SYMMETRY MCSymmetry
INVARIANTS
  TypeOK
  Ledger
  AtMostOneGrant
  BroadcastOutcome
  OnItsWay
