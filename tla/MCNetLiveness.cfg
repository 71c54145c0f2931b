\* Two clients, one command each, on two servers that either may shut down.
CONSTANTS
  s1 = s1
  s2 = s2
  Clients = {a, b}
  Servers <- MCServers
  Hosts <- MCHosts
  MaxCommands = 1
  Commands = {"in", "quit"}
  Nothing = Nothing
  Capacity = 1
SPECIFICATION FairSpec
PROPERTIES
  NoHang
  QuitSpreads
  SessionsEnd
