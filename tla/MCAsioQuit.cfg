\* A broadcast of quit while another client has ended the first server.
CONSTANTS
  s1 = s1
  s2 = s2
  a = a
  b = b
  Clients <- MCClients
  Servers <- MCServers
  Hosts <- MCHosts
  MaxCommands = 1
  Commands = {"in", "out", "free", "quit"}
  Nothing = Nothing
  Capacity = 1
  MaxSockets <- MCMaxSockets
  Typed <- MCQuits
  Fragile = {}
SPECIFICATION Spec
INVARIANT QuitIsBroadcast
