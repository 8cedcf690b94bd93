SPECIFICATION WedgedSpec
CONSTANTS
  app = app
  admin = admin
  c1 = c1
  c2 = c2
  Servers <- MCServers
  NamedHosts <- MCNamed
  Conns <- MCConns1
  MaxSignals = 2
PROPERTIES
  SecondSignalStops
  SignalStops
  FailureStops
