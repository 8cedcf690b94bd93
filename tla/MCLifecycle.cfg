SPECIFICATION Spec
CONSTANTS
  app = app
  admin = admin
  c1 = c1
  c2 = c2
  Servers <- MCServers
  NamedHosts <- MCNamed
  Conns <- MCConns2
  MaxSignals = 3
SYMMETRY ConnSymmetry
INVARIANTS
  TypeOK
  ForcedBySecond
  PreDrainHeld
  ListenerOwned
  ExitZeroClean
  PipelinesShutDown
  SpansBeforeFlush
  RunAllJoined
  AbandonedByOwnFault
PROPERTIES
  DrainedStaysDrained
  ImplementsGracefulStop
