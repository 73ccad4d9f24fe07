\* The startup of the process, the accept loop, the drain and the shutdown of PHP.
CONSTANTS
  c1 = c1
  c2 = c2
  Conns <- MCConns
  MaxDetached = 2
  Machines <- MCMachines
  Files <- MCFiles
  NameOf <- MCNameOf
  ValueOf <- MCValueOf
  Compiled <- MCCompiled
  Invalid = Invalid
SPECIFICATION ProcessSpec
INVARIANTS
  ProcessTypeOK
  LayersInOrder
  ExitStatus
  SigtermSparesClients
  TableIsFile
PROPERTIES
  ImplementsGracefulStop
  SigtermStops
  Accepted
  Exits
\* The process exits: the system stops.
CHECK_DEADLOCK FALSE
