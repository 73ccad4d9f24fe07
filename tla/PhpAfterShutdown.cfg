\* PHP runs on while the module is shut down.
CONSTANTS
  c1 = c1
  c2 = c2
  Conns <- OneConn
  MaxDetached = 1
  Machines <- OneMachine
  Files <- OneFile
  NameOf <- MCNameOf
  ValueOf <- MCValueOf
  Compiled <- MCCompiled
  Invalid = Invalid
SPECIFICATION ProcessSpec
INVARIANTS
  NoPhpAfterShutdown
\* The process exits: the system stops.
CHECK_DEADLOCK FALSE
