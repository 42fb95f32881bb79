SPECIFICATION Spec
CONSTANTS
  a1 = a1
  a2 = a2
  a3 = a3
  server = server
  other = other
  None = None
  Acquirer = {a1, a2, a3}
  Process = {server, other}
  ProcessOf <- Goroutines
  Fd = {f1, f2, f3}
SYMMETRY Symmetry
INVARIANTS
  TypeOK
  Exclusion
  NoFdLeak
PROPERTIES
  ImplementsReaderWriter
