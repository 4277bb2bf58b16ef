\* 1 and 3 share a bucket; each process may be known without being listed.
CONSTANTS
  Pids <- MCPids
  HashSize = 2
  Nodes <- MCNodes
  Null = Null
SPECIFICATION Spec
INVARIANTS
  TypeOK
  WellLinked
  OnceInTable
  WalksAll
PROPERTIES
  KeepsMap
