\* Room for one entry in the registry, four writes of two files.
CONSTANTS
  upsert = upsert
  insert = insert
  create = create
  note = note
  engine = engine
  tool = tool
  matrix = matrix
  arcs = arcs
  NoLock = NoLock
  Scaffold = Scaffold
  Before = Before
  Writes <- MCWrites
  Programs <- MCPrograms
  Paths <- MCPaths
  ProgramOf <- MCProgramOf
  PathOf <- MCPathOf
  WriteKind <- MCWriteKind
  Words <- MCWords
  CellsOf <- MCCellsOf
  Bases <- MCBases
  Capacity = 1
SPECIFICATION TruthSpec
INVARIANTS
  TableSound
PROPERTIES
  OnlyItsRow
  AtomicStore
CHECK_DEADLOCK FALSE
