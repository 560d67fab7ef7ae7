SPECIFICATION Spec
CONSTANTS
  t1 = t1
  t2 = t2
  t3 = t3
  a1 = a1
  a2 = a2
  b = b
  fa = fa
  fb = fb
  Tasks <- MCTasks
  Names <- MCNames
  Files <- MCFiles
  FileOf <- MCFileOf
  Existing = {fa, fb}
  MaxYields = 2
  MainCallers = TRUE
INVARIANTS
  MutualExclusion
  OneWriterPerFile
PROPERTIES
  ServedInOrder
CHECK_DEADLOCK FALSE
