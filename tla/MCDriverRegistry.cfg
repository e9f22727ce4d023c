CONSTANTS
  Mocks = {m1, m2, m3}
  NoMock = NoMock
  NoDSN = NoDSN
  db0 = db0
  db1 = db1
  db2 = db2
  name = name
  DSNs = {db0, db1, db2, name}
  GeneratedDSN <- MCGeneratedDSN
  ChosenDSNs = {name}
  MaxCounter = 2
  Links = {1, 2}
SPECIFICATION Spec
SYMMETRY MockSymmetry
INVARIANTS
  TypeOK
  InUseIsRegistered
  IdleIsForgotten
  NewIsIsolated
CHECK_DEADLOCK FALSE
