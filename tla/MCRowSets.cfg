CONSTANTS
  q1 = q1
  q2 = q2
  q3 = q3
  A = A
  B = B
  Mock = Mock
  NoRow = NoRow
  Readers = {q1, q2, q3}
  RowsIds = {A, B}
  NumRows <- MCNumRows
  SetsOf <- MCSetsOf
  RawRows <- MCRawRows
  RowErrors <- MCRowErrors
  MaxPastEnd = 2
SPECIFICATION Spec
INVARIANTS
  TypeOK
  MockedDataIntact
  CurrentRowIsValid
  NoRowIsLost
PROPERTIES
  RawBytesExpire
CHECK_DEADLOCK FALSE
