CONSTANTS
  ConvertValue <- MCConvertValue
  DriverValues <- MCDriverValues
  Outs = {"out"}
  Letters <- MCLetters
  Blank = " "
  Spaces <- MCSpaces
  UnicodeSpaces <- MCUnicodeSpaces
  Unbalanced = {"("}
  Texts <- MCTexts
  CallTexts <- MCCallTexts
  ArgLists <- MCArgLists
  CallLists <- MCCallLists
  TxOptions <- MCTxOptions
  NoOpts = NoOpts
  RowsIds = {"plain", "defined"}
  NilRows = "nil"
  Cols <- MCCols
  Defined <- MCDefined
  ValueLists <- MCValueLists
  CsvTexts <- MCCsvTexts
  FieldValue <- MCFieldValue
  Null = "null"
  SetLists <- MCSetLists
  MaxExpected = 2
  MaxRows = 2
  MaxCalls = 5
SPECIFICATION Spec
INVARIANTS
  TypeOK
  ArgsAsAsked
  TextsAsAsked
  ReadsInBounds
  SameBeforeGo18
CHECK_DEADLOCK FALSE
