CONSTANTS
  ConvertValue <- MCConvertValue
  SqlMatch <- MCSqlMatch
  SqlPanic <- MCSqlPanic
  NoOpts = NoOpts
  NoRequest = NoRequest
  NoCaller = NoCaller
  Callers = {g1, g2}
  Expectations <- SqlExpectations
  Requests <- SqlRequests
  MaxExpected = 2
  MonitorPings = FALSE
  ToggleInFlight = FALSE
SPECIFICATION Spec
SYMMETRY CallerSymmetry
INVARIANTS
  TypeOK
  MetSound
  ServedOnce
  NoMutexLost
PROPERTIES
  MatchesAtomically
  AnyOrder
CHECK_DEADLOCK FALSE
