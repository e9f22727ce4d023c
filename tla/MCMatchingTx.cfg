CONSTANTS
  ConvertValue <- MCConvertValue
  SqlMatch <- MCSqlMatch
  SqlPanic <- MCSqlPanic
  NoOpts = NoOpts
  NoRequest = NoRequest
  NoCaller = NoCaller
  Callers = {g1, g2}
  Expectations <- TxExpectations
  Requests <- TxRequests
  MaxExpected = 2
  MonitorPings = TRUE
  ToggleInFlight = FALSE
SPECIFICATION Spec
SYMMETRY CallerSymmetry
INVARIANTS
  OpenedCountsConns
  NoMutexLost
PROPERTIES
  MatchesAtomically
  KeepsRegistry
