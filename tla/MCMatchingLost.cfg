CONSTANTS
  ConvertValue <- MCConvertValue
  SqlMatch <- MCSqlMatch
  SqlPanic <- MCSqlPanic
  NoOpts = NoOpts
  NoRequest = NoRequest
  NoCaller = NoCaller
  Callers = {g1, g2}
  Expectations <- LostExpectations
  Requests <- LostRequests
  MaxExpected = 2
  MonitorPings = FALSE
  ToggleInFlight = FALSE
SPECIFICATION FairSpec
PROPERTY VerifyReturns
CHECK_DEADLOCK FALSE
