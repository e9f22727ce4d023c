CONSTANTS
  ConvertValue <- MCConvertValue
  SqlMatch <- MCSqlMatch
  SqlPanic <- MCSqlPanic
  NoOpts = NoOpts
  NoRequest = NoRequest
  NoCaller = NoCaller
  Callers = {g1, g2}
  Expectations <- LiveExpectations
  Requests <- PingRequests
  MaxExpected = 2
  MonitorPings = FALSE
  ToggleInFlight = FALSE
SPECIFICATION FairSpec
PROPERTIES
  CallReturns
  VerifyReturns
  PanicsAreCaught
  OrderedTriggers
  AllFulfilledIsTrue
