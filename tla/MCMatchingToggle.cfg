CONSTANTS
  ConvertValue <- MCConvertValue
  SqlMatch <- MCSqlMatch
  SqlPanic <- MCSqlPanic
  NoOpts = NoOpts
  NoRequest = NoRequest
  NoCaller = NoCaller
  Callers = {g1, g2}
  Expectations <- MixExpectations
  Requests <- LiveRequests
  MaxExpected = 2
  MonitorPings = FALSE
  ToggleInFlight = TRUE
SPECIFICATION Spec
SYMMETRY CallerSymmetry
PROPERTY OrderedTriggers
