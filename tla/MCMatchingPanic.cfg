CONSTANTS
  ConvertValue <- MCConvertValue
  SqlMatch <- MCSqlMatch
  SqlPanic <- MCSqlPanic
  NoOpts = NoOpts
  NoRequest = NoRequest
  NoCaller = NoCaller
  Callers = {g1, g2}
  Expectations <- PanickyExpectations
  Requests <- LiveRequests
  MaxExpected = 2
  MonitorPings = FALSE
  ToggleInFlight = FALSE
SPECIFICATION Spec
SYMMETRY CallerSymmetry
PROPERTY PanicsAreCaught
