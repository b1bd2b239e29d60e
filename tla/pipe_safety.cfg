CONSTANTS
  PipeRequests = {i1, i2}
  DcpRequests = {}
  SettingRequests = {s1}
  ClaimRequests = {k1}
  Clients = {c1, c2}
  Proxies = {p1}
  Urbs = {u1}
  NoRequest = NoRequest
  NoUrb = NoUrb
  NoThread = NoThread
  CanUnplug = FALSE
SPECIFICATION PipeSpec
SYMMETRY PipeSymmetry
INVARIANTS OutcomeTruthful InProgressFound CancelledOnce PipeIInv
PROPERTIES AbortStops
