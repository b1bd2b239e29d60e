CONSTANTS
  PipeRequests = {i1, i2}
  DcpRequests = {d1}
  SettingRequests = {}
  ClaimRequests = {}
  Clients = {c1, c2}
  Proxies = {p1, p2}
  Urbs = {u1, u2}
  NoRequest = NoRequest
  NoUrb = NoUrb
  NoThread = NoThread
  CanUnplug = TRUE
SPECIFICATION Spec
SYMMETRY Symmetry
INVARIANTS NoRequestLost CompletedOnce KernelUrbsValid NothingLeaked IInv
PROPERTIES ImplementsService CancelReachesOwnFd 
