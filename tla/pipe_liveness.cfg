CONSTANTS
  PipeRequests = {i1}
  DcpRequests = {}
  SettingRequests = {}
  ClaimRequests = {k1}
  Clients = {c1, c2}
  Proxies = {p1}
  Urbs = {u1}
  NoRequest = NoRequest
  NoUrb = NoUrb
  NoThread = NoThread
  CanUnplug = TRUE
SPECIFICATION PipeFairSpec
INVARIANTS CancelNotLost NoHopelessWait
PROPERTIES CallsReturn CancelEffective RequestsTaken
