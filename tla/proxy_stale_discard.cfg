CONSTANTS
  PipeRequests = {i1, i2}
  DcpRequests = {}
  SettingRequests = {s1}
  ClaimRequests = {}
  Clients = {c1, c2}
  Proxies = {p1}
  Urbs = {u1, u2}
  NoRequest = NoRequest
  NoUrb = NoUrb
  NoThread = NoThread
  CanUnplug = FALSE
SPECIFICATION FairSpec

PROPERTIES DiscardHitsTarget
