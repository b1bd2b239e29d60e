CONSTANTS
  Clients = {c1, c2}
  Natives = {n1, n2}
  NoThread = NoThread
  Nobody = Nobody
  Free = Free
  Other = Other
SPECIFICATION InterfaceFairSpec
INVARIANTS OwnAnswer GotRunning InterfaceInv
PROPERTIES StartReturns CallsAnswered ImplementsClaims
