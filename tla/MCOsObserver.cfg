CONSTANTS
  Clients <- MCClients
  SubItems <- MCSubItems
  ReqItems <- MCReqItems
  MaxValue = 2
  MaxSubsObj = 2
SPECIFICATION Spec
INVARIANTS
  TypeOK
  MapsAreInverse
  SubscriptionAsDocumented
  FrameworkServes
  ClientsAreCurrent
