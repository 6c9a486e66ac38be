CONSTANTS
  Clients <- MCClients
  SubItems <- MCSubItems
  ReqItems <- MCReqItems
  MaxValue = 1
  MaxSubsObj = 2
SPECIFICATION UpdateSpec
INVARIANT SubscriptionAsDocumented
