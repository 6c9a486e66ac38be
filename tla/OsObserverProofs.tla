-------------------------- MODULE OsObserverProofs --------------------------
(***************************************************************************)
(* The OS observer is correct for every set of clients and of items.  The  *)
(* invariants the run checks lean on each other in one place only: which   *)
(* items somebody wants is known from mDataItemToClients, and a client is  *)
(* trimmed from exactly the entries its own entry names, so the maps have  *)
(* to be inverse before a handler for them to be inverse after it.         *)
(***************************************************************************)
EXTENDS OsObserver, TLAPS

-----------------------------------------------------------------------------
(* What LocUnorderedSetMap does to the keys of a map.                      *)

\* add leaves the keys that were there and those that are added.
LEMMA KeysAdd ==
  ASSUME NEW m \in [Items -> SUBSET Clients], NEW l \in SUBSET Items, NEW c \in Clients
  PROVE  /\ AddClient(m, l, c) \in [Items -> SUBSET Clients]
         /\ Keys(AddClient(m, l, c)) = Keys(m) \cup l
  BY DEF Keys, AddClient

\* trimOrRemove removes the keys it reports as gone and no other.
LEMMA KeysTrim ==
  ASSUME NEW l \in SUBSET Items, NEW c \in Clients,
         mDataItemToClients \in [Items -> SUBSET Clients]
  PROVE  /\ TrimClient(mDataItemToClients, l, c) \in [Items -> SUBSET Clients]
         /\ Keys(TrimClient(mDataItemToClients, l, c)) =
              Keys(mDataItemToClients) \ GoneKeys(l, c)
         /\ GoneKeys(l, c) \subseteq l
  BY DEF Keys, TrimClient, GoneKeys

-----------------------------------------------------------------------------
(* The inductive invariant.                                                *)

IInv ==
  /\ TypeOK
  /\ MapsAreInverse
  /\ promised = mClientToDataItems
  /\ FrameworkServes
  /\ ClientsAreCurrent

LEMMA InitIInv == Init => IInv
  BY ObserverAssumption
  DEF Init, IInv, TypeOK, MapsAreInverse, FrameworkServes, ClientsAreCurrent, Keys

\* A subscription object is told all that is wanted so far.
LEMMA SetKeeps == IInv /\ setSubscriptionObj => IInv'
<1> SUFFICES ASSUME IInv, setSubscriptionObj PROVE IInv'
  OBVIOUS
<1> USE DEF IInv, setSubscriptionObj, maps
<1>1. TypeOK'
  BY ObserverAssumption DEF TypeOK, Keys
<1>2. MapsAreInverse' /\ (promised = mClientToDataItems)'
  BY DEF MapsAreInverse
<1>3. FrameworkServes'
  BY DEF FrameworkServes, Keys
<1>4. ClientsAreCurrent'
  BY DEF ClientsAreCurrent
<1> QED
  BY <1>1, <1>2, <1>3, <1>4

\* subscribe and requestData.
LEMMA SubscribeKeeps ==
  ASSUME IInv, NEW c \in Clients, NEW l \in SUBSET Items, NEW r \in BOOLEAN,
         Subscribe(c, l, r),
         r => l \subseteq ReqItems
  PROVE  IInv'
<1> USE DEF IInv
<1> DEFINE K == Keys(mDataItemToClients)
<1>1. /\ mDataItemToClients' \in [Items -> SUBSET Clients]
      /\ Keys(mDataItemToClients') = K \cup l
  BY KeysAdd DEF TypeOK, Subscribe
<1>2. TypeOK'
  <2>1. mClientToDataItems' \in [Clients -> SUBSET Items] /\ promised' \in [Clients -> SUBSET Items]
    BY DEF TypeOK, Subscribe
  <2>2. received' \in [Clients -> [Items -> 0..MaxValue]]
    BY DEF TypeOK, Subscribe, sendCachedDataItems
  <2>3. /\ mSubscriptionObj' = mSubscriptionObj
        /\ fwSubscribed' \subseteq Items /\ fwRequested' \subseteq Items
        /\ mSubscriptionObj' = 0 => fwSubscribed' = {} /\ fwRequested' = {}
    BY DEF TypeOK, Subscribe, Tell, NewKeys
  <2> QED
    BY <1>1, <2>1, <2>2, <2>3 DEF TypeOK, Subscribe
<1>3. MapsAreInverse'
  BY DEF TypeOK, MapsAreInverse, Subscribe, AddClient
<1>4. (promised = mClientToDataItems)'
  BY DEF TypeOK, Subscribe
<1>5. FrameworkServes'
  <2> SUFFICES ASSUME mSubscriptionObj' # 0
               PROVE  /\ fwSubscribed' \ ReqItems = Keys(mDataItemToClients') \ ReqItems
                      /\ Keys(mDataItemToClients') \cap ReqItems
                           \subseteq fwSubscribed' \cup fwRequested'
    BY DEF FrameworkServes, Keys
  <2>1. mSubscriptionObj # 0
    BY DEF Subscribe, Tell
  <2>2. /\ fwSubscribed \ ReqItems = K \ ReqItems
        /\ K \cap ReqItems \subseteq fwSubscribed \cup fwRequested
    BY <2>1 DEF FrameworkServes
  <2>3. CASE r
    <3>1. fwSubscribed' = fwSubscribed /\ fwRequested' = fwRequested \cup (l \ K)
      BY <2>1, <2>3 DEF Subscribe, Tell, NewKeys
    <3> QED
      BY <1>1, <2>2, <2>3, <3>1
  <2>4. CASE ~r
    <3>1. fwSubscribed' = fwSubscribed \cup (l \ K) /\ fwRequested' = fwRequested
      BY <2>1, <2>4 DEF Subscribe, Tell, NewKeys
    <3> QED
      BY <1>1, <2>2, <3>1
  <2> QED
    BY <2>3, <2>4
<1>6. ClientsAreCurrent'
  <2> SUFFICES ASSUME NEW d \in Clients, NEW i \in mClientToDataItems'[d],
                      mDataItemCache'[i] # 0
               PROVE  received'[d][i] = mDataItemCache'[i]
    BY DEF ClientsAreCurrent
  <2>1. i \in Items /\ mDataItemCache' = mDataItemCache
    BY <1>2 DEF TypeOK, Subscribe
  <2>2. CASE d # c \/ i \notin l
    <3>1. i \in mClientToDataItems[d] /\ received'[d][i] = received[d][i]
      BY <2>1, <2>2 DEF TypeOK, Subscribe, sendCachedDataItems
    <3> QED
      BY <2>1, <3>1 DEF ClientsAreCurrent
  <2>3. CASE d = c /\ i \in l
    BY <2>1, <2>3 DEF TypeOK, Subscribe, sendCachedDataItems
  <2> QED
    BY <2>2, <2>3
<1> QED
  BY <1>2, <1>3, <1>4, <1>5, <1>6

-----------------------------------------------------------------------------
(* unsubscribe and unsubscribeAll: a client gives up the items in l.       *)

\* The step both take, in terms of the items the client loses.
GiveUp(c, lost) ==
  /\ lost \subseteq mClientToDataItems[c]
  /\ mClientToDataItems' = [mClientToDataItems EXCEPT ![c] = @ \ lost]
  /\ mDataItemToClients' = TrimClient(mDataItemToClients, lost, c)
  /\ Tell({}, {}, GoneKeys(lost, c))
  /\ promised' = [promised EXCEPT ![c] = @ \ lost]
  /\ UNCHANGED <<mDataItemCache, received>>

LEMMA UnsubscribeGivesUp ==
  ASSUME IInv, NEW c \in Clients, NEW l \in SUBSET Items, unsubscribe(c, l)
  PROVE  GiveUp(c, mClientToDataItems[c] \cap l)
<1>1. /\ [mClientToDataItems EXCEPT ![c] = @ \ l] =
           [mClientToDataItems EXCEPT ![c] = @ \ (mClientToDataItems[c] \cap l)]
      /\ [promised EXCEPT ![c] = @ \ l] =
           [promised EXCEPT ![c] = @ \ (mClientToDataItems[c] \cap l)]
  BY DEF IInv, TypeOK
<1> QED
  BY <1>1 DEF unsubscribe, GiveUp

LEMMA UnsubscribeAllGivesUp ==
  ASSUME IInv, NEW c \in Clients, unsubscribeAll(c)
  PROVE  GiveUp(c, mClientToDataItems[c])
<1>1. /\ [mClientToDataItems EXCEPT ![c] = {}] =
           [mClientToDataItems EXCEPT ![c] = @ \ mClientToDataItems[c]]
      /\ [promised EXCEPT ![c] = {}] = [promised EXCEPT ![c] = @ \ mClientToDataItems[c]]
  BY DEF IInv, TypeOK
<1> QED
  BY <1>1 DEF unsubscribeAll, GiveUp

LEMMA GiveUpKeeps ==
  ASSUME IInv, NEW c \in Clients, NEW lost \in SUBSET Items, GiveUp(c, lost)
  PROVE  IInv'
<1> USE DEF IInv
<1> DEFINE K == Keys(mDataItemToClients)
           G == GoneKeys(lost, c)
<1>1. /\ mDataItemToClients' \in [Items -> SUBSET Clients]
      /\ Keys(mDataItemToClients') = K \ G
      /\ G \subseteq Items
  BY KeysTrim DEF TypeOK, GiveUp
<1>2. TypeOK'
  <2>1. mClientToDataItems' \in [Clients -> SUBSET Items] /\ promised' \in [Clients -> SUBSET Items]
    BY DEF TypeOK, GiveUp
  <2>2. /\ mSubscriptionObj' = mSubscriptionObj
        /\ fwSubscribed' \subseteq Items /\ fwRequested' \subseteq Items
        /\ mSubscriptionObj' = 0 => fwSubscribed' = {} /\ fwRequested' = {}
    BY DEF TypeOK, GiveUp, Tell
  <2> QED
    BY <1>1, <2>1, <2>2 DEF TypeOK, GiveUp
<1>3. MapsAreInverse'
  BY DEF TypeOK, MapsAreInverse, GiveUp, TrimClient
<1>4. (promised = mClientToDataItems)'
  BY DEF TypeOK, GiveUp
<1>5. FrameworkServes'
  <2> SUFFICES ASSUME mSubscriptionObj' # 0
               PROVE  /\ fwSubscribed' \ ReqItems = Keys(mDataItemToClients') \ ReqItems
                      /\ Keys(mDataItemToClients') \cap ReqItems
                           \subseteq fwSubscribed' \cup fwRequested'
    BY DEF FrameworkServes, Keys
  <2>1. mSubscriptionObj # 0
    BY DEF GiveUp, Tell
  <2>2. /\ fwSubscribed \ ReqItems = K \ ReqItems
        /\ K \cap ReqItems \subseteq fwSubscribed \cup fwRequested
    BY <2>1 DEF FrameworkServes
  <2>3. fwSubscribed' = fwSubscribed \ G /\ fwRequested' = fwRequested \ G
    BY <2>1 DEF GiveUp, Tell
  <2> QED
    BY <1>1, <2>2, <2>3
<1>6. ClientsAreCurrent'
  BY DEF TypeOK, ClientsAreCurrent, GiveUp
<1> QED
  BY <1>2, <1>3, <1>4, <1>5, <1>6

-----------------------------------------------------------------------------
\* A report: whoever has a changed item in its entry is found through the
\* other map, because the two are inverse.
LEMMA NotifyKeeps ==
  ASSUME IInv, NEW l \in SUBSET Items, NEW v \in 1..MaxValue, notify(l, v)
  PROVE  IInv'
<1> USE DEF IInv, maps, fw
<1>1. TypeOK'
  BY ObserverAssumption DEF TypeOK, notify
<1>2. MapsAreInverse' /\ (promised = mClientToDataItems)'
  BY DEF MapsAreInverse, notify
<1>3. FrameworkServes'
  BY DEF FrameworkServes, Keys, notify
<1>4. ClientsAreCurrent'
  <2> DEFINE changed == {i \in l : mDataItemCache[i] # v}
  <2> SUFFICES ASSUME NEW d \in Clients, NEW i \in mClientToDataItems[d],
                      mDataItemCache'[i] # 0
               PROVE  received'[d][i] = mDataItemCache'[i]
    BY DEF ClientsAreCurrent, notify
  <2>1. i \in Items /\ d \in mDataItemToClients[i]
    BY DEF TypeOK, MapsAreInverse
  <2>2. CASE i \in changed
    <3>1. \E j \in changed : d \in mDataItemToClients[j]
      BY <2>1, <2>2
    <3>2. received'[d][i] = v /\ mDataItemCache'[i] = v
      BY <2>1, <2>2, <3>1 DEF notify
    <3> QED
      BY <3>2
  <2>3. CASE i \notin changed
    <3>1. received'[d][i] = received[d][i] /\ mDataItemCache'[i] = mDataItemCache[i]
      BY <2>1, <2>3 DEF notify
    <3> QED
      BY <3>1 DEF ClientsAreCurrent
  <2> QED
    BY <2>2, <2>3
<1> QED
  BY <1>1, <1>2, <1>3, <1>4

LEMMA StepIInv == IInv /\ [Next]_vars => IInv'
<1> SUFFICES ASSUME IInv, [Next]_vars PROVE IInv'
  OBVIOUS
<1>1. CASE setSubscriptionObj
  BY <1>1, SetKeeps
<1>2. ASSUME NEW l \in SUBSET Items, NEW c \in Clients, subscribe(c, l) PROVE IInv'
  BY <1>2, SubscribeKeeps DEF subscribe
<1>3. ASSUME NEW l \in SUBSET Items, NEW c \in Clients, requestData(c, l) PROVE IInv'
  BY <1>3, SubscribeKeeps DEF requestData
<1>4. ASSUME NEW l \in SUBSET Items, NEW c \in Clients, unsubscribe(c, l) PROVE IInv'
  <2>1. mClientToDataItems[c] \cap l \in SUBSET Items
    OBVIOUS
  <2> QED
    BY <1>4, <2>1, UnsubscribeGivesUp, GiveUpKeeps
<1>5. ASSUME NEW l \in SUBSET Items, NEW v \in 1..MaxValue, notify(l, v) PROVE IInv'
  BY <1>5, NotifyKeeps
<1>6. ASSUME NEW c \in Clients, unsubscribeAll(c) PROVE IInv'
  <2>1. mClientToDataItems[c] \in SUBSET Items
    BY DEF IInv, TypeOK
  <2> QED
    BY <1>6, <2>1, UnsubscribeAllGivesUp, GiveUpKeeps
<1>7. CASE UNCHANGED vars
  BY <1>7 DEF IInv, TypeOK, MapsAreInverse, FrameworkServes, ClientsAreCurrent, Keys,
              vars, maps, fw
<1> QED
  BY <1>1, <1>2, <1>3, <1>4, <1>5, <1>6, <1>7 DEF Next

LEMMA AlwaysIInv == Spec => []IInv
  BY InitIInv, StepIInv, PTL DEF Spec

-----------------------------------------------------------------------------
(* The theorems.                                                           *)

\* The state of the observer is well-typed, and nothing is ever called on a
\* subscription object that is NULL.
THEOREM TypeCorrect == Spec => []TypeOK
<1>1. IInv => TypeOK
  BY DEF IInv
<1> QED
  BY <1>1, AlwaysIInv, PTL

\* mClientToDataItems and mDataItemToClients stay inverse whatever the clients
\* subscribe for and give up, in whatever order.
THEOREM MapsCorrect == Spec => []MapsAreInverse
<1>1. IInv => MapsAreInverse
  BY DEF IInv
<1> QED
  BY <1>1, AlwaysIInv, PTL

\* A client has the items that its subscribe, requestData, unsubscribe and
\* unsubscribeAll calls leave it with, as IDataItemSubscription.h says.
THEOREM SubscriptionsCorrect == Spec => []SubscriptionAsDocumented
<1>1. IInv => SubscriptionAsDocumented
  BY DEF IInv, TypeOK, MapsAreInverse, SubscriptionAsDocumented
<1> QED
  BY <1>1, AlwaysIInv, PTL

\* The framework reports the items somebody wants, whenever its subscription
\* object arrives.
THEOREM FrameworkCorrect == Spec => []FrameworkServes
<1>1. IInv => FrameworkServes
  BY DEF IInv
<1> QED
  BY <1>1, AlwaysIInv, PTL

\* No client is left with an old value of an item it has.
THEOREM ClientsCorrect == Spec => []ClientsAreCurrent
<1>1. IInv => ClientsAreCurrent
  BY DEF IInv
<1> QED
  BY <1>1, AlwaysIInv, PTL
=============================================================================
