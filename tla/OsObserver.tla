----------------------------- MODULE OsObserver -----------------------------
(***************************************************************************)
(* The OS observer (gps/core/SystemStatusOsObserver.cpp over               *)
(* gps/utils/LocUnorderedSetMap.h): clients subscribe for data items of    *)
(* the framework.  It keeps two maps, from clients to items and back, a    *)
(* cache of the items, and tells the framework which items are wanted.     *)
(*                                                                         *)
(* A call only posts a message, and reads nothing; everything happens when *)
(* the message is handled, so the actions are the handlers of the messages *)
(* in the order they were posted.  A map entry that does not exist is an   *)
(* empty set: neither map keeps an entry that is empty.                    *)
(***************************************************************************)
EXTENDS Naturals, FiniteSets

CONSTANTS Clients,   \* IDataItemObserver objects
          SubItems,  \* data items that are subscribed
          ReqItems,  \* data items that are asked for with requestData
          MaxValue,  \* bound: values of a data item; 0 is "never reported"
          MaxSubsObj \* bound: subscription objects that are set

ASSUME ObserverAssumption == MaxValue \in Nat /\ MaxSubsObj \in Nat

Items == SubItems \cup ReqItems

VARIABLES
  mClientToDataItems, mDataItemToClients,
  mDataItemCache,
  mSubscriptionObj, \* how many were set; 0 is NULL
  fwSubscribed,     \* the items the current subscription object reports
  fwRequested,      \* the items it was asked for by requestData
  received,         \* the last value each client was notified of, per item
  promised          \* what IDataItemSubscription.h says each client gets (history)

maps == <<mClientToDataItems, mDataItemToClients>>
fw   == <<mSubscriptionObj, fwSubscribed, fwRequested>>
vars == <<maps, mDataItemCache, fw, received, promised>>

TypeOK ==
  /\ mClientToDataItems \in [Clients -> SUBSET Items]
  /\ mDataItemToClients \in [Items -> SUBSET Clients]
  /\ mDataItemCache \in [Items -> 0..MaxValue]
  /\ mSubscriptionObj \in 0..MaxSubsObj
  /\ fwSubscribed \subseteq Items /\ fwRequested \subseteq Items
  /\ received \in [Clients -> [Items -> 0..MaxValue]]
  /\ promised \in [Clients -> SUBSET Items]
  /\ mSubscriptionObj = 0 => fwSubscribed = {} /\ fwRequested = {}  \* no call on NULL

Init ==
  /\ mClientToDataItems = [c \in Clients |-> {}]
  /\ mDataItemToClients = [i \in Items |-> {}]
  /\ mDataItemCache = [i \in Items |-> 0]
  /\ mSubscriptionObj = 0
  /\ fwSubscribed = {} /\ fwRequested = {}
  /\ received = [c \in Clients |-> [i \in Items |-> 0]]
  /\ promised = [c \in Clients |-> {}]

-----------------------------------------------------------------------------
(* LocUnorderedSetMap.                                                     *)

\* The items with a client in the map m.
Keys(m) == {i \in Items : m[i] # {}}

\* add and trimOrRemove of one client in the entries of the items in l.
AddClient(m, l, c)  == [i \in Items |-> IF i \in l THEN m[i] \cup {c} ELSE m[i]]
TrimClient(m, l, c) == [i \in Items |-> IF i \in l THEN m[i] \ {c} ELSE m[i]]

\* The entries add created, and those trimOrRemove removed.
NewKeys(l)     == l \ Keys(mDataItemToClients)
GoneKeys(l, c) == {i \in l : mDataItemToClients[i] # {} /\ mDataItemToClients[i] \subseteq {c}}

\* removeAndReturnInterset: what both sets have.  It erases the element its
\* iterator stands on and then moves the iterator, which still finds the next.
Interset(s1, s2) == s1 \cap s2

-----------------------------------------------------------------------------
(* What a handler tells the client and the framework.                      *)

\* Mutant: the new client is told nothing until the next report.
SendNothing(l, c) == UNCHANGED received

sendCachedDataItems(l, c) ==
  received' = [received EXCEPT ![c] =
    [i \in Items |-> IF i \in l /\ mDataItemCache[i] # 0 THEN mDataItemCache[i] ELSE @[i]]]

\* Mutant: nobody looks whether there is a subscription object.
TellAnybody(new, asked, gone) ==
  /\ fwSubscribed' = (fwSubscribed \cup new) \ gone
  /\ fwRequested' = (fwRequested \cup asked) \ gone
  /\ UNCHANGED mSubscriptionObj

\* The framework is told to subscribe the new items, to report the asked ones
\* once and to unsubscribe those that are gone.
Tell(new, asked, gone) ==
  /\ IF mSubscriptionObj # 0
     THEN /\ fwSubscribed' = (fwSubscribed \cup new) \ gone
          /\ fwRequested' = (fwRequested \cup asked) \ gone
     ELSE UNCHANGED <<fwSubscribed, fwRequested>>
  /\ UNCHANGED mSubscriptionObj

-----------------------------------------------------------------------------
(* The handlers.                                                           *)

\* SetSubsObj: all the items wanted so far are subscribed and asked for.
setSubscriptionObj ==
  /\ mSubscriptionObj < MaxSubsObj
  /\ mSubscriptionObj' = mSubscriptionObj + 1
  /\ fwSubscribed' = Keys(mDataItemToClients)
  /\ fwRequested' = Keys(mDataItemToClients)
  /\ UNCHANGED <<maps, mDataItemCache, received, promised>>

\* HandleSubscribeReq: subscribe and requestData differ in what the framework
\* is told of the items that nobody wanted before.
Subscribe(c, l, toRequestData) ==
  /\ mDataItemToClients' = AddClient(mDataItemToClients, l, c)
  /\ mClientToDataItems' = [mClientToDataItems EXCEPT ![c] = @ \cup l]
  /\ sendCachedDataItems(l, c)
  /\ IF toRequestData THEN Tell({}, NewKeys(l), {}) ELSE Tell(NewKeys(l), {}, {})
  /\ promised' = [promised EXCEPT ![c] = @ \cup l]
  /\ UNCHANGED mDataItemCache

subscribe(c, l) ==
  /\ l \subseteq SubItems
  /\ Subscribe(c, l, FALSE)

requestData(c, l) ==
  /\ l \subseteq ReqItems
  /\ Subscribe(c, l, TRUE)

\* HandleUpdateSubscriptionReq: LocUnorderedSetMap::update returns the items
\* the client had and keeps, and these are what the client is trimmed from.
updateSubscription(c, l) ==
  /\ l \subseteq SubItems
  /\ LET common == Interset(mClientToDataItems[c], l)
         fresh  == l \ common
     IN  /\ mClientToDataItems' = [mClientToDataItems EXCEPT ![c] = l]
         /\ mDataItemToClients' =
              AddClient(TrimClient(mDataItemToClients, common, c), fresh, c)
         /\ sendCachedDataItems(fresh, c)
         /\ Tell(NewKeys(fresh), {}, GoneKeys(common, c))
  /\ promised' = [promised EXCEPT ![c] = l]
  /\ UNCHANGED mDataItemCache

\* Mutant: the client's own entry is left to unsubscribeAll.
UnsubscribeHalf(c, l) ==
  /\ mDataItemToClients' = TrimClient(mDataItemToClients, l, c)
  /\ Tell({}, {}, GoneKeys(l, c))
  /\ promised' = [promised EXCEPT ![c] = @ \ l]
  /\ UNCHANGED <<mClientToDataItems, mDataItemCache, received>>

\* Mutant: the entries are given up even if another client has them.
UnsubscribeForAll(c, l) ==
  /\ LET unused == mClientToDataItems[c] \cap l
     IN  /\ mClientToDataItems' = [mClientToDataItems EXCEPT ![c] = @ \ l]
         /\ mDataItemToClients' = TrimClient(mDataItemToClients, unused, c)
         /\ Tell({}, {}, unused)
  /\ promised' = [promised EXCEPT ![c] = @ \ l]
  /\ UNCHANGED <<mDataItemCache, received>>

\* HandleUnsubscribeReq: only the items the client really had are trimmed.
unsubscribe(c, l) ==
  /\ LET unused == mClientToDataItems[c] \cap l
     IN  /\ mClientToDataItems' = [mClientToDataItems EXCEPT ![c] = @ \ l]
         /\ mDataItemToClients' = TrimClient(mDataItemToClients, unused, c)
         /\ Tell({}, {}, GoneKeys(unused, c))
  /\ promised' = [promised EXCEPT ![c] = @ \ l]
  /\ UNCHANGED <<mDataItemCache, received>>

\* Mutant: the client's own entry is removed before it is read.
UnsubscribeNone(c) ==
  /\ mClientToDataItems' = [mClientToDataItems EXCEPT ![c] = {}]
  /\ promised' = [promised EXCEPT ![c] = {}]
  /\ UNCHANGED <<mDataItemToClients, fw, mDataItemCache, received>>

\* HandleUnsubscribeAllReq.
unsubscribeAll(c) ==
  /\ LET diByClient == mClientToDataItems[c]
     IN  /\ mClientToDataItems' = [mClientToDataItems EXCEPT ![c] = {}]
         /\ mDataItemToClients' = TrimClient(mDataItemToClients, diByClient, c)
         /\ Tell({}, {}, GoneKeys(diByClient, c))
  /\ promised' = [promised EXCEPT ![c] = {}]
  /\ UNCHANGED <<mDataItemCache, received>>

\* HandleNotify: the items whose value changed go to the cache, and to every
\* client that has them.  SystemStatus refuses a report that changes nothing.
notify(l, v) ==
  LET changed == {i \in l : mDataItemCache[i] # v}
  IN  /\ mDataItemCache' = [i \in Items |-> IF i \in changed THEN v ELSE mDataItemCache[i]]
      /\ received' = [c \in Clients |-> [i \in Items |->
           IF /\ i \in changed /\ i \in mClientToDataItems[c]
              /\ \E j \in changed : c \in mDataItemToClients[j]
           THEN v ELSE received[c][i]]]
      /\ UNCHANGED <<maps, fw, promised>>

-----------------------------------------------------------------------------
Next ==
  \/ setSubscriptionObj
  \/ \E l \in (SUBSET Items) \ {{}} :
       \/ \E c \in Clients : subscribe(c, l) \/ requestData(c, l) \/ unsubscribe(c, l)
       \/ \E v \in 1..MaxValue : notify(l, v)
  \/ \E c \in Clients : unsubscribeAll(c)

Spec == Init /\ [][Next]_vars

\* With the call that is offered but that no client in the source makes.
UpdateSpec ==
  Init /\ [][Next \/ \E c \in Clients, l \in (SUBSET Items) \ {{}} :
                        updateSubscription(c, l)]_vars

-----------------------------------------------------------------------------
(* Properties                                                              *)

\* The two maps are inverse to each other: a notification looks a client up in
\* one and then its items in the other.
MapsAreInverse ==
  \A c \in Clients, i \in Items :
    i \in mClientToDataItems[c] <=> c \in mDataItemToClients[i]

\* A client has the items IDataItemSubscription.h (lines 50-109) says its calls
\* leave it with: subscribe adds to its set, updateSubscription replaces it and
\* unsubscribe takes from it.
SubscriptionAsDocumented ==
  \A c \in Clients : {i \in Items : c \in mDataItemToClients[i]} = promised[c]

\* The framework reports what is wanted and nothing else, whenever its
\* subscription object arrives between the calls of several clients: the items
\* subscribed there are those some client has; one that is only ever asked for
\* with requestData was asked for.
FrameworkServes ==
  mSubscriptionObj # 0 =>
    /\ fwSubscribed \ ReqItems = Keys(mDataItemToClients) \ ReqItems
    /\ Keys(mDataItemToClients) \cap ReqItems \subseteq fwSubscribed \cup fwRequested

\* No client is left with an old value: what it was last notified of is what
\* the cache holds, whether it subscribed before or after the report.
ClientsAreCurrent ==
  \A c \in Clients : \A i \in mClientToDataItems[c] :
    mDataItemCache[i] # 0 => received[c][i] = mDataItemCache[i]
=============================================================================
