------------------------ MODULE LocationAPIClientBase ------------------------
(***************************************************************************)
(* The geofence calls of a client (gps/location/LocationAPIClientBase.cpp), *)
(* used by the Android HALs.                                               *)
(*                                                                         *)
(* A client puts a request into a queue, calls LocationAPI and takes the   *)
(* first request out of the queue when a response comes: the response      *)
(* names the fences, but only the order tells which request it answers.    *)
(* Each call holds the mutex of the client, and so does the callback.      *)
(*                                                                         *)
(* The adapter handles the message of a call when it comes, by asking      *)
(* LocApi for a turn for each fence: one that waited is one that comes     *)
(* later.                                                                  *)
(* A client uses a number of its own for a fence only once, so that number *)
(* and the session id of LocationAPI are one.  The breach masks that the   *)
(* client filters by are left out, and so are tracking, batching and NI.   *)
(* locAPIRemoveAllGeofences is locAPIRemoveGeofences for all ids.          *)
(***************************************************************************)
EXTENDS LocationApi

CONSTANTS Options,    \* GeofenceOptions
          MaxFences,  \* bound: fences that are added
          MaxCalls    \* bound: calls of clients, crashes and power events, all together

NoClient == "none"

ASSUME ClientBaseAssumption ==
  MaxFences \in Nat /\ MaxCalls \in Nat /\ NoClient \notin Clients

Ids      == 1..MaxFences
IdSeqs   == UNION {{s \in [1..k -> Ids] : IsInjective(s)} : k \in 1..MaxFences}

VARIABLES
  mLocationAPI,        \* has the client not yet made it, does it have it, or no more?
  mRequestQueues,      \* requests for geofences without an answer, by number
  geofenceSession,     \* clients whose queue has GEOFENCE_SESSION_ID
  mGeofenceBiDict,     \* the fences the client knows
  owner,               \* the client that added each fence
  reqs,                \* requests LocApi has not carried out
  calls,               \* count for the bound, and number of the request
  past                 \* what has happened (history)

clientBase == <<mLocationAPI, mRequestQueues, geofenceSession, mGeofenceBiDict, owner>>

Operations == {"add", "remove", "modify", "pause", "resume"}
Commands == [op : Operations, n : 1..MaxCalls, client : Clients, ids : IdSeqs,
             options : Seq(Options)]

\* The turn of the i-th fence of a command.
Turn(m, i) == [call |-> "turn", command |-> m, i |-> i]
Turns      == [call : {"turn"}, command : Commands, i : 1..MaxFences]

\* MsgAddGeofences, MsgRemoveGeofences, MsgModifyGeofences, MsgPauseGeofences and
\* MsgResumeGeofences: a turn for each fence.
MsgGeofences(op, c, ids, options) ==
  LET m == [op |-> op, n |-> calls + 1, client |-> c, ids |-> ids, options |-> options]
  IN  reqs' = reqs \o [i \in DOMAIN ids |-> Turn(m, i)]

ClientBaseTypeOK ==
  /\ mLocationAPI \in [Clients -> {"none", "made", "gone"}]
  /\ mRequestQueues \in [Clients -> Seq(1..MaxCalls)]
  /\ geofenceSession \subseteq Clients
  /\ mGeofenceBiDict \in [Clients -> SUBSET Ids]
  /\ owner \in [Ids -> Clients \cup {NoClient}]
  /\ calls \in 0..MaxCalls
  /\ past \subseteq {"impatient", "unserved", "failed", "crashed", "again", "suspended", "stale"}

ClientBaseInit ==
  /\ mLocationAPI = [c \in Clients |-> "none"]
  /\ mRequestQueues = [c \in Clients |-> <<>>]
  /\ geofenceSession = {}
  /\ mGeofenceBiDict = [c \in Clients |-> {}]
  /\ owner = [id \in Ids |-> NoClient]
  /\ reqs = <<>>
  /\ calls = 0 /\ past = {}

Count(what) == calls < MaxCalls /\ calls' = calls + 1 /\ past' = past \cup what

\* The first time the LocationAPI object is made.
locAPISetCallbacks(c, kinds, what) ==
  \/ /\ mLocationAPI[c] = "none"
     /\ mLocationAPI' = [mLocationAPI EXCEPT ![c] = "made"]
     /\ createInstance(c, kinds)
     /\ UNCHANGED <<mRequestQueues, geofenceSession, mGeofenceBiDict, owner, reqs, calls, past>>
  \/ /\ mLocationAPI[c] = "made" /\ kinds # clientData[c]
     /\ Count(IF "geofence" \in clientData[c] \ kinds THEN what \cup {"unserved"} ELSE {})
     /\ updateCallbacks(c, kinds)
     /\ UNCHANGED <<clientBase, reqs>>

clientDestroy(c, what) ==
  /\ mLocationAPI[c] = "made"
  /\ Count(what)
  /\ mLocationAPI' = [mLocationAPI EXCEPT ![c] = "gone"]
  /\ mRequestQueues' = [mRequestQueues EXCEPT ![c] = <<>>]
  /\ geofenceSession' = geofenceSession \ {c}
  /\ destroy(c)
  /\ UNCHANGED <<mGeofenceBiDict, owner, reqs>>

\* The client calls without callbacks for geofences.
Unserved(c) == IF "geofence" \in clientData[c] THEN {} ELSE {"unserved"}

Free == {id \in Ids : owner[id] = NoClient}

\* generateSessionId gives the ids; without the interface there are none.
locAPIAddGeofences(c, options) ==
  /\ mLocationAPI[c] = "made"
  /\ Count(Unserved(c))
  /\ Len(options) <= Cardinality(Free)
  /\ geofenceSession' = geofenceSession \cup {c}
  /\ LET ids == [k \in DOMAIN options |-> MaxFences - Cardinality(Free) + k]
         old == IF c \in geofenceSession THEN mRequestQueues[c] ELSE <<>>
     IN  IF "geofence" \in loaded
         THEN /\ MsgGeofences("add", c, ids, options)
              /\ mRequestQueues' = [mRequestQueues EXCEPT ![c] = Append(old, calls + 1)]
              /\ mGeofenceBiDict' = [mGeofenceBiDict EXCEPT ![c] = @ \cup Range(ids)]
              /\ owner' = [id \in Ids |-> IF id \in Range(ids) THEN c ELSE owner[id]]
         ELSE /\ mRequestQueues' = [mRequestQueues EXCEPT ![c] = old]
              /\ UNCHANGED <<reqs, mGeofenceBiDict, owner>>
  /\ UNCHANGED <<gData, msgs, mLocationAPI>>

\* The elements of s that are in S, in their order.
Selected(s, S) ==
  LET places == {i \in DOMAIN s : s[i] \in S}
      order  == CHOOSE q \in [1..Cardinality(places) -> places] :
                  \A i, j \in DOMAIN q : i < j => q[i] < q[j]
  IN  [k \in DOMAIN order |-> s[order[k]]]

\* The fences that the client knows are passed on.
CallFor(op, c, ids, options, what) ==
  LET sessions == Selected(ids, mGeofenceBiDict[c])
  IN  /\ mLocationAPI[c] = "made" /\ c \in geofenceSession
      /\ Count(what \cup Unserved(c))
      /\ sessions # <<>>
      /\ mRequestQueues' = [mRequestQueues EXCEPT ![c] = Append(@, calls + 1)]
      /\ MsgGeofences(op, c, sessions, options)
      /\ UNCHANGED <<gData, msgs, mLocationAPI, geofenceSession, owner>>

locAPIRemoveGeofences(c, ids, what) ==
  /\ CallFor("remove", c, ids, <<>>, what)
  /\ mGeofenceBiDict' = [mGeofenceBiDict EXCEPT ![c] = @ \ Range(ids)]

\* The options are passed as they are: they do not move up when a fence before
\* them is not known.
locAPIModifyGeofences(c, ids, options, what) ==
  /\ CallFor("modify", c, ids, options, what)
  /\ UNCHANGED mGeofenceBiDict

locAPIPauseGeofences(c, ids, what) ==
  CallFor("pause", c, ids, <<>>, what) /\ UNCHANGED mGeofenceBiDict

locAPIResumeGeofences(c, ids, what) ==
  CallFor("resume", c, ids, <<>>, what) /\ UNCHANGED mGeofenceBiDict

\* The response is for the first request, whatever fences it names.
onCollectiveResponseCb(c) ==
  mRequestQueues' = IF c \in geofenceSession /\ mRequestQueues[c] # <<>>
                    THEN [mRequestQueues EXCEPT ![c] = Tail(@)] ELSE mRequestQueues
=============================================================================
