------------------------------ MODULE Batching ------------------------------
(***************************************************************************)
(* The batching adapter (gps/batching/BatchingAdapter.cpp).                *)
(*                                                                         *)
(* A routine session runs in the modem on its own.  The modem runs one     *)
(* outdoor trip, so the trips of all clients are multiplexed onto it: its  *)
(* distance is the least that any trip still has to go, its interval the   *)
(* least that any trip wants.  To start or to drop a trip the adapter asks *)
(* the modem how far the ongoing batch has come, and decides in the answer *)
(* whether the modem has to start a new one.  Meanwhile other calls come,  *)
(* trips are completed, the modem crashes, the system suspends.            *)
(*                                                                         *)
(* A step is one message of the adapter or one request of LocApi.  Calls   *)
(* are handled when they come: one that waited is one that comes later.  A *)
(* request fails when the modem is down and only then, and the data of a   *)
(* failed query are zero.  getBatchedLocations changes nothing and is left *)
(* out, and so are the responses and reports to the clients and the sizes, *)
(* the accuracy and the time-out of the configuration, which are passed on.*)
(***************************************************************************)
EXTENDS Integers, Sequences, FiniteSets, SequencesExt

CONSTANTS Clients,    \* LocationAPI objects
          Options,    \* BatchingOptions of the calls
          Word,       \* the numbers of a uint32_t, here few: 2^32
          MaxStarts,  \* bound: calls of startBatching
          MaxCalls,   \* bound: calls of clients, crashes and power events, all together
          MaxTravel   \* bound: distance travelled altogether

Modes == {"routine", "trip", "noauto"}

ASSUME BatchingAssumption ==
  /\ Word \in Nat \ {0}
  /\ Options \subseteq [mode : Modes, distance : 1..Word - 1, interval : 1..Word - 1]
  /\ MaxStarts \in Nat /\ MaxCalls \in Nat
  /\ MaxTravel \in 0..Word - 1

Sessions == 1..MaxStarts
Uint32   == 0..Word - 1
Plus(a, b)  == (a + b) % Word
Minus(a, b) == (a - b) % Word

NoOptions      == [mode |-> "none", distance |-> 0, interval |-> 0]
DefaultOptions == [mode |-> "routine", distance |-> 0, interval |-> 0]
NoTrip   == [ongoing |-> 0, this |-> 0, restart |-> 0, distance |-> 0, interval |-> 0]
NoClient == "none"

VARIABLES
  mClientData,          \* the clients
  owner,                \* the client that started each session
  mBatchingSessions,    \* NoOptions is "not in the map"
  mTripSessions,        \* NoTrip is "not in the map"
  mOngoingTripDistance, mOngoingTripTBFInterval,
  mTripWithOngoingTBFDropped, mTripWithOngoingTripDistanceDropped,
  batchFull,            \* is LOC_API_ADAPTER_BIT_BATCH_FULL in the event mask?
  mIsEngineCapabilitiesKnown, mPendingMsgs,
  mSystemPowerState,
  msgs, reqs,           \* messages of the adapter, requests LocApi has not carried out
  down,                 \* is the modem down?
  batching,             \* routine sessions the modem runs, with their options
  trip, travelled,      \* its trip, NoOptions if none, and how far that batch has come
  calls, travel,        \* calls and the distance travelled so far
  began,                \* where each trip of a client began (history)
  past                  \* what has happened (history)

clientVars == <<mClientData, owner>>
ongoing    == <<mOngoingTripDistance, mOngoingTripTBFInterval,
                mTripWithOngoingTBFDropped, mTripWithOngoingTripDistanceDropped>>
adapter    == <<mBatchingSessions, mTripSessions, ongoing, batchFull>>
parkVars   == <<mIsEngineCapabilitiesKnown, mPendingMsgs>>
modem      == <<down, batching, trip, travelled, began>>
counts     == <<calls, travel>>
vars == <<clientVars, adapter, parkVars, mSystemPowerState, msgs, reqs, modem, counts, past>>

OptionRecords == [mode : Modes \cup {"none"}, distance : Uint32, interval : Uint32]
TripRecords   == [ongoing : Uint32, this : Uint32, restart : Uint32, distance : Uint32,
                  interval : Uint32]

\* A request to LocApi and what its closure holds.
Calls    == {"start", "stop", "startTrip", "stopTrip", "restartTrip", "query", "open"}
Thens    == {"nothing", "started", "stopped", "tripStarted", "tripRestarted", "tripStopped",
             "queried", "requeried", "restarted"}
Requests == [call : Calls, session : Sessions \cup {0}, options : OptionRecords,
             old : OptionRecords, again : BOOLEAN, erase : BOOLEAN, acc : Uint32, then : Thens]
Request(call, s, o, then) ==
  [call |-> call, session |-> s, options |-> o, old |-> NoOptions, again |-> FALSE,
   erase |-> TRUE, acc |-> 0, then |-> then]

Parked   == [kind : {"start", "update", "stop"}, session : Sessions, options : OptionRecords]
Answers  == [kind : {"answer"}, req : Requests, ok : BOOLEAN, data : Uint32]
Reports  == [kind : {"completed"}, acc : Uint32]
EngineUp == [kind |-> "engineUp"]

TypeOK ==
  /\ mClientData \subseteq Clients
  /\ owner \in [Sessions -> Clients \cup {NoClient}]
  /\ mBatchingSessions \in [Sessions -> OptionRecords]
  /\ mTripSessions \in [Sessions -> TripRecords]
  /\ mOngoingTripDistance \in Uint32 /\ mOngoingTripTBFInterval \in Uint32
  /\ mTripWithOngoingTBFDropped \in BOOLEAN /\ mTripWithOngoingTripDistanceDropped \in BOOLEAN
  /\ batchFull \in BOOLEAN
  /\ mIsEngineCapabilitiesKnown \in BOOLEAN /\ mPendingMsgs \in Seq(Parked)
  /\ mSystemPowerState \in {"unknown", "suspend", "resume"}
  /\ msgs \in Seq(Parked \cup Answers \cup Reports \cup {EngineUp})
  /\ reqs \in Seq(Requests)
  /\ down \in BOOLEAN
  /\ batching \in [Sessions -> OptionRecords] /\ trip \in OptionRecords /\ travelled \in Uint32
  /\ calls \in 0..MaxCalls  /\ travel \in 0..MaxTravel
  /\ began \in [Sessions -> 0..MaxTravel]
  /\ past \subseteq {"crossed", "moved", "impatient", "ended", "interrupted", "forgotten",
                     "left", "unstopped", "alone"}

\* The adapter is made when the first client of batching comes, before or after
\* the modem is up.
Init ==
  /\ mClientData = {}
  /\ owner = [s \in Sessions |-> NoClient]
  /\ mBatchingSessions = [s \in Sessions |-> NoOptions]
  /\ mTripSessions = [s \in Sessions |-> NoTrip]
  /\ mOngoingTripDistance = 0 /\ mOngoingTripTBFInterval = 0
  /\ mTripWithOngoingTBFDropped = FALSE /\ mTripWithOngoingTripDistanceDropped = FALSE
  /\ batchFull = FALSE
  /\ mIsEngineCapabilitiesKnown \in BOOLEAN /\ mPendingMsgs = <<>>
  /\ mSystemPowerState = "unknown"
  /\ msgs = <<>>
  /\ down = ~mIsEngineCapabilitiesKnown
  /\ reqs = IF down THEN <<Request("open", 0, NoOptions, "nothing")>> ELSE <<>>
  /\ batching = [s \in Sessions |-> NoOptions] /\ trip = NoOptions /\ travelled = 0
  /\ calls = 0 /\ travel = 0
  /\ began = [s \in Sessions |-> 0]
  /\ past = {}

-----------------------------------------------------------------------------
(* What a message changes: a is the state of the adapter, with the requests *)
(* asked of LocApi.                                                        *)

Now == [sessions |-> mBatchingSessions, trips |-> mTripSessions,
        distance |-> mOngoingTripDistance, interval |-> mOngoingTripTBFInterval,
        intervalDropped |-> mTripWithOngoingTBFDropped,
        distanceDropped |-> mTripWithOngoingTripDistanceDropped,
        full |-> batchFull, asked |-> <<>>]

Become(a) ==
  /\ mBatchingSessions' = a.sessions /\ mTripSessions' = a.trips
  /\ mOngoingTripDistance' = a.distance /\ mOngoingTripTBFInterval' = a.interval
  /\ mTripWithOngoingTBFDropped' = a.intervalDropped
  /\ mTripWithOngoingTripDistanceDropped' = a.distanceDropped
  /\ batchFull' = a.full
  /\ reqs' = reqs \o a.asked

Ask(a, q)  == [a EXCEPT !.asked = Append(@, q)]

In(m)      == {s \in Sessions : m[s] # NoOptions}
Trips(a)   == {s \in Sessions : a.trips[s] # NoTrip}
InOrder(S) == SetToSortSeq(S, <)

isBatchingSession(s) == s \in In(mBatchingSessions)
isTripSession(s)     == s \in Trips(Now)

autoReportBatchingSessionsCount(a) ==
  Cardinality({s \in In(a.sessions) : a.sessions[s].mode # "noauto"}) + Cardinality(Trips(a))

\* Mutant: the session that went is counted still.
UnregisterLast(a) ==
  IF autoReportBatchingSessionsCount(a) = 1 THEN [a EXCEPT !.full = FALSE] ELSE a

\* Unregister for batch full when no session is interested any more.
Unregister(a) == IF autoReportBatchingSessionsCount(a) = 0 THEN [a EXCEPT !.full = FALSE] ELSE a

\* The least over a loop that takes 0 for "not set yet"; x gives the numbers.
LoopMin(x, S) ==
  FoldLeft(LAMBDA least, s : IF least = 0 \/ least > x[s] THEN x[s] ELSE least, 0, InOrder(S))

\* Mutant: what the trips have come already is forgotten.
WholeTrips(a) == LoopMin([s \in Sessions |-> a.trips[s].distance], Trips(a))

Remaining(a) == LoopMin([s \in Sessions |-> Minus(a.trips[s].distance, a.trips[s].this)], Trips(a))
Interval(a)  == LoopMin([s \in Sessions |-> a.trips[s].interval], Trips(a))
Params(d, i) == [mode |-> "trip", distance |-> d, interval |-> i]

\* The start is assumed to succeed; its answer removes the session if not.
startBatching(a, s, o) ==
  Ask([a EXCEPT !.full = @ \/ (o.mode # "noauto" /\ autoReportBatchingSessionsCount(a) = 0),
                !.sessions[s] = o],
      Request("start", s, o, "started"))

\* The first trip starts in the modem; another one asks for the distance first,
\* and is not saved in mBatchingSessions.
startTripBatchingMultiplex(a, s, o) ==
  IF Trips(a) = {}
  THEN Ask([a EXCEPT !.full = @ \/ autoReportBatchingSessionsCount(a) = 0,
                     !.sessions[s] = o,
                     !.trips[s] = [NoTrip EXCEPT !.distance = o.distance,
                                                 !.interval = o.interval]],
           Request("startTrip", s, o, "tripStarted"))
  ELSE Ask(a, Request("query", s, o, "queried"))

StartAny(a, s, o) ==
  IF o.mode = "trip" THEN startTripBatchingMultiplex(a, s, o) ELSE startBatching(a, s, o)

\* The stop is assumed to succeed; its answer restores the session if not, with
\* the options o, and starts it again if that is wanted.
stopBatching(a, s, again, o, erase) ==
  IF s \notin In(a.sessions) THEN a
  ELSE Ask([a EXCEPT !.sessions[s] = IF erase THEN NoOptions ELSE @],
           [Request("stop", s, o, "stopped") EXCEPT !.old = a.sessions[s], !.again = again,
                                                    !.erase = erase])

\* Mutant: -1 is passed as the distance that is to be queried.
RestartUnknown(a, query, acc) ==
  Ask(a, [Request("query", 0, Params(Remaining(a), Interval(a)), "requeried")
            EXCEPT !.again = query, !.acc = IF query THEN -1 ELSE acc])

\* No more trips: stop the modem.  Otherwise ask how far the ongoing batch is, if
\* the caller does not know, and compare.
restartTripBatching(a, query, acc) ==
  IF Trips(a) = {}
  THEN Unregister(Ask([a EXCEPT !.distance = 0, !.interval = 0],
                      Request("stopTrip", 0, NoOptions, "nothing")))
  ELSE Ask(a, [Request("query", 0, Params(Remaining(a), Interval(a)), "requeried")
                 EXCEPT !.again = query, !.acc = acc])

\* A session that is not in mTripSessions is read behind the end of the map: u
\* says which of the two numbers found there happen to match.
stopTripBatchingMultiplexCommon(a, s, again, o, erase, u) ==
  LET t  == a.trips[s]
      a1 == [a EXCEPT
               !.intervalDropped = @ \/ (IF s \in Trips(a) THEN t.interval = a.interval
                                         ELSE "interval" \in u),
               !.distanceDropped = @ \/ (IF s \in Trips(a) THEN t.distance = a.distance
                                         ELSE "distance" \in u),
               !.trips[s] = IF erase THEN NoTrip ELSE @]
      a2 == IF Trips(a1) = {} THEN [a1 EXCEPT !.distance = 0, !.interval = 0]
            ELSE restartTripBatching(a1, TRUE, 0)
  IN  IF again THEN StartAny([a2 EXCEPT !.sessions[s] = NoOptions], s, o) ELSE a2

stopTripBatchingMultiplex(a, s, again, o, erase, u) ==
  IF Cardinality(Trips(a)) = 1
  THEN Ask(a, [Request("stopTrip", s, o, "tripStopped") EXCEPT !.again = again, !.erase = erase])
  ELSE stopTripBatchingMultiplexCommon(a, s, again, o, erase, u)

\* The sessions of the client that are in mBatchingSessions.
stopClientSessions(a, c, erase, u) ==
  FoldLeft(LAMBDA b, s : IF a.sessions[s].mode # "trip"
                         THEN stopBatching(b, s, FALSE, DefaultOptions, erase)
                         ELSE stopTripBatchingMultiplex(b, s, FALSE, DefaultOptions, erase, u),
           a, InOrder({s \in In(a.sessions) : owner[s] = c}))

\* Each session in the map stops all sessions of its client.
suspendBatchingSessions(a, u) ==
  FoldLeft(LAMBDA b, s : stopClientSessions(b, owner[s], FALSE, u), a, InOrder(In(a.sessions)))

\* Mutant: only the sessions that report on their own are started again.
RestartReporting(a) ==
  LET reporting == InOrder({s \in In(a.sessions) : a.sessions[s].mode = "routine"})
      a1 == [a EXCEPT !.asked = @ \o [i \in DOMAIN reporting |->
               Request("start", reporting[i], a.sessions[reporting[i]], "nothing")]]
  IN  IF Trips(a) = {} THEN a1
      ELSE Ask([a1 EXCEPT !.distance = Remaining(a), !.interval = Interval(a)],
               Request("startTrip", 0, Params(Remaining(a), Interval(a)), "tripRestarted"))

\* The loop over the trips resets copies of them, so they stay as they are.
restartSessions(a) ==
  LET routine == InOrder({s \in In(a.sessions) : a.sessions[s].mode # "trip"})
      a1 == [a EXCEPT !.full = @ \/ autoReportBatchingSessionsCount(a) > 0,
                      !.asked = @ \o [i \in DOMAIN routine |->
                        Request("start", routine[i], a.sessions[routine[i]], "nothing")]]
  IN  IF Trips(a) = {} THEN a1
      ELSE Ask([a1 EXCEPT !.distance = Remaining(a), !.interval = Interval(a)],
               Request("startTrip", 0, Params(Remaining(a), Interval(a)), "tripRestarted"))

-----------------------------------------------------------------------------
(* The messages of clients, from a call or when a parked one is posted again. *)
(* The error of a call for a session that is not in the map is not reported, *)
(* nor that of a client without callbacks.                                  *)

Park(kind, s, o) ==
  /\ ~mIsEngineCapabilitiesKnown
  /\ mPendingMsgs' = Append(mPendingMsgs, [kind |-> kind, session |-> s, options |-> o])
  /\ Become(Now)

Handle(a) == mIsEngineCapabilitiesKnown /\ Become(a) /\ UNCHANGED mPendingMsgs

MsgStartBatching(s, o) ==
  \/ Park("start", s, o)
  \/ owner'[s] \notin mClientData /\ Handle(Now)
  \/ owner'[s] \in mClientData /\ Handle(StartAny(Now, s, o))

MsgUpdateBatching(s, o, u) ==
  \/ Park("update", s, o)
  \/ ~isBatchingSession(s) /\ Handle(Now)
  \/ isBatchingSession(s) /\ ~isTripSession(s) /\ Handle(stopBatching(Now, s, TRUE, o, TRUE))
  \/ isBatchingSession(s) /\ isTripSession(s)
     /\ Handle(stopTripBatchingMultiplex(Now, s, TRUE, o, TRUE, u))

MsgStopBatching(s, u) ==
  \/ Park("stop", s, NoOptions)
  \/ ~isBatchingSession(s) /\ Handle(Now)
  \/ isBatchingSession(s) /\ ~isTripSession(s)
     /\ Handle(stopBatching(Now, s, FALSE, DefaultOptions, TRUE))
  \/ isBatchingSession(s) /\ isTripSession(s)
     /\ Handle(stopTripBatchingMultiplex(Now, s, FALSE, DefaultOptions, TRUE, u))

-----------------------------------------------------------------------------
(* Commands.                                                               *)

\* What a call adds to the history: it came while something was under way, and
\* even for one of its sessions S; it ended a trip that was not the only one, and
\* whose session stays in mBatchingSessions.
Crossed == IF reqs # <<>> \/ msgs # <<>> THEN {"crossed"} ELSE {}
UnderWay ==
  {q.session : q \in Range(reqs)}
  \cup {m.req.session : m \in {n \in Range(msgs) : n.kind = "answer"}}
  \cup {m.session : m \in {n \in Range(msgs \o mPendingMsgs) : n.kind \in {"start", "update", "stop"}}}
Failed == {m.req.session : m \in {n \in Range(msgs) : n.kind = "answer" /\ ~n.ok}}
Impatient(S) == IF S \cap UnderWay # {} THEN {"impatient"} ELSE {}
Ended(S) == IF \E s \in S : mBatchingSessions[s].mode = "trip" /\ Trips(Now) # {s}
            THEN {"ended"} ELSE {}
Call(S) ==
  /\ calls < MaxCalls /\ calls' = calls + 1
  /\ past' = past \cup Crossed \cup Impatient(S) \cup Ended(S)

\* updateClientsEventMask sets the mask from what the maps say.
updateClientsEventMask(a) == [a EXCEPT !.full = autoReportBatchingSessionsCount(a) > 0]

addClientCommand(c) ==
  /\ c \notin mClientData /\ \A s \in Sessions : owner[s] # c
  /\ mClientData' = mClientData \cup {c}
  /\ Become(updateClientsEventMask(Now))
  /\ UNCHANGED <<owner, parkVars, mSystemPowerState, msgs, modem, counts, past>>

removeClientCommand(c, u) ==
  LET a == updateClientsEventMask(stopClientSessions(Now, c, TRUE, u))
  IN  /\ Call({s \in Sessions : owner[s] = c})
      /\ c \in mClientData
      /\ UNCHANGED <<owner, parkVars, mSystemPowerState, msgs, modem, travel>>
      /\ Become(a)
      /\ mClientData' = mClientData \ {c}

generateSessionId == CHOOSE s \in Sessions : owner[s] = NoClient
                       /\ \A r \in Sessions : r < s => owner[r] # NoClient

startBatchingCommand(c, o) ==
  /\ Call({})
  /\ c \in mClientData
  /\ \E s \in Sessions : owner[s] = NoClient
  /\ LET s == generateSessionId
     IN  owner' = [owner EXCEPT ![s] = c] /\ MsgStartBatching(s, o)
  /\ UNCHANGED <<mClientData, mIsEngineCapabilitiesKnown, mSystemPowerState, msgs, modem, travel>>

\* A client calls for a session of its own.
MayCall(s) == owner[s] \in mClientData

updateBatchingOptionsCommand(s, o, u) ==
  /\ Call({s})
  /\ MayCall(s)
  /\ UNCHANGED <<clientVars, mIsEngineCapabilitiesKnown, mSystemPowerState, msgs, modem, travel>>
  /\ MsgUpdateBatching(s, o, u)

stopBatchingCommand(s, u) ==
  /\ Call({s})
  /\ MayCall(s)
  /\ UNCHANGED <<clientVars, mIsEngineCapabilitiesKnown, mSystemPowerState, msgs, modem, travel>>
  /\ MsgStopBatching(s, u)

-----------------------------------------------------------------------------
(* LocApi carries out the requests in order; the modem crashes, and counts  *)
(* the distance of the trip it runs.                                       *)

Trip == trip # NoOptions

Carry(q) ==
  /\ batching' = CASE q.call = "start" -> [batching EXCEPT ![q.session] = q.options]
                   [] q.call = "stop"  -> [batching EXCEPT ![q.session] = NoOptions]
                   [] OTHER            -> batching
  /\ trip' = CASE q.call \in {"startTrip", "restartTrip"} ->
                    Params(q.options.distance, q.options.interval)
               [] q.call = "stopTrip" -> NoOptions
               [] OTHER               -> trip
  /\ travelled' = IF q.call \in {"startTrip", "restartTrip", "stopTrip"} THEN 0 ELSE travelled
  /\ began' = IF q.then \in {"tripStarted", "queried"} THEN [began EXCEPT ![q.session] = travel]
              ELSE began

Open ==
  /\ reqs # <<>> /\ Head(reqs).call = "open"
  /\ reqs' = Tail(reqs)
  /\ down' = FALSE
  /\ msgs' = Append(msgs, EngineUp)
  /\ UNCHANGED <<clientVars, adapter, parkVars, mSystemPowerState, batching, trip, travelled,
                 began, counts, past>>

CarryOut ==
  /\ reqs # <<>> /\ Head(reqs).call # "open"
  /\ LET q == Head(reqs) IN
       /\ IF down THEN UNCHANGED <<batching, trip, travelled, began>> ELSE Carry(q)
       /\ msgs' = IF q.then = "nothing" THEN msgs
                  ELSE Append(msgs, [kind |-> "answer", req |-> q, ok |-> ~down,
                                     data |-> IF q.call = "query" THEN travelled ELSE 0])
  /\ reqs' = Tail(reqs)
  /\ UNCHANGED <<clientVars, adapter, parkVars, mSystemPowerState, down, counts, past>>

\* The trip is reported as completed when its distance is reached.  A step of
\* distance while something is under way is recorded.
Travel ==
  /\ Trip /\ travel < MaxTravel
  /\ travel' = travel + 1
  /\ travelled' = Plus(travelled, 1)
  /\ msgs' = IF travelled' = trip.distance
             THEN Append(msgs, [kind |-> "completed", acc |-> travelled']) ELSE msgs
  /\ UNCHANGED <<clientVars, adapter, parkVars, mSystemPowerState, reqs, down, batching, trip,
                 began, calls>>
  /\ past' = past \cup (IF Crossed # {} THEN {"moved"} ELSE {})

Event(S) ==
  /\ calls < MaxCalls /\ calls' = calls + 1
  /\ past' = past \cup {"interrupted"} \cup Impatient(S)

handleEngineDownEvent ==
  /\ Event({})
  /\ ~down
  /\ down' = TRUE
  /\ batching' = [s \in Sessions |-> NoOptions] /\ trip' = NoOptions /\ travelled' = 0
  /\ reqs' = Append(reqs, Request("open", 0, NoOptions, "nothing"))
  /\ UNCHANGED <<clientVars, adapter, parkVars, mSystemPowerState, msgs, travel, began>>

-----------------------------------------------------------------------------
(* Messages from LocApi.                                                   *)

\* The next message is the answer to a request with this closure; the adapter
\* then is a.
Answer(then, a) ==
  /\ msgs # <<>> /\ Head(msgs).kind = "answer" /\ Head(msgs).req.then = then
  /\ msgs' = Tail(msgs)
  /\ UNCHANGED <<clientVars, parkVars, mSystemPowerState, modem, counts>>
  /\ Become(a)

Answered(then, a) == Answer(then, a) /\ UNCHANGED past

It == Head(msgs).req
Ok == Head(msgs).ok

UnregisterFor(a, o) == IF o.mode # "noauto" THEN Unregister(a) ELSE a

\* of startBatching
Started == Answered("started",
  IF Ok THEN Now
  ELSE UnregisterFor([Now EXCEPT !.sessions[It.session] = NoOptions], It.options))

\* of stopBatching: a session that could not be stopped is saved with the
\* options of the closure, those of the update or the default ones; that is
\* recorded
Stopped ==
  /\ Answer("stopped",
       LET done == UnregisterFor(Now, It.old)
       IN  IF ~Ok THEN [Now EXCEPT !.sessions[It.session] = IF It.erase THEN It.options ELSE @]
           ELSE IF It.again THEN StartAny(done, It.session, It.options) ELSE done)
  /\ past' = past \cup (IF Ok THEN {} ELSE {"unstopped"})

\* of startTripBatchingMultiplex, the first trip
TripStarted == Answered("tripStarted",
  IF Ok THEN [Now EXCEPT !.distance = It.options.distance, !.interval = It.options.interval]
  ELSE Unregister([Now EXCEPT !.sessions[It.session] = NoOptions,
                              !.trips[It.session] = NoTrip]))

\* of startTripBatchingMultiplex, another trip: a failed query adds no trip
Joined(a, s, o, ok, data) ==
  LET left   == IF ok THEN Minus(a.distance, data) ELSE a.distance
      sooner == o.interval < a.interval
      nearer == o.distance < left
      d  == IF nearer THEN o.distance ELSE IF sooner THEN left ELSE a.distance
      i  == IF sooner THEN o.interval ELSE a.interval
      a1 == IF ok THEN [a EXCEPT !.trips[s] = [NoTrip EXCEPT !.ongoing = data,
                                                 !.distance = o.distance, !.interval = o.interval]]
            ELSE a
      a2 == [a1 EXCEPT !.distance = d, !.interval = i,
               !.trips = [r \in Sessions |-> IF r \notin Trips(a1) THEN NoTrip
                            ELSE [a1.trips[r] EXCEPT !.ongoing = 0, !.restart = a1.trips[r].this]]]
  IN  IF sooner \/ nearer THEN Ask(a2, Request("restartTrip", s, Params(d, i), "nothing"))
      ELSE a1

\* What the join adds to the history: the batch is started anew and what a trip
\* has come in it is not recorded; all trips have gone since the query was made.
Forgotten(a, b, data) ==
  IF a.asked # b.asked
     /\ \E s \in Trips(a) :
          a.trips[s].this # Plus(a.trips[s].restart, Minus(data, a.trips[s].ongoing))
  THEN {"forgotten"} ELSE {}
Alone(a) == IF Trips(a) = {} THEN {"alone"} ELSE {}

TripQueried ==
  LET a == Joined(Now, It.session, It.options, Ok, Head(msgs).data)
  IN  /\ Answer("queried", a)
      /\ past' = past \cup Forgotten(Now, a, Head(msgs).data) \cup Alone(Now)

\* of stopTripBatchingMultiplex: the count is not 1 for the last trip, which is in
\* both maps, and its session may stay in mBatchingSessions; that is recorded
TripStopped(u) ==
  /\ Answer("tripStopped",
       stopTripBatchingMultiplexCommon(
         IF Ok /\ autoReportBatchingSessionsCount(Now) = 1 THEN [Now EXCEPT !.full = FALSE]
         ELSE Now,
         It.session, It.again, It.options, It.erase, u))
  /\ past' = past \cup {"left"}

\* of restartTripBatching: acc is how far the ongoing batch is, q the request
Requeried(a, q, acc) ==
  LET left == Minus(a.distance, acc)
      near == q.options.distance
      d == IF ~a.distanceDropped /\ left # 0
           THEN IF near < left THEN <<near>> ELSE <<>>
           ELSE IF near # 0 THEN <<near>> ELSE <<>>
      i == IF q.options.interval < a.interval
              \/ (q.options.interval # a.interval /\ a.intervalDropped)
           THEN <<q.options.interval>> ELSE <<>>
  IN  IF d = <<>> /\ i = <<>> THEN a
      ELSE Ask(a, [Request("restartTrip", 0,
                           Params(IF d = <<>> THEN a.distance ELSE d[1],
                                  IF i = <<>> THEN a.interval ELSE i[1]),
                           "restarted") EXCEPT !.acc = acc])

TripRequeried ==
  Answered("requeried", Requeried(Now, It, IF It.again THEN Head(msgs).data ELSE It.acc))

\* The batch starts anew: what the trips have come so far is recorded.
Restarted(a, q) ==
  [a EXCEPT !.distance = q.options.distance, !.interval = q.options.interval,
            !.trips = [s \in Sessions |-> IF s \notin Trips(a) THEN NoTrip ELSE
               LET this == Plus(a.trips[s].restart, Minus(q.acc, a.trips[s].ongoing))
               IN  [a.trips[s] EXCEPT !.this = this, !.restart = this, !.ongoing = 0]]]

TripRestarted == Answered("restarted", IF Ok THEN Restarted(Now, It) ELSE Now)

\* of restartSessions
TripsRestarted ==
  Answered("tripRestarted", IF Ok THEN Now ELSE [Now EXCEPT !.distance = 0, !.interval = 0])

\* The trips that have come their distance end; those in mBatchingSessions stay
\* there.  Their entries are read after they are erased: u says what is found.
Completed(a, acc, u) ==
  LET this(s) == Plus(a.trips[s].restart, Minus(acc, a.trips[s].ongoing))
      done    == {s \in Trips(a) : a.trips[s].distance <= this(s)}
      a1 == [a EXCEPT
               !.trips = [s \in Sessions |-> IF s \in Trips(a) \ done
                            THEN [a.trips[s] EXCEPT !.this = this(s)] ELSE NoTrip],
               !.intervalDropped = @ \/ (done # {} /\ "interval" \in u),
               !.distanceDropped = @ \/ (done # {} /\ "distance" \in u)]
  IN  IF done = {} THEN a1 ELSE restartTripBatching(a1, FALSE, acc)

\* A completed trip whose session stays in mBatchingSessions is recorded.
MsgReportCompletedTrips(u) ==
  /\ msgs # <<>> /\ Head(msgs).kind = "completed"
  /\ msgs' = Tail(msgs)
  /\ LET a == Completed(Now, Head(msgs).acc, u)
     IN  /\ Become(a)
         /\ past' = past \cup (IF (Trips(Now) \ Trips(a)) \cap In(mBatchingSessions) # {}
                               THEN {"left"} ELSE {})
  /\ UNCHANGED <<clientVars, parkVars, mSystemPowerState, modem, counts>>

MsgSSREvent ==
  /\ msgs # <<>> /\ Head(msgs) = EngineUp
  /\ mIsEngineCapabilitiesKnown' = TRUE
  /\ Become(IF mSystemPowerState = "suspend" THEN Now ELSE restartSessions(Now))
  /\ msgs' = Tail(msgs) \o mPendingMsgs /\ mPendingMsgs' = <<>>
  /\ past' = past \cup (IF In(mBatchingSessions) \cap (IF down THEN UnderWay ELSE Failed) # {}
                        THEN {"impatient"} ELSE {})
  /\ UNCHANGED <<clientVars, mSystemPowerState, modem, counts>>

ParkedMsg(u) ==
  /\ msgs # <<>> /\ Head(msgs).kind \in {"start", "update", "stop"}
  /\ msgs' = Tail(msgs)
  /\ UNCHANGED <<clientVars, mIsEngineCapabilitiesKnown, mSystemPowerState, modem, counts, past>>
  /\ LET m == Head(msgs)
     IN  \/ m.kind = "start" /\ MsgStartBatching(m.session, m.options)
         \/ m.kind = "update" /\ MsgUpdateBatching(m.session, m.options, u)
         \/ m.kind = "stop" /\ MsgStopBatching(m.session, u)

updateSystemPowerState(state, u) ==
  /\ Event(Sessions)
  /\ UNCHANGED <<clientVars, parkVars, msgs, modem, travel>>
  /\ mSystemPowerState' = state
  /\ LET a == IF state = "suspend" THEN suspendBatchingSessions(Now, u) ELSE restartSessions(Now)
     IN  Become(a)

-----------------------------------------------------------------------------
\* What is found behind the end of a map or in an erased entry.
Garbage == SUBSET {"interval", "distance"}

LocApi == Open \/ CarryOut

HandleMsg ==
  \/ Started \/ Stopped
  \/ TripStarted \/ TripQueried \/ TripRequeried \/ TripRestarted \/ TripsRestarted
  \/ \E u \in Garbage : TripStopped(u) \/ MsgReportCompletedTrips(u) \/ ParkedMsg(u)
  \/ MsgSSREvent

Next ==
  \/ \E c \in Clients : addClientCommand(c)
  \/ \E c \in Clients, u \in Garbage : removeClientCommand(c, u)
  \/ \E c \in Clients, o \in Options : startBatchingCommand(c, o)
  \/ \E s \in Sessions, o \in Options, u \in Garbage : updateBatchingOptionsCommand(s, o, u)
  \/ \E s \in Sessions, u \in Garbage : stopBatchingCommand(s, u)
  \/ LocApi \/ HandleMsg \/ Travel \/ handleEngineDownEvent
  \/ \E state \in {"suspend", "resume"}, u \in Garbage : updateSystemPowerState(state, u)

Spec == Init /\ [][Next]_vars

-----------------------------------------------------------------------------
(* Properties.                                                             *)

\* Nothing is on its way, and the modem is up and not suspended.
Settled == reqs = <<>> /\ msgs = <<>> /\ ~down /\ mSystemPowerState # "suspend"

Routine == {s \in In(mBatchingSessions) : mBatchingSessions[s].mode # "trip"}

\* What a trip really has to go.
Left(s) == mTripSessions[s].distance - (travel - began[s])

\* When things have settled, the modem runs exactly the routine sessions that
\* the adapter has, with their options: whatever clients started, changed or
\* stopped, whichever of these failed as the modem crashed, and whatever was
\* suspended and restarted.  Only, nobody may have called for a session, and the
\* adapter not restarted one, while something was on its way for that session
\* (BatchingAdapter.cpp:377-408, 503-541, 197-219).
RoutineServed == "impatient" \notin past /\ Settled =>
  batching = [s \in Sessions |-> IF s \in Routine THEN mBatchingSessions[s] ELSE NoOptions]

\* The sessions that report on their own, by the maps and in the modem.
Reporting == Trips(Now) \cup {s \in Sessions : mBatchingSessions[s].mode = "routine"}
Running   == Trip \/ \E s \in In(batching) : batching[s].mode # "noauto"

\* When things have settled, the adapter is registered for the reports of full
\* batches if and only if it has a session that reports on its own: the
\* registration is made with the first one, and taken back with the last whether
\* that was stopped, changed or could not be started, also in an answer that comes
\* when other sessions have been started, and over crashes and power events
\* (BatchingAdapter.cpp:305-315, 380-403, 520-527, 783-787, 944-949).  Four things
\* break the count: a trip that has ended and stays in mBatchingSessions, or was
\* the last and is in both maps ("left", "ended": 668-707, 877-880, 895-931), a
\* failed stop (510-519) and a trip that joins when the others have gone (792-862).
\* Even so there is no session without the registration, in the maps or in the
\* modem, unless a call, a restart of the sessions or a step of distance comes while
\* something is under way.
BatchFullRegistered == Settled =>
  /\ past \cap {"left", "ended", "unstopped", "alone"} = {} => (batchFull <=> Reporting # {})
  /\ past \cap {"crossed", "moved", "impatient"} = {}
       => (Reporting # {} \/ Running => batchFull)

\* The one trip of the modem serves all trips: it runs when there is one, with
\* the parameters that the adapter believes, often enough for each of them; it is
\* not over, and it ends no later than the nearest of them has really come its
\* distance, in this batch and in earlier ones (BatchingAdapter.cpp:756-864,
\* 935-1039, 654-714).  It is not so after a call or a step of distance that comes
\* while something is under way, an interruption, or the end of a trip beside
\* another one, nor when a join starts the batch anew and the distance that the
\* trips have come in it is dropped (845-850), in spite of the comment there.
TripServed == past \cap {"crossed", "moved", "interrupted", "ended", "forgotten"} = {} /\ Settled =>
  /\ Trip <=> Trips(Now) # {}
  /\ Trip => trip = Params(mOngoingTripDistance, mOngoingTripTBFInterval)
  /\ \A s \in Trips(Now) : /\ trip.interval <= mTripSessions[s].interval
                           /\ travelled < trip.distance
                           /\ trip.distance - travelled <= Left(s)
=============================================================================
