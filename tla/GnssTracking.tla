---------------------------- MODULE GnssTracking ----------------------------
(***************************************************************************)
(* Tracking sessions of the GNSS adapter (gps/gnss/GnssAdapter.cpp).       *)
(*                                                                         *)
(* Clients start, update and stop sessions.  The modem runs one time-based *)
(* session, so the adapter multiplexes the options of all clients onto it; *)
(* distance-based sessions run in the modem one by one.  The adapter works *)
(* on its message thread and hands each request to LocApi, whose thread    *)
(* carries the requests out in order and posts an answer; what remains to  *)
(* be done then is captured in the request.  Meanwhile the adapter handles *)
(* other commands, the modem crashes and comes up again (SSR), the system  *)
(* suspends and resumes, and the configuration changes.                    *)
(*                                                                         *)
(* A step is one message of the adapter or one request of LocApi.  Calls   *)
(* of clients and events of the system are handled when they come: a call  *)
(* that waited behind other messages is one that comes later.  A request   *)
(* fails when the modem is down and only then.  mPowerOn and the tracking  *)
(* state of SystemStatus are set from the two maps by every change of them *)
(* and are not variables.  No engine hub is loaded: no engine needs NHz.   *)
(***************************************************************************)
EXTENDS Integers, Sequences, FiniteSets

CONSTANTS Clients,     \* LocationAPI objects
          Options,     \* TrackingOptions, as clamped by the handlers
          DbtSupported,\* has the modem distance-based tracking?
          ClientsWait, \* does a client wait for the response of its last call for
                       \* a session before it makes the next one?
          MaxStarts,   \* bound: calls of startTracking
          MaxCommands, \* bound: calls of the clients, all together
          MaxEvents    \* bound: crashes, power events and configurations

NoClient == "none"

\* The handlers raise an interval to MIN_TRACKING_INTERVAL: none is 0.
ASSUME TrackingAssumption ==
  /\ Options \subseteq [interval : Nat \ {0}, power : Nat, quality : Nat, distance : BOOLEAN]
  /\ NoClient \notin Clients
  /\ DbtSupported \in BOOLEAN /\ ClientsWait \in BOOLEAN
  /\ MaxStarts \in Nat /\ MaxCommands \in Nat /\ MaxEvents \in Nat

Sessions  == 1..MaxStarts     \* ids in the order given; the counter starts at 1
NoOptions == [interval |-> 0, power |-> 0, quality |-> 0, distance |-> FALSE]

VARIABLES
  mClientData,                   \* the clients with callbacks to track
  removed,                       \* clients that are gone
  owner,                         \* the client that started each session
  mTimeBasedTrackingSessions,    \* NoOptions is "not in the map"
  mDistanceBasedTrackingSessions,
  mIsEngineCapabilitiesKnown,
  mPendingMsgs,                  \* parked until they are known
  msgs,                          \* answers, engine-ups and parked messages posted
  mSystemPowerState,
  reqs,                          \* requests LocApi has not carried out
  down,                          \* is the modem down, or not opened?
  tbt, dbt,                      \* what the modem runs
  commands, events,              \* counts for the bounds
  owed,                          \* responses each session's client waits for (history)
  starting,                      \* sessions whose start is not answered (history)
  stopped                        \* sessions whose stop the adapter told is done (history)

sessions   == <<mTimeBasedTrackingSessions, mDistanceBasedTrackingSessions>>
clientVars == <<mClientData, removed, owner>>
parkVars   == <<mIsEngineCapabilitiesKnown, mPendingMsgs>>
modem      == <<down, tbt, dbt>>
counts     == <<commands, events>>
history    == <<owed, starting, stopped>>
vars == <<clientVars, sessions, parkVars, msgs, mSystemPowerState, reqs, modem, counts, history>>

OptionRecords == [interval : Nat, power : Nat, quality : Nat, distance : BOOLEAN]

\* A request to LocApi, and what is done with its answer.
Calls == {"start", "stop", "dstart", "dstop", "open"}
Thens == {"nothing", "respond", "started", "updated", "stopped", "removed",
          "switched", "dstopped", "dupdated"}
Requests == [call : Calls, session : Sessions \cup {0}, options : OptionRecords,
             old : OptionRecords, then : Thens]

\* MsgStartTracking and MsgUpdateTracking; the messages of the adapter's queue.
Parked   == [kind : {"start", "update"}, session : Sessions, options : OptionRecords]
Answers  == [kind : {"answer"}, req : Requests, ok : BOOLEAN]
EngineUp == [kind |-> "engineUp"]

TypeOK ==
  /\ mClientData \subseteq Clients /\ removed \subseteq Clients
  /\ owner \in [Sessions -> Clients \cup {NoClient}]
  /\ mTimeBasedTrackingSessions \in [Sessions -> OptionRecords]
  /\ mDistanceBasedTrackingSessions \in [Sessions -> OptionRecords]
  /\ mIsEngineCapabilitiesKnown \in BOOLEAN
  /\ mPendingMsgs \in Seq(Parked) /\ msgs \in Seq(Parked \cup Answers \cup {EngineUp})
  /\ mSystemPowerState \in {"unknown", "suspend", "resume"}
  /\ reqs \in Seq(Requests)
  /\ down \in BOOLEAN
  /\ tbt \in OptionRecords /\ dbt \subseteq Sessions
  /\ commands \in 0..MaxCommands /\ events \in 0..MaxEvents
  /\ owed \in [Sessions -> Nat]    \* no call is answered twice
  /\ starting \subseteq Sessions /\ stopped \subseteq Sessions

Request(call, s, o, then) ==
  [call |-> call, session |-> s, options |-> o, old |-> NoOptions, then |-> then]

Init ==
  /\ mClientData = {} /\ removed = {}
  /\ owner = [s \in Sessions |-> NoClient]
  /\ mTimeBasedTrackingSessions = [s \in Sessions |-> NoOptions]
  /\ mDistanceBasedTrackingSessions = [s \in Sessions |-> NoOptions]
  /\ mIsEngineCapabilitiesKnown = FALSE
  /\ mPendingMsgs = <<>> /\ msgs = <<>>
  /\ mSystemPowerState = "unknown"
  /\ reqs = <<Request("open", 0, NoOptions, "nothing")>>
  /\ down = TRUE
  /\ tbt = NoOptions /\ dbt = {}
  /\ commands = 0 /\ events = 0
  /\ owed = [s \in Sessions |-> 0] /\ starting = {} /\ stopped = {}

-----------------------------------------------------------------------------
(* The maps of sessions; m is mTimeBasedTrackingSessions at that moment.   *)

In(m)     == {s \in Sessions : m[s] # NoOptions}

\* The elements of a set of sessions in the order of their ids.
InOrder(S) == CHOOSE q \in [1..Cardinality(S) -> S] :
                \A i, j \in DOMAIN q : i < j => q[i] < q[j]

isTimeBasedTrackingSession(s)     == s \in In(mTimeBasedTrackingSessions)
isDistanceBasedTrackingSession(s) == s \in In(mDistanceBasedTrackingSessions)

\* The maps after saveTrackingSession and eraseTrackingSession.
saveTrackingSession(t, d, s, o) ==
  IF o.distance /\ DbtSupported
  THEN <<t, [d EXCEPT ![s] = o]>>
  ELSE <<[t EXCEPT ![s] = o], d>>

eraseTrackingSession(t, d, s) ==
  IF s \in In(t) THEN <<[t EXCEPT ![s] = NoOptions], d>>
                 ELSE <<t, [d EXCEPT ![s] = NoOptions]>>

-----------------------------------------------------------------------------
(* Multiplexing.  Each loop runs over a map in the order of session ids;   *)
(* it returns the requests made, and the client gets its response at once  *)
(* if there is none.                                                       *)

\* The first of the sessions S with the smallest interval.
SmallestInterval(m, S) ==
  CHOOSE k \in S : \A s \in S : m[k].interval < m[s].interval
                                \/ (m[k].interval = m[s].interval /\ k <= s)

LeastOf(V) == CHOOSE v \in V : \A w \in V : v <= w
MostOf(V)  == CHOOSE v \in V : \A w \in V : v >= w

\* multiplexedPowerMode: GNSS_POWER_MODE_INVALID, 0, is taken for "not set yet",
\* so it hides the modes of the sessions before it.
MultiplexedPower(m, S) ==
  LET after == {s \in S : \A j \in S : j >= s => m[j].power # 0}
  IN  IF after = {} THEN 0 ELSE LeastOf({m[s].power : s \in after})

\* multiplexedOptions; none if S is empty.
MultiplexedOptions(m, S) == IF S = {} THEN NoOptions ELSE m[SmallestInterval(m, S)]

startTimeBasedTracking(s, o) == <<Request("start", s, o, "started")>>

startTimeBasedTrackingMultiplex(m, s, o) ==
  LET S == In(m)
      k == SmallestInterval(m, S)
      quality == MostOf({m[j].quality : j \in {j \in S : j >= k}})
      power == MultiplexedPower(m, S)
  IN  IF S = {} THEN startTimeBasedTracking(s, o)
      ELSE IF o.interval < m[k].interval \/ o.power < power \/ o.quality > quality
      THEN startTimeBasedTracking(s,
             [m[k] EXCEPT !.interval = LeastOf({@, o.interval}),
                          !.power = IF o.power < power THEN o.power ELSE @,
                          !.quality = MostOf({quality, o.quality})])
      ELSE <<>>

\* The other sessions count; the answer is given the old options to restore.
updateTrackingMultiplex(m, s, o) ==
  LET S == In(m) \ {s}
      most == MultiplexedOptions(m, S)
      power == MultiplexedPower(m, S)
      update(new) == <<[Request("start", s, new, "updated") EXCEPT !.old = m[s]]>>
  IN  IF m[s].interval = o.interval /\ m[s].power = o.power THEN <<>>
      ELSE IF S = {} THEN update(o)
      ELSE IF o.interval < most.interval \/ o.power < power
      THEN update([most EXCEPT !.interval = LeastOf({@, o.interval}),
                               !.power = IF o.power < power THEN o.power ELSE @])
      ELSE <<>>

\* Mutant: the last session is left to the modem.
StopMultiplexOthers(m, s) ==
  LET S == In(m) \ {s}
      most == MultiplexedOptions(m, S)
  IN  IF S # {} /\ m[s].interval < most.interval
      THEN startTimeBasedTracking(s, most) ELSE <<>>

\* The last session stops the modem; otherwise what the others need remains.
stopTimeBasedTrackingMultiplex(m, s) ==
  LET S == In(m) \ {s}
      most == MultiplexedOptions(m, S)
      power == MultiplexedPower(m, S)
  IN  IF S = {} THEN <<Request("stop", s, NoOptions, "respond")>>
      ELSE IF m[s].interval < most.interval \/ m[s].power < power
      THEN startTimeBasedTracking(s, [most EXCEPT !.power = power])
      ELSE <<>>

\* checkAndRestartTimeBasedSession: the highest power mode starts from the
\* first session's, valid or not.
RestartOptions(m) ==
  LET S == In(m)
      first == m[LeastOf(S)].power
  IN  [m[SmallestInterval(m, S)] EXCEPT !.power =
         IF first = 0 THEN 0 ELSE LeastOf({m[s].power : s \in {s \in S : m[s].power # 0}})]

\* suspendSessions and restartSessions.
suspendSessions(t) ==
  IF In(t) = {} THEN <<>> ELSE <<Request("stop", 0, NoOptions, "nothing")>>

\* Mutant: only time-based sessions are restarted.
RestartTimeBased(t, d) ==
  IF In(t) = {} THEN <<>> ELSE <<Request("start", 0, RestartOptions(t), "nothing")>>

restartSessions(t, d) ==
  LET ids == InOrder(In(d))
  IN  (IF In(t) = {} THEN <<>> ELSE <<Request("start", 0, RestartOptions(t), "nothing")>>)
        \o [i \in DOMAIN ids |-> Request("dstart", ids[i], d[ids[i]], "nothing")]

-----------------------------------------------------------------------------
(* What a message changes.                                                 *)

TBS == mTimeBasedTrackingSessions
DBS == mDistanceBasedTrackingSessions

\* The maps are now td.
Maps(td) ==
  /\ mTimeBasedTrackingSessions' = td[1]
  /\ mDistanceBasedTrackingSessions' = td[2]

Erase(s)   == Maps(eraseTrackingSession(TBS, DBS, s))
Save(s, o) == Maps(saveTrackingSession(TBS, DBS, s, o))

Ask(q) == reqs' = reqs \o q

\* reportResponse: n responses to the client of s, if it is still there, and
\* called new calls that want one.
reportResponse(s, n, called) ==
  LET sent == IF owner'[s] \in mClientData THEN n ELSE 0
  IN  owed' = [owed EXCEPT ![s] = @ + called - sent]

\* Mutant: respond at once whatever was asked.
RespondAlways(q, s, called) == reportResponse(s, 1, called)

\* reportToClientWithNoWait: respond unless LocApi was asked and will answer.
RespondUnless(q, s, called) == reportResponse(s, IF q = <<>> THEN 1 ELSE 0, called)

\* A message of a client about session s that waits for the capabilities.
Park(kind, s, o, called) ==
  /\ mPendingMsgs' = Append(mPendingMsgs, [kind |-> kind, session |-> s, options |-> o])
  /\ reportResponse(s, 0, called)
  /\ UNCHANGED <<sessions, reqs>>

MustPark(o) == ~mIsEngineCapabilitiesKnown /\ o.distance

-----------------------------------------------------------------------------
(* The messages of clients; called is 1 in the client's call and 0 when a  *)
(* parked message is posted again.                                         *)

\* MsgStartTracking; a client without callbacks is not told of the error.
StartWithoutCallbacks(s, called) ==
  /\ owner'[s] \notin mClientData
  /\ reportResponse(s, 0, called)
  /\ starting' = starting \ {s}
  /\ UNCHANGED <<mPendingMsgs, sessions, reqs>>

StartSession(s, o, called) ==
  LET distance == o.distance /\ DbtSupported
      q == IF distance THEN <<Request("dstart", s, o, "started")>>
           ELSE startTimeBasedTrackingMultiplex(TBS, s, o)
  IN  /\ owner'[s] \in mClientData
      /\ Ask(q)
      /\ Save(s, o)
      /\ RespondUnless(q, s, called)
      /\ starting' = IF q = <<>> THEN starting \ {s} ELSE starting \cup {s}
      /\ UNCHANGED mPendingMsgs

MsgStartTracking(s, o, called) ==
  IF MustPark(o) THEN Park("start", s, o, called) /\ starting' = starting \cup {s}
  ELSE StartWithoutCallbacks(s, called) \/ StartSession(s, o, called)

\* MsgUpdateTracking: an unknown session, a switch from time to distance, one
\* from distance to time, and new options for a session of either kind.
UpdateUnknown(s, called) ==
  /\ ~isTimeBasedTrackingSession(s) /\ ~isDistanceBasedTrackingSession(s)
  /\ reportResponse(s, 1, called)
  /\ UNCHANGED <<sessions, reqs>>

UpdateToDistance(s, o, called) ==
  /\ isTimeBasedTrackingSession(s) /\ o.distance
  /\ LET q == stopTimeBasedTrackingMultiplex(TBS, s)
         td == eraseTrackingSession(TBS, DBS, s)
     IN  /\ Ask(Append(q, Request("dstart", s, o, "nothing")))
         /\ Maps(saveTrackingSession(td[1], td[2], s, o))
         /\ RespondUnless(q, s, called)

UpdateToTime(s, o, called) ==
  /\ isDistanceBasedTrackingSession(s) /\ ~o.distance
  /\ Erase(s)
  /\ Ask(<<Request("dstop", s, o, "switched")>>)
  /\ reportResponse(s, 0, called)

UpdateTimeBased(s, o, called) ==
  /\ isTimeBasedTrackingSession(s) /\ ~o.distance /\ ~isDistanceBasedTrackingSession(s)
  /\ LET q == updateTrackingMultiplex(TBS, s, o)
     IN  /\ Ask(q)
         /\ Save(s, o)
         /\ RespondUnless(q, s, called)

UpdateDistanceBased(s, o, called) ==
  /\ isDistanceBasedTrackingSession(s) /\ o.distance /\ ~isTimeBasedTrackingSession(s)
  /\ Ask(<<Request("dstop", s, o, "dstopped")>>)
  /\ reportResponse(s, 0, called)
  /\ UNCHANGED sessions

MsgUpdateTracking(s, o, called) ==
  IF MustPark(o) THEN Park("update", s, o, called)
  ELSE /\ \/ UpdateUnknown(s, called)
          \/ UpdateToDistance(s, o, called)
          \/ UpdateToTime(s, o, called)
          \/ UpdateTimeBased(s, o, called)
          \/ UpdateDistanceBased(s, o, called)
       /\ UNCHANGED mPendingMsgs

-----------------------------------------------------------------------------
(* Commands.                                                               *)

Command == commands < MaxCommands /\ commands' = commands + 1

\* A client with callbacks to track registers.
addClientCommand(c) ==
  /\ c \notin mClientData \cup removed
  /\ mClientData' = mClientData \cup {c}
  /\ UNCHANGED <<removed, owner, sessions, parkVars, msgs, mSystemPowerState, reqs, modem,
                 counts, history>>

generateSessionId == CHOOSE s \in Sessions : owner[s] = NoClient
                       /\ \A r \in Sessions : r < s => owner[r] # NoClient

startTrackingCommand(c, o) ==
  /\ Command
  /\ c \notin removed
  /\ \E s \in Sessions : owner[s] = NoClient
  /\ LET s == generateSessionId
     IN  /\ owner' = [owner EXCEPT ![s] = c]
         /\ MsgStartTracking(s, o, 1)
  /\ UNCHANGED <<mClientData, removed, mIsEngineCapabilitiesKnown, msgs, mSystemPowerState,
                 modem, events, stopped>>

\* A client calls for a session of its own.
MayCall(s) == owner[s] \in Clients \ removed /\ (ClientsWait => owed[s] = 0)

updateTrackingOptionsCommand(s, o) ==
  /\ Command
  /\ MayCall(s)
  /\ UNCHANGED <<clientVars, mIsEngineCapabilitiesKnown, msgs, mSystemPowerState, modem, events,
                 starting, stopped>>
  /\ MsgUpdateTracking(s, o, 1)

StopTimeBased(s) ==
  /\ isTimeBasedTrackingSession(s)
  /\ LET q == stopTimeBasedTrackingMultiplex(TBS, s)
     IN  /\ Ask(q)
         /\ RespondUnless(q, s, 1)
         /\ stopped' = IF q = <<>> THEN stopped \cup {s} ELSE stopped
  /\ Erase(s)

StopDistanceBased(s) ==
  /\ isDistanceBasedTrackingSession(s) /\ ~isTimeBasedTrackingSession(s)
  /\ Ask(<<Request("dstop", s, NoOptions, "stopped")>>)
  /\ reportResponse(s, 0, 1)
  /\ UNCHANGED <<sessions, stopped>>

\* LOCATION_ERROR_ID_UNKNOWN
StopUnknown(s) ==
  /\ ~isTimeBasedTrackingSession(s) /\ ~isDistanceBasedTrackingSession(s)
  /\ reportResponse(s, 1, 1)
  /\ UNCHANGED <<reqs, sessions, stopped>>

stopTrackingCommand(s) ==
  /\ Command
  /\ MayCall(s)
  /\ UNCHANGED <<clientVars, parkVars, msgs, mSystemPowerState, modem, events, starting>>
  /\ StopTimeBased(s) \/ StopDistanceBased(s) \/ StopUnknown(s)

\* The map t without the sessions S.
Without(t, S) == [s \in Sessions |-> IF s \in S THEN NoOptions ELSE t[s]]

\* stopClientSessions, time-based: the sessions S are stopped and erased one by
\* one; each asks for at most one thing, for what the rest of the map needs.
StopClient(t, S) ==
  LET stop(s) == stopTimeBasedTrackingMultiplex(Without(t, {r \in S : r < s}), s)
      asking  == InOrder({s \in S : stop(s) # <<>>})
  IN  <<[i \in DOMAIN asking |-> Head(stop(asking[i]))], Without(t, S)>>

\* The client's sessions are stopped and its callbacks erased; those of the
\* modem are erased when it has stopped them.
removeClientCommand(c) ==
  LET qt  == StopClient(TBS, {s \in In(TBS) : owner[s] = c})
      ids == InOrder({s \in In(DBS) : owner[s] = c})
  IN  /\ Command
      /\ c \in mClientData
      /\ Ask(qt[1] \o [i \in DOMAIN ids |-> Request("dstop", ids[i], NoOptions, "removed")])
      /\ mTimeBasedTrackingSessions' = qt[2]
      /\ mClientData' = mClientData \ {c}
      /\ removed' = removed \cup {c}
      /\ UNCHANGED <<owner, mDistanceBasedTrackingSessions, parkVars, msgs, mSystemPowerState,
                     modem, events, history>>

-----------------------------------------------------------------------------
(* LocApi carries out the requests in order; the modem may crash.          *)

Carry(q, ok) ==
  /\ tbt' = IF ~ok THEN tbt ELSE CASE q.call = "start" -> q.options
                                    [] q.call = "stop"  -> NoOptions
                                    [] OTHER            -> tbt
  /\ dbt' = IF ~ok THEN dbt ELSE CASE q.call = "dstart" -> dbt \cup {q.session}
                                    [] q.call = "dstop"  -> dbt \ {q.session}
                                    [] OTHER             -> dbt

\* LocOpenMsg and LocSsrMsg: the modem is up and says so.
Open ==
  /\ reqs # <<>> /\ Head(reqs).call = "open"
  /\ reqs' = Tail(reqs)
  /\ down' = FALSE
  /\ msgs' = Append(msgs, EngineUp)
  /\ UNCHANGED <<clientVars, sessions, parkVars, mSystemPowerState, tbt, dbt, counts, history>>

\* LocApiResponse::returnToSender posts the answer; a request without a
\* response, or with an empty one, posts none.
CarryOut ==
  /\ reqs # <<>> /\ Head(reqs).call # "open"
  /\ LET q == Head(reqs) IN
       /\ Carry(q, ~down)
       /\ msgs' = IF q.then = "nothing" THEN msgs
                  ELSE Append(msgs, [kind |-> "answer", req |-> q, ok |-> ~down])
  /\ reqs' = Tail(reqs)
  /\ UNCHANGED <<clientVars, sessions, parkVars, mSystemPowerState, down, counts, history>>

Event == events < MaxEvents /\ events' = events + 1

\* The modem crashes and forgets what it ran; LocSsrMsg is posted.
handleEngineDownEvent ==
  /\ Event
  /\ ~down
  /\ down' = TRUE
  /\ tbt' = NoOptions /\ dbt' = {}
  /\ Ask(<<Request("open", 0, NoOptions, "nothing")>>)
  /\ UNCHANGED <<clientVars, sessions, parkVars, msgs, mSystemPowerState, commands, history>>

-----------------------------------------------------------------------------
(* Messages from LocApi.                                                   *)

\* The next message is the answer to a request with this closure.
Answered(then) ==
  /\ msgs # <<>> /\ Head(msgs).kind = "answer" /\ Head(msgs).req.then = then
  /\ msgs' = Tail(msgs)
  /\ UNCHANGED <<clientVars, parkVars, mSystemPowerState, modem, counts>>

It == Head(msgs).req
Ok == Head(msgs).ok

\* of startTimeBasedTracking and startDistanceBasedTracking
Started ==
  /\ Answered("started")
  /\ IF Ok THEN UNCHANGED sessions ELSE Erase(It.session)
  /\ reportResponse(It.session, 1, 0)
  /\ starting' = starting \ {It.session}
  /\ UNCHANGED <<reqs, stopped>>

\* of updateTracking: the old options are restored
Updated ==
  /\ Answered("updated")
  /\ IF Ok THEN UNCHANGED sessions ELSE Save(It.session, It.old)
  /\ reportResponse(It.session, 1, 0)
  /\ UNCHANGED <<reqs, starting, stopped>>

\* of stopTracking
StoppedTimeBased ==
  /\ Answered("respond")
  /\ reportResponse(It.session, 1, 0)
  /\ UNCHANGED <<reqs, sessions, starting, stopped>>

\* of stopTrackingCommand
StoppedDistanceBased ==
  /\ Answered("stopped")
  /\ IF Ok THEN Erase(It.session) ELSE UNCHANGED sessions
  /\ stopped' = IF Ok THEN stopped \cup {It.session} ELSE stopped
  /\ reportResponse(It.session, 1, 0)
  /\ UNCHANGED <<reqs, starting>>

\* of stopClientSessions
StoppedClient ==
  /\ Answered("removed")
  /\ IF Ok THEN Erase(It.session) ELSE UNCHANGED sessions
  /\ UNCHANGED <<reqs, history>>

\* of the switch from distance to time, whether the modem has stopped or not
Switched ==
  /\ Answered("switched")
  /\ LET q == startTimeBasedTrackingMultiplex(TBS, It.session, It.options)
     IN  Ask(q) /\ RespondUnless(q, It.session, 0)
  /\ Save(It.session, It.options)
  /\ UNCHANGED <<starting, stopped>>

\* of an update of a distance-based session: stopped, then started
DistanceStopped ==
  /\ Answered("dstopped")
  /\ Ask(IF Ok THEN <<Request("dstart", It.session, It.options, "dupdated")>> ELSE <<>>)
  /\ UNCHANGED <<sessions, history>>

DistanceUpdated ==
  /\ Answered("dupdated")
  /\ IF Ok THEN Save(It.session, It.options) ELSE UNCHANGED sessions
  /\ reportResponse(It.session, 1, 0)
  /\ UNCHANGED <<reqs, starting, stopped>>

\* Mutant: what was parked is dropped.
ForgetParked == msgs' = Tail(msgs) /\ mPendingMsgs' = <<>>

Repost == msgs' = Tail(msgs) \o mPendingMsgs /\ mPendingMsgs' = <<>>

\* updateSystemPowerState and restartSessions; then what was parked is posted.
MsgHandleEngineUpEvent ==
  /\ msgs # <<>> /\ Head(msgs) = EngineUp
  /\ mIsEngineCapabilitiesKnown' = TRUE
  /\ Ask(IF mSystemPowerState = "suspend" THEN suspendSessions(TBS)
         ELSE (IF mSystemPowerState = "resume" THEN restartSessions(TBS, DBS) ELSE <<>>)
                \o restartSessions(TBS, DBS))
  /\ Repost
  /\ UNCHANGED <<clientVars, sessions, mSystemPowerState, modem, counts, history>>

\* A parked message comes again.
ParkedMsg ==
  /\ msgs # <<>> /\ Head(msgs).kind \in {"start", "update"}
  /\ msgs' = Tail(msgs)
  /\ UNCHANGED <<clientVars, mIsEngineCapabilitiesKnown, mSystemPowerState, modem, counts,
                 stopped>>
  /\ LET m == Head(msgs)
     IN  \/ m.kind = "start" /\ MsgStartTracking(m.session, m.options, 0)
         \/ m.kind = "update" /\ MsgUpdateTracking(m.session, m.options, 0)
                              /\ UNCHANGED starting

-----------------------------------------------------------------------------
(* Events of the system.                                                   *)

updateSystemPowerState(state) ==
  /\ Event
  /\ mSystemPowerState' = state
  /\ Ask(IF state = "suspend" THEN suspendSessions(TBS) ELSE restartSessions(TBS, DBS))
  /\ UNCHANGED <<clientVars, sessions, parkVars, msgs, modem, commands, history>>

\* gnssUpdateSvConfig, configMinGpsWeek and the elevation mask: suspend, tell
\* the modem, resume.
UpdateConfig ==
  /\ Event
  /\ Ask(suspendSessions(TBS) \o restartSessions(TBS, DBS))
  /\ UNCHANGED <<clientVars, sessions, parkVars, msgs, mSystemPowerState, modem, commands,
                 history>>

-----------------------------------------------------------------------------
LocApi == Open \/ CarryOut

HandleMsg ==
  \/ Started \/ Updated \/ StoppedTimeBased \/ StoppedDistanceBased \/ StoppedClient
  \/ Switched \/ DistanceStopped \/ DistanceUpdated
  \/ MsgHandleEngineUpEvent \/ ParkedMsg

Next ==
  \/ \E c \in Clients : addClientCommand(c) \/ removeClientCommand(c)
  \/ \E c \in Clients, o \in Options : startTrackingCommand(c, o)
  \/ \E s \in Sessions : stopTrackingCommand(s)
  \/ \E s \in Sessions, o \in Options : updateTrackingOptionsCommand(s, o)
  \/ LocApi \/ HandleMsg
  \/ handleEngineDownEvent \/ UpdateConfig
  \/ \E state \in {"suspend", "resume"} : updateSystemPowerState(state)

\* Both threads run while they have something to do.
Fairness == WF_vars(LocApi) /\ WF_vars(HandleMsg)

Spec == Init /\ [][Next]_vars /\ Fairness

-----------------------------------------------------------------------------
(* Properties.                                                             *)

\* Nothing is on its way, and the modem is up and not suspended.
Settled ==
  /\ reqs = <<>> /\ msgs = <<>> /\ ~down
  /\ mSystemPowerState # "suspend"

\* When nothing is on its way the modem serves the sessions of the two maps:
\* it runs at least as often as each time-based session wants, and runs each
\* distance-based one, through the multiplexing, switches, crashes of the
\* modem, power events and configurations (startTimeBasedTrackingMultiplex,
\* restartSessions, GnssAdapter.cpp).
EngineServesSessions ==
  Settled =>
    /\ \A s \in In(TBS) : tbt # NoOptions /\ tbt.interval <= TBS[s].interval
    /\ In(DBS) \subseteq dbt

\* Without crashes, power events and configurations it then runs for no other
\* session.  With them it may (StoppedStaysStopped): a restart uses the maps of
\* the moment, and requests that are on their way erase sessions later.
EngineServesNoOther ==
  Settled /\ events = 0 =>
    /\ In(TBS) = {} => tbt = NoOptions
    /\ dbt \subseteq In(DBS)

\* A start of a client with callbacks is answered, also when it was parked
\* for the capabilities (mPendingMsgs), and whatever happens meanwhile.
StartIsAnswered == \A s \in Sessions : s \in starting ~> s \notin starting

\* A session that was stopped with success stays stopped ("Stops a tracking
\* session associated with id parameter", ILocationAPI.h): when nothing is on
\* its way neither the maps nor the modem have it.  Closures of an update may
\* save it again, and a restart may start it while its stop is on its way.
\* Stops that the modem answers for a time-based session are not counted.
StoppedStaysStopped ==
  Settled => \A s \in stopped : s \notin In(TBS) \cup In(DBS) \cup dbt
=============================================================================
