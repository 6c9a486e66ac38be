-------------------------------- MODULE Agps --------------------------------
(***************************************************************************)
(* Assisted-GPS data connections (gps/gnss/Agps.cpp, NativeAgpsHandler.cpp *)
(* and the AGPS commands of GnssAdapter.cpp).                              *)
(*                                                                         *)
(* The modem opens and closes ATL connection handles.  AgpsManager keeps   *)
(* one state machine per network interface (NIF): it asks the framework    *)
(* for a data connection when a first handle subscribes, tells every       *)
(* subscriber when the connection is granted, denied or closed, and asks   *)
(* for its release when no subscriber is active any more.  All of it runs  *)
(* on the message thread of GnssAdapter, one message at a time.            *)
(*                                                                         *)
(* The modem and the Android framework behind the "agnss" NIF are external *)
(* to the repository: the actions Modem* and Framework* say what they may  *)
(* do.  The "internet" NIF is answered by NativeAgpsHandler.               *)
(***************************************************************************)
EXTENDS Naturals, Sequences, FiniteSets

CONSTANTS Handles,     \* ATL connection handles the modem uses
          Routes,      \* bound: the NIFs each handle may be opened on
          MaxSsr,      \* bound: modem restarts
          MaxBacklog   \* bound: messages, calls and lookups under way when the
                       \* modem opens a handle or restarts or the framework loses a connection

ASSUME RoutesAssumption == Routes \subseteq Handles \X {"agnss", "internet"}
ASSUME BoundsAssumption == MaxSsr \in Nat /\ MaxBacklog \in Nat

Nifs       == {"agnss", "internet"}
AgpsStates == {"RELEASED", "PENDING", "ACQUIRED", "RELEASING"}

VARIABLES
  created,     \* NIFs that have a state machine
  state,       \* mState of each state machine
  active,      \* mSubscriberList: handles whose mIsInactive is false
  inactive,    \* mSubscriberList: handles whose mIsInactive is true
  queue,       \* the message queue of GnssAdapter
  mConnected,  \* NativeAgpsHandler: is there a mobile network?
  wds,         \* is libloc_api_wds installed? (fixed at start)
  lookups,     \* WDS PDN type lookups under way, per NIF
  calls,       \* external: status calls the framework has not answered
  up,          \* external: is the framework's data connection up?
  modem,       \* external: what the modem knows of each handle
  refused,     \* an APN of the framework was refused (history)
  ssrs         \* modem restarts so far (history)

smVars  == <<created, state, active, inactive>>
history == <<refused, ssrs>>
vars    == <<smVars, queue, mConnected, wds, lookups, calls, up, modem, history>>

Requests == [type : {"RequestATL"}, nif : Nifs, handle : Handles]
Releases == [type : {"ReleaseATL"}, handle : Handles]
Answers  == [type : {"AtlOpenSuccess", "ReportAtlPdn", "AtlOpenFailed", "AtlClosed"},
             nif : Nifs]
Controls == [type : {"HandleEngineUpEvent"}]
Messages == Requests \cup Releases \cup Answers \cup Controls

ModemStates == {"idle", "opening", "open", "closing"}

TypeOK ==
  /\ created \subseteq Nifs
  /\ state \in [Nifs -> AgpsStates]
  /\ active \in [Nifs -> SUBSET Handles]
  /\ inactive \in [Nifs -> SUBSET Handles]
  /\ queue \in Seq(Messages)
  /\ mConnected \in BOOLEAN
  /\ wds \in BOOLEAN
  /\ lookups \in [Nifs -> Nat]
  /\ calls \in Seq({"request", "release"})
  /\ up \in BOOLEAN
  /\ modem \in [Handles -> ModemStates]
  /\ refused \in BOOLEAN
  /\ ssrs \in 0..MaxSsr

Init ==
  /\ created = {}
  /\ state = [n \in Nifs |-> "RELEASED"]
  /\ active = [n \in Nifs |-> {}]
  /\ inactive = [n \in Nifs |-> {}]
  /\ queue = <<>>
  /\ mConnected = FALSE
  /\ wds \in BOOLEAN
  /\ lookups = [n \in Nifs |-> 0]
  /\ calls = <<>>
  /\ up = FALSE
  /\ modem = [h \in Handles |-> "idle"]
  /\ refused = FALSE
  /\ ssrs = 0

-----------------------------------------------------------------------------
(* What a state machine tells the modem and asks of the framework.         *)

\* notifyEventToSubscriber: mAtlOpenStatusCb and mAtlCloseStatusCb.  A handle
\* the modem is already closing, or gave up, does not open any more.
Tell(granted, ended) ==
  modem' = [h \in Handles |->
              IF h \in ended THEN "idle"
              ELSE IF h \in granted /\ modem[h] = "opening" THEN "open"
              ELSE modem[h]]

\* NativeAgpsHandler::processATLRequestRelease: the answer to a status call of
\* the "internet" NIF, posted at once and judged by mConnected alone.
NativeAnswer(call) ==
  IF call = "release" THEN [type |-> "AtlClosed", nif |-> "internet"]
  ELSE IF mConnected THEN [type |-> "AtlOpenSuccess", nif |-> "internet"]
  ELSE [type |-> "AtlOpenFailed", nif |-> "internet"]

\* What is left of the queue and of the framework's calls once the message
\* being processed is taken.
TakeMessage == [queue |-> Tail(queue), calls |-> calls]
TakeCall    == [queue |-> queue, calls |-> Tail(calls)]

requestOrReleaseDataConn(n, call, left) ==
  IF n = "internet"
  THEN queue' = Append(left.queue, NativeAnswer(call)) /\ calls' = left.calls
  ELSE queue' = left.queue /\ calls' = Append(left.calls, call)

NoCall(left) == queue' = left.queue /\ calls' = left.calls

transitionState(n, s) == state' = [state EXCEPT ![n] = s]

Subscribers(n) == active[n] \cup inactive[n]

\* addSubscriber: a handle that is already in the list is not added again.
addSubscriber(n, h) ==
  /\ active' = IF h \in Subscribers(n) THEN active
               ELSE [active EXCEPT ![n] = @ \cup {h}]
  /\ UNCHANGED inactive

-----------------------------------------------------------------------------
(* The five events of AgpsStateMachine.                                    *)

\* Mutant: a subscriber the connection already serves is added but not told.
SubscribeSilently(n, h, left) ==
  /\ addSubscriber(n, h)
  /\ IF state[n] = "RELEASED"
     THEN requestOrReleaseDataConn(n, "request", left) /\ transitionState(n, "PENDING")
     ELSE NoCall(left) /\ UNCHANGED state
  /\ UNCHANGED modem

processAgpsEventSubscribe(n, h, left) ==
  /\ addSubscriber(n, h)
  /\ \/ /\ state[n] = "RELEASED"
        /\ requestOrReleaseDataConn(n, "request", left)
        /\ transitionState(n, "PENDING")
        /\ UNCHANGED modem
     \/ /\ state[n] \in {"PENDING", "RELEASING"}
        /\ NoCall(left)
        /\ UNCHANGED <<state, modem>>
     \/ /\ state[n] = "ACQUIRED"
        /\ Tell({h}, {})
        /\ NoCall(left)
        /\ UNCHANGED state

\* Mutant: only a connection that was acquired is released.
UnsubscribeKeepsPending(n, h, left) ==
  /\ active' = [active EXCEPT ![n] = @ \ {h}]
  /\ inactive' = [inactive EXCEPT ![n] = @ \cup {h}]
  /\ UNCHANGED modem
  /\ IF state[n] = "ACQUIRED" /\ active[n] \subseteq {h}
     THEN transitionState(n, "RELEASING") /\ requestOrReleaseDataConn(n, "release", left)
     ELSE NoCall(left) /\ UNCHANGED state

\* requestATL always makes subscribers that wait for the close to complete, so
\* an unsubscribing handle turns inactive and the list never gets empty here.
processAgpsEventUnsubscribe(n, h, left) ==
  \/ /\ state[n] = "RELEASED"
     /\ Tell({}, {h})
     /\ NoCall(left)
     /\ UNCHANGED <<state, active, inactive>>
  \/ /\ state[n] # "RELEASED"
     /\ active' = [active EXCEPT ![n] = @ \ {h}]
     /\ inactive' = [inactive EXCEPT ![n] = @ \cup {h}]
     /\ UNCHANGED modem
     /\ IF state[n] \in {"PENDING", "ACQUIRED"} /\ active[n] \subseteq {h}
        THEN transitionState(n, "RELEASING") /\ requestOrReleaseDataConn(n, "release", left)
        ELSE NoCall(left) /\ UNCHANGED state

processAgpsEventGranted(n, left) ==
  /\ NoCall(left)
  /\ UNCHANGED <<active, inactive>>
  /\ IF state[n] = "PENDING"
     THEN transitionState(n, "ACQUIRED") /\ Tell(active[n], {})
     ELSE UNCHANGED <<state, modem>>

\* Tell every subscriber that its connection is gone, and delete it.
DropAll(n) ==
  /\ Tell({}, Subscribers(n))
  /\ active' = [active EXCEPT ![n] = {}]
  /\ inactive' = [inactive EXCEPT ![n] = {}]

\* Mutant: the subscribers that came during a release are forgotten.
FinishAndForget(n, left) ==
  /\ Tell({}, inactive[n])
  /\ inactive' = [inactive EXCEPT ![n] = {}]
  /\ UNCHANGED active
  /\ transitionState(n, "RELEASED")
  /\ NoCall(left)

\* Mutant: PENDING again for the subscribers that came, without a request.
FinishWithoutRequest(n, left) ==
  /\ Tell({}, inactive[n])
  /\ inactive' = [inactive EXCEPT ![n] = {}]
  /\ UNCHANGED active
  /\ transitionState(n, IF active[n] # {} THEN "PENDING" ELSE "RELEASED")
  /\ NoCall(left)

\* A release is complete: the subscribers that waited for it are told and
\* deleted, those that came meanwhile need a new connection.
FinishRelease(n, left) ==
  /\ Tell({}, inactive[n])
  /\ inactive' = [inactive EXCEPT ![n] = {}]
  /\ UNCHANGED active
  /\ IF active[n] # {}
     THEN transitionState(n, "PENDING") /\ requestOrReleaseDataConn(n, "request", left)
     ELSE transitionState(n, "RELEASED") /\ NoCall(left)

processAgpsEventReleased(n, left) ==
  \/ /\ state[n] \in {"RELEASED", "PENDING"}
     /\ NoCall(left)
     /\ UNCHANGED <<state, active, inactive, modem>>
  \/ /\ state[n] = "ACQUIRED"
     /\ transitionState(n, "RELEASED")
     /\ DropAll(n)
     /\ NoCall(left)
  \/ /\ state[n] = "RELEASING"
     /\ FinishRelease(n, left)

processAgpsEventDenied(n, left) ==
  \/ /\ state[n] \in {"RELEASED", "ACQUIRED"}
     /\ NoCall(left)
     /\ UNCHANGED <<state, active, inactive, modem>>
  \/ /\ state[n] = "PENDING"
     /\ transitionState(n, "RELEASED")
     /\ DropAll(n)
     /\ NoCall(left)
  \/ /\ state[n] = "RELEASING"
     /\ FinishRelease(n, left)

-----------------------------------------------------------------------------
(* The message thread: one action per message type of GnssAdapter.         *)

Received(type) == queue # <<>> /\ Head(queue).type = type

\* AgpsManager::requestATL: without a state machine the request fails at once.
RequestATL ==
  /\ Received("RequestATL")
  /\ LET m == Head(queue) IN
       IF m.nif \in created
       THEN processAgpsEventSubscribe(m.nif, m.handle, TakeMessage)
       ELSE /\ Tell({}, {m.handle})
            /\ NoCall(TakeMessage)
            /\ UNCHANGED <<state, active, inactive>>
  /\ UNCHANGED <<created, mConnected, wds, lookups, up, history>>

\* AgpsManager::releaseATL looks the handle up in mAgnssNif, then in
\* mInternetNif; a handle no list holds is ignored.
ReleaseATL ==
  /\ Received("ReleaseATL")
  /\ LET h == Head(queue).handle IN
       \/ \E n \in Nifs :
            /\ h \in Subscribers(n)
            /\ n = "internet" => h \notin Subscribers("agnss")
            /\ processAgpsEventUnsubscribe(n, h, TakeMessage)
       \/ /\ \A n \in Nifs : h \notin Subscribers(n)
          /\ NoCall(TakeMessage)
          /\ UNCHANGED <<state, active, inactive, modem>>
  /\ UNCHANGED <<created, mConnected, wds, lookups, up, history>>

\* AgpsMsgAtlOpenSuccess: with libloc_api_wds the PDN type is asked for first
\* and the answer comes back later as a message of its own.
AtlOpenSuccess ==
  /\ Received("AtlOpenSuccess")
  /\ LET n == Head(queue).nif IN
       IF wds
       THEN /\ lookups' = [lookups EXCEPT ![n] = @ + 1]
            /\ NoCall(TakeMessage)
            /\ UNCHANGED <<state, active, inactive, modem>>
       ELSE processAgpsEventGranted(n, TakeMessage) /\ UNCHANGED lookups
  /\ UNCHANGED <<created, mConnected, wds, up, history>>

\* Mutant: the library calls back without a lookup.
reportPdnTypeTwice(n) ==
  /\ lookups[n] >= 0 /\ Len(queue) < MaxBacklog
  /\ lookups' = [lookups EXCEPT ![n] = @ - 1]
  /\ queue' = Append(queue, [type |-> "ReportAtlPdn", nif |-> n])
  /\ UNCHANGED <<smVars, mConnected, wds, calls, up, modem, history>>

\* GnssAdapter::reportPdnTypeFromWds, called by the library.
reportPdnTypeFromWds(n) ==
  /\ lookups[n] > 0
  /\ lookups' = [lookups EXCEPT ![n] = @ - 1]
  /\ queue' = Append(queue, [type |-> "ReportAtlPdn", nif |-> n])
  /\ UNCHANGED <<smVars, mConnected, wds, calls, up, modem, history>>

ReportAtlPdn ==
  /\ Received("ReportAtlPdn")
  /\ processAgpsEventGranted(Head(queue).nif, TakeMessage)
  /\ UNCHANGED <<created, mConnected, wds, lookups, up, history>>

AtlOpenFailed ==
  /\ Received("AtlOpenFailed")
  /\ processAgpsEventDenied(Head(queue).nif, TakeMessage)
  /\ UNCHANGED <<created, mConnected, wds, lookups, up, history>>

AtlClosed ==
  /\ Received("AtlClosed")
  /\ processAgpsEventReleased(Head(queue).nif, TakeMessage)
  /\ UNCHANGED <<created, mConnected, wds, lookups, up, history>>

\* The engine is up again after a modem restart.  Nothing here concerns
\* AgpsManager: AgpsManager::handleModemSSR has no caller.
HandleEngineUpEvent ==
  /\ Received("HandleEngineUpEvent")
  /\ NoCall(TakeMessage)
  /\ UNCHANGED <<smVars, mConnected, wds, lookups, up, modem, history>>

\* createAgpsStateMachines, once for each client: NativeAgpsHandler at start
\* ("internet"), AGnss::setCallback of the framework ("agnss").
createAgpsStateMachines(n) ==
  /\ n \notin created
  /\ created' = created \cup {n}
  /\ UNCHANGED <<state, active, inactive, queue, mConnected, wds, lookups,
                 calls, up, modem, history>>

\* NativeAgpsHandler::notify, on a change of the network.
NotifyNetworkInfo ==
  /\ mConnected' = ~mConnected
  /\ UNCHANGED <<smVars, queue, wds, lookups, calls, up, modem, history>>

-----------------------------------------------------------------------------
(* The framework behind "agnss" (external).  It answers the status calls   *)
(* in order through AGnss; GnssAdapter posts each answer to its queue.     *)

Backlog == Len(queue) + Len(calls) + lookups["agnss"] + lookups["internet"]

FrameworkPost(type) == queue' = Append(queue, [type |-> type, nif |-> "agnss"])

FrameworkOpens ==
  /\ calls # <<>> /\ Head(calls) = "request"
  /\ calls' = Tail(calls)
  /\ up' = TRUE
  /\ FrameworkPost("AtlOpenSuccess")
  /\ UNCHANGED <<smVars, mConnected, wds, lookups, modem, history>>

FrameworkFails ==
  /\ calls # <<>> /\ Head(calls) = "request"
  /\ calls' = Tail(calls)
  /\ FrameworkPost("AtlOpenFailed")
  /\ UNCHANGED <<smVars, mConnected, wds, lookups, up, modem, history>>

FrameworkCloses ==
  /\ calls # <<>> /\ Head(calls) = "release"
  /\ calls' = Tail(calls)
  /\ up' = FALSE
  /\ FrameworkPost("AtlClosed")
  /\ UNCHANGED <<smVars, mConnected, wds, lookups, modem, history>>

FrameworkLosesConnection ==
  /\ up
  /\ Backlog < MaxBacklog
  /\ up' = FALSE
  /\ FrameworkPost("AtlClosed")
  /\ UNCHANGED <<smVars, mConnected, wds, lookups, calls, modem, history>>

\* dataConnOpenCommand with an APN it refuses: reportAtlClosed, on the spot.
FrameworkOpensBadApn ==
  /\ calls # <<>> /\ Head(calls) = "request"
  /\ up' = TRUE
  /\ refused' = TRUE
  /\ processAgpsEventReleased("agnss", TakeCall)
  /\ UNCHANGED <<created, mConnected, wds, lookups, ssrs>>

-----------------------------------------------------------------------------
(* The modem (external).  A handle is opened again only when the modem has *)
(* been told that its last use ended.  GnssAdapter::requestATL and         *)
(* releaseATL post each request to the queue.                              *)

\* The requests reach GnssAdapter once initAgps registered for them.
ModemOpens(h, n) ==
  /\ modem[h] = "idle"
  /\ <<h, n>> \in Routes
  /\ created # {}
  /\ Backlog < MaxBacklog
  /\ modem' = [modem EXCEPT ![h] = "opening"]
  /\ queue' = Append(queue, [type |-> "RequestATL", nif |-> n, handle |-> h])
  /\ UNCHANGED <<smVars, mConnected, wds, lookups, calls, up, history>>

ModemCloses(h) ==
  /\ modem[h] \in {"opening", "open"}
  /\ modem' = [modem EXCEPT ![h] = "closing"]
  /\ queue' = Append(queue, [type |-> "ReleaseATL", handle |-> h])
  /\ UNCHANGED <<smVars, mConnected, wds, lookups, calls, up, history>>

\* A modem restart forgets every handle.  LocSsrMsg reopens the engine and
\* GnssAdapter::handleEngineUpEvent posts the message.
ModemRestarts ==
  /\ ssrs < MaxSsr
  /\ Backlog < MaxBacklog
  /\ ssrs' = ssrs + 1
  /\ modem' = [h \in Handles |-> "idle"]
  /\ queue' = Append(queue, [type |-> "HandleEngineUpEvent"])
  /\ UNCHANGED <<smVars, mConnected, wds, lookups, calls, up, refused>>

-----------------------------------------------------------------------------
Process ==
  \/ RequestATL \/ ReleaseATL
  \/ AtlOpenSuccess \/ ReportAtlPdn \/ AtlOpenFailed \/ AtlClosed
  \/ HandleEngineUpEvent

FrameworkAnswers ==
  FrameworkOpens \/ FrameworkFails \/ FrameworkCloses \/ FrameworkOpensBadApn

Next ==
  \/ Process
  \/ \E n \in Nifs : reportPdnTypeFromWds(n) \/ createAgpsStateMachines(n)
  \/ NotifyNetworkInfo
  \/ FrameworkAnswers \/ FrameworkLosesConnection
  \/ \E h \in Handles : ModemCloses(h) \/ \E n \in Nifs : ModemOpens(h, n)
  \/ ModemRestarts

\* The message thread takes every message, and the framework and the WDS
\* library answer every call.  Nothing obliges the modem.
Fairness ==
  /\ WF_vars(Process)
  /\ WF_vars(FrameworkAnswers)
  /\ \A n \in Nifs : WF_vars(reportPdnTypeFromWds(n))

Spec == Init /\ [][Next]_vars /\ Fairness

-----------------------------------------------------------------------------
(* Properties                                                              *)

\* Is a message about handle h, or any answer for NIF n, still on its way?
InFlightHandle(h) == \E i \in DOMAIN queue :
                       queue[i].type \in {"RequestATL", "ReleaseATL"} /\ queue[i].handle = h
InFlightNif(n) ==
  \/ \E i \in DOMAIN queue :
       queue[i].type \in {"AtlOpenSuccess", "ReportAtlPdn", "AtlOpenFailed", "AtlClosed"}
       /\ queue[i].nif = n
  \/ lookups[n] > 0
  \/ n = "agnss" /\ calls # <<>>

\* A state machine's state and its subscriber list agree (the assumption behind
\* every switch of Agps.cpp): no subscriber when RELEASED, a waiting or served
\* one when PENDING or ACQUIRED, one that waits for the close when RELEASING.
StateMatchesSubscribers == \A n \in Nifs :
  /\ state[n] = "RELEASED" => Subscribers(n) = {}
  /\ state[n] \in {"PENDING", "ACQUIRED"} => active[n] # {}
  /\ state[n] = "RELEASING" => inactive[n] # {}
  /\ active[n] \cap inactive[n] = {}

\* When nothing about it is on its way, the modem and the subscriber lists agree
\* on a handle: an idle one is nowhere, an open one is an active subscriber of
\* a state machine that has its connection.
Agreement(h) ==
  ~InFlightHandle(h) =>
    /\ modem[h] = "idle" => \A n \in Nifs : h \notin Subscribers(n)
    /\ modem[h] = "open" => \E n \in Nifs : state[n] = "ACQUIRED" /\ h \in active[n]
    /\ modem[h] = "closing" => \E n \in Nifs : h \in inactive[n]
    /\ modem[h] = "opening" =>
         \E n \in Nifs : h \in active[n] /\ state[n] \in {"PENDING", "RELEASING"}
ModemAgrees == ssrs = 0 => \A h \in Handles : Agreement(h)

\* A handle the modem opens is answered (or given up by the modem), whatever
\* the order of requests, releases and answers.
OpenIsAnswered == \A h \in Handles :
  (modem[h] = "opening") ~> (modem[h] # "opening" \/ refused \/ ssrs > 0)

\* Once the modem has closed all its handles for good, every close is confirmed
\* and the data connections are released.
ClosedHandlesRelease ==
  <>[](\A h \in Handles : modem[h] \in {"idle", "closing"}) =>
    <>[](ssrs > 0 \/ \A h \in Handles : modem[h] = "idle" /\ \A n \in Nifs : state[n] = "RELEASED")

=============================================================================
