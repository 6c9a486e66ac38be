----------------------------- MODULE AgpsProofs -----------------------------
(***************************************************************************)
(* For every set of handles and every bound: the types of Agps are kept,   *)
(* and the state of each state machine agrees with its subscriber list.    *)
(* The second fact is inductive together with the first.  On both rests    *)
(* the third: the modem and the lists agree on every handle.  It needs     *)
(* what the messages still queued about a handle may say of it.            *)
(***************************************************************************)
EXTENDS Agps, SequenceTheorems, TLAPS

Calls == {"request", "release"}

\* What is left of queue and calls, as an event handler receives it.
Rest == [queue : Seq(Messages), calls : Seq(Calls)]

\* The part of TypeOK an event handler can disturb.
HandlerTypes ==
  /\ state \in [Nifs -> AgpsStates]
  /\ active \in [Nifs -> SUBSET Handles]
  /\ inactive \in [Nifs -> SUBSET Handles]
  /\ queue \in Seq(Messages)
  /\ calls \in Seq(Calls)
  /\ modem \in [Handles -> ModemStates]

IInv == TypeOK /\ StateMatchesSubscribers

\* Telling the modem keeps what it knows of its handles well-typed.
LEMMA TellType ==
  ASSUME modem \in [Handles -> ModemStates], NEW granted, NEW ended, Tell(granted, ended)
  PROVE  modem' \in [Handles -> ModemStates]
BY DEF Tell, ModemStates

\* An answer of NativeAgpsHandler is a message.
LEMMA NativeAnswerType ==
  ASSUME NEW call PROVE NativeAnswer(call) \in Messages
BY DEF NativeAnswer, Messages, Answers, Nifs

\* A status call leaves well-typed queues.
LEMMA CallType ==
  ASSUME NEW n, NEW call \in Calls, NEW left \in Rest,
         requestOrReleaseDataConn(n, call, left)
  PROVE  queue' \in Seq(Messages) /\ calls' \in Seq(Calls)
<1>1. left.queue \in Seq(Messages) /\ left.calls \in Seq(Calls)
  BY DEF Rest
<1>2. CASE n = "internet"
  <2>1. queue' = Append(left.queue, NativeAnswer(call)) /\ calls' = left.calls
    BY <1>2 DEF requestOrReleaseDataConn
  <2>2. QED
    BY <1>1, <2>1, NativeAnswerType
<1>3. CASE n # "internet"
  <2>1. queue' = left.queue /\ calls' = Append(left.calls, call)
    BY <1>3 DEF requestOrReleaseDataConn
  <2>2. QED
    BY <1>1, <2>1
<1>4. QED
  BY <1>2, <1>3

\* No status call: what is left is well-typed as it is.
LEMMA NoCallType ==
  ASSUME NEW left \in Rest, NoCall(left)
  PROVE  queue' \in Seq(Messages) /\ calls' \in Seq(Calls)
BY DEF Rest, NoCall

\* The event SUBSCRIBE.
LEMMA SubscribeKeeps ==
  ASSUME HandlerTypes, StateMatchesSubscribers, NEW n \in Nifs, NEW h \in Handles,
         NEW left \in Rest, processAgpsEventSubscribe(n, h, left)
  PROVE  HandlerTypes' /\ StateMatchesSubscribers'
<1>1. /\ active' \in [Nifs -> SUBSET Handles]
      /\ inactive' = inactive
      /\ active' = [active EXCEPT ![n] = active'[n]]
      /\ active[n] \subseteq active'[n]
      /\ active'[n] \cup inactive[n] = active[n] \cup inactive[n] \cup {h}
      /\ active'[n] \cap inactive[n] = {}
  BY DEF processAgpsEventSubscribe, addSubscriber, Subscribers, HandlerTypes,
         StateMatchesSubscribers
<1>2. CASE state[n] = "RELEASED"
  <2>1. /\ requestOrReleaseDataConn(n, "request", left)
        /\ state' = [state EXCEPT ![n] = "PENDING"]
        /\ modem' = modem
    BY <1>2 DEF processAgpsEventSubscribe, transitionState
  <2>2. inactive[n] = {} /\ active'[n] # {}
    BY <1>1, <1>2 DEF StateMatchesSubscribers, Subscribers
  <2>3. HandlerTypes'
    BY <1>1, <2>1, CallType DEF HandlerTypes, AgpsStates, Calls
  <2>4. StateMatchesSubscribers'
    BY <1>1, <2>1, <2>2 DEF StateMatchesSubscribers, Subscribers, HandlerTypes
  <2>5. QED
    BY <2>3, <2>4
<1>3. CASE state[n] # "RELEASED"
  <2>1. NoCall(left) /\ state' = state
    BY <1>3 DEF processAgpsEventSubscribe
  <2>2. modem' \in [Handles -> ModemStates]
    BY <1>3, TellType DEF processAgpsEventSubscribe, HandlerTypes
  <2>3. HandlerTypes'
    BY <1>1, <2>1, <2>2, NoCallType DEF HandlerTypes
  <2>4. StateMatchesSubscribers'
    BY <1>1, <1>3, <2>1 DEF StateMatchesSubscribers, Subscribers, HandlerTypes
  <2>5. QED
    BY <2>3, <2>4
<1>4. QED
  BY <1>2, <1>3

\* The event UNSUBSCRIBE of a handle that subscribes.
LEMMA UnsubscribeKeeps ==
  ASSUME HandlerTypes, StateMatchesSubscribers, NEW n \in Nifs, NEW h \in Handles,
         h \in Subscribers(n), NEW left \in Rest, processAgpsEventUnsubscribe(n, h, left)
  PROVE  HandlerTypes' /\ StateMatchesSubscribers'
<1>1. state[n] # "RELEASED"
  BY DEF StateMatchesSubscribers
<1>2. /\ active' = [active EXCEPT ![n] = @ \ {h}]
      /\ inactive' = [inactive EXCEPT ![n] = @ \cup {h}]
      /\ modem' = modem
  BY <1>1 DEF processAgpsEventUnsubscribe
<1>3. CASE state[n] \in {"PENDING", "ACQUIRED"} /\ active[n] \subseteq {h}
  <2>1. state' = [state EXCEPT ![n] = "RELEASING"]
        /\ requestOrReleaseDataConn(n, "release", left)
    BY <1>1, <1>3 DEF processAgpsEventUnsubscribe, transitionState
  <2>2. HandlerTypes'
    BY <1>2, <2>1, CallType DEF HandlerTypes, AgpsStates, Calls
  <2>3. StateMatchesSubscribers'
    BY <1>2, <2>1 DEF StateMatchesSubscribers, Subscribers, HandlerTypes
  <2>4. QED
    BY <2>2, <2>3
<1>4. CASE ~(state[n] \in {"PENDING", "ACQUIRED"} /\ active[n] \subseteq {h})
  <2>1. state' = state /\ NoCall(left)
    BY <1>1, <1>4 DEF processAgpsEventUnsubscribe
  <2>2. HandlerTypes'
    BY <1>2, <2>1, NoCallType DEF HandlerTypes
  <2>3. StateMatchesSubscribers'
    BY <1>1, <1>2, <1>4, <2>1 DEF StateMatchesSubscribers, Subscribers, HandlerTypes, AgpsStates
  <2>4. QED
    BY <2>2, <2>3
<1>5. QED
  BY <1>3, <1>4

\* The event GRANTED.
LEMMA GrantedKeeps ==
  ASSUME HandlerTypes, StateMatchesSubscribers, NEW n \in Nifs,
         NEW left \in Rest, processAgpsEventGranted(n, left)
  PROVE  HandlerTypes' /\ StateMatchesSubscribers'
<1>1. active' = active /\ inactive' = inactive /\ NoCall(left)
  BY DEF processAgpsEventGranted
<1>2. modem' \in [Handles -> ModemStates]
  BY TellType DEF processAgpsEventGranted, HandlerTypes
<1>3. \/ state[n] = "PENDING" /\ state' = [state EXCEPT ![n] = "ACQUIRED"]
      \/ state' = state
  BY DEF processAgpsEventGranted, transitionState
<1>4. HandlerTypes'
  BY <1>1, <1>2, <1>3, NoCallType DEF HandlerTypes, AgpsStates
<1>5. StateMatchesSubscribers'
  BY <1>1, <1>3 DEF StateMatchesSubscribers, Subscribers, HandlerTypes
<1>6. QED
  BY <1>4, <1>5

\* Every subscriber told and deleted, the state machine back in RELEASED.
LEMMA DropAllKeeps ==
  ASSUME HandlerTypes, StateMatchesSubscribers, NEW n \in Nifs, NEW left \in Rest,
         transitionState(n, "RELEASED"), DropAll(n), NoCall(left)
  PROVE  HandlerTypes' /\ StateMatchesSubscribers'
<1>1. /\ state' = [state EXCEPT ![n] = "RELEASED"]
      /\ active' = [active EXCEPT ![n] = {}]
      /\ inactive' = [inactive EXCEPT ![n] = {}]
  BY DEF transitionState, DropAll
<1>2. modem' \in [Handles -> ModemStates]
  BY TellType DEF DropAll, HandlerTypes
<1>3. HandlerTypes'
  BY <1>1, <1>2, NoCallType DEF HandlerTypes, AgpsStates
<1>4. StateMatchesSubscribers'
  BY <1>1 DEF StateMatchesSubscribers, Subscribers, HandlerTypes
<1>5. QED
  BY <1>3, <1>4

\* A release that is complete.
LEMMA FinishReleaseKeeps ==
  ASSUME HandlerTypes, StateMatchesSubscribers, NEW n \in Nifs, NEW left \in Rest,
         FinishRelease(n, left)
  PROVE  HandlerTypes' /\ StateMatchesSubscribers'
<1>1. active' = active /\ inactive' = [inactive EXCEPT ![n] = {}]
  BY DEF FinishRelease
<1>2. modem' \in [Handles -> ModemStates]
  BY TellType DEF FinishRelease, HandlerTypes
<1>3. CASE active[n] # {}
  <2>1. state' = [state EXCEPT ![n] = "PENDING"]
        /\ requestOrReleaseDataConn(n, "request", left)
    BY <1>3 DEF FinishRelease, transitionState
  <2>2. HandlerTypes'
    BY <1>1, <1>2, <2>1, CallType DEF HandlerTypes, AgpsStates, Calls
  <2>3. StateMatchesSubscribers'
    BY <1>1, <1>3, <2>1 DEF StateMatchesSubscribers, Subscribers, HandlerTypes
  <2>4. QED
    BY <2>2, <2>3
<1>4. CASE active[n] = {}
  <2>1. state' = [state EXCEPT ![n] = "RELEASED"] /\ NoCall(left)
    BY <1>4 DEF FinishRelease, transitionState
  <2>2. HandlerTypes'
    BY <1>1, <1>2, <2>1, NoCallType DEF HandlerTypes, AgpsStates
  <2>3. StateMatchesSubscribers'
    BY <1>1, <1>4, <2>1 DEF StateMatchesSubscribers, Subscribers, HandlerTypes
  <2>4. QED
    BY <2>2, <2>3
<1>5. QED
  BY <1>3, <1>4

\* An event that changes nothing but the queue.
LEMMA IgnoredKeeps ==
  ASSUME HandlerTypes, StateMatchesSubscribers, NEW left \in Rest, NoCall(left),
         UNCHANGED <<state, active, inactive>>, modem' \in [Handles -> ModemStates]
  PROVE  HandlerTypes' /\ StateMatchesSubscribers'
BY NoCallType DEF HandlerTypes, StateMatchesSubscribers, Subscribers

\* The event RELEASED.
LEMMA ReleasedKeeps ==
  ASSUME HandlerTypes, StateMatchesSubscribers, NEW n \in Nifs,
         NEW left \in Rest, processAgpsEventReleased(n, left)
  PROVE  HandlerTypes' /\ StateMatchesSubscribers'
<1>1. CASE state[n] \in {"RELEASED", "PENDING"}
  <2>1. NoCall(left) /\ UNCHANGED <<state, active, inactive, modem>>
    BY <1>1 DEF processAgpsEventReleased
  <2>2. QED
    BY <2>1, IgnoredKeeps DEF HandlerTypes
<1>2. CASE state[n] = "ACQUIRED"
  BY <1>2, DropAllKeeps DEF processAgpsEventReleased
<1>3. CASE state[n] = "RELEASING"
  BY <1>3, FinishReleaseKeeps DEF processAgpsEventReleased
<1>4. QED
  BY <1>1, <1>2, <1>3 DEF HandlerTypes, AgpsStates

\* The event DENIED.
LEMMA DeniedKeeps ==
  ASSUME HandlerTypes, StateMatchesSubscribers, NEW n \in Nifs,
         NEW left \in Rest, processAgpsEventDenied(n, left)
  PROVE  HandlerTypes' /\ StateMatchesSubscribers'
<1>1. CASE state[n] \in {"RELEASED", "ACQUIRED"}
  <2>1. NoCall(left) /\ UNCHANGED <<state, active, inactive, modem>>
    BY <1>1 DEF processAgpsEventDenied
  <2>2. QED
    BY <2>1, IgnoredKeeps DEF HandlerTypes
<1>2. CASE state[n] = "PENDING"
  BY <1>2, DropAllKeeps DEF processAgpsEventDenied
<1>3. CASE state[n] = "RELEASING"
  BY <1>3, FinishReleaseKeeps DEF processAgpsEventDenied
<1>4. QED
  BY <1>1, <1>2, <1>3 DEF HandlerTypes, AgpsStates

-----------------------------------------------------------------------------
\* What an action hands to an event handler is well-typed.
LEMMA TakeTypes ==
  ASSUME TypeOK
  PROVE  /\ queue # <<>> => /\ TakeMessage \in Rest
                            /\ Head(queue) \in Messages
         /\ calls # <<>> => TakeCall \in Rest
<1>1. queue # <<>> => Tail(queue) \in Seq(Messages) /\ Head(queue) \in Messages
  BY DEF TypeOK
<1>2. calls # <<>> => Tail(calls) \in Seq(Calls)
  BY DEF TypeOK, Calls
<1>3. QED
  BY <1>1, <1>2 DEF TakeMessage, TakeCall, Rest, TypeOK, Calls

\* TypeOK is HandlerTypes and the rest.
LEMMA TypeSplit ==
  TypeOK <=> /\ HandlerTypes
             /\ created \subseteq Nifs
             /\ mConnected \in BOOLEAN
             /\ wds \in BOOLEAN
             /\ lookups \in [Nifs -> Nat]
             /\ up \in BOOLEAN
             /\ refused \in BOOLEAN
             /\ ssrs \in 0..MaxSsr
BY DEF TypeOK, HandlerTypes, Calls

\* A message that names a NIF or a handle names one that exists.
LEMMA MessageFields ==
  ASSUME NEW m \in Messages
  PROVE  /\ m.type = "RequestATL" => m.nif \in Nifs /\ m.handle \in Handles
         /\ m.type = "ReleaseATL" => m.handle \in Handles
         /\ m.type \in {"AtlOpenSuccess", "ReportAtlPdn", "AtlOpenFailed", "AtlClosed"}
              => m.nif \in Nifs
BY DEF Messages, Requests, Releases, Answers, Controls

\* The messages of GnssAdapter's thread, one step each.
LEMMA ProcessKeeps ==
  ASSUME IInv, Process
  PROVE  IInv'
<1>1. /\ HandlerTypes /\ StateMatchesSubscribers
      /\ TakeMessage \in Rest /\ Head(queue) \in Messages
  BY TakeTypes, TypeSplit DEF IInv, Process, RequestATL, ReleaseATL, AtlOpenSuccess,
     ReportAtlPdn, AtlOpenFailed, AtlClosed, HandleEngineUpEvent, Received
<1> DEFINE m == Head(queue)
<1>2. CASE RequestATL
  <2>1. m.nif \in Nifs /\ m.handle \in Handles
    BY <1>1, <1>2, MessageFields DEF RequestATL, Received
  <2>2. CASE m.nif \in created
    <3>1. processAgpsEventSubscribe(m.nif, m.handle, TakeMessage)
      BY <1>2, <2>2 DEF RequestATL
    <3>2. HandlerTypes' /\ StateMatchesSubscribers'
      BY <1>1, <2>1, <3>1, SubscribeKeeps
    <3>3. QED
      BY <1>2, <3>2 DEF IInv, TypeOK, HandlerTypes, Calls, RequestATL, history
  <2>3. CASE m.nif \notin created
    <3>1. /\ Tell({}, {m.handle})
          /\ NoCall(TakeMessage)
          /\ UNCHANGED <<state, active, inactive>>
      BY <1>2, <2>3 DEF RequestATL
    <3>2. modem' \in [Handles -> ModemStates]
      BY <1>1, <3>1, TellType DEF HandlerTypes
    <3>3. HandlerTypes' /\ StateMatchesSubscribers'
      BY <1>1, <3>1, <3>2, IgnoredKeeps
    <3>4. QED
      BY <1>2, <3>3 DEF IInv, TypeOK, HandlerTypes, Calls, RequestATL, history
  <2>4. QED
    BY <2>2, <2>3
<1>3. CASE ReleaseATL
  <2>1. m.handle \in Handles
    BY <1>1, <1>3, MessageFields DEF ReleaseATL, Received
  <2>2. HandlerTypes' /\ StateMatchesSubscribers'
    <3>1. CASE \E n \in Nifs : m.handle \in Subscribers(n)
                               /\ processAgpsEventUnsubscribe(n, m.handle, TakeMessage)
      BY <1>1, <2>1, <3>1, UnsubscribeKeeps
    <3>2. CASE NoCall(TakeMessage) /\ UNCHANGED <<state, active, inactive, modem>>
      BY <1>1, <3>2, IgnoredKeeps DEF HandlerTypes
    <3>3. QED
      BY <1>3, <3>1, <3>2 DEF ReleaseATL
  <2>3. QED
    BY <1>3, <2>2 DEF IInv, TypeOK, HandlerTypes, Calls, ReleaseATL, history
<1>4. CASE AtlOpenSuccess
  <2>1. m.nif \in Nifs
    BY <1>1, <1>4, MessageFields DEF AtlOpenSuccess, Received
  <2>2. CASE wds
    <3>1. /\ lookups' = [lookups EXCEPT ![m.nif] = @ + 1]
          /\ NoCall(TakeMessage)
          /\ UNCHANGED <<state, active, inactive, modem>>
      BY <1>4, <2>2 DEF AtlOpenSuccess
    <3>2. HandlerTypes' /\ StateMatchesSubscribers'
      BY <1>1, <3>1, IgnoredKeeps DEF HandlerTypes
    <3>3. lookups' \in [Nifs -> Nat]
      BY <2>1, <3>1 DEF IInv, TypeOK
    <3>4. QED
      BY <1>4, <3>2, <3>3 DEF IInv, TypeOK, HandlerTypes, Calls, AtlOpenSuccess, history
  <2>3. CASE ~wds
    <3>1. processAgpsEventGranted(m.nif, TakeMessage) /\ lookups' = lookups
      BY <1>4, <2>3 DEF AtlOpenSuccess
    <3>2. HandlerTypes' /\ StateMatchesSubscribers'
      BY <1>1, <2>1, <3>1, GrantedKeeps
    <3>3. QED
      BY <1>4, <3>1, <3>2 DEF IInv, TypeOK, HandlerTypes, Calls, AtlOpenSuccess, history
  <2>4. QED
    BY <2>2, <2>3
<1>5. CASE ReportAtlPdn
  <2>1. HandlerTypes' /\ StateMatchesSubscribers'
    BY <1>1, <1>5, MessageFields, GrantedKeeps DEF ReportAtlPdn, Received
  <2>2. QED
    BY <1>5, <2>1 DEF IInv, TypeOK, HandlerTypes, Calls, ReportAtlPdn, history
<1>6. CASE AtlOpenFailed
  <2>1. HandlerTypes' /\ StateMatchesSubscribers'
    BY <1>1, <1>6, MessageFields, DeniedKeeps DEF AtlOpenFailed, Received
  <2>2. QED
    BY <1>6, <2>1 DEF IInv, TypeOK, HandlerTypes, Calls, AtlOpenFailed, history
<1>7. CASE AtlClosed
  <2>1. HandlerTypes' /\ StateMatchesSubscribers'
    BY <1>1, <1>7, MessageFields, ReleasedKeeps DEF AtlClosed, Received
  <2>2. QED
    BY <1>7, <2>1 DEF IInv, TypeOK, HandlerTypes, Calls, AtlClosed, history
<1>8. CASE HandleEngineUpEvent
  <2>1. HandlerTypes' /\ StateMatchesSubscribers'
    BY <1>1, <1>8, IgnoredKeeps DEF HandleEngineUpEvent, smVars, HandlerTypes
  <2>2. QED
    BY <1>8, <2>1 DEF IInv, TypeOK, HandlerTypes, Calls, HandleEngineUpEvent, history, smVars
<1>9. QED
  BY <1>2, <1>3, <1>4, <1>5, <1>6, <1>7, <1>8 DEF Process

\* A message appended to the queue is all a step changes in the handlers' state.
LEMMA PostKeeps ==
  ASSUME IInv, NEW m \in Messages, queue' = Append(queue, m), UNCHANGED smVars
  PROVE  StateMatchesSubscribers' /\ queue' \in Seq(Messages)
BY DEF IInv, TypeOK, StateMatchesSubscribers, Subscribers, smVars

\* The framework, the WDS library, the network and the modem.
LEMMA EnvironmentKeeps ==
  ASSUME IInv, Next, ~Process
  PROVE  IInv'
<1>1. CASE \E n \in Nifs : reportPdnTypeFromWds(n)
  <2>1. PICK n \in Nifs : reportPdnTypeFromWds(n)
    BY <1>1
  <2>2. [type |-> "ReportAtlPdn", nif |-> n] \in Messages
    BY DEF Messages, Answers
  <2>3. StateMatchesSubscribers' /\ queue' \in Seq(Messages)
    BY <2>1, <2>2, PostKeeps DEF reportPdnTypeFromWds
  <2>4. lookups' \in [Nifs -> Nat]
    BY <2>1 DEF reportPdnTypeFromWds, IInv, TypeOK
  <2>5. QED
    BY <2>1, <2>3, <2>4 DEF reportPdnTypeFromWds, IInv, TypeOK, smVars, history
<1>2. CASE \E n \in Nifs : createAgpsStateMachines(n)
  BY <1>2 DEF createAgpsStateMachines, IInv, TypeOK, StateMatchesSubscribers, Subscribers,
     history
<1>3. CASE NotifyNetworkInfo
  BY <1>3 DEF NotifyNetworkInfo, IInv, TypeOK, StateMatchesSubscribers, Subscribers,
     smVars, history
<1>4. CASE FrameworkOpens \/ FrameworkFails \/ FrameworkCloses \/ FrameworkLosesConnection
  <2>1. PICK type \in {"AtlOpenSuccess", "AtlOpenFailed", "AtlClosed"} : FrameworkPost(type)
    BY <1>4 DEF FrameworkOpens, FrameworkFails, FrameworkCloses, FrameworkLosesConnection
  <2>2. [type |-> type, nif |-> "agnss"] \in Messages
    BY DEF Messages, Answers, Nifs
  <2>3. StateMatchesSubscribers' /\ queue' \in Seq(Messages)
    BY <1>4, <2>1, <2>2, PostKeeps DEF FrameworkPost, FrameworkOpens, FrameworkFails,
       FrameworkCloses, FrameworkLosesConnection
  <2>4. calls' \in Seq(Calls)
    <3>1. calls \in Seq(Calls)
      BY DEF IInv, TypeOK, Calls
    <3>2. calls' = calls \/ (calls # <<>> /\ calls' = Tail(calls))
      BY <1>4 DEF FrameworkOpens, FrameworkFails, FrameworkCloses, FrameworkLosesConnection
    <3>3. QED
      BY <3>1, <3>2
  <2>5. QED
    BY <1>4, <2>3, <2>4 DEF FrameworkOpens, FrameworkFails, FrameworkCloses,
       FrameworkLosesConnection, IInv, TypeOK, smVars, history, Calls
<1>5. CASE FrameworkOpensBadApn
  <2>1. HandlerTypes /\ StateMatchesSubscribers /\ TakeCall \in Rest
    BY <1>5, TakeTypes, TypeSplit DEF IInv, FrameworkOpensBadApn
  <2>2. HandlerTypes' /\ StateMatchesSubscribers'
    BY <1>5, <2>1, ReleasedKeeps DEF FrameworkOpensBadApn, Nifs
  <2>3. QED
    BY <1>5, <2>2 DEF IInv, TypeOK, HandlerTypes, Calls, FrameworkOpensBadApn
<1>6. CASE \E h \in Handles, n \in Nifs : ModemOpens(h, n)
  <2>1. PICK h \in Handles, n \in Nifs : ModemOpens(h, n)
    BY <1>6
  <2>2. [type |-> "RequestATL", nif |-> n, handle |-> h] \in Messages
    BY DEF Messages, Requests
  <2>3. StateMatchesSubscribers' /\ queue' \in Seq(Messages)
    BY <2>1, <2>2, PostKeeps DEF ModemOpens
  <2>4. modem' \in [Handles -> ModemStates]
    BY <2>1 DEF ModemOpens, IInv, TypeOK, ModemStates
  <2>5. QED
    BY <2>1, <2>3, <2>4 DEF ModemOpens, IInv, TypeOK, smVars, history
<1>7. CASE \E h \in Handles : ModemCloses(h)
  <2>1. PICK h \in Handles : ModemCloses(h)
    BY <1>7
  <2>2. [type |-> "ReleaseATL", handle |-> h] \in Messages
    BY DEF Messages, Releases
  <2>3. StateMatchesSubscribers' /\ queue' \in Seq(Messages)
    BY <2>1, <2>2, PostKeeps DEF ModemCloses
  <2>4. modem' \in [Handles -> ModemStates]
    BY <2>1 DEF ModemCloses, IInv, TypeOK, ModemStates
  <2>5. QED
    BY <2>1, <2>3, <2>4 DEF ModemCloses, IInv, TypeOK, smVars, history
<1>8. CASE ModemRestarts
  <2>1. [type |-> "HandleEngineUpEvent"] \in Messages
    BY DEF Messages, Controls
  <2>2. StateMatchesSubscribers' /\ queue' \in Seq(Messages)
    BY <1>8, <2>1, PostKeeps DEF ModemRestarts
  <2>3. modem' \in [Handles -> ModemStates]
    BY <1>8 DEF ModemRestarts, ModemStates
  <2>4. ssrs' \in 0..MaxSsr
    BY <1>8, BoundsAssumption DEF ModemRestarts, IInv, TypeOK
  <2>5. QED
    BY <1>8, <2>2, <2>3, <2>4 DEF ModemRestarts, IInv, TypeOK, smVars
<1>9. \/ Process
      \/ \E n \in Nifs : reportPdnTypeFromWds(n)
      \/ \E n \in Nifs : createAgpsStateMachines(n)
      \/ NotifyNetworkInfo
      \/ FrameworkOpens \/ FrameworkFails \/ FrameworkCloses \/ FrameworkLosesConnection
      \/ FrameworkOpensBadApn
      \/ \E h \in Handles, n \in Nifs : ModemOpens(h, n)
      \/ \E h \in Handles : ModemCloses(h)
      \/ ModemRestarts
  BY Zenon DEF Next, FrameworkAnswers
<1>10. QED
  BY <1>1, <1>2, <1>3, <1>4, <1>5, <1>6, <1>7, <1>8, <1>9

\* Both invariants hold at the start and are kept by every step.
LEMMA Inductive == Spec => []IInv
<1>1. Init => IInv
  <2> SUFFICES ASSUME Init PROVE IInv
    OBVIOUS
  <2>1. created \subseteq Nifs /\ queue \in Seq(Messages) /\ calls \in Seq({"request", "release"})
    BY DEF Init
  <2>2. mConnected \in BOOLEAN /\ wds \in BOOLEAN /\ up \in BOOLEAN /\ refused \in BOOLEAN
    BY DEF Init
  <2>3. ssrs \in 0..MaxSsr /\ lookups \in [Nifs -> Nat]
    BY BoundsAssumption DEF Init
  <2>4. /\ state \in [Nifs -> AgpsStates]
        /\ active \in [Nifs -> SUBSET Handles]
        /\ inactive \in [Nifs -> SUBSET Handles]
        /\ modem \in [Handles -> ModemStates]
    BY DEF Init, AgpsStates, ModemStates
  <2>5. StateMatchesSubscribers
    BY DEF Init, StateMatchesSubscribers, Subscribers
  <2>6. QED
    BY <2>1, <2>2, <2>3, <2>4, <2>5 DEF IInv, TypeOK
<1>2. IInv /\ [Next]_vars => IInv'
  <2> SUFFICES ASSUME IInv, [Next]_vars PROVE IInv'
    OBVIOUS
  <2>1. CASE Process
    BY <2>1, ProcessKeeps
  <2>2. CASE Next /\ ~Process
    BY <2>2, EnvironmentKeeps
  <2>3. CASE UNCHANGED vars
    BY <2>3 DEF vars, smVars, history, IInv, TypeOK, StateMatchesSubscribers, Subscribers
  <2>4. QED
    BY <2>1, <2>2, <2>3
<1>3. QED
  BY <1>1, <1>2, PTL DEF Spec

\* Every variable keeps its type, for any set of handles and any bound.
THEOREM TypeCorrect == Spec => []TypeOK
<1>1. IInv => TypeOK
  BY DEF IInv
<1>2. QED
  BY <1>1, Inductive, PTL

\* A state machine is RELEASED exactly when nobody subscribes, PENDING or
\* ACQUIRED only with an active subscriber, RELEASING only while one waits for
\* the close: whatever the order of requests, releases, answers and restarts.
THEOREM SubscribersCorrect == Spec => []StateMatchesSubscribers
<1>1. IInv => StateMatchesSubscribers
  BY DEF IInv
<1>2. QED
  BY <1>1, Inductive, PTL

-----------------------------------------------------------------------------
(* What the modem has asked and what the lists say.  The messages about a  *)
(* handle are followed through the queue.                                  *)

IsRequest(m, h) == m.type = "RequestATL" /\ m.handle = h
IsRelease(m, h) == m.type = "ReleaseATL" /\ m.handle = h

Requested(q, h) == \E i \in DOMAIN q : IsRequest(q[i], h)
Released(q, h)  == \E i \in DOMAIN q : IsRelease(q[i], h)
ReleasedAfter(q, h) ==
  \E i, j \in DOMAIN q : i < j /\ IsRequest(q[i], h) /\ IsRelease(q[j], h)
RequestedTwice(q, h) ==
  \E i, j \in DOMAIN q : i < j /\ IsRequest(q[i], h) /\ IsRequest(q[j], h)

Listed(h) == \E n \in Nifs : h \in Subscribers(n)

\* A handle is in one list.  While its request is on its way it is in none, and
\* the modem waits for it or has taken it back behind it; after that the lists
\* say of it what the modem knows, but for a release on its way.  A release of
\* a handle the modem was told the end of may still come, and finds it in no list.
Followed(h) ==
  /\ ~RequestedTwice(queue, h)
  /\ \A n1, n2 \in Nifs : h \in Subscribers(n1) /\ h \in Subscribers(n2) => n1 = n2
  /\ Requested(queue, h) =>
       /\ ~Listed(h)
       /\ \/ modem[h] = "opening" /\ ~ReleasedAfter(queue, h)
          \/ modem[h] = "closing" /\ ReleasedAfter(queue, h)
  /\ ~Requested(queue, h) =>
       \/ modem[h] = "idle" /\ ~Listed(h)
       \/ /\ modem[h] = "opening" /\ ~Released(queue, h)
          /\ \E n \in Nifs : h \in active[n] /\ state[n] \in {"PENDING", "RELEASING"}
       \/ /\ modem[h] = "open" /\ ~Released(queue, h)
          /\ \E n \in Nifs : h \in active[n] /\ state[n] = "ACQUIRED"
       \/ /\ modem[h] = "closing"
          /\ \E n \in Nifs : h \in inactive[n] \/ (h \in active[n] /\ Released(queue, h))

\* A restart of the modem loses all this: the lists keep what the modem forgot.
Tracked == ssrs = 0 => \A h \in Handles : Followed(h)

\* What a message at the end of a queue adds to it.
LEMMA AppendFollowed ==
  ASSUME NEW q \in Seq(Messages), NEW m \in Messages, NEW h
  PROVE  /\ Requested(Append(q, m), h) <=> Requested(q, h) \/ IsRequest(m, h)
         /\ Released(Append(q, m), h) <=> Released(q, h) \/ IsRelease(m, h)
         /\ ReleasedAfter(Append(q, m), h) <=>
              ReleasedAfter(q, h) \/ (Requested(q, h) /\ IsRelease(m, h))
         /\ RequestedTwice(Append(q, m), h) <=>
              RequestedTwice(q, h) \/ (Requested(q, h) /\ IsRequest(m, h))
<1> DEFINE t == Append(q, m)
           n == Len(q)
<1>1. /\ n \in Nat /\ DOMAIN q = 1..n /\ DOMAIN t = 1..n + 1
      /\ \A i \in 1..n : t[i] = q[i]
      /\ t[n + 1] = m
  <2>1. /\ t \in Seq(Messages) /\ Len(t) = n + 1 /\ t[n + 1] = m
        /\ \A i \in 1..n : t[i] = q[i]
    BY AppendProperties
  <2>2. QED
    BY <2>1, LenProperties
<1> HIDE DEF t, n
<1>2. \A i \in DOMAIN t : i \in DOMAIN q \/ i = n + 1
  BY <1>1
<1>3. \A i \in DOMAIN q : i \in DOMAIN t /\ i < n + 1 /\ t[i] = q[i]
  BY <1>1
<1>4. n + 1 \in DOMAIN t /\ ~\E i \in DOMAIN t : n + 1 < i
  BY <1>1
<1>5. Requested(t, h) <=> Requested(q, h) \/ IsRequest(m, h)
  BY <1>1, <1>2, <1>3, <1>4 DEF Requested
<1>6. Released(t, h) <=> Released(q, h) \/ IsRelease(m, h)
  BY <1>1, <1>2, <1>3, <1>4 DEF Released
<1>7. ReleasedAfter(t, h) <=> ReleasedAfter(q, h) \/ (Requested(q, h) /\ IsRelease(m, h))
  BY <1>1, <1>2, <1>3, <1>4 DEF ReleasedAfter, Requested
<1>8. RequestedTwice(t, h) <=> RequestedTwice(q, h) \/ (Requested(q, h) /\ IsRequest(m, h))
  BY <1>1, <1>2, <1>3, <1>4 DEF RequestedTwice, Requested
<1>9. QED
  BY <1>5, <1>6, <1>7, <1>8 DEF t

\* What the message at the head of a queue adds to the rest.
LEMMA TailFollowed ==
  ASSUME NEW q \in Seq(Messages), q # <<>>, NEW h
  PROVE  /\ Requested(q, h) <=> IsRequest(Head(q), h) \/ Requested(Tail(q), h)
         /\ Released(q, h) <=> IsRelease(Head(q), h) \/ Released(Tail(q), h)
         /\ ReleasedAfter(q, h) <=>
              (IsRequest(Head(q), h) /\ Released(Tail(q), h)) \/ ReleasedAfter(Tail(q), h)
         /\ RequestedTwice(q, h) <=>
              (IsRequest(Head(q), h) /\ Requested(Tail(q), h)) \/ RequestedTwice(Tail(q), h)
<1> DEFINE t == Tail(q)
           m == Head(q)
           n == Len(q)
<1>1. /\ n \in Nat \ {0} /\ m = q[1] /\ DOMAIN q = 1..n /\ DOMAIN t = 1..n - 1
      /\ \A i \in 1..n - 1 : t[i] = q[i + 1]
  <2>1. t \in Seq(Messages) /\ Len(t) = n - 1 /\ \A i \in 1..Len(t) : t[i] = q[i + 1]
    BY HeadTailProperties
  <2>2. QED
    BY <2>1, LenProperties, EmptySeq
<1> HIDE DEF t, m, n
<1>2. 1 \in DOMAIN q /\ q[1] = m
  BY <1>1
<1>3. \A i \in DOMAIN t : /\ i + 1 \in DOMAIN q /\ 1 < i + 1 /\ t[i] = q[i + 1]
                          /\ \A j \in DOMAIN t : i < j <=> i + 1 < j + 1
  BY <1>1
<1>4. \A i \in DOMAIN q : i = 1 \/ (1 < i /\ \E k \in DOMAIN t : i = k + 1)
  <2> TAKE i \in DOMAIN q
  <2>1. i # 1 => 1 < i /\ i - 1 \in DOMAIN t /\ i = (i - 1) + 1
    BY <1>1
  <2>2. QED
    BY <2>1
<1>5. Requested(q, h) <=> IsRequest(m, h) \/ Requested(t, h)
  BY <1>2, <1>3, <1>4 DEF Requested
<1>6. Released(q, h) <=> IsRelease(m, h) \/ Released(t, h)
  BY <1>2, <1>3, <1>4 DEF Released
<1>7. ASSUME NEW i \in DOMAIN q, NEW j \in DOMAIN q, i < j
      PROVE  \E l \in DOMAIN t : /\ j = l + 1
                                 /\ i = 1 \/ \E k \in DOMAIN t : i = k + 1 /\ k < l
  <2>1. PICK l \in DOMAIN t : j = l + 1
    BY <1>1, <1>4, <1>7
  <2>2. ASSUME NEW k \in DOMAIN t, i = k + 1 PROVE k < l
    BY <1>3, <1>7, <2>1, <2>2
  <2>3. QED
    BY <1>4, <2>1, <2>2
<1>8. ReleasedAfter(q, h) <=> (IsRequest(m, h) /\ Released(t, h)) \/ ReleasedAfter(t, h)
  <2>1. ASSUME ReleasedAfter(q, h)
        PROVE  (IsRequest(m, h) /\ Released(t, h)) \/ ReleasedAfter(t, h)
    BY <1>2, <1>3, <1>7, <2>1 DEF ReleasedAfter, Released
  <2>2. ASSUME IsRequest(m, h), Released(t, h) PROVE ReleasedAfter(q, h)
    BY <1>2, <1>3, <2>2 DEF ReleasedAfter, Released
  <2>3. ASSUME ReleasedAfter(t, h) PROVE ReleasedAfter(q, h)
    BY <1>3, <2>3 DEF ReleasedAfter
  <2>4. QED
    BY <2>1, <2>2, <2>3
<1>9. RequestedTwice(q, h) <=> (IsRequest(m, h) /\ Requested(t, h)) \/ RequestedTwice(t, h)
  <2>1. ASSUME RequestedTwice(q, h)
        PROVE  (IsRequest(m, h) /\ Requested(t, h)) \/ RequestedTwice(t, h)
    BY <1>2, <1>3, <1>7, <2>1 DEF RequestedTwice, Requested
  <2>2. ASSUME IsRequest(m, h), Requested(t, h) PROVE RequestedTwice(q, h)
    BY <1>2, <1>3, <2>2 DEF RequestedTwice, Requested
  <2>3. ASSUME RequestedTwice(t, h) PROVE RequestedTwice(q, h)
    BY <1>3, <2>3 DEF RequestedTwice
  <2>4. QED
    BY <2>1, <2>2, <2>3
<1>10. QED
  BY <1>5, <1>6, <1>8, <1>9 DEF t, m

\* Two queues say the same of a handle.
SameWords(q1, q2, h) ==
  /\ Requested(q1, h) <=> Requested(q2, h)
  /\ Released(q1, h) <=> Released(q2, h)
  /\ ReleasedAfter(q1, h) <=> ReleasedAfter(q2, h)
  /\ RequestedTwice(q1, h) <=> RequestedTwice(q2, h)

\* A message that is neither a request nor a release of the handle adds nothing.
LEMMA OtherWords ==
  ASSUME NEW q \in Seq(Messages), NEW h
  PROVE  /\ \A m \in Messages : ~IsRequest(m, h) /\ ~IsRelease(m, h)
              => SameWords(Append(q, m), q, h)
         /\ q # <<>> /\ ~IsRequest(Head(q), h) /\ ~IsRelease(Head(q), h)
              => SameWords(Tail(q), q, h)
<1>1. ASSUME NEW m \in Messages, ~IsRequest(m, h), ~IsRelease(m, h)
      PROVE  SameWords(Append(q, m), q, h)
  BY <1>1, AppendFollowed DEF SameWords
<1>2. ASSUME q # <<>>, ~IsRequest(Head(q), h), ~IsRelease(Head(q), h)
      PROVE  SameWords(Tail(q), q, h)
  BY <1>2, TailFollowed DEF SameWords
<1>3. QED
  BY <1>1, <1>2

\* What is left of a queue once a handler has done with a message: at most an
\* answer of NativeAgpsHandler has come to it.
Answered(left) ==
  \/ queue' = left.queue
  \/ \E call \in Calls : queue' = Append(left.queue, NativeAnswer(call))

\* An answer says nothing of a handle.
LEMMA AnsweredFollowed ==
  ASSUME NEW left \in Rest, Answered(left), NEW h
  PROVE  SameWords(queue', left.queue, h)
<1>1. left.queue \in Seq(Messages)
  BY DEF Rest
<1>2. CASE queue' = left.queue
  BY <1>2 DEF SameWords
<1>3. ASSUME NEW call \in Calls, queue' = Append(left.queue, NativeAnswer(call))
      PROVE  SameWords(queue', left.queue, h)
  <2>1. NativeAnswer(call) \in Messages
    BY NativeAnswerType
  <2>2. ~IsRequest(NativeAnswer(call), h) /\ ~IsRelease(NativeAnswer(call), h)
    BY DEF NativeAnswer, IsRequest, IsRelease
  <2>3. QED
    BY <1>1, <1>3, <2>1, <2>2, OtherWords
<1>4. QED
  BY <1>2, <1>3 DEF Answered

\* A request that a release follows is a request; so is one of two.
LEMMA RequestFirst ==
  ASSUME NEW q, NEW h
  PROVE  (ReleasedAfter(q, h) \/ RequestedTwice(q, h)) => Requested(q, h)
BY DEF ReleasedAfter, RequestedTwice, Requested

\* The event handlers add no more than an answer to the queue.
LEMMA HandlersAnswer ==
  ASSUME NEW n \in Nifs, NEW h \in Handles, NEW left,
         \/ processAgpsEventSubscribe(n, h, left) \/ processAgpsEventUnsubscribe(n, h, left)
         \/ processAgpsEventGranted(n, left) \/ processAgpsEventReleased(n, left)
         \/ processAgpsEventDenied(n, left)
  PROVE  Answered(left)
<1>1. NoCall(left) => Answered(left)
  BY DEF NoCall, Answered
<1>2. \A call \in Calls : requestOrReleaseDataConn(n, call, left) => Answered(left)
  BY DEF requestOrReleaseDataConn, Answered
<1>3. FinishRelease(n, left) => Answered(left)
  BY <1>1, <1>2 DEF FinishRelease, Calls
<1>4. QED
  BY <1>1, <1>2, <1>3 DEF processAgpsEventSubscribe, processAgpsEventUnsubscribe, Calls,
     processAgpsEventGranted, processAgpsEventReleased, processAgpsEventDenied

-----------------------------------------------------------------------------
\* Nothing a step does concerns the handle.
Undisturbed(h) ==
  /\ modem'[h] = modem[h]
  /\ \A n \in Nifs : /\ h \in active'[n] <=> h \in active[n]
                     /\ h \in inactive'[n] <=> h \in inactive[n]
  /\ \A n \in Nifs : h \in active[n] =>
       /\ state[n] \in {"PENDING", "RELEASING"} => state'[n] \in {"PENDING", "RELEASING"}
       /\ state[n] = "ACQUIRED" => state'[n] = "ACQUIRED"

\* A handle no step concerns stays followed.
LEMMA UndisturbedFollowed ==
  ASSUME NEW h \in Handles, Followed(h), SameWords(queue', queue, h), Undisturbed(h)
  PROVE  Followed(h)'
<1>1. ~RequestedTwice(queue', h)
  BY DEF Followed, SameWords
<1>2. \A n \in Nifs : h \in Subscribers(n)' <=> h \in Subscribers(n)
  BY DEF Undisturbed, Subscribers
<1>3. Listed(h)' <=> Listed(h)
  BY <1>2 DEF Listed
<1>4. CASE Requested(queue, h)
  BY <1>1, <1>2, <1>3, <1>4 DEF Followed, SameWords, Undisturbed
<1>5. CASE ~Requested(queue, h)
  BY <1>1, <1>2, <1>3, <1>5 DEF Followed, SameWords, Undisturbed
<1>6. QED
  BY <1>4, <1>5

\* A handle in a list has no request on its way.
LEMMA ListedWaits ==
  ASSUME NEW h \in Handles, Followed(h), NEW n \in Nifs, h \in Subscribers(n)
  PROVE  /\ ~Requested(queue, h)
         /\ modem[h] # "idle"
         /\ \A n2 \in Nifs : h \in Subscribers(n2) => n2 = n
BY DEF Followed, Listed

\* A handle that was told its end and deleted is idle and in no list.
LEMMA EndedFollowed ==
  ASSUME NEW h \in Handles, Followed(h), NEW n \in Nifs, h \in Subscribers(n),
         SameWords(queue', queue, h), modem'[h] = "idle",
         h \notin active'[n] \cup inactive'[n],
         \A n2 \in Nifs \ {n} : active'[n2] = active[n2] /\ inactive'[n2] = inactive[n2]
  PROVE  Followed(h)'
<1>1. ~Requested(queue', h) /\ ~RequestedTwice(queue', h)
  BY ListedWaits DEF Followed, SameWords
<1>2. \A n2 \in Nifs : h \notin active'[n2] \cup inactive'[n2]
  BY ListedWaits DEF Subscribers
<1>3. QED
  BY <1>1, <1>2 DEF Followed, Listed, Subscribers

\* SUBSCRIBE does not concern the other handles.
LEMMA SubscribeOthers ==
  ASSUME HandlerTypes, StateMatchesSubscribers, NEW n \in Nifs, NEW g \in Handles, NEW left,
         processAgpsEventSubscribe(n, g, left), NEW h \in Handles \ {g}
  PROVE  Undisturbed(h)
<1>1. modem'[h] = modem[h]
  BY DEF processAgpsEventSubscribe, Tell
<1>2. \A n2 \in Nifs : /\ h \in active'[n2] <=> h \in active[n2]
                       /\ h \in inactive'[n2] <=> h \in inactive[n2]
  BY DEF processAgpsEventSubscribe, addSubscriber, HandlerTypes
<1>3. \A n2 \in Nifs : h \in active[n2] => state'[n2] = state[n2]
  <2>1. state' = state \/ (state[n] = "RELEASED" /\ state' = [state EXCEPT ![n] = "PENDING"])
    BY DEF processAgpsEventSubscribe, transitionState
  <2>2. state[n] = "RELEASED" => active[n] = {}
    BY DEF StateMatchesSubscribers, Subscribers
  <2>3. QED
    BY <2>1, <2>2 DEF HandlerTypes
<1>4. QED
  BY <1>1, <1>2, <1>3 DEF Undisturbed

\* UNSUBSCRIBE does not concern the other handles: the connection is released
\* only when no other handle uses it.
LEMMA UnsubscribeOthers ==
  ASSUME HandlerTypes, StateMatchesSubscribers, NEW n \in Nifs, NEW g \in Handles,
         g \in Subscribers(n), NEW left, processAgpsEventUnsubscribe(n, g, left),
         NEW h \in Handles \ {g}
  PROVE  Undisturbed(h)
<1>1. state[n] # "RELEASED"
  BY DEF StateMatchesSubscribers
<1>2. /\ modem' = modem
      /\ active' = [active EXCEPT ![n] = @ \ {g}]
      /\ inactive' = [inactive EXCEPT ![n] = @ \cup {g}]
  BY <1>1 DEF processAgpsEventUnsubscribe
<1>3. \A n2 \in Nifs : h \in active[n2] => state'[n2] = state[n2]
  <2>1. state' = state \/ (active[n] \subseteq {g} /\ state' = [state EXCEPT ![n] = "RELEASING"])
    BY <1>1 DEF processAgpsEventUnsubscribe, transitionState
  <2>2. QED
    BY <2>1 DEF HandlerTypes
<1>4. QED
  BY <1>2, <1>3 DEF Undisturbed, HandlerTypes

\* GRANTED: the handles that wait for the connection have it.
LEMMA GrantedFollowed ==
  ASSUME HandlerTypes, NEW n \in Nifs, NEW left, processAgpsEventGranted(n, left),
         NEW h \in Handles, Followed(h), SameWords(queue', queue, h)
  PROVE  Followed(h)'
<1>1. active' = active /\ inactive' = inactive
  BY DEF processAgpsEventGranted
<1>2. CASE state[n] # "PENDING"
  <2>1. Undisturbed(h)
    BY <1>1, <1>2 DEF processAgpsEventGranted, Undisturbed
  <2>2. QED
    BY <2>1, UndisturbedFollowed
<1>3. CASE state[n] = "PENDING"
  <2>1. /\ state' = [state EXCEPT ![n] = "ACQUIRED"]
        /\ modem'[h] = IF h \in active[n] /\ modem[h] = "opening" THEN "open" ELSE modem[h]
    BY <1>3 DEF processAgpsEventGranted, transitionState, Tell
  <2>2. CASE h \in active[n]
    <3>1. /\ ~Requested(queue, h) /\ modem[h] # "idle"
          /\ \A n2 \in Nifs : h \in active[n2] \cup inactive[n2] => n2 = n
      BY <2>2, ListedWaits DEF Subscribers
    <3>2. modem[h] # "open"
      BY <1>3, <3>1 DEF Followed
    <3>3. \/ modem'[h] = "open" /\ ~Released(queue, h)
          \/ modem'[h] = "closing" /\ \E n2 \in Nifs :
                h \in inactive[n2] \/ (h \in active[n2] /\ Released(queue, h))
      BY <2>1, <2>2, <3>1, <3>2 DEF Followed
    <3>4. state'[n] = "ACQUIRED"
      BY <2>1 DEF HandlerTypes
    <3>5. ~Requested(queue', h) /\ ~RequestedTwice(queue', h) /\ (Released(queue', h) <=> Released(queue, h))
      BY <3>1 DEF Followed, SameWords
    <3>6. QED
      BY <1>1, <2>2, <3>1, <3>3, <3>4, <3>5 DEF Followed, Subscribers
  <2>3. CASE h \notin active[n]
    <3>1. Undisturbed(h)
      BY <1>1, <2>1, <2>3 DEF Undisturbed, HandlerTypes
    <3>2. QED
      BY <3>1, UndisturbedFollowed
  <2>4. QED
    BY <2>2, <2>3
<1>4. QED
  BY <1>2, <1>3

\* A connection that is lost or refused: its subscribers are told their end.
LEMMA DropAllFollowed ==
  ASSUME HandlerTypes, NEW n \in Nifs, transitionState(n, "RELEASED"), DropAll(n),
         NEW h \in Handles, Followed(h), SameWords(queue', queue, h)
  PROVE  Followed(h)'
<1>1. /\ state' = [state EXCEPT ![n] = "RELEASED"]
      /\ active' = [active EXCEPT ![n] = {}]
      /\ inactive' = [inactive EXCEPT ![n] = {}]
      /\ modem'[h] = IF h \in Subscribers(n) THEN "idle" ELSE modem[h]
  BY DEF transitionState, DropAll, Tell
<1>2. CASE h \in Subscribers(n)
  <2>1. /\ h \notin active'[n] \cup inactive'[n]
        /\ \A n2 \in Nifs \ {n} : active'[n2] = active[n2] /\ inactive'[n2] = inactive[n2]
    BY <1>1 DEF HandlerTypes
  <2>2. QED
    BY <1>1, <1>2, <2>1, EndedFollowed
<1>3. CASE h \notin Subscribers(n)
  <2>1. Undisturbed(h)
    BY <1>1, <1>3 DEF Undisturbed, Subscribers, HandlerTypes
  <2>2. QED
    BY <2>1, UndisturbedFollowed
<1>4. QED
  BY <1>2, <1>3

\* A release that is complete: those that waited for it are told, and those
\* that came meanwhile wait for the connection that is asked for anew.
LEMMA FinishReleaseFollowed ==
  ASSUME HandlerTypes, StateMatchesSubscribers, NEW n \in Nifs, NEW left, FinishRelease(n, left),
         NEW h \in Handles, Followed(h), SameWords(queue', queue, h), state[n] = "RELEASING"
  PROVE  Followed(h)'
<1>1. /\ active' = active
      /\ inactive' = [inactive EXCEPT ![n] = {}]
      /\ modem'[h] = IF h \in inactive[n] THEN "idle" ELSE modem[h]
  BY DEF FinishRelease, Tell
<1>2. CASE h \in inactive[n]
  <2>1. h \notin active[n] /\ h \in Subscribers(n)
    BY <1>2 DEF StateMatchesSubscribers, Subscribers
  <2>2. /\ h \notin active'[n] \cup inactive'[n]
        /\ \A n2 \in Nifs \ {n} : active'[n2] = active[n2] /\ inactive'[n2] = inactive[n2]
    BY <1>1, <2>1 DEF HandlerTypes
  <2>3. QED
    BY <1>1, <1>2, <2>1, <2>2, EndedFollowed
<1>3. CASE h \notin inactive[n]
  <2>1. \/ active[n] # {} /\ state' = [state EXCEPT ![n] = "PENDING"]
        \/ active[n] = {} /\ state' = [state EXCEPT ![n] = "RELEASED"]
    BY DEF FinishRelease, transitionState
  <2>2. \A n2 \in Nifs : h \in active[n2] =>
          \/ state'[n2] = state[n2]
          \/ state[n2] = "RELEASING" /\ state'[n2] = "PENDING"
    BY <2>1 DEF HandlerTypes
  <2>3. \A n2 \in Nifs : /\ h \in active'[n2] <=> h \in active[n2]
                         /\ h \in inactive'[n2] <=> h \in inactive[n2]
    BY <1>1, <1>3 DEF HandlerTypes
  <2>4. Undisturbed(h)
    BY <1>1, <1>3, <2>2, <2>3 DEF Undisturbed
  <2>5. QED
    BY <2>4, UndisturbedFollowed
<1>4. QED
  BY <1>2, <1>3

\* An event that changes nothing but the queue.
LEMMA IgnoredFollowed ==
  ASSUME UNCHANGED <<state, active, inactive, modem>>,
         NEW h \in Handles, Followed(h), SameWords(queue', queue, h)
  PROVE  Followed(h)'
BY UndisturbedFollowed DEF Undisturbed

\* RELEASED and DENIED, for every handle.
LEMMA EndFollowed ==
  ASSUME HandlerTypes, StateMatchesSubscribers, NEW n \in Nifs, NEW left,
         processAgpsEventReleased(n, left) \/ processAgpsEventDenied(n, left),
         NEW h \in Handles, Followed(h), SameWords(queue', queue, h)
  PROVE  Followed(h)'
<1>1. CASE UNCHANGED <<state, active, inactive, modem>>
  BY <1>1, IgnoredFollowed
<1>2. CASE transitionState(n, "RELEASED") /\ DropAll(n)
  BY <1>2, DropAllFollowed
<1>3. CASE state[n] = "RELEASING" /\ FinishRelease(n, left)
  BY <1>3, FinishReleaseFollowed
<1>4. QED
  BY <1>1, <1>2, <1>3 DEF processAgpsEventReleased, processAgpsEventDenied

-----------------------------------------------------------------------------
\* The handle whose request is taken: it is in no list, and a release that was
\* behind the request is now the one to come.
LEMMA RequestTaken ==
  ASSUME TypeOK, queue # <<>>, NEW h \in Handles, Followed(h), IsRequest(Head(queue), h),
         SameWords(queue', Tail(queue), h)
  PROVE  /\ ~Listed(h) /\ ~Requested(queue', h) /\ ~RequestedTwice(queue', h)
         /\ \/ modem[h] = "opening" /\ ~Released(queue', h)
            \/ modem[h] = "closing" /\ Released(queue', h)
<1>1. queue \in Seq(Messages)
  BY DEF TypeOK
<1>2. /\ Requested(queue, h)
      /\ ~Requested(Tail(queue), h) /\ ~RequestedTwice(Tail(queue), h)
      /\ ~ReleasedAfter(Tail(queue), h)
      /\ ReleasedAfter(queue, h) <=> Released(Tail(queue), h)
  BY <1>1, TailFollowed, RequestFirst DEF Followed
<1>3. QED
  BY <1>2 DEF Followed, SameWords

\* SUBSCRIBE follows the handle that subscribes.
LEMMA SubscribeFollowed ==
  ASSUME HandlerTypes, StateMatchesSubscribers, TypeOK, queue # <<>>,
         NEW n \in Nifs, NEW h \in Handles, NEW left, processAgpsEventSubscribe(n, h, left),
         Followed(h), IsRequest(Head(queue), h), SameWords(queue', Tail(queue), h)
  PROVE  Followed(h)'
<1>1. /\ ~Listed(h) /\ ~Requested(queue', h) /\ ~RequestedTwice(queue', h)
      /\ \/ modem[h] = "opening" /\ ~Released(queue', h)
         \/ modem[h] = "closing" /\ Released(queue', h)
  BY RequestTaken
<1>2. active' = [active EXCEPT ![n] = @ \cup {h}] /\ inactive' = inactive
  BY <1>1 DEF processAgpsEventSubscribe, addSubscriber, Listed
<1>3. h \in active'[n] /\ \A n2 \in Nifs : h \in Subscribers(n2)' => n2 = n
  BY <1>1, <1>2 DEF Listed, Subscribers, HandlerTypes
<1>4. CASE modem[h] = "closing"
  <2>1. modem'[h] = "closing"
    BY <1>4 DEF processAgpsEventSubscribe, Tell
  <2>2. QED
    BY <1>1, <1>3, <1>4, <2>1 DEF Followed
<1>5. CASE modem[h] = "opening" /\ state[n] = "ACQUIRED"
  <2>1. modem'[h] = "open" /\ state'[n] = "ACQUIRED"
    BY <1>5 DEF processAgpsEventSubscribe, Tell
  <2>2. QED
    BY <1>1, <1>3, <1>5, <2>1 DEF Followed
<1>6. CASE modem[h] = "opening" /\ state[n] # "ACQUIRED"
  <2>1. modem'[h] = "opening" /\ state'[n] \in {"PENDING", "RELEASING"}
    BY <1>6 DEF processAgpsEventSubscribe, transitionState, HandlerTypes
  <2>2. QED
    BY <1>1, <1>3, <1>6, <2>1 DEF Followed
<1>7. QED
  BY <1>1, <1>4, <1>5, <1>6

\* The handle whose release is taken: nothing else changes on the way.
LEMMA ReleaseTaken ==
  ASSUME TypeOK, queue # <<>>, NEW h \in Handles, Followed(h), IsRelease(Head(queue), h),
         SameWords(queue', Tail(queue), h)
  PROVE  /\ Released(queue, h)
         /\ Requested(queue', h) <=> Requested(queue, h)
         /\ ReleasedAfter(queue', h) <=> ReleasedAfter(queue, h)
         /\ ~RequestedTwice(queue', h)
<1>1. queue \in Seq(Messages)
  BY DEF TypeOK
<1>2. ~IsRequest(Head(queue), h)
  BY DEF IsRequest, IsRelease
<1>3. QED
  BY <1>1, <1>2, TailFollowed DEF Followed, SameWords

\* UNSUBSCRIBE follows the handle that unsubscribes.
LEMMA UnsubscribeFollowed ==
  ASSUME HandlerTypes, StateMatchesSubscribers, TypeOK, queue # <<>>,
         NEW n \in Nifs, NEW h \in Handles, h \in Subscribers(n),
         NEW left, processAgpsEventUnsubscribe(n, h, left),
         Followed(h), IsRelease(Head(queue), h), SameWords(queue', Tail(queue), h)
  PROVE  Followed(h)'
<1>1. ~Requested(queue, h) /\ \A n2 \in Nifs : h \in Subscribers(n2) => n2 = n
  BY ListedWaits
<1>2. Released(queue, h) /\ ~Requested(queue', h) /\ ~RequestedTwice(queue', h)
  BY <1>1, ReleaseTaken
<1>3. modem[h] = "closing"
  BY <1>1, <1>2, ListedWaits DEF Followed
<1>4. state[n] # "RELEASED"
  BY DEF StateMatchesSubscribers
<1>5. /\ modem' = modem
      /\ active' = [active EXCEPT ![n] = @ \ {h}]
      /\ inactive' = [inactive EXCEPT ![n] = @ \cup {h}]
  BY <1>4 DEF processAgpsEventUnsubscribe
<1>6. h \in inactive'[n] /\ \A n2 \in Nifs : h \in Subscribers(n2)' => n2 = n
  BY <1>1, <1>5 DEF Subscribers, HandlerTypes
<1>7. QED
  BY <1>2, <1>3, <1>5, <1>6 DEF Followed

\* A release of a handle in no list is ignored: the handle is idle, or its
\* next request is still on its way.
LEMMA UnlistedFollowed ==
  ASSUME TypeOK, queue # <<>>, NEW h \in Handles, ~Listed(h),
         UNCHANGED <<state, active, inactive, modem>>,
         Followed(h), IsRelease(Head(queue), h), SameWords(queue', Tail(queue), h)
  PROVE  Followed(h)'
<1>1. ~RequestedTwice(queue', h) /\ ~Listed(h)'
  BY ReleaseTaken DEF Listed, Subscribers
<1>2. CASE Requested(queue, h)
  BY <1>1, <1>2, ReleaseTaken DEF Followed, Listed
<1>3. CASE ~Requested(queue, h)
  <2>1. modem[h] = "idle"
    BY <1>3 DEF Followed, Listed, Subscribers
  <2>2. QED
    BY <1>1, <1>3, <2>1, ReleaseTaken DEF Followed, Listed
<1>4. QED
  BY <1>2, <1>3

\* Every message of GnssAdapter's thread follows every handle.
LEMMA ProcessFollowed ==
  ASSUME IInv, Process, NEW h \in Handles, Followed(h)
  PROVE  Followed(h)'
<1> DEFINE m == Head(queue)
<1>1. /\ HandlerTypes /\ StateMatchesSubscribers /\ TypeOK
      /\ queue # <<>> /\ TakeMessage \in Rest /\ m \in Messages
  BY TakeTypes, TypeSplit DEF IInv, Process, RequestATL, ReleaseATL, AtlOpenSuccess,
     ReportAtlPdn, AtlOpenFailed, AtlClosed, HandleEngineUpEvent, Received
<1>2. NoCall(TakeMessage) => Answered(TakeMessage)
  BY DEF NoCall, Answered
<1>3. Answered(TakeMessage) => SameWords(queue', Tail(queue), h)
  BY <1>1, AnsweredFollowed DEF TakeMessage
<1>4. ASSUME ~IsRequest(m, h), ~IsRelease(m, h), SameWords(queue', Tail(queue), h)
      PROVE  SameWords(queue', queue, h)
  <2>1. SameWords(Tail(queue), queue, h)
    BY <1>1, <1>4, OtherWords DEF TypeOK
  <2>2. QED
    BY <1>4, <2>1 DEF SameWords
<1>5. CASE RequestATL
  <2>1. /\ m.type = "RequestATL" /\ m.nif \in Nifs /\ m.handle \in Handles
    BY <1>1, <1>5, MessageFields DEF RequestATL, Received
  <2>2. ~IsRelease(m, h) /\ (IsRequest(m, h) <=> h = m.handle)
    BY <2>1 DEF IsRelease, IsRequest
  <2>3. CASE m.nif \in created
    <3>1. processAgpsEventSubscribe(m.nif, m.handle, TakeMessage)
      BY <1>5, <2>3 DEF RequestATL
    <3>2. SameWords(queue', Tail(queue), h)
      BY <1>3, <2>1, <3>1, HandlersAnswer
    <3>3. CASE h = m.handle
      BY <1>1, <2>1, <2>2, <3>1, <3>2, <3>3, SubscribeFollowed
    <3>4. CASE h # m.handle
      <4>1. Undisturbed(h)
        BY <1>1, <2>1, <3>1, <3>4, SubscribeOthers
      <4>2. QED
        BY <1>4, <2>2, <3>2, <3>4, <4>1, UndisturbedFollowed
    <3>5. QED
      BY <3>3, <3>4
  <2>4. CASE m.nif \notin created
    <3>1. /\ Tell({}, {m.handle})
          /\ NoCall(TakeMessage)
          /\ UNCHANGED <<state, active, inactive>>
      BY <1>5, <2>4 DEF RequestATL
    <3>2. SameWords(queue', Tail(queue), h)
      BY <1>2, <1>3, <3>1
    <3>3. CASE h = m.handle
      <4>1. ~Listed(h) /\ ~Requested(queue', h) /\ ~RequestedTwice(queue', h)
        BY <1>1, <2>2, <3>2, <3>3, RequestTaken
      <4>2. modem'[h] = "idle"
        BY <3>1, <3>3 DEF Tell
      <4>3. QED
        BY <3>1, <4>1, <4>2 DEF Followed, Listed, Subscribers
    <3>4. CASE h # m.handle
      <4>1. Undisturbed(h)
        BY <3>1, <3>4 DEF Undisturbed, Tell
      <4>2. QED
        BY <1>4, <2>2, <3>2, <3>4, <4>1, UndisturbedFollowed
    <3>5. QED
      BY <3>3, <3>4
  <2>5. QED
    BY <2>3, <2>4
<1>6. CASE ReleaseATL
  <2>1. m.type = "ReleaseATL" /\ m.handle \in Handles
    BY <1>1, <1>6, MessageFields DEF ReleaseATL, Received
  <2>2. ~IsRequest(m, h) /\ (IsRelease(m, h) <=> h = m.handle)
    BY <2>1 DEF IsRelease, IsRequest
  <2>3. ASSUME NEW n \in Nifs, m.handle \in Subscribers(n),
               processAgpsEventUnsubscribe(n, m.handle, TakeMessage)
        PROVE  Followed(h)'
    <3>1. SameWords(queue', Tail(queue), h)
      BY <1>3, <2>1, <2>3, HandlersAnswer
    <3>2. CASE h = m.handle
      BY <1>1, <2>2, <2>3, <3>1, <3>2, UnsubscribeFollowed
    <3>3. CASE h # m.handle
      <4>1. Undisturbed(h)
        BY <1>1, <2>1, <2>3, <3>3, UnsubscribeOthers
      <4>2. QED
        BY <1>4, <2>2, <3>1, <3>3, <4>1, UndisturbedFollowed
    <3>4. QED
      BY <3>2, <3>3
  <2>4. ASSUME \A n \in Nifs : m.handle \notin Subscribers(n), NoCall(TakeMessage),
               UNCHANGED <<state, active, inactive, modem>>
        PROVE  Followed(h)'
    <3>1. SameWords(queue', Tail(queue), h)
      BY <1>2, <1>3, <2>4
    <3>2. CASE h = m.handle
      BY <1>1, <2>2, <2>4, <3>1, <3>2, UnlistedFollowed DEF Listed
    <3>3. CASE h # m.handle
      BY <1>4, <2>2, <2>4, <3>1, <3>3, IgnoredFollowed
    <3>4. QED
      BY <3>2, <3>3
  <2>5. QED
    BY <1>6, <2>3, <2>4 DEF ReleaseATL
<1>7. CASE AtlOpenSuccess \/ ReportAtlPdn \/ AtlOpenFailed \/ AtlClosed
  <2>1. m.type \in {"AtlOpenSuccess", "ReportAtlPdn", "AtlOpenFailed", "AtlClosed"}
    BY <1>7 DEF AtlOpenSuccess, ReportAtlPdn, AtlOpenFailed, AtlClosed, Received
  <2>2. m.nif \in Nifs /\ ~IsRequest(m, h) /\ ~IsRelease(m, h)
    BY <1>1, <2>1, MessageFields DEF IsRequest, IsRelease
  <2>3. \/ processAgpsEventGranted(m.nif, TakeMessage)
        \/ processAgpsEventReleased(m.nif, TakeMessage)
        \/ processAgpsEventDenied(m.nif, TakeMessage)
        \/ NoCall(TakeMessage) /\ UNCHANGED <<state, active, inactive, modem>>
    BY <1>7 DEF AtlOpenSuccess, ReportAtlPdn, AtlOpenFailed, AtlClosed
  <2>4. SameWords(queue', queue, h)
    BY <1>2, <1>3, <1>4, <2>2, <2>3, HandlersAnswer
  <2>5. QED
    BY <1>1, <2>2, <2>3, <2>4, GrantedFollowed, EndFollowed, IgnoredFollowed
<1>8. CASE HandleEngineUpEvent
  <2>1. /\ ~IsRequest(m, h) /\ ~IsRelease(m, h)
        /\ NoCall(TakeMessage) /\ UNCHANGED <<state, active, inactive, modem>>
    BY <1>8 DEF HandleEngineUpEvent, Received, smVars, IsRequest, IsRelease
  <2>2. QED
    BY <1>2, <1>3, <1>4, <2>1, IgnoredFollowed
<1>9. QED
  BY <1>5, <1>6, <1>7, <1>8 DEF Process

\* The modem opens an idle handle: its request is the only one on its way.
LEMMA OpensFollowed ==
  ASSUME TypeOK, NEW g \in Handles, NEW n \in Nifs, ModemOpens(g, n),
         NEW h \in Handles, Followed(h)
  PROVE  Followed(h)'
<1> DEFINE m == [type |-> "RequestATL", nif |-> n, handle |-> g]
<1>1. /\ queue \in Seq(Messages) /\ m \in Messages /\ queue' = Append(queue, m)
      /\ modem[g] = "idle" /\ modem'[g] = "opening" /\ modem'[h] = IF h = g THEN "opening" ELSE modem[h]
      /\ state' = state /\ active' = active /\ inactive' = inactive
  BY DEF ModemOpens, smVars, TypeOK, Messages, Requests
<1>2. ~IsRelease(m, h) /\ (IsRequest(m, h) <=> h = g)
  BY DEF IsRequest, IsRelease
<1> HIDE DEF m
<1>3. CASE h = g
  <2>1. ~Requested(queue, h) /\ ~Listed(h)
    BY <1>1, <1>3 DEF Followed, Listed
  <2>2. Requested(queue', h) /\ ~RequestedTwice(queue', h) /\ ~ReleasedAfter(queue', h)
    BY <1>1, <1>2, <1>3, <2>1, AppendFollowed, RequestFirst
  <2>3. QED
    BY <1>1, <1>3, <2>1, <2>2 DEF Followed, Listed, Subscribers
<1>4. CASE h # g
  <2>1. SameWords(queue', queue, h)
    BY <1>1, <1>2, <1>4, OtherWords
  <2>2. QED
    BY <1>1, <1>4, <2>1, UndisturbedFollowed DEF Undisturbed
<1>5. QED
  BY <1>3, <1>4

\* The modem closes a handle: its release follows the request, if that is still
\* on its way, and else finds the handle in a list.
LEMMA ClosesFollowed ==
  ASSUME TypeOK, NEW g \in Handles, ModemCloses(g), NEW h \in Handles, Followed(h)
  PROVE  Followed(h)'
<1> DEFINE m == [type |-> "ReleaseATL", handle |-> g]
<1>1. /\ queue \in Seq(Messages) /\ m \in Messages /\ queue' = Append(queue, m)
      /\ modem[g] \in {"opening", "open"}
      /\ modem'[h] = IF h = g THEN "closing" ELSE modem[h]
      /\ state' = state /\ active' = active /\ inactive' = inactive
  BY DEF ModemCloses, smVars, TypeOK, Messages, Releases
<1>2. ~IsRequest(m, h) /\ (IsRelease(m, h) <=> h = g)
  BY DEF IsRequest, IsRelease
<1> HIDE DEF m
<1>3. CASE h = g
  <2>1. /\ Requested(queue', h) <=> Requested(queue, h)
        /\ Released(queue', h)
        /\ Requested(queue, h) => ReleasedAfter(queue', h)
        /\ ~RequestedTwice(queue', h)
    BY <1>1, <1>2, <1>3, AppendFollowed DEF Followed
  <2>2. CASE Requested(queue, h)
    BY <1>1, <1>3, <2>1, <2>2 DEF Followed, Listed, Subscribers
  <2>3. CASE ~Requested(queue, h)
    <3>1. \E n \in Nifs : h \in active[n]
      BY <1>1, <1>3, <2>3 DEF Followed
    <3>2. QED
      BY <1>1, <1>3, <2>1, <2>3, <3>1 DEF Followed, Subscribers
  <2>4. QED
    BY <2>2, <2>3
<1>4. CASE h # g
  <2>1. SameWords(queue', queue, h)
    BY <1>1, <1>2, <1>4, OtherWords
  <2>2. QED
    BY <1>1, <1>4, <2>1, UndisturbedFollowed DEF Undisturbed
<1>5. QED
  BY <1>3, <1>4

\* Every step follows every handle, unless the modem restarts in it.
LEMMA StepFollowed ==
  ASSUME IInv, Next, ssrs' = ssrs, NEW h \in Handles, Followed(h)
  PROVE  Followed(h)'
<1>1. TypeOK /\ queue \in Seq(Messages) /\ HandlerTypes /\ StateMatchesSubscribers
  BY TypeSplit DEF IInv, TypeOK
<1>2. ASSUME NEW m \in Messages, m.type \notin {"RequestATL", "ReleaseATL"},
             queue' = Append(queue, m), UNCHANGED <<state, active, inactive, modem>>
      PROVE  Followed(h)'
  <2>1. SameWords(queue', queue, h)
    BY <1>1, <1>2, OtherWords DEF IsRequest, IsRelease
  <2>2. QED
    BY <1>2, <2>1, IgnoredFollowed
<1>3. ASSUME UNCHANGED queue PROVE SameWords(queue', queue, h)
  BY <1>3 DEF SameWords
<1>4. CASE Process
  BY <1>4, ProcessFollowed
<1>5. CASE \E n \in Nifs : reportPdnTypeFromWds(n)
  <2>1. PICK n \in Nifs : reportPdnTypeFromWds(n)
    BY <1>5
  <2>2. [type |-> "ReportAtlPdn", nif |-> n] \in Messages
    BY DEF Messages, Answers
  <2>3. QED
    BY <1>2, <2>1, <2>2 DEF reportPdnTypeFromWds, smVars
<1>6. CASE (\E n \in Nifs : createAgpsStateMachines(n)) \/ NotifyNetworkInfo
  <2>1. UNCHANGED queue /\ UNCHANGED <<state, active, inactive, modem>>
    BY <1>6 DEF createAgpsStateMachines, NotifyNetworkInfo, smVars
  <2>2. QED
    BY <1>3, <2>1, IgnoredFollowed
<1>7. CASE FrameworkOpens \/ FrameworkFails \/ FrameworkCloses \/ FrameworkLosesConnection
  <2>1. PICK type \in {"AtlOpenSuccess", "AtlOpenFailed", "AtlClosed"} : FrameworkPost(type)
    BY <1>7 DEF FrameworkOpens, FrameworkFails, FrameworkCloses, FrameworkLosesConnection
  <2>2. [type |-> type, nif |-> "agnss"] \in Messages
    BY DEF Messages, Answers, Nifs
  <2>3. UNCHANGED <<state, active, inactive, modem>>
    BY <1>7 DEF FrameworkOpens, FrameworkFails, FrameworkCloses, FrameworkLosesConnection, smVars
  <2>4. QED
    BY <1>2, <2>1, <2>2, <2>3 DEF FrameworkPost
<1>8. CASE FrameworkOpensBadApn
  <2>1. processAgpsEventReleased("agnss", TakeCall)
    BY <1>8 DEF FrameworkOpensBadApn
  <2>2. UNCHANGED queue
    BY <2>1 DEF processAgpsEventReleased, FinishRelease, requestOrReleaseDataConn, NoCall, TakeCall
  <2>3. QED
    BY <1>1, <1>3, <2>1, <2>2, EndFollowed DEF Nifs
<1>9. CASE \E g \in Handles, n \in Nifs : ModemOpens(g, n)
  BY <1>1, <1>9, OpensFollowed
<1>10. CASE \E g \in Handles : ModemCloses(g)
  BY <1>1, <1>10, ClosesFollowed
<1>11. ~ModemRestarts
  BY DEF ModemRestarts, IInv, TypeOK
<1>12. \/ Process
       \/ \E n \in Nifs : reportPdnTypeFromWds(n)
       \/ \E n \in Nifs : createAgpsStateMachines(n)
       \/ NotifyNetworkInfo
       \/ FrameworkOpens \/ FrameworkFails \/ FrameworkCloses \/ FrameworkLosesConnection
       \/ FrameworkOpensBadApn
       \/ \E g \in Handles, n \in Nifs : ModemOpens(g, n)
       \/ \E g \in Handles : ModemCloses(g)
       \/ ModemRestarts
  BY Zenon DEF Next, FrameworkAnswers
<1>13. QED
  BY <1>4, <1>5, <1>6, <1>7, <1>8, <1>9, <1>10, <1>11, <1>12

\* Only a restart of the modem changes the number of restarts.
LEMMA RestartsCount ==
  ASSUME IInv, Next
  PROVE  ssrs' = ssrs \/ ssrs' # 0
<1>1. CASE ModemRestarts
  BY <1>1, BoundsAssumption DEF ModemRestarts, IInv, TypeOK
<1>2. CASE ~ModemRestarts
  BY <1>2 DEF Next, Process, RequestATL, ReleaseATL, AtlOpenSuccess, ReportAtlPdn,
     AtlOpenFailed, AtlClosed, HandleEngineUpEvent, reportPdnTypeFromWds,
     createAgpsStateMachines, NotifyNetworkInfo, FrameworkAnswers, FrameworkOpens,
     FrameworkFails, FrameworkCloses, FrameworkOpensBadApn, FrameworkLosesConnection,
     ModemCloses, ModemOpens, history
<1>3. QED
  BY <1>1, <1>2

\* Without a modem restart, a handle nothing is on its way about is known to the
\* modem and to the subscriber lists alike: for any number of handles, and
\* however their requests, releases and the answers of both NIFs interleave.
THEOREM ModemAgreesCorrect == Spec => []ModemAgrees
<1>1. Init => Tracked
  <2> SUFFICES ASSUME Init, NEW h \in Handles PROVE Followed(h)
    BY DEF Tracked
  <2>1. ~Requested(queue, h) /\ ~RequestedTwice(queue, h)
    BY DEF Init, Requested, RequestedTwice
  <2>2. modem[h] = "idle" /\ \A n \in Nifs : h \notin Subscribers(n)
    BY DEF Init, Subscribers
  <2>3. QED
    BY <2>1, <2>2 DEF Followed, Listed
<1>2. IInv /\ Tracked /\ [Next]_vars => Tracked'
  <2> SUFFICES ASSUME IInv, Tracked, [Next]_vars, ssrs' = 0, NEW h \in Handles
               PROVE  Followed(h)'
    BY DEF Tracked
  <2>1. CASE Next
    <3>1. ssrs' = ssrs
      BY <2>1, RestartsCount
    <3>2. QED
      BY <2>1, <3>1, StepFollowed DEF Tracked
  <2>2. CASE UNCHANGED vars
    <3>1. /\ UNCHANGED <<state, active, inactive, modem>>
          /\ Followed(h) /\ SameWords(queue', queue, h)
      BY <2>2 DEF vars, smVars, history, Tracked, SameWords
    <3>2. QED
      BY <3>1, IgnoredFollowed
  <2>3. QED
    BY <2>1, <2>2
<1>3. IInv /\ Tracked => ModemAgrees
  <2> SUFFICES ASSUME IInv, Tracked, ssrs = 0, NEW h \in Handles, ~InFlightHandle(h)
               PROVE  /\ modem[h] = "idle" => \A n \in Nifs : h \notin Subscribers(n)
                      /\ modem[h] = "open" => \E n \in Nifs : state[n] = "ACQUIRED" /\ h \in active[n]
                      /\ modem[h] = "closing" => \E n \in Nifs : h \in inactive[n]
                      /\ modem[h] = "opening" =>
                           \E n \in Nifs : h \in active[n] /\ state[n] \in {"PENDING", "RELEASING"}
    BY DEF ModemAgrees, Agreement
  <2>1. ~Requested(queue, h) /\ ~Released(queue, h)
    BY DEF InFlightHandle, Requested, Released, IsRequest, IsRelease
  <2>2. QED
    BY <2>1 DEF Tracked, Followed, Listed
<1>4. QED
  BY <1>1, <1>2, <1>3, Inductive, PTL DEF Spec

=============================================================================
