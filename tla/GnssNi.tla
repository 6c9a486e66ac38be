------------------------------- MODULE GnssNi -------------------------------
(***************************************************************************)
(* Network-initiated positioning in the GNSS adapter                       *)
(* (gps/gnss/GnssAdapter.cpp 3637-3739, 4674-4754, 4810-4958).             *)
(*                                                                         *)
(* The network wants a position and the modem asks whether it may be given.*)
(* The adapter decides at once, or asks the user: it keeps the request in  *)
(* one of two sessions (emergencies have their own) and spawns a thread    *)
(* that waits for the answer, gives up after a while, and sends the modem  *)
(* whatever it has got.  The thread and the adapter share the session: its *)
(* answer and flag are written under its lock, its request and id are      *)
(* tested, and its id is cleared, without it.                              *)
(*                                                                         *)
(* A step of the adapter is one message, but for the answers it writes,    *)
(* each a step of its own under the lock; a step of a thread is what it    *)
(* does between taking a lock and giving it up.  A message waits no longer *)
(* than it takes to come: an answer that is late is one the user gave late.*)
(* Time-outs may come at any time, so that respTimeLeft is left out.       *)
(* pthread_create is taken to succeed.                                     *)
(***************************************************************************)
EXTENDS Naturals, Sequences, FiniteSets, SequencesExt

CONSTANTS Clients,      \* LocationAPI objects with a gnssNiCb
          MaxRequests,  \* bound: requests of the network
          MaxAnswers    \* bound: answers of users

ASSUME NiAssumption == MaxRequests \in Nat /\ MaxAnswers \in Nat

Requests  == 1..MaxRequests     \* the modem's data, in the order they come
NoRequest == 0                  \* NULL
Sessions  == {"session", "sessionEs"}
Types     == {"VOICE", "SUPL", "CONTROL_PLANE", "EMERGENCY_SUPL"}
UserResponses == {"ACCEPT", "DENY", "NO_RESPONSE"}
Responses == UserResponses \cup {"IGNORE"}

VARIABLES
  mClientData,    \* clients with a gnssNiCb that are registered
  reqIDCounter,
  rawRequest,     \* the request in each session
  reqID,          \* its id, 0: none
  resp,           \* the answer in each session
  respRecvd,      \* whether there is one
  todo,           \* locked writes the adapter's thread still has to make
  pc,             \* where the thread of each request is
  held,           \* the request and answer that thread took from its session
  answers,        \* answers of users so far
  \* history
  session,        \* the session each request was given
  id,             \* and its id: 0 unless it was given one
  fate,           \* "none" before it comes, "asked" in a session, then what became of it
  given,          \* the answers that were given while it was in its session
  past,           \* what happened to a request that may cost it its answer
  stale           \* sessions with an answer to a request that has left

adapterVars == <<mClientData, reqIDCounter>>
niVars      == <<rawRequest, reqID, resp, respRecvd>>
history     == <<session, id, given, stale>>
vars == <<adapterVars, answers, niVars, todo, pc, held, session, id, fate, given, past, stale>>

NoneHeld == [rawRequest |-> NoRequest, resp |-> "NO_RESPONSE"]
Writes == [session : Sessions, resp : Responses, for : Requests]
Fates == {"none", "asked", "freed", "unanswered"} \cup Responses

TypeOK ==
  /\ mClientData \subseteq Clients /\ reqIDCounter \in 0..MaxRequests
  /\ rawRequest \in [Sessions -> Requests \cup {NoRequest}]
  /\ reqID \in [Sessions -> 0..MaxRequests]
  /\ resp \in [Sessions -> Responses] /\ respRecvd \in [Sessions -> BOOLEAN]
  /\ answers \in 0..MaxAnswers
  /\ todo \in Seq(Writes) /\ Len(todo) <= 2
  /\ pc \in [Requests -> {"none", "begun", "waiting", "leaving", "done"}]
  /\ held \in [Requests -> [rawRequest : Requests \cup {NoRequest}, resp : UserResponses]]
  /\ session \in [Requests -> Sessions] /\ id \in [Requests -> 0..MaxRequests]
  /\ fate \in [Requests -> Fates]
  /\ given \in [Requests -> SUBSET Responses]
  /\ past \in [Requests -> SUBSET {"late", "deadline", "cleared"}]
  /\ stale \subseteq Sessions

Init ==
  /\ mClientData = {} /\ reqIDCounter = 0
  /\ rawRequest = [s \in Sessions |-> NoRequest]
  /\ reqID = [s \in Sessions |-> 0]
  /\ resp = [s \in Sessions |-> "NO_RESPONSE"]
  /\ respRecvd = [s \in Sessions |-> FALSE]
  /\ todo = <<>> /\ answers = 0
  /\ pc = [r \in Requests |-> "none"]
  /\ held = [r \in Requests |-> NoneHeld]
  /\ session = [r \in Requests |-> "session"] /\ id = [r \in Requests |-> 0]
  /\ fate = [r \in Requests |-> "none"] /\ given = [r \in Requests |-> {}]
  /\ past = [r \in Requests |-> {}] /\ stale = {}

-----------------------------------------------------------------------------
(* The adapter's thread.                                                    *)

addClientCommand(c) ==
  /\ todo = <<>> /\ c \notin mClientData
  /\ mClientData' = mClientData \cup {c}
  /\ UNCHANGED <<answers, reqIDCounter, niVars, todo, pc, held, fate, past, history>>

removeClientCommand(c) ==
  /\ todo = <<>> /\ c \in mClientData
  /\ mClientData' = mClientData \ {c}
  /\ UNCHANGED <<answers, reqIDCounter, niVars, todo, pc, held, fate, past, history>>

\* informNiResponse, or free: the request is not in a session.
Dispose(r, what) ==
  /\ fate' = [fate EXCEPT ![r] = what]
  /\ UNCHANGED <<answers, adapterVars, niVars, pc, held, past, session, id, stale>>

\* "ignore any SUPL NI non-Es session if a SUPL NI ES is accepted": the session
\* is looked at before its lock is taken.
IgnoreSession ==
  IF rawRequest["session"] = NoRequest THEN <<>>
  ELSE <<[session |-> "session", resp |-> "IGNORE", for |-> rawRequest["session"]]>>

\* An answer that is decided on for a request in a session.
Give(writes) ==
  given' = [r \in Requests |->
              given[r] \cup {w.resp : w \in {v \in ToSet(writes) : v.for = r}}]

\* What requestNiNotify does when nobody can be asked; a request that is not
\* for an emergency is neither answered nor freed.
NobodyToAsk(r, type) ==
  IF type = "EMERGENCY_SUPL"
  THEN /\ Dispose(r, "ACCEPT")
       /\ todo' = IgnoreSession /\ Give(todo')
  ELSE Dispose(r, "unanswered") /\ UNCHANGED <<todo, given>>

\* Emergencies wait for emergencies only, other requests for both.
InUse(type) ==
  \/ rawRequest["sessionEs"] # NoRequest
  \/ type # "EMERGENCY_SUPL" /\ rawRequest["session"] # NoRequest

\* The session is taken, a thread for it created, and the user asked.
Occupy(r, s) ==
  /\ reqIDCounter' = reqIDCounter + 1
  /\ rawRequest' = [rawRequest EXCEPT ![s] = r]
  /\ reqID' = [reqID EXCEPT ![s] = reqIDCounter']
  /\ pc' = [pc EXCEPT ![r] = "begun"]
  /\ session' = [session EXCEPT ![r] = s]
  /\ id' = [id EXCEPT ![r] = reqIDCounter']
  /\ fate' = [fate EXCEPT ![r] = "asked"]
  /\ past' = IF s \in stale THEN [past EXCEPT ![r] = {"late"}] ELSE past
  /\ UNCHANGED <<answers, mClientData, resp, respRecvd, todo, held, given, stale>>

requestNiNotify(r, type) ==
  \/ mClientData = {} /\ NobodyToAsk(r, type)
  \/ mClientData # {} /\ InUse(type) /\ Dispose(r, "freed") /\ UNCHANGED <<todo, given>>
  \/ /\ mClientData # {} /\ ~InUse(type)
     /\ Occupy(r, IF type = "EMERGENCY_SUPL" THEN "sessionEs" ELSE "session")

\* What the configuration and the kind of request say; denySupl: NFW_SUPL is
\* locked and NI_SUPL_DENY_ON_NFW_LOCKED is set; suplEs: SUPL_ES is 0, emergency
\* requests are good outside emergency calls as well; mtlrEs: CP_MTLR_ES is set.
Decision(type, override, emergency, denySupl, suplEs, mtlrEs) ==
  LET supl == type \in {"SUPL", "EMERGENCY_SUPL"} IN
  CASE supl /\ ~emergency /\ ~override /\ denySupl -> "DENY"
    [] supl /\ override -> "ACCEPT"
    [] type = "EMERGENCY_SUPL" /\ ~override /\ ~emergency /\ ~suplEs -> "DENY"
    [] type = "CONTROL_PLANE" /\ emergency /\ mtlrEs -> "ACCEPT"
    [] OTHER -> "ask"

MsgReportNiNotify(r) ==
  /\ todo = <<>>
  /\ fate[r] = "none" /\ \A q \in 1..r - 1 : fate[q] # "none"
  /\ \E type \in Types, override, emergency, denySupl, suplEs, mtlrEs \in BOOLEAN :
       LET decision == Decision(type, override, emergency, denySupl, suplEs, mtlrEs)
       IN  \/ decision = "ask" /\ requestNiNotify(r, type)
           \/ decision # "ask" /\ Dispose(r, decision) /\ UNCHANGED <<todo, given>>

\* The user answers the notification with id i.  The session is found, and the
\* other one to be ignored, before their locks are taken.  A client without a
\* callback is refused, as is an id no session has: nothing changes.
ActiveSession(i) ==
  {s \in Sessions : i = reqID[s] /\ rawRequest[s] # NoRequest}

MsgGnssNiResponse(c, i, response) ==
  /\ todo = <<>> /\ answers < MaxAnswers
  /\ i \in 1..reqIDCounter
  /\ c \in mClientData
  /\ \E s \in ActiveSession(i) :
       /\ s = "session" => "sessionEs" \notin ActiveSession(i)
       /\ todo' = (IF s = "sessionEs" /\ response = "ACCEPT" THEN IgnoreSession ELSE <<>>)
                    \o <<[session |-> s, resp |-> response, for |-> rawRequest[s]]>>
  /\ Give(todo')
  /\ UNCHANGED <<adapterVars, niVars, pc, held, fate, past, session, id, stale>>
  /\ answers' = answers + 1

\* An answer to a request in a session that is refused: its id was cleared by
\* the thread of the request before it.
RefuseResponse(c, i, response) ==
  /\ todo = <<>> /\ answers < MaxAnswers
  /\ c \in mClientData /\ ActiveSession(i) = {}
  /\ \E r \in Requests :
       /\ id[r] = i /\ rawRequest[session[r]] = r
       /\ given' = [given EXCEPT ![r] = @ \cup {response}]
  /\ UNCHANGED <<adapterVars, niVars, todo, pc, held, fate, past, session, id, stale>>
  /\ answers' = answers + 1

\* One of the answers is written and the thread signalled, under the lock.
WriteResponse ==
  /\ todo # <<>>
  /\ LET w == Head(todo)
         r == rawRequest[w.session]
     IN  /\ resp' = [resp EXCEPT ![w.session] = w.resp]
         /\ respRecvd' = [respRecvd EXCEPT ![w.session] = TRUE]
         /\ stale' = IF r = NoRequest THEN stale \cup {w.session} ELSE stale
         /\ past' = IF r \notin {NoRequest, w.for}
                    THEN [past EXCEPT ![r] = @ \cup {"late"}] ELSE past
  /\ todo' = Tail(todo)
  /\ UNCHANGED <<answers, adapterVars, rawRequest, reqID, pc, held, fate, session, id, given>>

-----------------------------------------------------------------------------
(* niThreadProc: the thread of a request.                                   *)

SendsIgnore(q, a)  == q # NoRequest                    \* mutant: IGNORE is sent too
sendResponse(q, a) == q # NoRequest /\ a # "IGNORE"

KeepFlag(s)  == respRecvd                              \* mutant: not reset
ResetFlag(s) == [respRecvd EXCEPT ![s] = FALSE]

\* It has the lock, with the answer a in its session: it resets the flag "for
\* the next session" and takes the request.
Finish(r, a) ==
  LET s == session[r]
      q == rawRequest[s]
  IN  /\ respRecvd' = ResetFlag(s)
      /\ stale' = stale \ {s}
      /\ resp' = [resp EXCEPT ![s] = "NO_RESPONSE"]        \* not read any more
      /\ rawRequest' = [rawRequest EXCEPT ![s] = NoRequest]
      /\ held' = IF sendResponse(q, a)
                 THEN [held EXCEPT ![r] = [rawRequest |-> q, resp |-> a]] ELSE held
      /\ fate' = IF q # NoRequest /\ ~sendResponse(q, a) THEN [fate EXCEPT ![q] = a] ELSE fate
      /\ pc' = [pc EXCEPT ![r] = "leaving"]
      /\ UNCHANGED <<answers, adapterVars, reqID, todo, session, id, given>>

Begin(r) ==
  /\ pc[r] = "begun" /\ ~respRecvd[session[r]]
  /\ pc' = [pc EXCEPT ![r] = "waiting"]
  /\ UNCHANGED <<answers, adapterVars, niVars, todo, held, fate, past, history>>

Wake(r) ==
  /\ pc[r] \in {"begun", "waiting"} /\ respRecvd[session[r]]
  /\ Finish(r, resp[session[r]])
  /\ UNCHANGED past

\* Mutant: the loop is not left.
ExpireAndWait(r) ==
  /\ pc[r] = "waiting" /\ ~respRecvd[session[r]]
  /\ resp' = [resp EXCEPT ![session[r]] = "NO_RESPONSE"]
  /\ UNCHANGED <<answers, adapterVars, rawRequest, reqID, respRecvd, todo, pc, held, fate,
                 past, history>>

\* The wait times out, and the lock is taken again: an answer that was written
\* meanwhile is overwritten, one that is about to be comes too late.
Expire(r) ==
  /\ pc[r] = "waiting"
  /\ Finish(r, "NO_RESPONSE")
  /\ past' = IF respRecvd[session[r]] \/ \E w \in ToSet(todo) : w.for = r
             THEN [past EXCEPT ![r] = @ \cup {"deadline"}] ELSE past

\* The answer goes to the modem by a message, on which nothing here depends.
gnssNiResponseCommand(r) ==
  IF held[r] = NoneHeld THEN fate
  ELSE [fate EXCEPT ![held[r].rawRequest] = held[r].resp]

\* The lock is released: the id that is cleared may be the next request's.
Leave(r) ==
  LET s == session[r]
      q == rawRequest[s]
  IN  /\ pc[r] = "leaving"
      /\ reqID' = [reqID EXCEPT ![s] = 0]
      /\ past' = IF q # NoRequest THEN [past EXCEPT ![q] = @ \cup {"cleared"}] ELSE past
      /\ fate' = gnssNiResponseCommand(r)
      /\ held' = [held EXCEPT ![r] = NoneHeld]
      /\ pc' = [pc EXCEPT ![r] = "done"]
      /\ UNCHANGED <<answers, adapterVars, rawRequest, resp, respRecvd, todo, history>>

niThreadProc(r) == Begin(r) \/ Wake(r) \/ Expire(r) \/ Leave(r)

-----------------------------------------------------------------------------
Next ==
  \/ \E c \in Clients : addClientCommand(c) \/ removeClientCommand(c)
  \/ \E r \in Requests : MsgReportNiNotify(r)
  \/ \E c \in Clients, i \in 1..MaxRequests, response \in UserResponses :
       MsgGnssNiResponse(c, i, response) \/ RefuseResponse(c, i, response)
  \/ WriteResponse
  \/ \E r \in Requests : niThreadProc(r)

\* The threads run, waits time out, and the adapter handles its messages in the
\* order they come, so that no message waits for ever behind later ones.
Fairness ==
  /\ WF_vars(WriteResponse)
  /\ \A r \in Requests : WF_vars(niThreadProc(r))

Spec == Init /\ [][Next]_vars /\ Fairness

-----------------------------------------------------------------------------
(* Properties.                                                              *)

\* The modem's data of a request are in one session or with one thread until
\* they are answered or freed, and nowhere after: they are not freed or sent
\* twice, and none is lost, however threads and adapter fall together.
OneOwner ==
  \A r \in Requests :
    Cardinality({s \in Sessions : rawRequest[s] = r} \cup
                {q \in Requests : held[q].rawRequest = r})
      = IF fate[r] = "asked" THEN 1 ELSE 0

\* The modem is told what was answered to this request: what the user said, no
\* response only if the user said nothing, and it is dropped only if an
\* emergency was accepted.  "past" excuses the request itself, when the answer
\* met the deadline, when an answer to the one before came late, or when the
\* thread of the one before cleared its id.
OwnAnswer ==
  \A r \in Requests : id[r] # 0 /\ fate[r] # "asked" /\ past[r] = {} =>
    IF given[r] = {} THEN fate[r] = "NO_RESPONSE" ELSE fate[r] \in given[r]

AnswersAreTheirOwn == OneOwner /\ OwnAnswer

\* "For robustness, spawn a thread at this point to timeout to clear up the
\* notification status" (GnssAdapter.cpp:4934): every request that is put to
\* the user is answered or dropped in the end, whatever user and clients do.
NotificationClears == \A r \in Requests : (fate[r] = "asked") ~> (fate[r] # "asked")

=============================================================================
