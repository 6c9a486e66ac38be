------------------------------ MODULE Geofence ------------------------------
(***************************************************************************)
(* The geofence adapter (gps/geofence/GeofenceAdapter.cpp) with its        *)
(* clients, LocApi and the modem.                                          *)
(*                                                                         *)
(* A command is for several fences.  For each the adapter asks LocApi for  *)
(* a turn (addToCallQueue); in its turn it looks up the number the modem   *)
(* knows the fence by and asks for the operation; in the answer it writes  *)
(* down what was done.  The last fence of the command sends the response.  *)
(* When the modem has crashed, all fences are added again and get numbers  *)
(* anew; when the system suspends, all are paused.                         *)
(*                                                                         *)
(* A step is one call of a client, one message of the adapters' thread or  *)
(* one request of LocApi.  A request fails when the modem is down, when it *)
(* is for a number the modem does not know and when the modem has no       *)
(* number left.  A fence is its id, its options and whether it is paused;  *)
(* where it is, is passed on.  Breaches and errors are reported and change *)
(* nothing; they are left out.                                             *)
(***************************************************************************)
EXTENDS LocationAPIClientBase

CONSTANTS HwIds, NoHwId   \* the numbers of the modem

ASSUME GeofenceAssumption == NoHwId \notin HwIds /\ IsFiniteSet(HwIds)

VARIABLES
  mGeofences,         \* the fence of each number
  mGeofenceIds,       \* the number of each fence
  mSystemPowerState,
  down, modem,        \* is the modem down?  Its fences
  askedPaused         \* fences whose clients paused them (history)

adapter == <<mGeofences, mGeofenceIds, mSystemPowerState>>
locApi  == <<reqs, down, modem>>
history == <<past, askedPaused>>
vars == <<gData, mClientData, msgs, clientBase, calls, adapter, locApi, history>>

NoFence == [id |-> 0]
Fence(id, options, paused) == [id |-> id, options |-> options, paused |-> paused]
Fences  == [id : Ids, options : Options, paused : BOOLEAN]

\* A request to LocApi and what its closure holds: the i-th fence of a command,
\* or the fence that is restored.
NoCommand == [op |-> "none"]
Requests == [call : Operations \cup {"open"}, hwId : HwIds \cup {NoHwId},
             fence : Fences \cup {NoFence}, command : Commands \cup {NoCommand},
             i : 0..MaxFences, then : {"done", "restored", "paused", "stopped", "nothing"}]
Request(call, hwId, fence, then) ==
  [call |-> call, hwId |-> hwId, fence |-> fence, command |-> NoCommand, i |-> 0, then |-> then]
Ask(m, i, hwId, fence) ==
  [call |-> m.op, hwId |-> hwId, fence |-> fence, command |-> m, i |-> i, then |-> "done"]

Answers  == [kind : {"turn"}, req : Turns]
  \cup [kind : {"done", "restored", "paused", "stopped"}, req : Requests, ok : BOOLEAN,
        hwId : HwIds \cup {NoHwId}]
EngineUp == [kind |-> "engineUp"]

TypeOK ==
  /\ LocationApiTypeOK /\ ClientBaseTypeOK
  /\ mGeofences \in [HwIds -> Fences \cup {NoFence}]
  /\ mGeofenceIds \in [Ids -> HwIds \cup {NoHwId}]
  /\ mSystemPowerState \in {"unknown", "suspend", "resume"}
  /\ msgs \in Seq(ClientMsgs \cup {EngineUp} \cup Answers)
  /\ reqs \in Seq(Turns \cup Requests)
  /\ down \in BOOLEAN
  /\ modem \in [HwIds -> Fences \cup {NoFence}]
  /\ askedPaused \subseteq Ids

Init ==
  /\ LocationApiInit /\ ClientBaseInit
  /\ mGeofences = [h \in HwIds |-> NoFence]
  /\ mGeofenceIds = [id \in Ids |-> NoHwId]
  /\ mSystemPowerState = "unknown"
  /\ down = FALSE
  /\ modem = [h \in HwIds |-> NoFence]
  /\ askedPaused = {}

-----------------------------------------------------------------------------
(* The maps.                                                               *)

In(fences) == {h \in HwIds : fences[h] # NoFence}

\* The elements of S in any order: the modem chooses the numbers.
Orders(S) == {s \in [1..Cardinality(S) -> S] : IsInjective(s)}

saveGeofenceItem(hwId, id, options) ==
  /\ mGeofences' = [mGeofences EXCEPT ![hwId] = Fence(id, options, FALSE)]
  /\ mGeofenceIds' = [mGeofenceIds EXCEPT ![id] = hwId]

\* Mutant: the number is forgotten and the fence is kept.
RemoveNumber(hwId) ==
  /\ mGeofenceIds' = [id \in Ids |-> IF mGeofences[hwId].id = id THEN NoHwId ELSE mGeofenceIds[id]]
  /\ UNCHANGED mGeofences

removeGeofenceItem(hwId) ==
  IF mGeofences[hwId] # NoFence /\ mGeofenceIds[mGeofences[hwId].id] # NoHwId
  THEN /\ mGeofenceIds' = [mGeofenceIds EXCEPT ![mGeofences[hwId].id] = NoHwId]
       /\ mGeofences' = [mGeofences EXCEPT ![hwId] = NoFence]
  ELSE UNCHANGED <<mGeofences, mGeofenceIds>>

\* pauseGeofenceItem, resumeGeofenceItem and modifyGeofenceItem
UpdateItem(hwId, fence) ==
  /\ mGeofences' = IF mGeofences[hwId] # NoFence THEN [mGeofences EXCEPT ![hwId] = fence]
                   ELSE mGeofences
  /\ UNCHANGED mGeofenceIds

pauseGeofenceItem(hwId)  == UpdateItem(hwId, [mGeofences[hwId] EXCEPT !.paused = TRUE])
resumeGeofenceItem(hwId) == UpdateItem(hwId, [mGeofences[hwId] EXCEPT !.paused = FALSE])
modifyGeofenceItem(hwId, options) ==
  UpdateItem(hwId, [mGeofences[hwId] EXCEPT !.options = options])

-----------------------------------------------------------------------------
(* What was under way when a call came.                                    *)

CommandsUnderWay ==
  {q.command : q \in Range(reqs)}
    \cup {m.req.command : m \in {n \in Range(msgs) : n.kind \in {"turn", "done"}}}
UnderWay == UNION {Range(m.ids) : m \in CommandsUnderWay \ {NoCommand}}
Recovering ==
  \/ down
  \/ EngineUp \in Range(msgs)
  \/ \E q \in Range(reqs) : q.call = "add" /\ q.then = "restored"
  \/ \E m \in Range(msgs) : m.kind = "restored"
Impatient(S) == IF S \cap UnderWay # {} \/ Recovering THEN {"impatient"} ELSE {}
Of(c) == {id \in Ids : owner[id] = c}

\* The calls of clients.  Bound: all fences of a call have the same options.
Client ==
  /\ \E c \in Clients :
       \/ \E kinds \in Callbacks : locAPISetCallbacks(c, kinds, Impatient(Of(c)))
       \/ clientDestroy(c, Impatient(Of(c)))
       \/ \E k \in 1..MaxFences, o \in Options : locAPIAddGeofences(c, [i \in 1..k |-> o])
       \/ \E ids \in IdSeqs :
            \/ locAPIRemoveGeofences(c, ids, Impatient(Range(ids)))
            \/ locAPIPauseGeofences(c, ids, Impatient(Range(ids)))
            \/ locAPIResumeGeofences(c, ids, Impatient(Range(ids)))
            \/ \E o \in Options :
                 locAPIModifyGeofences(c, ids, [i \in DOMAIN ids |-> o], Impatient(Range(ids)))
  /\ UNCHANGED <<mClientData, adapter, down, modem, askedPaused>>

-----------------------------------------------------------------------------
(* The messages of the adapters' thread.                                   *)

Take(kind) == msgs # <<>> /\ Head(msgs).kind = kind /\ msgs' = Tail(msgs)

MsgAddClient ==
  /\ Take("addClient")
  /\ saveClient(Head(msgs).client, Head(msgs).interface)
  /\ UNCHANGED <<gData, clientBase, calls, history, adapter, locApi>>

\* A request is made by a number that a modem that has crashed since gave.
Stale == IF down \/ EngineUp \in Range(msgs) THEN {"stale"} ELSE {}

\* The numbers of the client's fences are forgotten at once, the fences when the
\* modem has removed them.
stopClientSessions(c, order) ==
  /\ mGeofenceIds' = [id \in Ids |-> IF owner[id] = c THEN NoHwId ELSE mGeofenceIds[id]]
  /\ reqs' = reqs \o [k \in DOMAIN order |->
                        Request("remove", mGeofenceIds[order[k]], NoFence, "stopped")]

MsgRemoveClient ==
  /\ Take("removeClient")
  /\ LET m == Head(msgs) IN
       /\ IF m.interface # "geofence" THEN UNCHANGED <<mGeofenceIds, reqs, past>>
          ELSE \E order \in Orders({id \in Of(m.client) : mGeofenceIds[id] # NoHwId}) :
                 /\ stopClientSessions(m.client, order)
                 /\ past' = IF order = <<>> THEN past ELSE past \cup Stale
       /\ eraseClient(m.client, m.interface)
       /\ IF m.cb THEN onRemoveClientCompleteCb(m.client, m.interface)
          ELSE UNCHANGED <<destroyClientData, deleted>>
  /\ UNCHANGED <<clientData, loaded, clientBase, calls, askedPaused, mGeofences,
                 mSystemPowerState, down, modem>>

\* Mutant: every fence sends the response of its command.
RespondAlways(m, i) ==
  IF m.client \in mClientData["geofence"]
  THEN onCollectiveResponseCb(m.client) /\ UNCHANGED <<mLocationAPI, geofenceSession, mGeofenceBiDict, owner>>
  ELSE UNCHANGED clientBase

\* The last fence of a command sends the response, if the client is still there.
reportResponse(m, i) ==
  IF i = Len(m.ids) /\ m.client \in mClientData["geofence"]
  THEN /\ onCollectiveResponseCb(m.client)
       /\ UNCHANGED <<mLocationAPI, geofenceSession, mGeofenceBiDict, owner>>
  ELSE UNCHANGED clientBase

It == Head(msgs).req
Ok == Head(msgs).ok

\* The turn of a fence: one that the adapter does not know is answered at once.
InTurn ==
  /\ Take("turn")
  /\ LET m    == It.command
         id   == m.ids[It.i]
         hwId == mGeofenceIds[id]
         ask(fence) == reqs' = Append(reqs, Ask(m, It.i, hwId, fence)) /\ UNCHANGED clientBase
     IN  /\ \/ m.op = "add" /\ ask(Fence(id, m.options[It.i], FALSE))
            \/ m.op # "add" /\ hwId = NoHwId /\ reportResponse(m, It.i) /\ UNCHANGED reqs
            \/ m.op = "modify" /\ hwId # NoHwId /\ ask(Fence(id, m.options[It.i], FALSE))
            \/ m.op \in {"remove", "pause", "resume"} /\ hwId # NoHwId /\ ask(NoFence)
         /\ past' = IF m.op # "add" /\ hwId # NoHwId THEN past \cup Stale ELSE past
  /\ UNCHANGED <<gData, mClientData, calls, askedPaused, adapter, down, modem>>

\* The answer for a fence.  A resume that failed sends no response.
Done ==
  /\ Take("done")
  /\ LET m == It.command
         h == It.hwId
     IN  /\ IF Ok /\ m.op = "add" THEN saveGeofenceItem(Head(msgs).hwId, It.fence.id, It.fence.options)
            ELSE IF Ok /\ m.op = "remove" THEN removeGeofenceItem(h)
            ELSE IF Ok /\ m.op = "pause"  THEN pauseGeofenceItem(h)
            ELSE IF Ok /\ m.op = "resume" THEN resumeGeofenceItem(h)
            ELSE IF Ok /\ m.op = "modify" THEN modifyGeofenceItem(h, It.fence.options)
            ELSE UNCHANGED <<mGeofences, mGeofenceIds>>
         /\ askedPaused' = IF Ok /\ m.op = "pause" THEN askedPaused \cup {m.ids[It.i]}
                           ELSE IF Ok /\ m.op = "resume" THEN askedPaused \ {m.ids[It.i]}
                           ELSE askedPaused
         /\ IF ~Ok /\ m.op = "resume" THEN UNCHANGED clientBase ELSE reportResponse(m, It.i)
  /\ UNCHANGED <<gData, mClientData, calls, past, mSystemPowerState, locApi>>

\* of stopClientSessions
Stopped ==
  /\ Take("stopped")
  /\ mGeofences' = IF Ok THEN [mGeofences EXCEPT ![It.hwId] = NoFence] ELSE mGeofences
  /\ UNCHANGED <<gData, mClientData, clientBase, calls, history, mGeofenceIds, mSystemPowerState,
                 locApi>>

\* Mutant: a fence that was paused is added and not paused.
RestoreRunning(fence, hwId) == UNCHANGED reqs

\* A fence that was paused is paused again; what is saved says that it is not.
PauseAgain(fence, hwId) ==
  reqs' = IF fence.paused THEN Append(reqs, Request("pause", hwId, NoFence, "nothing")) ELSE reqs

\* of restartGeofences
Restored ==
  /\ Take("restored")
  /\ IF Ok THEN /\ PauseAgain(It.fence, Head(msgs).hwId)
                /\ saveGeofenceItem(Head(msgs).hwId, It.fence.id, It.fence.options)
     ELSE UNCHANGED <<reqs, mGeofences, mGeofenceIds>>
  /\ UNCHANGED <<gData, mClientData, clientBase, calls, history, mSystemPowerState, down, modem>>

restartGeofences(order) ==
  /\ mGeofences' = [h \in HwIds |-> NoFence]
  /\ mGeofenceIds' = IF order = <<>> THEN mGeofenceIds ELSE [id \in Ids |-> NoHwId]
  /\ reqs' = reqs \o [k \in DOMAIN order |->
                        Request("add", NoHwId, mGeofences[order[k]], "restored")]

MsgSSREvent ==
  /\ Take("engineUp")
  /\ IF mSystemPowerState = "suspend" THEN UNCHANGED <<mGeofences, mGeofenceIds, reqs>>
     ELSE \E order \in Orders(In(mGeofences)) : restartGeofences(order)
  /\ UNCHANGED <<gData, mClientData, clientBase, calls, history, mSystemPowerState, down, modem>>

\* of pauseOrResumeGeofences
PausedOrResumed ==
  /\ Take("paused")
  /\ IF ~Ok THEN UNCHANGED <<mGeofences, mGeofenceIds>>
     ELSE IF It.call = "pause" THEN pauseGeofenceItem(It.hwId) ELSE resumeGeofenceItem(It.hwId)
  /\ UNCHANGED <<gData, mClientData, clientBase, calls, history, mSystemPowerState, locApi>>

pauseOrResumeGeofences(call, order) ==
  reqs' = reqs \o [k \in DOMAIN order |-> Request(call, mGeofenceIds[order[k]], NoFence, "paused")]

\* The message is handled when it comes.
updateSystemPowerState(state) ==
  /\ Count({"suspended"})
  /\ mSystemPowerState' = state
  /\ \E order \in Orders({id \in Ids : mGeofenceIds[id] # NoHwId}) :
       pauseOrResumeGeofences(IF state = "suspend" THEN "pause" ELSE "resume", order)
  /\ UNCHANGED <<gData, mClientData, msgs, clientBase, mGeofences, mGeofenceIds, down, modem,
                 askedPaused>>

-----------------------------------------------------------------------------
(* LocApi carries out the requests in order; the modem crashes.            *)

\* What the modem does: its fences then, and the number of a fence it added.
Outcomes(q) ==
  LET f == IF q.hwId \in HwIds THEN modem[q.hwId] ELSE NoFence
      failed == [ok |-> FALSE, hwId |-> NoHwId, modem |-> modem]
      done(g) == {[ok |-> TRUE, hwId |-> NoHwId, modem |-> [modem EXCEPT ![q.hwId] = g]]}
      served == ~down /\ IF q.call = "add" THEN In(modem) # HwIds ELSE f # NoFence
  IN  IF ~served THEN {failed}
      ELSE CASE q.call = "add" ->
                  {[ok |-> TRUE, hwId |-> h,
                    modem |-> [modem EXCEPT ![h] = [q.fence EXCEPT !.paused = FALSE]]] :
                   h \in HwIds \ In(modem)}
             [] q.call = "remove" -> done(NoFence)
             [] q.call = "pause"  -> done([f EXCEPT !.paused = TRUE])
             [] q.call = "resume" -> done([f EXCEPT !.paused = FALSE])
             [] q.call = "modify" -> done([f EXCEPT !.options = q.fence.options])

TakeTurn ==
  /\ reqs # <<>> /\ Head(reqs).call = "turn"
  /\ msgs' = Append(msgs, [kind |-> "turn", req |-> Head(reqs)])
  /\ reqs' = Tail(reqs)
  /\ UNCHANGED <<gData, mClientData, clientBase, calls, history, adapter, down, modem>>

CarryOut ==
  /\ reqs # <<>> /\ Head(reqs).call \in Operations
  /\ LET q == Head(reqs)
     IN  \E r \in Outcomes(q) :
           /\ modem' = r.modem
           /\ msgs' = IF q.then = "nothing" THEN msgs
                      ELSE Append(msgs, [kind |-> q.then, req |-> q, ok |-> r.ok,
                                         hwId |-> r.hwId])
           /\ past' = IF r.ok THEN past ELSE past \cup {"failed"}
  /\ reqs' = Tail(reqs)
  /\ UNCHANGED <<gData, mClientData, clientBase, calls, adapter, down, askedPaused>>

Open ==
  /\ reqs # <<>> /\ Head(reqs).call = "open"
  /\ reqs' = Tail(reqs)
  /\ down' = FALSE
  /\ msgs' = Append(msgs, EngineUp)
  /\ UNCHANGED <<gData, mClientData, clientBase, calls, history, adapter, modem>>

handleEngineDownEvent ==
  /\ Count(IF "crashed" \in past THEN {"again"} ELSE {"crashed"})
  /\ ~down /\ down' = TRUE
  /\ modem' = [h \in HwIds |-> NoFence]
  /\ reqs' = Append(reqs, Request("open", NoHwId, NoFence, "nothing"))
  /\ UNCHANGED <<gData, mClientData, msgs, clientBase, adapter, askedPaused>>

-----------------------------------------------------------------------------
HandleMsg ==
  \/ MsgAddClient \/ MsgRemoveClient
  \/ InTurn \/ Done \/ Stopped \/ Restored \/ PausedOrResumed \/ MsgSSREvent

Next ==
  \/ Client \/ HandleMsg
  \/ TakeTurn \/ CarryOut \/ Open
  \/ handleEngineDownEvent
  \/ \E state \in {"suspend", "resume"} : updateSystemPowerState(state)

Spec == Init /\ [][Next]_vars

-----------------------------------------------------------------------------
(* Properties.                                                             *)

\* Nothing is on its way and the modem is up.
Settled == reqs = <<>> /\ msgs = <<>> /\ ~down

NoneOf(S) == past \cap S = {}

\* The fences a client would name, if it is still there to be served.
KnownToClients ==
  {id \in Ids : \E c \in Clients : /\ c \in mClientData["geofence"]
                                   /\ id \in mGeofenceBiDict[c] \cap Of(c)}

\* The numbers of the fences can be relied on.  Clients wait for the answers for a
\* fence before they call for it again or go, or a removal that crosses another leaves
\* the fence in one map.  No request is by a number of a crashed modem, which may be
\* another fence's when it is carried out.  No crash is beside a suspension, as in
\* suspension the fences of a modem that is back are not added (168-171) and keep the
\* numbers it did not give.
NumbersHold ==
  NoneOf({"impatient", "stale"}) /\ ~({"crashed", "suspended"} \subseteq past)

\* When a response comes the client takes the first request out of its queue
\* (LocationAPIClientBase.cpp:920-940).  That is the request answered, and no
\* other fence of it is still under way: the adapter answers when it comes to the
\* last fence (GeofenceAdapter.cpp:274-316), whatever became of the others.
\* It takes clients that have callbacks for what they call, requests that do not
\* fail, as a resume that fails has no answer (553-563), and numbers that hold: a
\* fence without a number is answered at once, before the calls that came earlier, if
\* it is not known yet or has lost its number to another.
RespondsInOrder ==
  [][NumbersHold /\ NoneOf({"unserved", "failed"}) =>
       \A c \in Clients :
         /\ mLocationAPI'[c] = "made" /\ mRequestQueues[c] # <<>>
         /\ mRequestQueues'[c] = Tail(mRequestQueues[c])
         => /\ It.command.client = c /\ It.command.n = Head(mRequestQueues[c])
            /\ It.command \notin CommandsUnderWay']_vars

\* When nothing is on its way the adapter has exactly the fences of the modem,
\* with their options, and its two maps are inverse to each other.  So it is
\* after calls that fail, after clients that leave (87-116) and after any number
\* of crashes of the modem (183-218), for the fences that were added again.
\* It takes numbers that hold.
ModemHasFences ==
  Settled /\ NumbersHold =>
    /\ \A h \in HwIds :
         /\ modem[h] = NoFence <=> mGeofences[h] = NoFence
         /\ modem[h] # NoFence => /\ modem[h].id = mGeofences[h].id
                                  /\ modem[h].options = mGeofences[h].options
         /\ mGeofences[h] # NoFence => mGeofenceIds[mGeofences[h].id] = h
    /\ \A id \in Ids : mGeofenceIds[id] # NoHwId => mGeofences[mGeofenceIds[id]].id = id

\* What a client sees of it all: when nothing is on its way every request has
\* been answered, the modem has the fences that clients know and no other, and
\* those are paused that the clients paused, after a crash as before it.
\* It takes, besides the clients of RespondsInOrder, that no request fails or is
\* by a number of a crashed modem, no suspension, as the resumption resumes every
\* fence (920-941), and no second crash: a fence that was paused is saved as running when it is added again
\* (203-212).
FencesServed ==
  Settled /\ NoneOf({"unserved", "failed", "impatient", "suspended", "again", "stale"}) =>
    /\ \A c \in Clients : mRequestQueues[c] = <<>>
    /\ {modem[h].id : h \in In(modem)} = KnownToClients
    /\ \A h \in In(modem) : modem[h].paused <=> modem[h].id \in askedPaused

\* A LocationAPI object is deleted when no adapter has its client any more
\* (LocationAPI.cpp:196-221), in whatever order the adapters have been told of
\* it, and after its destruction it is deleted at last.
DestroyIsComplete ==
  /\ \A c \in deleted : \A i \in Interfaces : c \notin mClientData[i]
  /\ Settled => \A c \in Clients : mLocationAPI[c] = "gone" => c \in deleted
=============================================================================
