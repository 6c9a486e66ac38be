---------------------------- MODULE GnssNiProofs ----------------------------
(***************************************************************************)
(* Proofs about GnssNi for any number of requests, clients and answers: the*)
(* types, one owner for each request, and that each is told its own answer.*)
(***************************************************************************)
EXTENDS GnssNi, SequenceTheorems, FiniteSetTheorems, TLAPS

-----------------------------------------------------------------------------
(* The inductive invariant.                                                *)

InSession(r) == pc[r] \in {"begun", "waiting"}

\* Where a request is: a session has it exactly as long as its thread waits for
\* that session; its thread holds it, and nobody else's, until it has told the
\* modem.  Ids are fewer than the requests that have come.
Placed ==
  /\ \A s \in Sessions : rawRequest[s] # NoRequest =>
       session[rawRequest[s]] = s /\ InSession(rawRequest[s])
  /\ \A r \in Requests :
       /\ InSession(r) => rawRequest[session[r]] = r /\ fate[r] = "asked" /\ held[r] = NoneHeld
       /\ held[r] # NoneHeld => held[r].rawRequest = r /\ pc[r] = "leaving" /\ fate[r] = "asked"
       /\ fate[r] = "asked" => InSession(r) \/ held[r] # NoneHeld
       /\ id[r] # 0 <=> pc[r] # "none"
       /\ fate[r] = "none" => pc[r] = "none" /\ reqIDCounter < r
       /\ pc[r] = "none" => given[r] = {} /\ past[r] = {}

\* The answer of a is what was given to r, and nothing if nothing was.
Own(r, a) == IF given[r] = {} THEN a = "NO_RESPONSE" ELSE a \in given[r]

\* Writes go to the session of their request, and what is to be written was given.
Writing == \A w \in ToSet(todo) : session[w.for] = w.session /\ w.resp \in given[w.for]

\* A flag that is set in an empty session is one that came late.
FlagIsStale == \A s \in Sessions : respRecvd[s] /\ rawRequest[s] = NoRequest => s \in stale

\* A request in a session that nothing has happened to: the session has its id,
\* an answer there is its own, and what was given is there or about to be.
Untouched ==
  \A r \in Requests : InSession(r) /\ past[r] = {} =>
    /\ reqID[session[r]] = id[r]
    /\ respRecvd[session[r]] => resp[session[r]] \in given[r]
    /\ given[r] # {} => respRecvd[session[r]] \/ \E w \in ToSet(todo) : w.for = r

\* What a thread took from the session is the answer to its request.
Taken == \A r \in Requests : held[r] # NoneHeld /\ past[r] = {} => Own(r, held[r].resp)

IInv ==
  TypeOK /\ Placed /\ Writing /\ FlagIsStale /\ Untouched /\ Taken /\ OwnAnswer

-----------------------------------------------------------------------------
(* The sequences of writes, and the requests.                              *)

\* Requests are numbers above 0, which stands for none.
LEMMA RequestFacts == Requests \subseteq Nat /\ NoRequest \notin Requests /\ MaxRequests \in Nat
BY NiAssumption DEF Requests, NoRequest

\* What a sequence begins with and the rest of it are its elements.
LEMMA HeadAndTail ==
  ASSUME NEW S, NEW s \in Seq(S), s # <<>>
  PROVE  /\ Head(s) \in S /\ Tail(s) \in Seq(S) /\ Len(Tail(s)) = Len(s) - 1
         /\ ToSet(s) = {Head(s)} \cup ToSet(Tail(s))
<1>1. /\ Head(s) \in S /\ Tail(s) \in Seq(S) /\ Len(Tail(s)) = Len(s) - 1
      /\ \A i \in 1..Len(Tail(s)) : Tail(s)[i] = s[i + 1]
  BY HeadTailProperties
<1>2. Len(s) \in Nat \ {0} /\ Head(s) = s[1]
  BY EmptySeq
<1>3. DOMAIN s = 1..Len(s) /\ DOMAIN Tail(s) = 1..(Len(s) - 1)
  BY <1>1, LenProperties
<1>4. ASSUME NEW x \in ToSet(s) PROVE x = Head(s) \/ x \in ToSet(Tail(s))
  <2>1. PICK i \in 1..Len(s) : x = s[i]
    BY <1>3 DEF ToSet
  <2>2. CASE i = 1
    BY <1>2, <2>1, <2>2
  <2>3. CASE i # 1
    <3>1. i - 1 \in 1..Len(Tail(s)) /\ Tail(s)[i - 1] = s[i]
      BY <1>1, <1>2, <2>3
    <3>2. QED
      BY <1>1, <1>3, <2>1, <3>1 DEF ToSet
  <2>4. QED
    BY <2>2, <2>3
<1>5. Head(s) \in ToSet(s)
  BY <1>2, <1>3 DEF ToSet
<1>6. ASSUME NEW x \in ToSet(Tail(s)) PROVE x \in ToSet(s)
  <2>1. PICK i \in 1..(Len(s) - 1) : x = Tail(s)[i]
    BY <1>3 DEF ToSet
  <2>2. i + 1 \in 1..Len(s) /\ x = s[i + 1]
    BY <1>1, <1>2, <2>1
  <2>3. QED
    BY <1>3, <2>2 DEF ToSet
<1>7. QED
  BY <1>1, <1>4, <1>5, <1>6

\* An empty sequence has no elements.
LEMMA NoElements == ToSet(<<>>) = {} /\ Len(<<>>) = 0 /\ \A S : <<>> \in Seq(S)
BY DEF ToSet

\* A sequence of a single element has that one.
LEMMA OneElement ==
  ASSUME NEW S, NEW x \in S
  PROVE  ToSet(<<x>>) = {x} /\ <<x>> \in Seq(S) /\ Len(<<x>>) = 1
BY DEF ToSet

\* The elements of a sequence.
LEMMA ElementsOf == ASSUME NEW S, NEW s \in Seq(S) PROVE ToSet(s) \subseteq S
BY LenProperties DEF ToSet

\* A sequence with one more element.
LEMMA OneMore ==
  ASSUME NEW S, NEW s \in Seq(S), NEW x \in S
  PROVE  /\ s \o <<x>> \in Seq(S) /\ Len(s \o <<x>>) = Len(s) + 1
         /\ ToSet(s \o <<x>>) = ToSet(s) \cup {x}
<1> DEFINE t == s \o <<x>>
<1>1. /\ t \in Seq(S) /\ Len(t) = Len(s) + 1 /\ Len(s) \in Nat
      /\ \A i \in 1..Len(s) + 1 : t[i] = IF i <= Len(s) THEN s[i] ELSE x
  BY ConcatProperties, OneElement, LenProperties
<1>2. DOMAIN s = 1..Len(s) /\ DOMAIN t = 1..Len(s) + 1
  BY <1>1, LenProperties
<1> HIDE DEF t
<1>3. ASSUME NEW i \in 1..Len(s) PROVE i \in 1..Len(s) + 1 /\ t[i] = s[i]
  BY <1>1
<1>4. Len(s) + 1 \in 1..Len(s) + 1 /\ t[Len(s) + 1] = x
  BY <1>1
<1>5. ASSUME NEW i \in 1..Len(s) + 1 PROVE t[i] = x \/ (i \in 1..Len(s) /\ t[i] = s[i])
  BY <1>1
<1>6. ToSet(t) = ToSet(s) \cup {x}
  BY <1>2, <1>3, <1>4, <1>5 DEF ToSet
<1>7. QED
  BY <1>1, <1>6 DEF t

\* What is written to the session that is to be ignored is for its request.
LEMMA IgnoreType ==
  ASSUME TypeOK
  PROVE  /\ IgnoreSession \in Seq(Writes) /\ Len(IgnoreSession) <= 1
         /\ \A w \in ToSet(IgnoreSession) : rawRequest[w.session] = w.for
<1>1. rawRequest["session"] \in Requests \cup {NoRequest}
  BY DEF TypeOK, Sessions
<1>2. CASE rawRequest["session"] = NoRequest
  BY <1>2, NoElements DEF IgnoreSession
<1>3. CASE rawRequest["session"] # NoRequest
  <2> DEFINE w == [session |-> "session", resp |-> "IGNORE", for |-> rawRequest["session"]]
  <2>1. w \in Writes /\ rawRequest[w.session] = w.for
    BY <1>1, <1>3 DEF Writes, Sessions, Responses
  <2>2. IgnoreSession = <<w>>
    BY <1>3 DEF IgnoreSession
  <2> HIDE DEF w
  <2>3. QED
    BY <2>1, <2>2, OneElement
<1>4. QED
  BY <1>2, <1>3

-----------------------------------------------------------------------------
(* The steps of the adapter's thread.                                      *)

\* Writes that are decided on when none is left: each is for the request in its
\* session, and what becomes of a request that has just come is not its concern.
LEMMA GiveKeeps ==
  ASSUME IInv, todo = <<>>,
         todo' \in Seq(Writes), Len(todo') <= 2,
         \A w \in ToSet(todo') : rawRequest[w.session] = w.for,
         given' \in [Requests -> SUBSET Responses],
         \A r \in Requests :
           given'[r] = given[r] \cup {w.resp : w \in {v \in ToSet(todo') : v.for = r}},
         fate' \in [Requests -> Fates],
         \A r \in Requests : \/ fate'[r] = fate[r]
                             \/ fate[r] = "none" /\ fate'[r] \notin {"none", "asked"},
         answers' \in 0..MaxAnswers,
         UNCHANGED <<adapterVars, niVars, pc, held, past, session, id, stale>>
  PROVE  IInv'
<1> USE DEF adapterVars, niVars
<1>1. TypeOK'
  BY DEF IInv, TypeOK
<1>2. ToSet(todo) = {} /\ ToSet(todo') \subseteq Writes
  BY NoElements DEF ToSet
<1>3. ASSUME NEW w \in ToSet(todo')
      PROVE  /\ w.for \in Requests /\ session[w.for] = w.session /\ InSession(w.for)
             /\ w.resp \in given'[w.for]
  <2>1. w \in Writes /\ w.for \in Requests /\ w.session \in Sessions
    BY <1>2 DEF Writes
  <2>2. rawRequest[w.session] = w.for /\ w.for # NoRequest
    BY <2>1, RequestFacts
  <2>3. w.resp \in {v.resp : v \in {u \in ToSet(todo') : u.for = w.for}}
    OBVIOUS
  <2>4. QED
    BY <2>1, <2>2, <2>3 DEF IInv, Placed
<1>4. ASSUME NEW r \in Requests, given'[r] # given[r]
      PROVE  InSession(r) /\ \E w \in ToSet(todo') : w.for = r
  <2>1. ASSUME {v \in ToSet(todo') : v.for = r} = {} PROVE FALSE
    <3>1. {w.resp : w \in {v \in ToSet(todo') : v.for = r}} = {}
      BY <2>1
    <3>2. QED
      BY <1>4, <3>1
  <2>2. PICK w \in ToSet(todo') : w.for = r
    BY <2>1
  <2>3. QED
    BY <1>3, <2>2
<1>5. ASSUME NEW r \in Requests, fate'[r] # fate[r]
      PROVE  pc[r] = "none" /\ ~InSession(r) /\ held[r] = NoneHeld /\ id[r] = 0
  BY <1>5 DEF IInv, Placed, InSession
<1>6. Placed'
  <2>1. ASSUME NEW r \in Requests
        PROVE  (pc'[r] = "none" => given'[r] = {} /\ past'[r] = {})
    BY <1>4, <2>1 DEF IInv, Placed, InSession
  <2>2. QED
    BY <1>5, <2>1 DEF IInv, Placed, InSession
<1>7. Writing'
  BY <1>3 DEF Writing
<1>8. FlagIsStale'
  BY DEF IInv, FlagIsStale
<1>9. Untouched'
  BY <1>2, <1>4 DEF IInv, Untouched, InSession
<1>10. Taken'
  <2>1. ASSUME NEW r \in Requests, held[r] # NoneHeld PROVE given'[r] = given[r]
    BY <1>4, <2>1 DEF IInv, Placed
  <2>2. QED
    BY <2>1 DEF IInv, Taken, Own
<1>11. OwnAnswer'
  <2>1. ASSUME NEW r \in Requests, id[r] # 0, fate'[r] # "asked"
        PROVE  fate'[r] = fate[r] /\ given'[r] = given[r]
    BY <1>4, <1>5, <2>1 DEF IInv, Placed
  <2>2. QED
    BY <2>1 DEF IInv, OwnAnswer
<1>12. QED
  BY <1>1, <1>6, <1>7, <1>8, <1>9, <1>10, <1>11 DEF IInv

\* What Give does to each request.
LEMMA GiveFacts ==
  ASSUME IInv, NEW writes \in Seq(Writes), Give(writes)
  PROVE  /\ given' \in [Requests -> SUBSET Responses]
         /\ \A r \in Requests :
              given'[r] = given[r] \cup {w.resp : w \in {v \in ToSet(writes) : v.for = r}}
<1>1. \A w \in ToSet(writes) : w.resp \in Responses
  BY ElementsOf DEF Writes
<1>2. given \in [Requests -> SUBSET Responses]
  BY DEF IInv, TypeOK
<1>3. QED
  BY <1>1, <1>2 DEF Give

\* A client that comes or goes changes nothing a request is about.
LEMMA ClientKeeps ==
  ASSUME IInv, NEW c \in Clients, addClientCommand(c) \/ removeClientCommand(c)
  PROVE  IInv'
<1>1. /\ mClientData' \subseteq Clients
      /\ UNCHANGED <<answers, reqIDCounter, niVars, todo, pc, held, fate, past, history>>
  BY DEF IInv, TypeOK, addClientCommand, removeClientCommand
<1>2. UNCHANGED <<answers, reqIDCounter, rawRequest, reqID, resp, respRecvd, todo, pc, held, fate,
                  past, session, id, given, stale>>
  BY <1>1 DEF niVars, history
<1>3. TypeOK'
  BY <1>1, <1>2 DEF IInv, TypeOK
<1>4. (Placed /\ Writing /\ FlagIsStale)'
  BY <1>2 DEF IInv, Placed, Writing, FlagIsStale, InSession
<1>5. (Untouched /\ Taken /\ OwnAnswer)'
  BY <1>2 DEF IInv, Untouched, Taken, OwnAnswer, InSession, Own
<1>6. QED
  BY <1>3, <1>4, <1>5 DEF IInv

\* A request that is answered at once, freed or left is not in a session, and
\* the session that is to be ignored is told so.
LEMMA DisposeKeeps ==
  ASSUME IInv, todo = <<>>, NEW r \in Requests, fate[r] = "none",
         NEW what \in Fates \ {"none", "asked"}, Dispose(r, what),
         \/ UNCHANGED <<todo, given>>
         \/ todo' = IgnoreSession /\ Give(todo')
  PROVE  IInv'
<1>1. /\ given \in [Requests -> SUBSET Responses] /\ fate \in [Requests -> Fates]
      /\ answers \in 0..MaxAnswers
  BY DEF IInv, TypeOK
<1>2. /\ UNCHANGED <<answers, adapterVars, niVars, pc, held, past, session, id, stale>>
      /\ fate' \in [Requests -> Fates]
      /\ \A q \in Requests : fate'[q] = IF q = r THEN what ELSE fate[q]
  BY <1>1 DEF Dispose
<1>3. CASE UNCHANGED <<todo, given>>
  <2>1. ToSet(todo') = {} /\ Len(todo') <= 2 /\ todo' \in Seq(Writes)
    BY <1>3, NoElements
  <2>2. \A q \in Requests :
          given'[q] = given[q] \cup {w.resp : w \in {v \in ToSet(todo') : v.for = q}}
    BY <1>3, <2>1
  <2>3. QED
    BY <1>1, <1>2, <1>3, <2>1, <2>2, GiveKeeps
<1>4. CASE todo' = IgnoreSession /\ Give(todo')
  <2>1. /\ todo' \in Seq(Writes) /\ Len(todo') <= 2
        /\ \A w \in ToSet(todo') : rawRequest[w.session] = w.for
    BY <1>4, IgnoreType, LenProperties DEF IInv
  <2>2. QED
    BY <1>1, <1>2, <1>4, <2>1, GiveFacts, GiveKeeps
<1>5. QED
  BY <1>3, <1>4

\* A request that takes a free session gets an id of its own; an answer that is
\* left there came late.
LEMMA OccupyKeeps ==
  ASSUME IInv, NEW r \in Requests, NEW s \in Sessions, todo = <<>>, rawRequest[s] = NoRequest,
         fate[r] = "none", \A q \in 1..r - 1 : fate[q] # "none", Occupy(r, s)
  PROVE  IInv'
<1>1. /\ r \in Nat /\ r <= MaxRequests /\ Requests = 1..MaxRequests /\ MaxRequests \in Nat
      /\ NoRequest \notin Requests
  BY RequestFacts DEF Requests
<1>2. /\ reqIDCounter \in Nat /\ reqIDCounter < r /\ reqIDCounter' = reqIDCounter + 1
      /\ pc[r] = "none" /\ given[r] = {} /\ past[r] = {} /\ ~InSession(r) /\ held[r] = NoneHeld
  BY RequestFacts DEF IInv, TypeOK, Placed, InSession, Occupy
<1>3. /\ UNCHANGED <<answers, mClientData, resp, respRecvd, todo, held, given, stale>>
      /\ rawRequest' = [rawRequest EXCEPT ![s] = r]
      /\ reqID' = [reqID EXCEPT ![s] = reqIDCounter + 1]
      /\ pc' = [pc EXCEPT ![r] = "begun"]
      /\ session' = [session EXCEPT ![r] = s]
      /\ id' = [id EXCEPT ![r] = reqIDCounter + 1]
      /\ fate' = [fate EXCEPT ![r] = "asked"]
      /\ past' = IF s \in stale THEN [past EXCEPT ![r] = {"late"}] ELSE past
  BY <1>2 DEF Occupy
<1>4. TypeOK'
  <2>1. reqIDCounter + 1 \in 0..MaxRequests
    BY <1>1, <1>2
  <2>2. past' \in [Requests -> SUBSET {"late", "deadline", "cleared"}]
    BY <1>3 DEF IInv, TypeOK
  <2>3. fate' \in [Requests -> Fates]
    BY <1>3 DEF IInv, TypeOK, Fates
  <2>4. QED
    BY <1>2, <1>3, <2>1, <2>2, <2>3 DEF IInv, TypeOK
<1>5. /\ rawRequest'[s] = r /\ reqID'[s] = reqIDCounter + 1 /\ pc'[r] = "begun"
      /\ session'[r] = s /\ id'[r] = reqIDCounter + 1 /\ fate'[r] = "asked"
      /\ \A t \in Sessions : t # s => rawRequest'[t] = rawRequest[t] /\ reqID'[t] = reqID[t]
      /\ \A q \in Requests : q # r =>
           /\ pc'[q] = pc[q] /\ session'[q] = session[q] /\ id'[q] = id[q]
           /\ fate'[q] = fate[q] /\ past'[q] = past[q]
  BY <1>3 DEF IInv, TypeOK
<1>6. \A q \in Requests : InSession(q) => q # r /\ session[q] # s
  BY <1>1, <1>2 DEF IInv, Placed
<1>7. Placed'
  <2>1. ASSUME NEW t \in Sessions, rawRequest'[t] # NoRequest
        PROVE  (session[rawRequest[t]] = t /\ InSession(rawRequest[t]))'
    <3>1. CASE t = s
      BY <1>5, <3>1 DEF InSession
    <3>2. CASE t # s
      <4>1. rawRequest[t] \in Requests
        BY <1>5, <2>1, <3>2 DEF IInv, TypeOK
      <4>2. session[rawRequest[t]] = t /\ InSession(rawRequest[t]) /\ rawRequest[t] # r
        BY <1>5, <1>6, <2>1, <3>2, <4>1 DEF IInv, Placed
      <4>3. QED
        BY <1>5, <3>2, <4>1, <4>2 DEF InSession
    <3>3. QED
      BY <3>1, <3>2
  <2>2. ASSUME NEW q \in Requests
        PROVE  /\ InSession(q)' =>
                    rawRequest'[session'[q]] = q /\ fate'[q] = "asked" /\ held'[q] = NoneHeld
               /\ held'[q] # NoneHeld =>
                    held'[q].rawRequest = q /\ pc'[q] = "leaving" /\ fate'[q] = "asked"
               /\ fate'[q] = "asked" => InSession(q)' \/ held'[q] # NoneHeld
               /\ id'[q] # 0 <=> pc'[q] # "none"
               /\ pc'[q] = "none" => given'[q] = {} /\ past'[q] = {}
    <3>1. CASE q = r
      BY <1>2, <1>3, <1>5, <3>1 DEF InSession
    <3>2. CASE q # r
      <4>1. session[q] \in Sessions /\ (InSession(q) => session[q] # s)
        BY <1>6 DEF IInv, TypeOK
      <4>2. QED
        BY <1>3, <1>5, <3>2, <4>1 DEF IInv, Placed, InSession
    <3>3. QED
      BY <3>1, <3>2
  <2>3. ASSUME NEW q \in Requests, fate'[q] = "none" PROVE pc'[q] = "none" /\ reqIDCounter' < q
    <3>1. q # r /\ fate[q] = "none"
      BY <1>5, <2>3
    <3>2. q \in Nat /\ ~(q \in 1..r - 1) /\ q >= 1
      BY <1>1, <3>1
    <3>3. r < q
      BY <1>1, <3>1, <3>2
    <3>4. pc[q] = "none"
      BY <3>1 DEF IInv, Placed
    <3>5. QED
      BY <1>1, <1>2, <1>5, <3>1, <3>2, <3>3, <3>4
  <2>4. QED
    BY <2>1, <2>2, <2>3 DEF Placed
<1>8. ToSet(todo) = {}
  BY NoElements
<1>9. Writing'
  BY <1>3, <1>8 DEF Writing
<1>10. FlagIsStale'
  BY <1>3, <1>5, <1>1 DEF IInv, FlagIsStale
<1>11. Untouched'
  <2>1. ASSUME NEW q \in Requests, q # r, InSession(q)', past'[q] = {}
        PROVE  /\ reqID'[session'[q]] = id'[q]
               /\ respRecvd'[session'[q]] => resp'[session'[q]] \in given'[q]
               /\ given'[q] # {} => \/ respRecvd'[session'[q]]
                                    \/ \E w \in ToSet(todo') : w.for = q
    <3>1. InSession(q) /\ past[q] = {} /\ session[q] \in Sessions /\ session[q] # s
      BY <1>5, <1>6, <2>1 DEF IInv, TypeOK, InSession
    <3>2. QED
      BY <1>3, <1>5, <2>1, <3>1 DEF IInv, Untouched
  <2>2. CASE s \in stale
    <3>1. past'[r] = {"late"}
      BY <1>3, <2>2 DEF IInv, TypeOK
    <3>2. QED
      BY <2>1, <3>1 DEF Untouched
  <2>3. CASE s \notin stale
    <3>1. ~respRecvd[s]
      BY <2>3 DEF IInv, FlagIsStale
    <3>2. QED
      BY <1>2, <1>3, <1>5, <2>1, <3>1 DEF Untouched
  <2>4. QED
    BY <2>2, <2>3
<1>12. Taken'
  BY <1>2, <1>3, <1>5 DEF IInv, Taken, Own
<1>13. OwnAnswer'
  BY <1>3, <1>5 DEF IInv, OwnAnswer
<1>14. QED
  BY <1>4, <1>7, <1>9, <1>10, <1>11, <1>12, <1>13 DEF IInv

\* A request that comes is decided on, freed, left, or put to the user.
LEMMA ReportKeeps ==
  ASSUME IInv, NEW r \in Requests, MsgReportNiNotify(r)
  PROVE  IInv'
<1>1. todo = <<>> /\ fate[r] = "none" /\ \A q \in 1..r - 1 : fate[q] # "none"
  BY DEF MsgReportNiNotify
<1>2. {"ACCEPT", "DENY", "freed", "unanswered"} \subseteq Fates \ {"none", "asked"}
  BY DEF Fates, Responses, UserResponses
<1>3. PICK type \in Types, override, emergency, denySupl, suplEs, mtlrEs \in BOOLEAN :
        \/ requestNiNotify(r, type)
        \/ LET d == Decision(type, override, emergency, denySupl, suplEs, mtlrEs)
           IN  d # "ask" /\ Dispose(r, d) /\ UNCHANGED <<todo, given>>
  BY SMTT(30) DEF MsgReportNiNotify
<1>4. CASE requestNiNotify(r, type)
  <2>1. CASE NobodyToAsk(r, type)
    BY <1>1, <1>2, <2>1, DisposeKeeps DEF NobodyToAsk
  <2>2. CASE Dispose(r, "freed") /\ UNCHANGED <<todo, given>>
    BY <1>1, <1>2, <2>2, DisposeKeeps
  <2>3. CASE ~InUse(type) /\ Occupy(r, IF type = "EMERGENCY_SUPL" THEN "sessionEs" ELSE "session")
    <3>1. CASE type = "EMERGENCY_SUPL"
      <4>1. rawRequest["sessionEs"] = NoRequest /\ Occupy(r, "sessionEs")
        BY <2>3, <3>1 DEF InUse
      <4>2. QED
        BY <1>1, <4>1, OccupyKeeps DEF Sessions
    <3>2. CASE type # "EMERGENCY_SUPL"
      <4>1. rawRequest["session"] = NoRequest /\ Occupy(r, "session")
        BY <2>3, <3>2 DEF InUse
      <4>2. QED
        BY <1>1, <4>1, OccupyKeeps DEF Sessions
    <3>3. QED
      BY <3>1, <3>2
  <2>4. QED
    BY <1>4, <2>1, <2>2, <2>3 DEF requestNiNotify
<1>5. CASE LET d == Decision(type, override, emergency, denySupl, suplEs, mtlrEs)
           IN  d # "ask" /\ Dispose(r, d) /\ UNCHANGED <<todo, given>>
  <2> DEFINE d == Decision(type, override, emergency, denySupl, suplEs, mtlrEs)
  <2>1. d \in {"ask", "ACCEPT", "DENY"}
    BY DEF Decision
  <2>2. d # "ask" /\ Dispose(r, d) /\ UNCHANGED <<todo, given>>
    BY <1>5
  <2> HIDE DEF d
  <2>3. QED
    BY <1>1, <1>2, <2>1, <2>2, DisposeKeeps
<1>6. QED
  BY <1>3, <1>4, <1>5

\* The user's answer: to the request in the session found, and to the one to be
\* ignored.
LEMMA ResponseKeeps ==
  ASSUME IInv, NEW c \in Clients, NEW i \in 1..MaxRequests, NEW response \in UserResponses,
         MsgGnssNiResponse(c, i, response)
  PROVE  IInv'
<1>1. /\ todo = <<>> /\ answers < MaxAnswers /\ answers' = answers + 1 /\ Give(todo')
      /\ UNCHANGED <<adapterVars, niVars, pc, held, fate, past, session, id, stale>>
  BY DEF MsgGnssNiResponse
<1>2. PICK s \in ActiveSession(i) :
        todo' = (IF s = "sessionEs" /\ response = "ACCEPT" THEN IgnoreSession ELSE <<>>)
                  \o <<[session |-> s, resp |-> response, for |-> rawRequest[s]]>>
  BY DEF MsgGnssNiResponse
<1> DEFINE before == IF s = "sessionEs" /\ response = "ACCEPT" THEN IgnoreSession ELSE <<>>
           w == [session |-> s, resp |-> response, for |-> rawRequest[s]]
<1>3. w \in Writes /\ rawRequest[w.session] = w.for
  BY DEF IInv, TypeOK, ActiveSession, Writes, Responses
<1>4. /\ before \in Seq(Writes) /\ Len(before) <= 1
      /\ \A v \in ToSet(before) : rawRequest[v.session] = v.for
  BY IgnoreType, NoElements DEF IInv
<1>5. todo' = before \o <<w>>
  BY <1>2
<1> HIDE DEF before, w
<1>6. Len(before) \in Nat
  BY <1>4, LenProperties
<1>7. /\ todo' \in Seq(Writes) /\ Len(todo') <= 2
      /\ \A v \in ToSet(todo') : rawRequest[v.session] = v.for
  BY <1>3, <1>4, <1>5, <1>6, OneMore
<1>8. answers' \in 0..MaxAnswers /\ fate \in [Requests -> Fates]
  BY <1>1, NiAssumption DEF IInv, TypeOK
<1>9. QED
  BY <1>1, <1>7, <1>8, GiveFacts, GiveKeeps

\* An answer that is refused was to a request whose id has been cleared.
LEMMA RefuseKeeps ==
  ASSUME IInv, NEW c \in Clients, NEW i \in 1..MaxRequests, NEW response \in UserResponses,
         RefuseResponse(c, i, response)
  PROVE  IInv'
<1>1. PICK r \in Requests :
        id[r] = i /\ rawRequest[session[r]] = r /\ given' = [given EXCEPT ![r] = @ \cup {response}]
  BY DEF RefuseResponse
<1>2. /\ UNCHANGED <<adapterVars, niVars, todo, pc, held, fate, past, session, id, stale>>
      /\ todo = <<>> /\ ActiveSession(i) = {} /\ answers < MaxAnswers /\ answers' = answers + 1
  BY DEF RefuseResponse
<1>3. session[r] \in Sessions /\ r # NoRequest
  BY RequestFacts DEF IInv, TypeOK
<1>4. InSession(r) /\ pc[r] # "none" /\ held[r] = NoneHeld /\ fate[r] = "asked"
  BY <1>1, <1>3 DEF IInv, Placed, InSession
<1>5. past[r] # {}
  BY <1>1, <1>2, <1>3, <1>4 DEF IInv, Untouched, ActiveSession
<1>6. \A q \in Requests : given[q] \subseteq given'[q] /\ (q # r => given'[q] = given[q])
  BY <1>1 DEF IInv, TypeOK
<1>7. TypeOK'
  <2>1. given' \in [Requests -> SUBSET Responses]
    BY <1>1 DEF IInv, TypeOK, Responses
  <2>2. answers' \in 0..MaxAnswers
    BY <1>2, NiAssumption DEF IInv, TypeOK
  <2>3. QED
    BY <1>2, <2>1, <2>2 DEF IInv, TypeOK, adapterVars, niVars
<1>8. Placed'
  BY <1>2, <1>4, <1>6 DEF IInv, Placed, InSession, adapterVars, niVars
<1>9. ToSet(todo) = {} /\ todo' = todo
  BY <1>2, NoElements
<1>10. Writing'
  BY <1>9 DEF Writing
<1>11. (FlagIsStale /\ Untouched)'
  BY <1>2, <1>5, <1>6 DEF IInv, FlagIsStale, Untouched, InSession, niVars
<1>12. Taken'
  BY <1>2, <1>4, <1>6 DEF IInv, Taken, Own
<1>13. OwnAnswer'
  BY <1>2, <1>4, <1>6 DEF IInv, OwnAnswer
<1>14. QED
  BY <1>7, <1>8, <1>10, <1>11, <1>12, <1>13 DEF IInv

\* A write into its session is the answer to the request there, or makes that
\* one's past, or finds the session empty.
LEMMA WriteKeeps == ASSUME IInv, WriteResponse PROVE IInv'
<1> DEFINE w == Head(todo)
           s == w.session
           q == rawRequest[s]
<1>1. /\ todo # <<>> /\ todo' = Tail(todo)
      /\ resp' = [resp EXCEPT ![s] = w.resp]
      /\ respRecvd' = [respRecvd EXCEPT ![s] = TRUE]
      /\ stale' = IF q = NoRequest THEN stale \cup {s} ELSE stale
      /\ past' = IF q \notin {NoRequest, w.for} THEN [past EXCEPT ![q] = @ \cup {"late"}] ELSE past
      /\ UNCHANGED <<answers, adapterVars, rawRequest, reqID, pc, held, fate, session, id, given>>
  BY DEF WriteResponse
<1>2. /\ w \in Writes /\ todo' \in Seq(Writes) /\ Len(todo') <= 2
      /\ ToSet(todo) = {w} \cup ToSet(todo')
  <2>1. todo \in Seq(Writes) /\ Len(todo) <= 2
    BY DEF IInv, TypeOK
  <2>2. /\ w \in Writes /\ todo' \in Seq(Writes) /\ Len(todo') = Len(todo) - 1
        /\ ToSet(todo) = {w} \cup ToSet(todo')
    BY <1>1, <2>1, HeadAndTail
  <2>3. Len(todo) \in Nat
    BY <2>1, LenProperties
  <2>4. QED
    BY <2>1, <2>2, <2>3
<1>3. /\ s \in Sessions /\ w.resp \in Responses /\ w.for \in Requests
      /\ session[w.for] = s /\ w.resp \in given[w.for]
  BY <1>2 DEF IInv, Writing, Writes
<1> HIDE DEF w
<1>4. /\ resp'[s] = w.resp /\ respRecvd'[s]
      /\ \A t \in Sessions : t # s => resp'[t] = resp[t] /\ respRecvd'[t] = respRecvd[t]
      /\ q \in Requests \cup {NoRequest}
  BY <1>1, <1>3 DEF IInv, TypeOK
<1>5. /\ past' \in [Requests -> SUBSET {"late", "deadline", "cleared"}]
      /\ \A r \in Requests : past'[r] = {} => past[r] = {} /\ (r = q => w.for = r)
      /\ \A r \in Requests : pc[r] = "none" => past'[r] = past[r]
  <2>1. \A r \in Requests : r = q => r # NoRequest /\ pc[r] # "none"
    BY <1>3, RequestFacts DEF IInv, Placed, InSession
  <2>2. CASE q \notin {NoRequest, w.for}
    <3>1. q \in Requests /\ past' = [past EXCEPT ![q] = @ \cup {"late"}]
      BY <1>1, <1>4, <2>2
    <3>2. QED
      BY <2>1, <3>1 DEF IInv, TypeOK
  <2>3. CASE q \in {NoRequest, w.for}
    BY <1>1, <2>1, <2>3 DEF IInv, TypeOK
  <2>4. QED
    BY <2>2, <2>3
<1>6. TypeOK'
  <2>1. stale' \subseteq Sessions
    BY <1>1, <1>3 DEF IInv, TypeOK
  <2>2. QED
    BY <1>1, <1>2, <1>3, <1>5, <2>1 DEF IInv, TypeOK, adapterVars
<1>7. Placed'
  BY <1>1, <1>5 DEF IInv, Placed, InSession, adapterVars
<1>8. Writing'
  BY <1>1, <1>2 DEF IInv, Writing
<1>9. FlagIsStale'
  BY <1>1, <1>4 DEF IInv, FlagIsStale
<1>10. Untouched'
  <2> SUFFICES ASSUME NEW r \in Requests, InSession(r)', past'[r] = {}
               PROVE  /\ reqID[session[r]] = id[r]
                      /\ respRecvd'[session[r]] => resp'[session[r]] \in given[r]
                      /\ given[r] # {} => \/ respRecvd'[session[r]]
                                          \/ \E v \in ToSet(todo') : v.for = r
    BY <1>1 DEF Untouched
  <2>1. InSession(r) /\ past[r] = {} /\ session[r] \in Sessions /\ (r = q => w.for = r)
    BY <1>1, <1>5 DEF IInv, TypeOK, InSession
  <2>2. CASE session[r] = s
    <3>1. r = q
      BY <2>1, <2>2 DEF IInv, Placed
    <3>2. QED
      BY <1>3, <1>4, <2>1, <2>2, <3>1 DEF IInv, Untouched
  <2>3. CASE session[r] # s
    <3>1. r # w.for
      BY <1>3, <2>3
    <3>2. QED
      BY <1>2, <1>4, <2>1, <2>3, <3>1 DEF IInv, Untouched
  <2>4. QED
    BY <2>2, <2>3
<1>11. (Taken /\ OwnAnswer)'
  BY <1>1, <1>5 DEF IInv, Taken, OwnAnswer, Own
<1>12. QED
  BY <1>6, <1>7, <1>8, <1>9, <1>10, <1>11 DEF IInv

-----------------------------------------------------------------------------
(* The steps of a thread.                                                  *)

\* A thread that begins to wait still has its session.
LEMMA BeginKeeps == ASSUME IInv, NEW r \in Requests, Begin(r) PROVE IInv'
<1>1. /\ pc[r] = "begun" /\ pc' = [pc EXCEPT ![r] = "waiting"]
      /\ UNCHANGED <<answers, reqIDCounter, mClientData, rawRequest, reqID, resp, respRecvd, todo,
                     held, fate, past, session, id, given, stale>>
  BY DEF Begin, adapterVars, niVars, history
<1>2. TypeOK'
  BY <1>1 DEF IInv, TypeOK
<1>3. \A q \in Requests : /\ pc'[q] = IF q = r THEN "waiting" ELSE pc[q]
                          /\ InSession(q)' <=> InSession(q)
  BY <1>1 DEF IInv, TypeOK, InSession
<1>4. Placed'
  <2>1. \A s \in Sessions : rawRequest[s] # NoRequest => rawRequest[s] \in Requests
    BY DEF IInv, TypeOK
  <2>2. ASSUME NEW s \in Sessions, rawRequest[s] # NoRequest
        PROVE  (session[rawRequest[s]] = s /\ InSession(rawRequest[s]))'
    <3>1. rawRequest[s] \in Requests /\ session[rawRequest[s]] = s /\ InSession(rawRequest[s])
      BY <2>1, <2>2 DEF IInv, Placed
    <3>2. InSession(rawRequest[s])'
      BY <1>1, <1>3, <3>1 DEF InSession
    <3>3. QED
      BY <1>1, <3>1, <3>2
  <2>3. ASSUME NEW q \in Requests
        PROVE  pc'[q] = "none" <=> pc[q] = "none" /\ (pc[q] = "leaving" <=> pc'[q] = "leaving")
    BY <1>1, <1>3
  <2>4. QED
    BY <1>1, <1>3, <2>2, <2>3 DEF IInv, Placed
<1>5. (Writing /\ FlagIsStale)'
  BY <1>1 DEF IInv, Writing, FlagIsStale
<1>6. Untouched'
  BY <1>1, <1>3 DEF IInv, Untouched
<1>7. (Taken /\ OwnAnswer)'
  BY <1>1 DEF IInv, Taken, OwnAnswer, Own
<1>8. QED
  BY <1>2, <1>4, <1>5, <1>6, <1>7 DEF IInv

\* A thread that takes its request takes an answer that is the request's own,
\* unless something happened to it.
LEMMA FinishKeeps ==
  ASSUME IInv, NEW r \in Requests, InSession(r), NEW a \in Responses, Finish(r, a),
         past' \in [Requests -> SUBSET {"late", "deadline", "cleared"}],
         \A q \in Requests : q # r => past'[q] = past[q],
         past'[r] = {} => past[r] = {} /\ Own(r, a)
  PROVE  IInv'
<1> DEFINE s == session[r]
<1>1. /\ s \in Sessions /\ rawRequest[s] = r /\ fate[r] = "asked" /\ held[r] = NoneHeld
      /\ r # NoRequest /\ pc[r] # "none" /\ id[r] # 0
  BY RequestFacts DEF IInv, TypeOK, Placed, InSession
<1>2. /\ respRecvd' = [respRecvd EXCEPT ![s] = FALSE]
      /\ stale' = stale \ {s}
      /\ resp' = [resp EXCEPT ![s] = "NO_RESPONSE"]
      /\ rawRequest' = [rawRequest EXCEPT ![s] = NoRequest]
      /\ held' = IF a # "IGNORE" THEN [held EXCEPT ![r] = [rawRequest |-> r, resp |-> a]] ELSE held
      /\ fate' = IF a = "IGNORE" THEN [fate EXCEPT ![r] = a] ELSE fate
      /\ pc' = [pc EXCEPT ![r] = "leaving"]
      /\ UNCHANGED <<answers, mClientData, reqIDCounter, reqID, todo, session, id, given>>
  BY <1>1 DEF Finish, ResetFlag, sendResponse, adapterVars
<1>3. TypeOK'
  <2>1. a # "IGNORE" => a \in UserResponses
    BY DEF Responses
  <2>2. held' \in [Requests -> [rawRequest : Requests \cup {NoRequest}, resp : UserResponses]]
    BY <1>2, <2>1 DEF IInv, TypeOK
  <2>3. fate' \in [Requests -> Fates] /\ resp' \in [Sessions -> Responses]
    BY <1>2 DEF IInv, TypeOK, Fates, Responses, UserResponses
  <2>4. /\ respRecvd' \in [Sessions -> BOOLEAN] /\ stale' \subseteq Sessions
        /\ rawRequest' \in [Sessions -> Requests \cup {NoRequest}]
        /\ pc' \in [Requests -> {"none", "begun", "waiting", "leaving", "done"}]
    BY <1>2 DEF IInv, TypeOK
  <2>5. QED
    BY <1>2, <2>2, <2>3, <2>4 DEF IInv, TypeOK
<1>4. /\ ~respRecvd'[s] /\ rawRequest'[s] = NoRequest /\ pc'[r] = "leaving"
      /\ a # "IGNORE" => held'[r] = [rawRequest |-> r, resp |-> a] /\ fate'[r] = "asked"
      /\ a = "IGNORE" => held'[r] = NoneHeld /\ fate'[r] = "IGNORE"
      /\ \A t \in Sessions : t # s =>
           respRecvd'[t] = respRecvd[t] /\ resp'[t] = resp[t] /\ rawRequest'[t] = rawRequest[t]
      /\ \A q \in Requests : q # r => held'[q] = held[q] /\ fate'[q] = fate[q] /\ pc'[q] = pc[q]
  BY <1>1, <1>2 DEF IInv, TypeOK
<1>5. ~InSession(r)' /\ \A q \in Requests : InSession(q)' => q # r /\ InSession(q) /\ session[q] # s
  BY <1>1, <1>4 DEF IInv, Placed, InSession
<1>6. held'[r] # NoneHeld <=> a # "IGNORE"
  BY <1>1, <1>4 DEF NoneHeld
<1>7. Placed'
  <2>1. ASSUME NEW t \in Sessions, rawRequest'[t] # NoRequest
        PROVE  (session[rawRequest[t]] = t /\ InSession(rawRequest[t]))'
    <3>1. t # s /\ rawRequest'[t] = rawRequest[t] /\ rawRequest[t] \in Requests
      BY <1>4, <2>1 DEF IInv, TypeOK
    <3>2. session[rawRequest[t]] = t /\ InSession(rawRequest[t])
      BY <2>1, <3>1 DEF IInv, Placed
    <3>3. rawRequest[t] # r
      BY <3>1, <3>2
    <3>4. QED
      BY <1>2, <1>4, <3>1, <3>2, <3>3 DEF InSession
  <2>2. ASSUME NEW q \in Requests
        PROVE  /\ InSession(q)' =>
                    rawRequest'[session'[q]] = q /\ fate'[q] = "asked" /\ held'[q] = NoneHeld
               /\ held'[q] # NoneHeld =>
                    held'[q].rawRequest = q /\ pc'[q] = "leaving" /\ fate'[q] = "asked"
               /\ fate'[q] = "asked" => InSession(q)' \/ held'[q] # NoneHeld
               /\ id'[q] # 0 <=> pc'[q] # "none"
               /\ fate'[q] = "none" => pc'[q] = "none" /\ reqIDCounter' < q
               /\ pc'[q] = "none" => given'[q] = {} /\ past'[q] = {}
    <3>1. CASE q = r
      BY <1>1, <1>2, <1>4, <1>5, <1>6, <3>1
    <3>2. CASE q # r
      <4>1. session[q] \in Sessions /\ (InSession(q)' => session[q] # s)
        BY <1>5 DEF IInv, TypeOK
      <4>2. InSession(q)' <=> InSession(q)
        BY <1>4, <3>2 DEF InSession
      <4>3. QED
        BY <1>2, <1>4, <3>2, <4>1, <4>2 DEF IInv, Placed
    <3>3. QED
      BY <3>1, <3>2
  <2>3. QED
    BY <2>1, <2>2 DEF Placed
<1>8. Writing'
  BY <1>2 DEF IInv, Writing
<1>9. FlagIsStale'
  BY <1>2, <1>4 DEF IInv, FlagIsStale
<1>10. Untouched'
  <2> SUFFICES ASSUME NEW q \in Requests, InSession(q)', past'[q] = {}
               PROVE  /\ reqID'[session'[q]] = id'[q]
                      /\ respRecvd'[session'[q]] => resp'[session'[q]] \in given'[q]
                      /\ given'[q] # {} => \/ respRecvd'[session'[q]]
                                           \/ \E w \in ToSet(todo') : w.for = q
    BY DEF Untouched
  <2>1. q # r /\ InSession(q) /\ past[q] = {} /\ session[q] \in Sessions /\ session[q] # s
    BY <1>5 DEF IInv, TypeOK
  <2>2. QED
    BY <1>2, <1>4, <2>1 DEF IInv, Untouched
<1>11. Taken'
  <2>1. ASSUME NEW q \in Requests, held'[q] # NoneHeld, past'[q] = {} PROVE Own(q, held[q].resp)'
    <3>1. CASE q = r
      BY <1>2, <1>4, <1>6, <2>1, <3>1 DEF Own
    <3>2. CASE q # r
      BY <1>2, <1>4, <2>1, <3>2 DEF IInv, Taken, Own
    <3>3. QED
      BY <3>1, <3>2
  <2>2. QED
    BY <2>1 DEF Taken
<1>12. OwnAnswer'
  <2>1. ASSUME NEW q \in Requests, id'[q] # 0, fate'[q] # "asked", past'[q] = {}
        PROVE  IF given'[q] = {} THEN fate'[q] = "NO_RESPONSE" ELSE fate'[q] \in given'[q]
    <3>1. CASE q = r
      BY <1>2, <1>4, <2>1, <3>1 DEF Own
    <3>2. CASE q # r
      BY <1>2, <1>4, <2>1, <3>2 DEF IInv, OwnAnswer
    <3>3. QED
      BY <3>1, <3>2
  <2>2. QED
    BY <2>1 DEF OwnAnswer
<1>13. QED
  BY <1>3, <1>7, <1>8, <1>9, <1>10, <1>11, <1>12 DEF IInv

\* The answer that woke the thread is the request's own, if nothing happened to it.
LEMMA WakeKeeps == ASSUME IInv, NEW r \in Requests, Wake(r) PROVE IInv'
<1>1. /\ InSession(r) /\ respRecvd[session[r]] /\ Finish(r, resp[session[r]]) /\ past' = past
  BY DEF Wake, InSession
<1>2. resp[session[r]] \in Responses /\ past \in [Requests -> SUBSET {"late", "deadline", "cleared"}]
  BY DEF IInv, TypeOK
<1>3. past[r] = {} => resp[session[r]] \in given[r]
  BY <1>1 DEF IInv, Untouched
<1>4. QED
  BY <1>1, <1>2, <1>3, FinishKeeps DEF Own

\* When the wait ends, no answer was given to a request nothing happened to.
LEMMA ExpireKeeps == ASSUME IInv, NEW r \in Requests, Expire(r) PROVE IInv'
<1>1. /\ InSession(r) /\ Finish(r, "NO_RESPONSE")
      /\ past' = IF respRecvd[session[r]] \/ \E w \in ToSet(todo) : w.for = r
                 THEN [past EXCEPT ![r] = @ \cup {"deadline"}] ELSE past
  BY DEF Expire, InSession
<1>2. past \in [Requests -> SUBSET {"late", "deadline", "cleared"}]
  BY DEF IInv, TypeOK
<1>3. /\ past' \in [Requests -> SUBSET {"late", "deadline", "cleared"}]
      /\ \A q \in Requests : q # r => past'[q] = past[q]
      /\ past'[r] = {} => past[r] = {} /\ ~respRecvd[session[r]] /\ ~\E w \in ToSet(todo) : w.for = r
  BY <1>1, <1>2
<1>4. past'[r] = {} => Own(r, "NO_RESPONSE")
  BY <1>1, <1>3 DEF IInv, Untouched, Own
<1>5. "NO_RESPONSE" \in Responses
  BY DEF Responses, UserResponses
<1>6. QED
  BY <1>1, <1>3, <1>4, <1>5, FinishKeeps

\* A thread that leaves tells the modem what it holds, and the request that has
\* its session now may lose its id.
LEMMA LeaveKeeps == ASSUME IInv, NEW r \in Requests, Leave(r) PROVE IInv'
<1> DEFINE s == session[r]
           q == rawRequest[s]
<1>1. /\ pc[r] = "leaving"
      /\ reqID' = [reqID EXCEPT ![s] = 0]
      /\ past' = IF q # NoRequest THEN [past EXCEPT ![q] = @ \cup {"cleared"}] ELSE past
      /\ fate' = IF held[r] = NoneHeld THEN fate ELSE [fate EXCEPT ![held[r].rawRequest] = held[r].resp]
      /\ held' = [held EXCEPT ![r] = NoneHeld]
      /\ pc' = [pc EXCEPT ![r] = "done"]
      /\ UNCHANGED <<answers, mClientData, reqIDCounter, rawRequest, resp, respRecvd, todo, session,
                     id, given, stale>>
  BY DEF Leave, gnssNiResponseCommand, adapterVars, history
<1>2. /\ s \in Sessions /\ q \in Requests \cup {NoRequest} /\ ~InSession(r)
      /\ held[r] \in [rawRequest : Requests \cup {NoRequest}, resp : UserResponses]
      /\ held[r] # NoneHeld => held[r].rawRequest = r /\ held[r].resp \in UserResponses
      /\ q # NoRequest => InSession(q) /\ q # r /\ q \in Requests /\ session[q] = s
  BY <1>1 DEF IInv, TypeOK, Placed, InSession
<1>3. /\ fate' = IF held[r] = NoneHeld THEN fate ELSE [fate EXCEPT ![r] = held[r].resp]
      /\ fate' \in [Requests -> Fates]
  BY <1>1, <1>2 DEF IInv, TypeOK, Fates, Responses
<1>4. /\ past' \in [Requests -> SUBSET {"late", "deadline", "cleared"}]
      /\ \A p \in Requests : past'[p] = {} => past[p] = {} /\ p # q
      /\ \A p \in Requests : ~InSession(p) => past'[p] = past[p]
  <2>1. past \in [Requests -> SUBSET {"late", "deadline", "cleared"}]
    BY DEF IInv, TypeOK
  <2>2. CASE q = NoRequest
    BY <1>1, <2>1, <2>2, RequestFacts
  <2>3. CASE q # NoRequest
    BY <1>1, <1>2, <2>1, <2>3
  <2>4. QED
    BY <2>2, <2>3
<1>5. TypeOK'
  <2>1. NoneHeld \in [rawRequest : Requests \cup {NoRequest}, resp : UserResponses]
    BY DEF NoneHeld, UserResponses
  <2>2. held' \in [Requests -> [rawRequest : Requests \cup {NoRequest}, resp : UserResponses]]
    BY <1>1, <2>1 DEF IInv, TypeOK
  <2>3. /\ reqID' \in [Sessions -> 0..MaxRequests]
        /\ pc' \in [Requests -> {"none", "begun", "waiting", "leaving", "done"}]
    BY <1>1, RequestFacts DEF IInv, TypeOK
  <2>4. QED
    BY <1>1, <1>3, <1>4, <2>2, <2>3 DEF IInv, TypeOK
<1>6. /\ held'[r] = NoneHeld /\ pc'[r] = "done" /\ fate'[r] # "asked" /\ pc[r] # "none" /\ id[r] # 0
      /\ fate'[r] # "none"
      /\ \A p \in Requests : p # r => held'[p] = held[p] /\ pc'[p] = pc[p] /\ fate'[p] = fate[p]
      /\ \A t \in Sessions : t # s => reqID'[t] = reqID[t]
  BY <1>1, <1>2, <1>3 DEF IInv, TypeOK, Placed, UserResponses
<1>7. ~InSession(r)' /\ \A p \in Requests : InSession(p)' <=> InSession(p)
  BY <1>1, <1>2, <1>6 DEF InSession
<1>8. Placed'
  <2>1. ASSUME NEW t \in Sessions, rawRequest[t] # NoRequest
        PROVE  (session[rawRequest[t]] = t /\ InSession(rawRequest[t]))'
    <3>1. rawRequest[t] \in Requests /\ session[rawRequest[t]] = t /\ InSession(rawRequest[t])
      BY <2>1 DEF IInv, TypeOK, Placed
    <3>2. rawRequest[t] # r
      BY <1>2, <3>1
    <3>3. QED
      BY <1>1, <1>6, <3>1, <3>2 DEF InSession
  <2>2. ASSUME NEW p \in Requests
        PROVE  /\ InSession(p)' =>
                    rawRequest'[session'[p]] = p /\ fate'[p] = "asked" /\ held'[p] = NoneHeld
               /\ held'[p] # NoneHeld =>
                    held'[p].rawRequest = p /\ pc'[p] = "leaving" /\ fate'[p] = "asked"
               /\ fate'[p] = "asked" => InSession(p)' \/ held'[p] # NoneHeld
               /\ id'[p] # 0 <=> pc'[p] # "none"
               /\ fate'[p] = "none" => pc'[p] = "none" /\ reqIDCounter' < p
               /\ pc'[p] = "none" => given'[p] = {} /\ past'[p] = {}
    <3>1. CASE p = r
      BY <1>1, <1>6, <1>7, <3>1
    <3>2. CASE p # r
      <4>1. pc[p] = "none" => ~InSession(p)
        BY DEF InSession
      <4>2. QED
        BY <1>1, <1>4, <1>6, <1>7, <3>2, <4>1 DEF IInv, Placed
    <3>3. QED
      BY <3>1, <3>2
  <2>3. QED
    BY <1>1, <2>1, <2>2 DEF Placed
<1>9. (Writing /\ FlagIsStale)'
  BY <1>1 DEF IInv, Writing, FlagIsStale
<1>10. Untouched'
  <2> SUFFICES ASSUME NEW p \in Requests, InSession(p)', past'[p] = {}
               PROVE  /\ reqID'[session'[p]] = id'[p]
                      /\ respRecvd'[session'[p]] => resp'[session'[p]] \in given'[p]
                      /\ given'[p] # {} => \/ respRecvd'[session'[p]]
                                           \/ \E w \in ToSet(todo') : w.for = p
    BY DEF Untouched
  <2>1. InSession(p) /\ past[p] = {} /\ session[p] \in Sessions /\ session[p] # s
    BY <1>4, <1>7 DEF IInv, TypeOK, Placed
  <2>2. QED
    BY <1>1, <1>6, <2>1 DEF IInv, Untouched
<1>11. Taken'
  BY <1>1, <1>4, <1>6 DEF IInv, Taken, Own
<1>12. OwnAnswer'
  <2>1. ASSUME NEW p \in Requests, id'[p] # 0, fate'[p] # "asked", past'[p] = {}
        PROVE  IF given'[p] = {} THEN fate'[p] = "NO_RESPONSE" ELSE fate'[p] \in given'[p]
    <3>1. past[p] = {} /\ id[p] # 0 /\ given'[p] = given[p]
      BY <1>1, <1>4, <2>1
    <3>2. CASE p = r /\ held[r] # NoneHeld
      <4>1. fate'[p] = held[r].resp
        BY <1>3, <3>2 DEF IInv, TypeOK
      <4>2. QED
        BY <3>1, <3>2, <4>1 DEF IInv, Taken, Own
    <3>3. CASE p # r \/ held[r] = NoneHeld
      <4>1. fate'[p] = fate[p]
        BY <1>3, <1>6, <3>3
      <4>2. QED
        BY <2>1, <3>1, <4>1 DEF IInv, OwnAnswer
    <3>4. QED
      BY <3>2, <3>3
  <2>2. QED
    BY <2>1 DEF OwnAnswer
<1>13. QED
  BY <1>5, <1>8, <1>9, <1>10, <1>11, <1>12 DEF IInv

-----------------------------------------------------------------------------
(* The invariant holds, and with it the properties.                        *)

\* No request has come, and no session has one.
LEMMA InitIInv == Init => IInv
<1> SUFFICES ASSUME Init PROVE IInv
  OBVIOUS
<1>1. TypeOK
  BY NiAssumption, NoElements
     DEF Init, TypeOK, NoneHeld, Fates, Responses, UserResponses, Sessions
<1>2. ToSet(todo) = {}
  BY NoElements DEF Init
<1>3. Placed
  BY RequestFacts DEF Init, Placed, InSession, Requests
<1>4. QED
  BY <1>1, <1>2, <1>3
     DEF Init, IInv, Writing, FlagIsStale, Untouched, Taken, OwnAnswer, InSession

\* Every step keeps the invariant.
LEMMA NextIInv == IInv /\ [Next]_vars => IInv'
<1> SUFFICES ASSUME IInv, [Next]_vars PROVE IInv'
  OBVIOUS
<1>1. ASSUME NEW c \in Clients, addClientCommand(c) \/ removeClientCommand(c) PROVE IInv'
  BY <1>1, ClientKeeps
<1>2. ASSUME NEW r \in Requests, MsgReportNiNotify(r) PROVE IInv'
  BY <1>2, ReportKeeps
<1>3. ASSUME NEW c \in Clients, NEW i \in 1..MaxRequests, NEW response \in UserResponses,
             MsgGnssNiResponse(c, i, response) \/ RefuseResponse(c, i, response)
      PROVE  IInv'
  BY <1>3, ResponseKeeps, RefuseKeeps
<1>4. ASSUME WriteResponse PROVE IInv'
  BY <1>4, WriteKeeps
<1>5. ASSUME NEW r \in Requests, niThreadProc(r) PROVE IInv'
  BY <1>5, BeginKeeps, WakeKeeps, ExpireKeeps, LeaveKeeps DEF niThreadProc
<1>6. CASE UNCHANGED vars
  <2>1. UNCHANGED <<answers, mClientData, reqIDCounter, rawRequest, reqID, resp, respRecvd, todo, pc,
                    held, fate, past, session, id, given, stale>>
    BY <1>6 DEF vars, adapterVars, niVars
  <2>2. (TypeOK /\ Placed)'
    BY <2>1 DEF IInv, TypeOK, Placed, InSession
  <2>3. (Writing /\ FlagIsStale /\ Untouched)'
    BY <2>1 DEF IInv, Writing, FlagIsStale, Untouched, InSession
  <2>4. (Taken /\ OwnAnswer)'
    BY <2>1 DEF IInv, Taken, OwnAnswer, Own
  <2>5. QED
    BY <2>2, <2>3, <2>4 DEF IInv
<1>7. QED
  BY <1>1, <1>2, <1>3, <1>4, <1>5, <1>6 DEF Next

\* The invariant holds in every state that is reached.
LEMMA AlwaysIInv == Spec => []IInv
BY InitIInv, NextIInv, PTL DEF Spec

\* The sessions, the threads and what is kept of requests always have their types.
THEOREM TypeCorrect == Spec => []TypeOK
<1>1. IInv => TypeOK
  BY DEF IInv
<1>2. QED
  BY <1>1, AlwaysIInv, PTL

\* A request is in its session, or with its thread, or nowhere.
LEMMA PlacedOnce == ASSUME TypeOK, Placed PROVE OneOwner
<1> SUFFICES ASSUME NEW r \in Requests
             PROVE  Cardinality({s \in Sessions : rawRequest[s] = r} \cup
                                {q \in Requests : held[q].rawRequest = r})
                      = IF fate[r] = "asked" THEN 1 ELSE 0
  BY DEF OneOwner
<1> DEFINE owners == {s \in Sessions : rawRequest[s] = r} \cup
                     {q \in Requests : held[q].rawRequest = r}
<1>1. r # NoRequest /\ session[r] \in Sessions
  BY RequestFacts DEF TypeOK
<1>2. ASSUME NEW s \in Sessions, rawRequest[s] = r PROVE s = session[r] /\ InSession(r)
  BY <1>1, <1>2 DEF Placed
<1>3. ASSUME NEW q \in Requests, held[q].rawRequest = r PROVE q = r /\ held[r] # NoneHeld
  BY <1>1, <1>3 DEF Placed, NoneHeld
<1>4. InSession(r) => rawRequest[session[r]] = r /\ fate[r] = "asked" /\ held[r] = NoneHeld
  BY DEF Placed
<1>5. held[r] # NoneHeld => held[r].rawRequest = r /\ fate[r] = "asked"
  BY DEF Placed
<1>6. fate[r] = "asked" => InSession(r) \/ held[r] # NoneHeld
  BY DEF Placed
<1>7. CASE InSession(r)
  <2>1. owners = {session[r]}
    BY <1>1, <1>2, <1>3, <1>4, <1>7
  <2>2. QED
    BY <1>4, <1>7, <2>1, FS_Singleton
<1>8. CASE held[r] # NoneHeld
  <2>1. owners = {r}
    BY <1>2, <1>3, <1>4, <1>5, <1>8
  <2>2. QED
    BY <1>5, <1>8, <2>1, FS_Singleton
<1>9. CASE ~InSession(r) /\ held[r] = NoneHeld
  <2>1. owners = {}
    BY <1>2, <1>3, <1>9
  <2>2. QED
    BY <1>6, <1>9, <2>1, FS_EmptySet
<1>10. QED
  BY <1>7, <1>8, <1>9

\* The modem's data of a request are never lost nor freed twice, and the modem is
\* told what was answered to this request, for any number of requests, clients
\* and answers.
THEOREM AnswersCorrect == Spec => []AnswersAreTheirOwn
<1>1. IInv => AnswersAreTheirOwn
  BY PlacedOnce DEF IInv, AnswersAreTheirOwn
<1>2. QED
  BY <1>1, AlwaysIInv, PTL

=============================================================================
