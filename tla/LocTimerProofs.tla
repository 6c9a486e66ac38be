--------------------------- MODULE LocTimerProofs ---------------------------
(***************************************************************************)
(* Proofs about LocTimer for any number of clients, starts and time-outs:  *)
(* the types, the life of a delegate, the wake-ups of the poll thread, and *)
(* that a timer that was stopped is not called back.                       *)
(***************************************************************************)
EXTENDS LocTimer, SequenceTheorems, WellFoundedInduction, TLAPS

-----------------------------------------------------------------------------
(* The inductive invariant.                                                *)

\* Only delegates that have been made are anywhere; a client has its own, which
\* nobody has stopped and whose removal nobody has asked for.
Made ==
  /\ \A c \in Clients : mTimer[c] # None =>
       mTimer[c] <= starts /\ mClient[mTimer[c]] = c /\ mTimer[c] \notin stopped
  /\ \A i \in DOMAIN msgs : msgs[i].type # "Expire" => msgs[i].timer <= starts
  /\ \A i \in DOMAIN msgs : msgs[i].type = "Remove" => \A c \in Clients : mTimer[c] # msgs[i].timer
  /\ \A d \in heap \cup deleted \cup stopped : d <= starts

ExpirePosted == \E i \in DOMAIN msgs : msgs[i].type = "Expire"

\* What the message thread knows in the midst of an expiry: a timer that is to
\* be called back is no client's any more, so that nobody can stop it; and the
\* fd that is to be armed is polled, or its expiry is on its way.
Expiring ==
  /\ mpc \in {"expire", "stop", "callback"} => timer # None /\ timer <= starts
  /\ mpc = "stop" => client \in Clients
  /\ mpc = "callback" => timer \notin stopped /\ \A c \in Clients : mTimer[c] # timer
  /\ mpc = "arm" => heap # {} /\ (polled \/ ppc = "send" \/ ExpirePosted)

\* TickingIsArmed, in terms of all the timers that tick.
Armed ==
  heap # {} =>
    \/ polled /\ armed # None /\ \A d \in heap : armed <= due[d]
    \/ ppc # "wait"
    \/ ExpirePosted
    \/ mpc # "idle"

IInv == TypeOK /\ NoDanglingDelegate /\ Made /\ Expiring /\ Armed

-----------------------------------------------------------------------------
(* The heap, the fd and the queue.                                         *)

\* Delegates and times are numbers, and none is None.
LEMMA ConstantFacts ==
  /\ Delegates \subseteq Nat /\ Times \subseteq Nat /\ None \in Nat
  /\ None \notin Delegates /\ None \notin Times
  /\ MaxStarts \in Nat /\ MaxTime \in Nat
BY TimerBounds DEF Delegates, Times, None

\* Every set of numbers that is not empty has a least one.
LEMMA Least == ASSUME NEW T \in SUBSET Nat, T # {} PROVE \E x \in T : \A y \in T : x <= y
<1>1. PICK x \in T : \A y \in T : ~(<<y, x>> \in OpToRel(<, Nat))
  BY NatLessThanWellFounded, WFMin, Zenon
<1>2. \A y \in T : y < x => <<y, x>> \in OpToRel(<, Nat)
  BY DEF OpToRel
<1>3. \A y \in T : ~(y < x)
  BY <1>1, <1>2, Zenon
<1>4. \A y \in T : x <= y
  <2> TAKE y \in T
  <2>1. ~(y < x) /\ x \in Nat /\ y \in Nat
    BY <1>3
  <2>2. QED
    BY <2>1
<1>5. QED
  BY <1>4

\* The top of a heap is one of the soonest in it: of the delegates with the
\* least time, the one with the least number.
LEMMA TopIsSoonest ==
  ASSUME TypeOK, NEW h \in SUBSET Delegates, h # {}
  PROVE  /\ Top(h) \in h /\ Top(h) # None /\ due[Top(h)] \in Nat
         /\ \A e \in h : due[Top(h)] <= due[e]
<1>1. /\ \A d \in h : d \in Nat /\ due[d] \in Nat
      /\ None \notin h
  BY ConstantFacts DEF TypeOK
<1>2. PICK d \in h : \A e \in h : due[d] <= due[e]
  <2> DEFINE T == {due[e] : e \in h}
  <2>1. T \in SUBSET Nat /\ T # {}
    BY <1>1
  <2>2. PICK t \in T : \A u \in T : t <= u
    BY <2>1, Least
  <2>3. QED
    BY <2>2
<1>3. PICK x \in {e \in h : due[e] = due[d]} : \A y \in {e \in h : due[e] = due[d]} : x <= y
  <2> DEFINE T == {e \in h : due[e] = due[d]}
  <2>1. T \in SUBSET Nat /\ T # {}
    BY <1>1
  <2>2. QED
    BY <2>1, Least
<1>4. \A e \in h : Sooner(x, e)
  <2> TAKE e \in h
  <2>1. /\ due[x] = due[d] /\ due[d] <= due[e] /\ due[d] \in Nat /\ due[e] \in Nat
        /\ due[e] = due[d] => x <= e
    BY <1>1, <1>2, <1>3
  <2>2. QED
    BY <2>1 DEF Sooner
<1>5. Top(h) \in h /\ \A e \in h : Sooner(Top(h), e)
  BY <1>4, Zenon DEF Top
<1>6. QED
  BY <1>1, <1>5 DEF Sooner

\* The fd is about to be armed, or it need not be: the top is no sooner than it was.
LEMMA UpdateFacts ==
  ASSUME TypeOK, NEW priorTop \in Delegates \cup {None}, NEW h \in SUBSET Delegates,
         updateSoonestTime(priorTop, h)
  PROVE  \/ polled' = TRUE /\ mpc' = "arm" /\ h # {}
         \/ /\ polled' = polled /\ mpc' = "idle"
            /\ h # {} => priorTop # None /\ \A d \in h : due[priorTop] <= due[d]
<1>1. CASE h = {}
  BY <1>1 DEF updateSoonestTime
<1>2. CASE h # {} /\ (priorTop = None \/ (Top(h) # priorTop /\ due[Top(h)] < due[priorTop]))
  BY <1>2, TopIsSoonest DEF updateSoonestTime
<1>3. CASE h # {} /\ priorTop # None /\ (Top(h) = priorTop \/ ~(due[Top(h)] < due[priorTop]))
  <2>1. /\ \A d \in h : due[d] \in Nat /\ due[Top(h)] <= due[d]
        /\ due[Top(h)] \in Nat /\ due[priorTop] \in Nat
    BY <1>3, TopIsSoonest, ConstantFacts DEF TypeOK
  <2>2. \A d \in h : due[priorTop] <= due[d]
    BY <1>3, <2>1
  <2>3. QED
    BY <1>3, <2>2 DEF updateSoonestTime
<1>4. QED
  BY <1>1, <1>2, <1>3

\* A message that is posted goes behind the others.
LEMMA PostFacts ==
  ASSUME TypeOK, NEW m \in Messages, Post(m)
  PROVE  /\ msgs' \in Seq(Messages) /\ Len(msgs) \in Nat
         /\ DOMAIN msgs = 1..Len(msgs) /\ DOMAIN msgs' = 1..Len(msgs) + 1
         /\ \A i \in DOMAIN msgs : i \in DOMAIN msgs' /\ msgs'[i] = msgs[i]
         /\ msgs'[Len(msgs) + 1] = m
         /\ ExpirePosted => ExpirePosted'
<1>1. msgs \in Seq(Messages) /\ msgs' = Append(msgs, m)
  BY DEF TypeOK, Post
<1>2. /\ msgs' \in Seq(Messages) /\ Len(msgs) \in Nat /\ Len(msgs') = Len(msgs) + 1
      /\ \A i \in 1..Len(msgs) : msgs'[i] = msgs[i]
      /\ msgs'[Len(msgs) + 1] = m
  BY <1>1, AppendProperties, LenProperties
<1>3. DOMAIN msgs = 1..Len(msgs) /\ DOMAIN msgs' = 1..Len(msgs) + 1
  BY <1>1, <1>2, LenProperties
<1>4. \A i \in 1..Len(msgs) : i \in 1..Len(msgs) + 1
  BY <1>2
<1>5. QED
  BY <1>2, <1>3, <1>4 DEF ExpirePosted

\* The message that is taken is the first, and the others move up.
LEMMA TakeFacts ==
  ASSUME TypeOK, msgs # <<>>, msgs' = Tail(msgs)
  PROVE  /\ msgs' \in Seq(Messages) /\ Head(msgs) \in Messages
         /\ 1 \in DOMAIN msgs /\ Head(msgs) = msgs[1]
         /\ \A i \in DOMAIN msgs' : /\ i \in Nat /\ i + 1 \in DOMAIN msgs /\ 1 < i + 1
                                    /\ msgs'[i] = msgs[i + 1]
         /\ Head(msgs).type # "Expire" /\ ExpirePosted => ExpirePosted'
<1>1. msgs \in Seq(Messages)
  BY DEF TypeOK
<1>2. /\ msgs' \in Seq(Messages) /\ Head(msgs) \in Messages /\ Len(msgs') = Len(msgs) - 1
      /\ \A i \in 1..Len(msgs') : msgs'[i] = msgs[i + 1]
  BY <1>1, HeadTailProperties
<1>3. /\ Len(msgs) \in Nat \ {0} /\ Head(msgs) = msgs[1]
      /\ DOMAIN msgs = 1..Len(msgs) /\ DOMAIN msgs' = 1..Len(msgs) - 1
  BY <1>1, <1>2, EmptySeq, LenProperties
<1>4. ASSUME Head(msgs).type # "Expire", ExpirePosted PROVE ExpirePosted'
  <2>1. PICK i \in DOMAIN msgs : msgs[i].type = "Expire"
    BY <1>4 DEF ExpirePosted
  <2>2. i # 1
    BY <1>3, <1>4, <2>1
  <2>3. i - 1 \in DOMAIN msgs' /\ msgs'[i - 1] = msgs[i]
    BY <1>2, <1>3, <2>2
  <2>4. QED
    BY <2>1, <2>3 DEF ExpirePosted
<1>5. QED
  BY <1>2, <1>3, <1>4

-----------------------------------------------------------------------------
(* The clients.                                                            *)

\* A timer that is started is one nobody has heard of.
LEMMA StartKeeps ==
  ASSUME IInv, NEW c \in Clients, NEW delay \in Delays, Start(c, delay)
  PROVE  IInv'
<1> DEFINE d == starts + 1
           m == [type |-> "Push", timer |-> d]
<1>1. /\ starts < MaxStarts /\ now + delay <= MaxTime
      /\ starts' = d /\ mTimer' = [mTimer EXCEPT ![c] = d] /\ mClient' = [mClient EXCEPT ![d] = c]
      /\ due' = [due EXCEPT ![d] = now + delay] /\ Post(m)
      /\ UNCHANGED <<now, heap, deleted, armed, polled, ppc, mpc, timer, client, nowRead, stopped, fired>>
  BY DEF Start, heapVars, fdVars, msgPc, history
<1>2. /\ d \in Delegates /\ d \in Nat /\ starts \in Nat /\ d # None /\ starts < d
      /\ now + delay \in Times
      /\ \A e \in Delegates : e \in Nat /\ e # None
  BY <1>1, ConstantFacts, TimerBounds DEF IInv, TypeOK, Delegates, Times
<1>3. m \in Messages
  BY <1>2 DEF Messages
<1> HIDE DEF d
<1>4. /\ msgs' \in Seq(Messages) /\ Len(msgs) \in Nat
      /\ DOMAIN msgs = 1..Len(msgs) /\ DOMAIN msgs' = 1..Len(msgs) + 1
      /\ \A i \in DOMAIN msgs : i \in DOMAIN msgs' /\ msgs'[i] = msgs[i]
      /\ msgs'[Len(msgs) + 1] = m
      /\ ExpirePosted => ExpirePosted'
  BY <1>1, <1>3, PostFacts DEF IInv
<1>5. TypeOK'
  <2>1. starts' \in 0..MaxStarts
    BY <1>1, <1>2, ConstantFacts DEF Delegates
  <2>2. /\ mTimer' \in [Clients -> Delegates \cup {None}]
        /\ mClient' \in [Delegates -> Clients \cup {NoClient}]
        /\ due' \in [Delegates -> Times]
    BY <1>1, <1>2 DEF IInv, TypeOK
  <2>3. QED
    BY <1>1, <1>4, <2>1, <2>2 DEF IInv, TypeOK
<1>6. /\ mTimer'[c] = d /\ mClient'[d] = c
      /\ \A b \in Clients : b # c => mTimer'[b] = mTimer[b]
      /\ \A e \in Delegates : e # d => mClient'[e] = mClient[e] /\ due'[e] = due[e]
  BY <1>1, <1>2 DEF IInv, TypeOK
<1>7. /\ \A e \in heap \cup deleted \cup stopped : e # d /\ e \in Delegates /\ e <= starts'
      /\ \A i \in DOMAIN msgs : msgs[i].type # "Expire" => msgs[i].timer # d /\ msgs[i].timer <= starts'
      /\ \A b \in Clients : mTimer[b] # None => mTimer[b] # d /\ mTimer[b] \in Delegates /\ mTimer[b] <= starts'
  <2>1. \A i \in DOMAIN msgs : msgs[i].type # "Expire" => msgs[i].timer \in Delegates
    <3>1. \A i \in DOMAIN msgs : msgs[i] \in Messages
      BY <1>4, ElementOfSeq DEF IInv, TypeOK
    <3>2. QED
      BY <3>1 DEF Messages
  <2>2. QED
    BY <1>1, <1>2, <2>1 DEF IInv, TypeOK, Made, d
<1>8. \A i \in DOMAIN msgs' : i \in DOMAIN msgs \/ i = Len(msgs) + 1
  BY <1>4
<1>9. NoDanglingDelegate'
  <2>1. (deleted \cap heap = {} /\ (timer \notin deleted \/ mpc \notin {"expire", "stop"}))'
    BY <1>1 DEF IInv, NoDanglingDelegate
  <2>2. ASSUME NEW i \in DOMAIN msgs', msgs'[i].type # "Expire" PROVE msgs'[i].timer \notin deleted'
    BY <1>1, <1>4, <1>7, <1>8, <2>2 DEF IInv, NoDanglingDelegate
  <2>3. ASSUME NEW i \in DOMAIN msgs', NEW j \in DOMAIN msgs', i < j,
               msgs'[i].type = "Remove", msgs'[j].type # "Expire"
        PROVE  msgs'[i].timer # msgs'[j].timer
    <3>1. i \in DOMAIN msgs /\ msgs'[i] = msgs[i]
      BY <1>4, <1>8, <2>3
    <3>2. CASE j \in DOMAIN msgs
      BY <1>4, <2>3, <3>1, <3>2 DEF IInv, NoDanglingDelegate
    <3>3. CASE j = Len(msgs) + 1
      BY <1>4, <1>7, <2>3, <3>1, <3>3
    <3>4. QED
      BY <1>8, <3>2, <3>3
  <2>4. \A b \in Clients : mTimer'[b] \notin deleted'
    BY <1>1, <1>6, <1>7 DEF IInv, NoDanglingDelegate
  <2>5. QED
    BY <2>1, <2>2, <2>3, <2>4 DEF NoDanglingDelegate
<1>10. Made'
  <2>1. ASSUME NEW b \in Clients, mTimer'[b] # None
        PROVE  mTimer'[b] <= starts' /\ mClient'[mTimer'[b]] = b /\ mTimer'[b] \notin stopped'
    <3>1. CASE b = c
      BY <1>1, <1>2, <1>6, <1>7, <3>1
    <3>2. CASE b # c
      BY <1>1, <1>6, <1>7, <2>1, <3>2 DEF IInv, Made
    <3>3. QED
      BY <3>1, <3>2
  <2>2. ASSUME NEW i \in DOMAIN msgs', msgs'[i].type # "Expire" PROVE msgs'[i].timer <= starts'
    BY <1>1, <1>2, <1>4, <1>7, <1>8, <2>2
  <2>3. ASSUME NEW i \in DOMAIN msgs', msgs'[i].type = "Remove", NEW b \in Clients
        PROVE  mTimer'[b] # msgs'[i].timer
    <3>1. i \in DOMAIN msgs /\ msgs'[i] = msgs[i]
      BY <1>4, <1>8, <2>3
    <3>2. QED
      BY <1>6, <1>7, <2>3, <3>1 DEF IInv, Made
  <2>4. QED
    BY <1>1, <1>7, <2>1, <2>2, <2>3 DEF Made
<1>11. Expiring'
  <2>1. mpc = "callback" => \A b \in Clients : mTimer'[b] # timer
    <3>1. mpc = "callback" => timer # d
      BY <1>2 DEF IInv, Expiring, d
    <3>2. QED
      BY <1>6, <3>1 DEF IInv, Expiring
  <2>2. mpc \in {"expire", "stop", "callback"} => timer # None /\ timer <= starts'
    <3>1. mpc \in {"expire", "stop", "callback"} => timer \in Nat /\ timer <= starts /\ timer # None
      BY <1>2 DEF IInv, TypeOK, Expiring
    <3>2. QED
      BY <1>1, <1>2, <3>1 DEF d
  <2>3. QED
    BY <1>1, <1>4, <2>1, <2>2 DEF IInv, Expiring
<1>12. Armed'
  BY <1>1, <1>4, <1>6, <1>7 DEF IInv, Armed
<1>13. QED
  BY <1>5, <1>9, <1>10, <1>11, <1>12 DEF IInv

\* The timer a client gives up is handed to the message thread for removal, and
\* no one else can have asked for it.
LEMMA RemovalPosted ==
  ASSUME IInv, NEW c \in Clients, mTimer[c] # None,
         mTimer' = [mTimer EXCEPT ![c] = None], destroyLocked(mTimer[c]),
         stopped' \in {stopped, stopped \cup {mTimer[c]}},
         UNCHANGED <<starts, heap, deleted>>
  PROVE  /\ mTimer[c] \in Delegates /\ mTimer[c] <= starts /\ mTimer[c] \notin deleted
         /\ mTimer[c] \notin stopped
         /\ mTimer' \in [Clients -> Delegates \cup {None}]
         /\ mClient' \in [Delegates -> Clients \cup {NoClient}]
         /\ msgs' \in Seq(Messages) /\ stopped' \subseteq Delegates
         /\ \A b \in Clients : mTimer'[b] # mTimer[c]
         /\ \A b \in Clients : mTimer'[b] = mTimer[b] \/ mTimer'[b] = None
         /\ ExpirePosted => ExpirePosted'
         /\ \A i \in DOMAIN msgs' : msgs'[i].type # "Expire" => msgs'[i].timer \notin deleted
         /\ \A i, j \in DOMAIN msgs' :
              i < j /\ msgs'[i].type = "Remove" /\ msgs'[j].type # "Expire"
                => msgs'[i].timer # msgs'[j].timer
         /\ \A b \in Clients : mTimer'[b] \notin deleted
         /\ Made'
<1> DEFINE d == mTimer[c]
           m == [type |-> "Remove", timer |-> d]
<1>1. d \in Delegates /\ d # None /\ d <= starts /\ d \notin deleted /\ d \notin stopped
  BY DEF IInv, TypeOK, Made, NoDanglingDelegate
<1>2. m \in Messages /\ m.type = "Remove" /\ m.timer = d
  BY <1>1 DEF Messages
<1>3. Post(m) /\ mClient' = [mClient EXCEPT ![d] = NoClient]
  BY DEF destroyLocked
<1>4. /\ msgs' \in Seq(Messages) /\ Len(msgs) \in Nat
      /\ DOMAIN msgs = 1..Len(msgs) /\ DOMAIN msgs' = 1..Len(msgs) + 1
      /\ \A i \in DOMAIN msgs : i \in DOMAIN msgs' /\ msgs'[i] = msgs[i]
      /\ msgs'[Len(msgs) + 1] = m
      /\ ExpirePosted => ExpirePosted'
  BY <1>2, <1>3, PostFacts DEF IInv
<1> HIDE DEF m
<1>5. \A i \in DOMAIN msgs' : \/ i \in DOMAIN msgs /\ msgs'[i] = msgs[i]
                              \/ i = Len(msgs) + 1 /\ msgs'[i] = m
  BY <1>4
<1>6. /\ mTimer' \in [Clients -> Delegates \cup {None}]
      /\ mClient' \in [Delegates -> Clients \cup {NoClient}]
      /\ stopped' \subseteq Delegates
  BY <1>1, <1>3 DEF IInv, TypeOK
<1>7. /\ mTimer'[c] = None
      /\ \A b \in Clients : b # c => mTimer'[b] = mTimer[b] /\ mTimer'[b] # d
      /\ \A e \in Delegates : e # d => mClient'[e] = mClient[e]
  <2>1. \A b \in Clients : b # c => mTimer[b] # d
    BY <1>1 DEF IInv, Made
  <2>2. QED
    BY <1>1, <1>3, <2>1 DEF IInv, TypeOK
<1>8. \A b \in Clients : mTimer'[b] # d /\ (mTimer'[b] = mTimer[b] \/ mTimer'[b] = None)
  BY <1>1, <1>7
<1>9. \A i \in DOMAIN msgs' : msgs'[i].type # "Expire" => msgs'[i].timer \notin deleted
  BY <1>1, <1>2, <1>5 DEF IInv, NoDanglingDelegate
<1>10. ASSUME NEW i \in DOMAIN msgs', NEW j \in DOMAIN msgs', i < j,
              msgs'[i].type = "Remove", msgs'[j].type # "Expire"
       PROVE  msgs'[i].timer # msgs'[j].timer
  <2>1. i \in DOMAIN msgs /\ msgs'[i] = msgs[i]
    BY <1>4, <1>10
  <2>2. CASE j \in DOMAIN msgs
    BY <1>4, <1>10, <2>1, <2>2 DEF IInv, NoDanglingDelegate
  <2>3. CASE j = Len(msgs) + 1
    BY <1>2, <1>4, <1>10, <2>1, <2>3 DEF IInv, Made
  <2>4. QED
    BY <1>5, <2>2, <2>3
<1>11. \A b \in Clients : mTimer'[b] \notin deleted
  <2>1. None \notin deleted
    BY ConstantFacts DEF IInv, TypeOK
  <2>2. QED
    BY <1>8, <2>1 DEF IInv, NoDanglingDelegate
<1>12. Made'
  <2>1. ASSUME NEW b \in Clients, mTimer'[b] # None
        PROVE  mTimer'[b] <= starts' /\ mClient'[mTimer'[b]] = b /\ mTimer'[b] \notin stopped'
    <3>1. mTimer'[b] = mTimer[b] /\ mTimer[b] # d /\ mTimer[b] \in Delegates
      BY <1>8, <2>1 DEF IInv, TypeOK
    <3>2. QED
      BY <1>7, <2>1, <3>1 DEF IInv, Made
  <2>2. ASSUME NEW i \in DOMAIN msgs', msgs'[i].type # "Expire" PROVE msgs'[i].timer <= starts'
    BY <1>1, <1>2, <1>5, <2>2 DEF IInv, Made
  <2>3. ASSUME NEW i \in DOMAIN msgs', msgs'[i].type = "Remove", NEW b \in Clients
        PROVE  mTimer'[b] # msgs'[i].timer
    <3>1. CASE i \in DOMAIN msgs /\ msgs'[i] = msgs[i]
      <4>1. mTimer[b] # msgs[i].timer
        BY <2>3, <3>1 DEF IInv, Made
      <4>2. msgs[i].timer # None
        <5>1. msgs[i] \in Messages
          BY <1>4, <3>1, ElementOfSeq DEF IInv, TypeOK
        <5>2. QED
          BY <2>3, <3>1, <5>1, ConstantFacts DEF Messages
      <4>3. QED
        BY <1>8, <3>1, <4>1, <4>2
    <3>2. CASE i = Len(msgs) + 1 /\ msgs'[i] = m
      BY <1>2, <1>8, <3>2
    <3>3. QED
      BY <1>5, <3>1, <3>2
  <2>4. \A e \in (heap \cup deleted \cup stopped)' : e <= starts'
    BY <1>1 DEF IInv, Made
  <2>5. QED
    BY <2>1, <2>2, <2>3, <2>4 DEF Made
<1>13. QED
  BY <1>1, <1>4, <1>6, <1>8, <1>9, <1>10, <1>11, <1>12

\* A client that stops its timer has it removed, wherever the expiry is.
LEMMA StopKeeps == ASSUME IInv, NEW c \in Clients, Stop(c) PROVE IInv'
<1>1. /\ mTimer[c] # None /\ mTimer' = [mTimer EXCEPT ![c] = None] /\ destroyLocked(mTimer[c])
      /\ stopped' = stopped \cup {mTimer[c]}
      /\ UNCHANGED <<now, starts, due, heap, deleted, armed, polled, ppc, mpc, timer, client, nowRead,
                     fired>>
  BY DEF Stop, heapVars, fdVars, msgPc
<1>2. /\ mTimer[c] \in Delegates
      /\ mTimer' \in [Clients -> Delegates \cup {None}]
      /\ mClient' \in [Delegates -> Clients \cup {NoClient}]
      /\ msgs' \in Seq(Messages) /\ stopped' \subseteq Delegates
      /\ \A b \in Clients : mTimer'[b] = mTimer[b] \/ mTimer'[b] = None
      /\ ExpirePosted => ExpirePosted'
      /\ \A i \in DOMAIN msgs' : msgs'[i].type # "Expire" => msgs'[i].timer \notin deleted
      /\ \A i, j \in DOMAIN msgs' :
           i < j /\ msgs'[i].type = "Remove" /\ msgs'[j].type # "Expire"
             => msgs'[i].timer # msgs'[j].timer
      /\ \A b \in Clients : mTimer'[b] \notin deleted
      /\ Made'
  BY <1>1, RemovalPosted
<1>3. TypeOK'
  BY <1>1, <1>2 DEF IInv, TypeOK
<1>4. NoDanglingDelegate'
  BY <1>1, <1>2 DEF IInv, NoDanglingDelegate
<1>5. Expiring'
  BY <1>1, <1>2 DEF IInv, Expiring
<1>6. Armed'
  BY <1>1, <1>2 DEF IInv, Armed
<1>7. QED
  BY <1>2, <1>3, <1>4, <1>5, <1>6 DEF IInv

-----------------------------------------------------------------------------
(* The poll thread, and the clock.                                         *)

\* Whatever the poll thread does to the fd, it will tell the message thread.
LEMMA PollKeeps == ASSUME IInv, PollThread \/ Tick PROVE IInv'
<1>1. CASE PollWakes
  <2>1. /\ ppc' = "disarm"
        /\ UNCHANGED <<now, starts, mTimer, mClient, due, heap, deleted, msgs, armed, polled, mpc,
                       timer, client, nowRead, stopped, fired>>
    BY <1>1 DEF PollWakes, heapVars, fdVars, msgPc, history
  <2>2. (TypeOK /\ NoDanglingDelegate /\ Made /\ Armed)'
    BY <2>1 DEF IInv, TypeOK, NoDanglingDelegate, Made, Armed
  <2>3. ppc = "wait"
    BY <1>1 DEF PollWakes
  <2>4. Expiring'
    BY <2>1, <2>3 DEF IInv, Expiring, ExpirePosted
  <2>5. QED
    BY <2>2, <2>4 DEF IInv
<1>2. CASE PollDisarms
  <2>1. /\ ppc = "disarm" /\ ppc' = "unpoll" /\ armed' = None
        /\ UNCHANGED <<now, starts, mTimer, mClient, due, heap, deleted, msgs, polled, mpc,
                       timer, client, nowRead, stopped, fired>>
    BY <1>2 DEF PollDisarms, heapVars, msgPc, history
  <2>2. (TypeOK /\ NoDanglingDelegate /\ Made /\ Armed)'
    BY <2>1 DEF IInv, TypeOK, NoDanglingDelegate, Made, Armed
  <2>3. Expiring'
    BY <2>1 DEF IInv, Expiring, ExpirePosted
  <2>4. QED
    BY <2>2, <2>3 DEF IInv
<1>3. CASE PollRemoves
  <2>1. /\ polled' = FALSE /\ ppc' = "send"
        /\ UNCHANGED <<now, starts, mTimer, mClient, due, heap, deleted, msgs, armed, mpc,
                       timer, client, nowRead, stopped, fired>>
    BY <1>3 DEF PollRemoves, heapVars, msgPc, history
  <2>2. (TypeOK /\ NoDanglingDelegate /\ Made /\ Armed)'
    BY <2>1 DEF IInv, TypeOK, NoDanglingDelegate, Made, Armed
  <2>3. Expiring'
    BY <2>1 DEF IInv, Expiring
  <2>4. QED
    BY <2>2, <2>3 DEF IInv
<1>4. CASE PollSends
  <2> DEFINE m == [type |-> "Expire"]
  <2>1. /\ Post(m) /\ ppc' = "wait"
        /\ UNCHANGED <<now, starts, mTimer, mClient, due, heap, deleted, armed, polled, mpc,
                       timer, client, nowRead, stopped, fired>>
    BY <1>4 DEF PollSends, heapVars, fdVars, msgPc, history
  <2>2. m \in Messages /\ m.type = "Expire"
    BY DEF Messages
  <2> HIDE DEF m
  <2>3. /\ msgs' \in Seq(Messages) /\ Len(msgs) \in Nat
        /\ DOMAIN msgs = 1..Len(msgs) /\ DOMAIN msgs' = 1..Len(msgs) + 1
        /\ msgs'[Len(msgs) + 1] = m
        /\ \A i \in DOMAIN msgs : msgs'[i] = msgs[i]
    BY <2>1, <2>2, PostFacts DEF IInv
  <2>4. /\ ExpirePosted'
        /\ \A i \in DOMAIN msgs' : msgs'[i].type # "Expire" => i \in DOMAIN msgs /\ msgs'[i] = msgs[i]
    BY <2>2, <2>3 DEF ExpirePosted
  <2>5. TypeOK'
    BY <2>1, <2>3 DEF IInv, TypeOK
  <2>6. NoDanglingDelegate'
    <3>1. (deleted \cap heap = {} /\ (timer \notin deleted \/ mpc \notin {"expire", "stop"}))'
      BY <2>1 DEF IInv, NoDanglingDelegate
    <3>2. \A i \in DOMAIN msgs' : msgs'[i].type # "Expire" => msgs'[i].timer \notin deleted'
      BY <2>1, <2>4 DEF IInv, NoDanglingDelegate
    <3>3. ASSUME NEW i \in DOMAIN msgs', NEW j \in DOMAIN msgs', i < j,
                 msgs'[i].type = "Remove", msgs'[j].type # "Expire"
          PROVE  msgs'[i].timer # msgs'[j].timer
      BY <2>4, <3>3 DEF IInv, NoDanglingDelegate
    <3>4. \A b \in Clients : mTimer'[b] \notin deleted'
      BY <2>1 DEF IInv, NoDanglingDelegate
    <3>5. QED
      BY <3>1, <3>2, <3>3, <3>4 DEF NoDanglingDelegate
  <2>7. Made'
    BY <2>1, <2>4 DEF IInv, Made
  <2>8. (Expiring /\ Armed)'
    BY <2>1, <2>4 DEF IInv, Expiring, Armed
  <2>9. QED
    BY <2>5, <2>6, <2>7, <2>8 DEF IInv
<1>5. CASE Tick
  <2>1. /\ now' \in Times
        /\ UNCHANGED <<starts, mTimer, mClient, due, heap, deleted, msgs, armed, polled, ppc, mpc,
                       timer, client, nowRead, stopped, fired>>
    BY <1>5, ConstantFacts DEF Tick, IInv, TypeOK, Times, heapVars, fdVars, msgPc, history
  <2>2. (TypeOK /\ NoDanglingDelegate /\ Made /\ Armed)'
    BY <2>1 DEF IInv, TypeOK, NoDanglingDelegate, Made, Armed, ExpirePosted
  <2>3. Expiring'
    BY <2>1 DEF IInv, Expiring, ExpirePosted
  <2>4. QED
    BY <2>2, <2>3 DEF IInv
<1>6. QED
  BY <1>1, <1>2, <1>3, <1>4, <1>5 DEF PollThread

-----------------------------------------------------------------------------
(* The message thread.                                                     *)

\* What is taken from the queue leaves the others as they were; a delegate that
\* is deleted is in no message behind, and no client's.
LEMMA TakeKeeps ==
  ASSUME IInv, msgs # <<>>, msgs' = Tail(msgs),
         \/ deleted' = deleted
         \/ Head(msgs).type = "Remove" /\ deleted' = deleted \cup {Head(msgs).timer},
         heap' \subseteq heap \cup (IF Head(msgs).type = "Push" THEN {Head(msgs).timer} ELSE {}),
         UNCHANGED <<starts, mTimer, mClient, stopped>>
  PROVE  /\ msgs' \in Seq(Messages) /\ Head(msgs) \in Messages
         /\ heap' \subseteq Delegates /\ deleted' \subseteq Delegates
         /\ Head(msgs).type # "Expire" => Head(msgs).timer \notin deleted
         /\ Head(msgs).type # "Expire" /\ ExpirePosted => ExpirePosted'
         /\ \A i \in DOMAIN msgs' : msgs'[i].type # "Expire" => msgs'[i].timer \notin deleted'
         /\ \A i, j \in DOMAIN msgs' :
              i < j /\ msgs'[i].type = "Remove" /\ msgs'[j].type # "Expire"
                => msgs'[i].timer # msgs'[j].timer
         /\ \A c \in Clients : mTimer'[c] \notin deleted'
         /\ Made'
<1> DEFINE m == Head(msgs)
<1>1. /\ msgs' \in Seq(Messages) /\ m \in Messages
      /\ 1 \in DOMAIN msgs /\ m = msgs[1]
      /\ \A i \in DOMAIN msgs' : /\ i \in Nat /\ i + 1 \in DOMAIN msgs /\ 1 < i + 1
                                 /\ msgs'[i] = msgs[i + 1]
      /\ m.type # "Expire" /\ ExpirePosted => ExpirePosted'
  BY TakeFacts DEF IInv
<1>2. m.type # "Expire" => /\ m.timer \in Delegates /\ m.timer \notin deleted /\ m.timer <= starts
  BY <1>1 DEF Messages, IInv, NoDanglingDelegate, Made
<1>3. /\ heap' \subseteq heap \cup (IF m.type = "Push" THEN {m.timer} ELSE {})
      /\ deleted' = deleted \/ (m.type = "Remove" /\ deleted' = deleted \cup {m.timer})
  OBVIOUS
<1>4. m.type = "Remove" => \A c \in Clients : mTimer[c] # m.timer
  BY <1>1 DEF IInv, Made
<1> HIDE DEF m
<1>5. heap' \subseteq Delegates /\ deleted' \subseteq Delegates
  BY <1>2, <1>3 DEF IInv, TypeOK
<1>6. ASSUME NEW i \in DOMAIN msgs', msgs'[i].type # "Expire"
      PROVE  msgs'[i].timer \notin deleted' /\ msgs'[i].timer <= starts'
  <2>1. /\ i + 1 \in DOMAIN msgs /\ 1 < i + 1 /\ msgs'[i] = msgs[i + 1]
        /\ msgs[i + 1].timer \notin deleted /\ msgs[i + 1].timer <= starts
    BY <1>1, <1>6 DEF IInv, NoDanglingDelegate, Made
  <2>2. m.type = "Remove" => msgs[i + 1].timer # m.timer
    BY <1>1, <1>6, <2>1 DEF IInv, NoDanglingDelegate
  <2>3. QED
    BY <1>3, <2>1, <2>2
<1>7. ASSUME NEW i \in DOMAIN msgs', NEW j \in DOMAIN msgs', i < j,
             msgs'[i].type = "Remove", msgs'[j].type # "Expire"
      PROVE  msgs'[i].timer # msgs'[j].timer
  <2>1. i + 1 < j + 1 /\ i + 1 \in DOMAIN msgs /\ j + 1 \in DOMAIN msgs
    BY <1>1, <1>7
  <2>2. QED
    BY <1>1, <1>7, <2>1 DEF IInv, NoDanglingDelegate
<1>8. \A c \in Clients : mTimer'[c] \notin deleted'
  BY <1>3, <1>4 DEF IInv, NoDanglingDelegate
<1>9. Made'
  <2>1. \A i \in DOMAIN msgs' : msgs'[i].type = "Remove" => \A c \in Clients : mTimer'[c] # msgs'[i].timer
    BY <1>1 DEF IInv, Made
  <2>2. \A d \in (heap \cup deleted \cup stopped)' : d <= starts'
    BY <1>2, <1>3 DEF IInv, Made
  <2>3. QED
    BY <1>6, <2>1, <2>2 DEF IInv, Made
<1>10. QED
  BY <1>1, <1>2, <1>5, <1>6, <1>7, <1>8, <1>9 DEF m

\* A timer that begins to tick: the fd is armed if it is the soonest, and armed
\* for one that is no later if it is not.
LEMMA PushKeeps == ASSUME IInv, MsgTimerPush PROVE IInv'
<1> DEFINE d == Head(msgs).timer
<1>1. /\ mpc = "idle" /\ msgs # <<>> /\ Head(msgs).type = "Push" /\ msgs' = Tail(msgs)
      /\ heap' = heap \cup {d} /\ updateSoonestTime(Top(heap), heap')
      /\ UNCHANGED <<now, starts, mTimer, mClient, due, deleted, armed, ppc, timer, client, nowRead,
                     stopped, fired>>
  BY DEF MsgTimerPush, Received, history
<1>2. /\ msgs' \in Seq(Messages) /\ heap' \subseteq Delegates /\ deleted' \subseteq Delegates
      /\ d \notin deleted
      /\ ExpirePosted => ExpirePosted'
      /\ \A i \in DOMAIN msgs' : msgs'[i].type # "Expire" => msgs'[i].timer \notin deleted'
      /\ \A i, j \in DOMAIN msgs' :
           i < j /\ msgs'[i].type = "Remove" /\ msgs'[j].type # "Expire"
             => msgs'[i].timer # msgs'[j].timer
      /\ \A c \in Clients : mTimer'[c] \notin deleted'
      /\ Made'
  BY <1>1, TakeKeeps
<1> HIDE DEF d
<1>3. /\ heap # {} => Top(heap) \in heap
      /\ Top(heap) \in Delegates \cup {None} /\ (heap = {} => Top(heap) = None)
  <2>1. heap = {} => Top(heap) = None
    BY DEF Top
  <2>2. QED
    BY <2>1, TopIsSoonest DEF IInv, TypeOK
<1>4. \/ polled' = TRUE /\ mpc' = "arm" /\ heap' # {}
      \/ /\ polled' = polled /\ mpc' = "idle"
         /\ Top(heap) # None /\ \A e \in heap' : due[Top(heap)] <= due[e]
  BY <1>1, <1>2, <1>3, UpdateFacts DEF IInv
<1>5. TypeOK'
  BY <1>1, <1>2, <1>4 DEF IInv, TypeOK
<1>6. NoDanglingDelegate'
  BY <1>1, <1>2, <1>4 DEF IInv, NoDanglingDelegate
<1>7. Expiring'
  BY <1>1, <1>4 DEF Expiring
<1>8. Armed'
  <2>1. CASE mpc' = "arm"
    BY <2>1 DEF Armed
  <2>2. CASE polled' = polled /\ Top(heap) # None /\ \A e \in heap' : due[Top(heap)] <= due[e]
    <3>1. Top(heap) \in heap
      BY <1>3, <2>2
    <3>2. ASSUME armed # None, \A e \in heap : armed <= due[e] PROVE \A e \in heap' : armed <= due[e]
      <4> TAKE e \in heap'
      <4>1. armed \in Nat /\ due[e] \in Nat /\ due[Top(heap)] \in Nat
        BY <1>2, <3>1, <3>2, ConstantFacts DEF IInv, TypeOK
      <4>2. QED
        BY <2>2, <3>1, <3>2, <4>1
    <3>3. QED
      BY <1>1, <1>2, <2>2, <3>1, <3>2 DEF IInv, Armed
  <2>3. QED
    BY <1>4, <2>1, <2>2
<1>9. QED
  BY <1>2, <1>5, <1>6, <1>7, <1>8 DEF IInv

\* A timer that is removed: the fd is armed for the next if it was the top.
LEMMA RemoveKeeps == ASSUME IInv, MsgTimerRemove PROVE IInv'
<1> DEFINE d == Head(msgs).timer
<1>1. /\ mpc = "idle" /\ msgs # <<>> /\ Head(msgs).type = "Remove" /\ msgs' = Tail(msgs)
      /\ heap' = heap \ {d} /\ deleted' = deleted \cup {d}
      /\ IF Top(heap) = (IF d \in heap THEN d ELSE None)
         THEN updateSoonestTime(None, heap')
         ELSE polled' = polled /\ mpc' = mpc
      /\ UNCHANGED <<now, starts, mTimer, mClient, due, armed, ppc, timer, client, nowRead,
                     stopped, fired>>
  BY DEF MsgTimerRemove, Received, history
<1>2. /\ msgs' \in Seq(Messages) /\ heap' \subseteq Delegates /\ deleted' \subseteq Delegates
      /\ ExpirePosted => ExpirePosted'
      /\ \A i \in DOMAIN msgs' : msgs'[i].type # "Expire" => msgs'[i].timer \notin deleted'
      /\ \A i, j \in DOMAIN msgs' :
           i < j /\ msgs'[i].type = "Remove" /\ msgs'[j].type # "Expire"
             => msgs'[i].timer # msgs'[j].timer
      /\ \A c \in Clients : mTimer'[c] \notin deleted'
      /\ Made'
  BY <1>1, TakeKeeps
<1> HIDE DEF d
<1>3. \/ polled' = TRUE /\ mpc' = "arm" /\ heap' # {}
      \/ polled' = polled /\ mpc' = "idle"
  <2>1. CASE updateSoonestTime(None, heap')
    BY <1>2, <2>1, UpdateFacts DEF IInv
  <2>2. CASE polled' = polled /\ mpc' = mpc
    BY <1>1, <2>2
  <2>3. QED
    BY <1>1, <2>1, <2>2
<1>4. TypeOK'
  BY <1>1, <1>2, <1>3 DEF IInv, TypeOK
<1>5. NoDanglingDelegate'
  BY <1>1, <1>2, <1>3 DEF IInv, NoDanglingDelegate
<1>6. Expiring'
  BY <1>1, <1>3 DEF Expiring
<1>7. Armed'
  BY <1>1, <1>2, <1>3 DEF IInv, Armed
<1>8. QED
  BY <1>2, <1>4, <1>5, <1>6, <1>7 DEF IInv

\* The next timer is taken for expiry, or the fd is armed for those that stay:
\* the heap has lost what timer is now, and nothing else changed but the fd.
LEMMA ExpireNext ==
  ASSUME IInv, \/ heap # {} /\ Pop(Top(heap))
               \/ FinishExpire
  PROVE  /\ heap' \subseteq heap /\ deleted' = deleted
         /\ \/ /\ mpc' = "expire" /\ polled' = polled
               /\ timer' \in heap /\ timer' # None /\ timer' <= starts /\ timer' \notin deleted
            \/ mpc' = "arm" /\ polled' = TRUE /\ heap' # {} /\ timer' = None
            \/ mpc' = "idle" /\ polled' = polled /\ heap' = {} /\ timer' = None
<1>1. CASE heap # {} /\ Pop(Top(heap))
  <2>1. Top(heap) \in heap /\ Top(heap) # None
    BY <1>1, TopIsSoonest DEF IInv, TypeOK
  <2>2. QED
    BY <1>1, <2>1 DEF Pop, IInv, NoDanglingDelegate, Made
<1>2. CASE FinishExpire
  BY <1>2, UpdateFacts DEF FinishExpire, heapVars, IInv, TypeOK
<1>3. QED
  BY <1>1, <1>2

\* The expiry of the fd: the soonest timer is popped, whatever its time.
LEMMA ExpireKeeps == ASSUME IInv, MsgTimerExpire PROVE IInv'
<1>1. /\ mpc = "idle" /\ msgs # <<>> /\ Head(msgs).type = "Expire" /\ msgs' = Tail(msgs)
      /\ nowRead' = now
      /\ (heap # {} /\ Pop(Top(heap))) \/ (heap = {} /\ FinishExpire)
      /\ UNCHANGED <<now, starts, mTimer, mClient, due, armed, ppc, client, stopped, fired>>
  BY DEF MsgTimerExpire, Received, history
<1>2. /\ heap' \subseteq heap /\ deleted' = deleted
      /\ \/ /\ mpc' = "expire" /\ polled' = polled
            /\ timer' \in heap /\ timer' # None /\ timer' <= starts /\ timer' \notin deleted
         \/ mpc' = "arm" /\ polled' = TRUE /\ heap' # {} /\ timer' = None
         \/ mpc' = "idle" /\ polled' = polled /\ heap' = {} /\ timer' = None
  BY <1>1, ExpireNext
<1>3. /\ msgs' \in Seq(Messages) /\ heap' \subseteq Delegates /\ deleted' \subseteq Delegates
      /\ \A i \in DOMAIN msgs' : msgs'[i].type # "Expire" => msgs'[i].timer \notin deleted'
      /\ \A i, j \in DOMAIN msgs' :
           i < j /\ msgs'[i].type = "Remove" /\ msgs'[j].type # "Expire"
             => msgs'[i].timer # msgs'[j].timer
      /\ \A c \in Clients : mTimer'[c] \notin deleted'
      /\ Made'
  BY <1>1, <1>2, TakeKeeps
<1>4. TypeOK'
  BY <1>1, <1>2, <1>3 DEF IInv, TypeOK
<1>5. NoDanglingDelegate'
  BY <1>1, <1>2, <1>3 DEF IInv, NoDanglingDelegate
<1>6. Expiring'
  BY <1>1, <1>2 DEF Expiring
<1>7. Armed'
  BY <1>2 DEF Armed
<1>8. QED
  BY <1>3, <1>4, <1>5, <1>6, <1>7 DEF IInv

\* After a timer the next one is popped if it is due.
LEMMA NextKeeps == ASSUME IInv, popIfOutRanks PROVE IInv'
<1>1. /\ mpc = "next"
      /\ (heap # {} /\ Pop(Top(heap))) \/ FinishExpire
      /\ UNCHANGED <<now, starts, mTimer, mClient, due, msgs, armed, ppc, client, nowRead, stopped, fired>>
  BY DEF popIfOutRanks, history
<1>2. /\ heap' \subseteq heap /\ deleted' = deleted
      /\ \/ /\ mpc' = "expire" /\ polled' = polled
            /\ timer' \in heap /\ timer' # None /\ timer' <= starts /\ timer' \notin deleted
         \/ mpc' = "arm" /\ polled' = TRUE /\ heap' # {} /\ timer' = None
         \/ mpc' = "idle" /\ polled' = polled /\ heap' = {} /\ timer' = None
  BY <1>1, ExpireNext
<1>3. TypeOK'
  BY <1>1, <1>2 DEF IInv, TypeOK
<1>4. NoDanglingDelegate'
  BY <1>1, <1>2 DEF IInv, NoDanglingDelegate
<1>5. Made'
  BY <1>1, <1>2 DEF IInv, Made
<1>6. Expiring'
  BY <1>1, <1>2 DEF Expiring
<1>7. Armed'
  BY <1>2 DEF Armed
<1>8. QED
  BY <1>3, <1>4, <1>5, <1>6, <1>7 DEF IInv

\* The copy of the client of a timer that expires, if it still has one.
LEMMA ReadKeeps == ASSUME IInv, ExpireReadsClient PROVE IInv'
<1>1. /\ mpc = "expire" /\ client' = mClient[timer]
      /\ mpc' = IF mClient[timer] = NoClient THEN "next" ELSE "stop"
      /\ UNCHANGED <<now, starts, mTimer, mClient, due, heap, deleted, msgs, armed, polled, ppc, timer,
                     nowRead, stopped, fired>>
  BY DEF ExpireReadsClient, heapVars, fdVars, history
<1>2. timer # None /\ timer \in Delegates /\ mClient[timer] \in Clients \cup {NoClient}
  BY <1>1 DEF IInv, TypeOK, Expiring
<1>3. TypeOK'
  BY <1>1, <1>2 DEF IInv, TypeOK
<1>4. NoDanglingDelegate'
  BY <1>1 DEF IInv, NoDanglingDelegate
<1>5. Made'
  BY <1>1 DEF IInv, Made
<1>6. Expiring'
  BY <1>1, <1>2 DEF IInv, Expiring
<1>7. Armed'
  BY <1>1 DEF Armed
<1>8. QED
  BY <1>3, <1>4, <1>5, <1>6, <1>7 DEF IInv

\* The timer that is to be called back is one its client had until now.
LEMMA StopClientKeeps == ASSUME IInv, ExpireStopsClient PROVE IInv'
<1>1. /\ mpc = "stop" /\ client' = NoClient /\ client \in Clients
      /\ UNCHANGED <<now, starts, due, heap, deleted, armed, polled, ppc, nowRead, stopped, fired>>
  <2>1. mpc = "stop" /\ client' = NoClient
    BY DEF ExpireStopsClient
  <2>2. UNCHANGED <<now, starts, due, heap, deleted, armed, polled, ppc, nowRead, stopped, fired>>
    BY DEF ExpireStopsClient, heapVars, fdVars, history
  <2>3. QED
    BY <2>1, <2>2 DEF IInv, Expiring
<1>2. CASE mTimer[client] # None
  <2>1. /\ mTimer' = [mTimer EXCEPT ![client] = None] /\ destroyLocked(mTimer[client])
        /\ timer' = mTimer[client] /\ mpc' = "callback"
    BY <1>2 DEF ExpireStopsClient
  <2>2. /\ mTimer[client] \in Delegates /\ mTimer[client] <= starts /\ mTimer[client] \notin stopped
        /\ mTimer' \in [Clients -> Delegates \cup {None}]
        /\ mClient' \in [Delegates -> Clients \cup {NoClient}]
        /\ msgs' \in Seq(Messages)
        /\ \A b \in Clients : mTimer'[b] # mTimer[client]
        /\ \A i \in DOMAIN msgs' : msgs'[i].type # "Expire" => msgs'[i].timer \notin deleted
        /\ \A i, j \in DOMAIN msgs' :
             i < j /\ msgs'[i].type = "Remove" /\ msgs'[j].type # "Expire"
               => msgs'[i].timer # msgs'[j].timer
        /\ \A b \in Clients : mTimer'[b] \notin deleted
        /\ Made'
    BY <1>1, <1>2, <2>1, RemovalPosted
  <2>3. TypeOK'
    BY <1>1, <2>1, <2>2 DEF IInv, TypeOK
  <2>4. NoDanglingDelegate'
    BY <1>1, <2>1, <2>2 DEF IInv, NoDanglingDelegate
  <2>5. Expiring'
    BY <1>1, <1>2, <2>1, <2>2 DEF Expiring
  <2>6. Armed'
    BY <2>1 DEF Armed
  <2>7. QED
    BY <2>2, <2>3, <2>4, <2>5, <2>6 DEF IInv
<1>3. CASE mTimer[client] = None
  <2>1. mpc' = "next" /\ UNCHANGED <<mTimer, mClient, msgs, timer>>
    BY <1>3 DEF ExpireStopsClient
  <2>2. (TypeOK /\ NoDanglingDelegate /\ Made)'
    BY <1>1, <2>1 DEF IInv, TypeOK, NoDanglingDelegate, Made
  <2>3. (Expiring /\ Armed)'
    BY <2>1 DEF Expiring, Armed
  <2>4. QED
    BY <2>2, <2>3 DEF IInv
<1>4. QED
  BY <1>2, <1>3

\* The callback itself changes nothing but what the client knows.
LEMMA CallbackKeeps == ASSUME IInv, timeOutCallback PROVE IInv'
<1>1. /\ mpc = "callback" /\ fired' = [fired EXCEPT ![timer] = now] /\ mpc' = "next"
      /\ UNCHANGED <<now, starts, mTimer, mClient, due, heap, deleted, msgs, armed, polled, ppc, timer,
                     client, nowRead, stopped>>
  BY DEF timeOutCallback, heapVars, fdVars
<1>2. (TypeOK /\ NoDanglingDelegate /\ Made)'
  BY <1>1 DEF IInv, TypeOK, NoDanglingDelegate, Made
<1>3. (Expiring /\ Armed)'
  BY <1>1 DEF Expiring, Armed
<1>4. QED
  BY <1>2, <1>3 DEF IInv

\* The fd is armed for the soonest timer; if it is not polled any more, the poll
\* thread has taken it out and its message comes.
LEMMA ArmKeeps == ASSUME IInv, Arm PROVE IInv'
<1>1. /\ mpc = "arm" /\ armed' = due[Top(heap)] /\ mpc' = "idle"
      /\ UNCHANGED <<now, starts, mTimer, mClient, due, heap, deleted, msgs, polled, ppc, timer,
                     client, nowRead, stopped, fired>>
  BY DEF Arm, heapVars, history
<1>2. heap # {} /\ (polled \/ ppc = "send" \/ ExpirePosted)
  BY <1>1 DEF IInv, Expiring
<1>3. Top(heap) \in heap /\ \A d \in heap : due[Top(heap)] <= due[d]
  BY <1>2, TopIsSoonest DEF IInv, TypeOK
<1>4. armed' \in Times /\ armed' # None
  <2>1. Top(heap) \in Delegates
    BY <1>3 DEF IInv, TypeOK
  <2>2. due[Top(heap)] \in Times
    BY <2>1 DEF IInv, TypeOK
  <2>3. QED
    BY <1>1, <2>2, ConstantFacts
<1>5. (TypeOK /\ NoDanglingDelegate /\ Made)'
  BY <1>1, <1>4 DEF IInv, TypeOK, NoDanglingDelegate, Made
<1>6. Expiring'
  BY <1>1 DEF Expiring
<1>7. Armed'
  BY <1>1, <1>2, <1>3, <1>4 DEF Armed, ExpirePosted
<1>8. QED
  BY <1>5, <1>6, <1>7 DEF IInv

-----------------------------------------------------------------------------
(* The invariant holds, and with it the properties.                        *)

\* There is no timer yet.
LEMMA InitIInv == Init => IInv
<1> SUFFICES ASSUME Init PROVE IInv
  OBVIOUS
<1>1. DOMAIN msgs = {} /\ msgs \in Seq(Messages)
  BY EmptySeq DEF Init
<1>2. TypeOK
  <2>1. 0 \in Times /\ 0 \in 0..MaxStarts
    BY ConstantFacts DEF Times
  <2>2. QED
    BY <1>1, <2>1 DEF Init, TypeOK
<1>3. NoDanglingDelegate /\ Made
  BY <1>1 DEF Init, NoDanglingDelegate, Made
<1>4. Expiring /\ Armed
  BY DEF Init, Expiring, Armed
<1>5. QED
  BY <1>2, <1>3, <1>4 DEF IInv

\* Every step keeps the invariant.
LEMMA NextIInv == IInv /\ [Next]_vars => IInv'
<1> SUFFICES ASSUME IInv, [Next]_vars PROVE IInv'
  OBVIOUS
<1>1. ASSUME NEW c \in Clients, Stop(c) \/ \E delay \in Delays : Start(c, delay) PROVE IInv'
  BY <1>1, StartKeeps, StopKeeps
<1>2. CASE MsgThread
  BY <1>2, PushKeeps, RemoveKeeps, ExpireKeeps, ReadKeeps, StopClientKeeps, CallbackKeeps, NextKeeps,
     ArmKeeps DEF MsgThread
<1>3. CASE PollThread \/ Tick
  BY <1>3, PollKeeps
<1>4. CASE UNCHANGED vars
  <2>1. UNCHANGED <<now, starts, mTimer, mClient, due, heap, deleted, msgs, armed, polled, ppc, mpc,
                    timer, client, nowRead, stopped, fired>>
    BY <1>4 DEF vars, heapVars, fdVars, msgPc, history
  <2>2. (TypeOK /\ NoDanglingDelegate /\ Made)'
    BY <2>1 DEF IInv, TypeOK, NoDanglingDelegate, Made
  <2>3. (Expiring /\ Armed)'
    BY <2>1 DEF IInv, Expiring, Armed, ExpirePosted
  <2>4. QED
    BY <2>2, <2>3 DEF IInv
<1>5. QED
  BY <1>1, <1>2, <1>3, <1>4 DEF Next

\* The invariant holds in every state that is reached.
LEMMA AlwaysIInv == Spec => []IInv
BY InitIInv, NextIInv, PTL DEF Spec

\* Timers, heap, queue, fd and threads always have their types.
THEOREM TypeCorrect == Spec => []TypeOK
<1>1. IInv => TypeOK
  BY DEF IInv
<1>2. QED
  BY <1>1, AlwaysIInv, PTL

\* No thread uses a delegate that was deleted, and none is deleted twice, for
\* any number of clients, timers and time-outs.
THEOREM DelegatesCorrect == Spec => []NoDanglingDelegate
<1>1. IInv => NoDanglingDelegate
  BY DEF IInv
<1>2. QED
  BY <1>1, AlwaysIInv, PTL

\* No wake-up is lost between the poll thread and the message thread: while a
\* timer ticks the fd is armed for it, or one of the two is about to see to it.
THEOREM WakeUpsCorrect == Spec => []TickingIsArmed
<1>1. ASSUME IInv PROVE TickingIsArmed
  <2>1. CASE heap = {}
    BY <2>1 DEF TickingIsArmed
  <2>2. CASE heap # {}
    <3>1. Top(heap) \in heap
      BY <1>1, <2>2, TopIsSoonest DEF IInv, TypeOK
    <3>2. QED
      BY <1>1, <2>2, <3>1 DEF IInv, Armed, TickingIsArmed, ExpirePosted
  <2>3. QED
    BY <2>1, <2>2
<1>2. QED
  BY <1>1, AlwaysIInv, PTL

\* A client that stopped its timer is not called back for it any more, however
\* the call of stop falls into the expiry.
THEOREM StopsCorrect == Spec => StoppedIsNotCalledBack
<1>1. ASSUME IInv, [Next]_vars PROVE [\A d \in stopped : fired'[d] = fired[d]]_vars
  <2>1. CASE UNCHANGED fired
    BY <2>1
  <2>2. CASE timeOutCallback
    <3>1. fired' = [fired EXCEPT ![timer] = now] /\ timer \notin stopped
      BY <1>1, <2>2 DEF timeOutCallback, IInv, Expiring
    <3>2. QED
      BY <1>1, <3>1 DEF IInv, TypeOK
  <2>3. UNCHANGED fired \/ timeOutCallback
    <3>1. CASE UNCHANGED vars
      BY <3>1 DEF vars, history
    <3>2. CASE \E c \in Clients : Stop(c) \/ \E delay \in Delays : Start(c, delay)
      BY <3>2 DEF Stop, Start, history
    <3>3. CASE MsgThread
      BY <3>3 DEF MsgThread, MsgTimerPush, MsgTimerRemove, MsgTimerExpire, ExpireReadsClient,
                  ExpireStopsClient, popIfOutRanks, Arm, history
    <3>4. CASE PollThread \/ Tick
      BY <3>4 DEF PollThread, PollWakes, PollDisarms, PollRemoves, PollSends, Tick, history
    <3>5. QED
      BY <1>1, <3>1, <3>2, <3>3, <3>4 DEF Next
  <2>4. QED
    BY <2>1, <2>2, <2>3
<1>2. QED
  BY <1>1, AlwaysIInv, PTL DEF Spec, StoppedIsNotCalledBack

=============================================================================
