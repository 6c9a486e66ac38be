------------------------------ MODULE LocTimer ------------------------------
(***************************************************************************)
(* The timer service (gps/utils/LocTimer.cpp): clients start and stop      *)
(* LocTimers from any thread; each start makes a LocTimerDelegate.  The    *)
(* message thread owns the heap of ticking delegates; the poll thread      *)
(* waits for the timer fd and posts MsgTimerExpire.  Both touch the fd.    *)
(*                                                                         *)
(* One container (timers or alarms) is modelled.  The heap is a set of     *)
(* delegates of which the top is the soonest.  A step is what a thread     *)
(* does between two accesses to state another thread can change.           *)
(***************************************************************************)
EXTENDS Naturals, Sequences, FiniteSets, FiniteSetsExt

CONSTANTS Clients,   \* LocTimer objects
          Delays,    \* time-outs asked for
          MaxStarts, \* bound: successful calls of LocTimer::start
          MaxTime    \* bound: the clock

ASSUME TimerBounds == Delays \subseteq Nat /\ MaxStarts \in Nat /\ MaxTime \in Nat

Delegates == 1..MaxStarts
Times     == 0..MaxTime
None      == MaxStarts + MaxTime + 1   \* NULL, or a disarmed fd

VARIABLES
  now,      \* the clock
  starts,   \* delegates made so far
  mTimer,   \* LocTimer::mTimer of each client
  mClient,  \* LocTimerDelegate::mClient, NoClient once stopped
  due,      \* LocTimerDelegate::mFutureTime
  heap,     \* LocTimerContainer: the delegates that tick
  deleted,  \* delegates deleted so far
  msgs,     \* the queue of the message thread
  armed,    \* when the timer fd expires
  polled,   \* is the timer fd in the epoll set?
  ppc,      \* what the poll thread does next
  mpc,      \* what the message thread does next
  timer,    \* message thread: the delegate being expired, or called back
  client,   \* message thread: the client it belongs to
  nowRead,  \* message thread: the clock at the start of MsgTimerExpire
  stopped,  \* delegates a client stopped (history)
  fired     \* when each delegate's time-out was called back (history)

heapVars == <<heap, deleted>>
fdVars   == <<armed, polled>>
msgPc    == <<mpc, timer, client, nowRead>>
history  == <<stopped, fired>>
vars     == <<now, starts, mTimer, mClient, due, heapVars, msgs, fdVars, ppc, msgPc, history>>

NoClient == "none"

Messages == [type : {"Push", "Remove"}, timer : Delegates] \cup [type : {"Expire"}]

TypeOK ==
  /\ now \in Times /\ starts \in 0..MaxStarts
  /\ mTimer \in [Clients -> Delegates \cup {None}]
  /\ mClient \in [Delegates -> Clients \cup {NoClient}]
  /\ due \in [Delegates -> Times]
  /\ heap \subseteq Delegates /\ deleted \subseteq Delegates
  /\ msgs \in Seq(Messages)
  /\ armed \in Times \cup {None} /\ polled \in BOOLEAN
  /\ ppc \in {"wait", "disarm", "unpoll", "send"}
  /\ mpc \in {"idle", "arm", "expire", "stop", "callback", "next"}
  /\ timer \in Delegates \cup {None}
  /\ client \in Clients \cup {NoClient}
  /\ nowRead \in Times
  /\ stopped \subseteq Delegates
  /\ fired \in [Delegates -> Times \cup {None}]

Init ==
  /\ now = 0 /\ starts = 0
  /\ mTimer = [c \in Clients |-> None]
  /\ mClient = [d \in Delegates |-> NoClient]
  /\ due = [d \in Delegates |-> 0]
  /\ heap = {} /\ deleted = {}
  /\ msgs = <<>>
  /\ armed = None /\ polled = FALSE
  /\ ppc = "wait"
  /\ mpc = "idle" /\ timer = None /\ client = NoClient /\ nowRead = 0
  /\ stopped = {} /\ fired = [d \in Delegates |-> None]

\* LocTimerDelegate::ranks: the sooner outranks; equal times keep their order.
Sooner(d, e) == due[d] < due[e] \/ (due[d] = due[e] /\ d <= e)

\* LocHeap::peek, the top of a set of delegates.
Top(h) == IF h = {} THEN None ELSE CHOOSE d \in h : \A e \in h : Sooner(d, e)

Post(m) == msgs' = Append(msgs, m)

Tick ==
  /\ now < MaxTime
  /\ now' = now + 1
  /\ UNCHANGED <<starts, mTimer, mClient, due, heapVars, msgs, fdVars, ppc, msgPc, history>>

-----------------------------------------------------------------------------
(* Client threads, under the lock of the LocTimer.                         *)

\* LocTimer::start: makes the delegate, whose constructor posts MsgTimerPush.
Start(c, delay) ==
  /\ mTimer[c] = None
  /\ starts < MaxStarts /\ now + delay <= MaxTime
  /\ LET d == starts + 1 IN
       /\ starts' = d
       /\ mTimer' = [mTimer EXCEPT ![c] = d]
       /\ mClient' = [mClient EXCEPT ![d] = c]
       /\ due' = [due EXCEPT ![d] = now + delay]
       /\ Post([type |-> "Push", timer |-> d])
  /\ UNCHANGED <<now, heapVars, fdVars, ppc, msgPc, history>>

\* LocTimerDelegate::destroyLocked, called by LocTimer::stop.
destroyLocked(d) ==
  /\ mClient' = [mClient EXCEPT ![d] = NoClient]
  /\ Post([type |-> "Remove", timer |-> d])

\* Mutant: stop() does not look whether a timer runs.
StopUnchecked(c) ==
  /\ mTimer' = [mTimer EXCEPT ![c] = None]
  /\ destroyLocked(mTimer[c])
  /\ stopped' = stopped \cup {mTimer[c]}
  /\ UNCHANGED <<now, starts, due, heapVars, fdVars, ppc, msgPc, fired>>

\* LocTimer::stop by the client; it does nothing when mTimer is NULL.
Stop(c) ==
  /\ mTimer[c] # None
  /\ mTimer' = [mTimer EXCEPT ![c] = None]
  /\ destroyLocked(mTimer[c])
  /\ stopped' = stopped \cup {mTimer[c]}
  /\ UNCHANGED <<now, starts, due, heapVars, fdVars, ppc, msgPc, fired>>

-----------------------------------------------------------------------------
(* The poll thread: TimerRunnable::run and LocTimerContainer::expire.      *)

PollWakes ==
  /\ ppc = "wait"
  /\ polled /\ armed # None /\ armed <= now
  /\ ppc' = "disarm"
  /\ UNCHANGED <<now, starts, mTimer, mClient, due, heapVars, msgs, fdVars, msgPc, history>>

PollDisarms ==
  /\ ppc = "disarm"
  /\ armed' = None
  /\ ppc' = "unpoll"
  /\ UNCHANGED <<now, starts, mTimer, mClient, due, heapVars, msgs, polled, msgPc, history>>

PollRemoves ==
  /\ ppc = "unpoll"
  /\ polled' = FALSE
  /\ ppc' = "send"
  /\ UNCHANGED <<now, starts, mTimer, mClient, due, heapVars, msgs, armed, msgPc, history>>

PollSends ==
  /\ ppc = "send"
  /\ Post([type |-> "Expire"])
  /\ ppc' = "wait"
  /\ UNCHANGED <<now, starts, mTimer, mClient, due, heapVars, fdVars, msgPc, history>>

-----------------------------------------------------------------------------
(* The message thread.                                                     *)

Received(type) == mpc = "idle" /\ msgs # <<>> /\ Head(msgs).type = type

\* Mutant: the fd is armed only when the heap was empty before.
UpdateOnlyFirst(priorTop, h) ==
  IF Top(h) # priorTop /\ h # {} /\ priorTop = None
  THEN polled' = TRUE /\ mpc' = "arm"
  ELSE polled' = polled /\ mpc' = "idle"

\* updateSoonestTime, first half: addPoll when the top is new and sooner.  The
\* fd is armed in a second step.  The branch that disarms the fd of an empty
\* heap is never reached: no caller passes a priorTop with an empty heap.
updateSoonestTime(priorTop, h) ==
  IF Top(h) # priorTop /\ h # {} /\ (priorTop = None \/ due[Top(h)] < due[priorTop])
  THEN polled' = TRUE /\ mpc' = "arm"
  ELSE polled' = polled /\ mpc' = "idle"

\* updateSoonestTime, second half: timerfd_settime.
Arm ==
  /\ mpc = "arm"
  /\ armed' = due[Top(heap)]
  /\ mpc' = "idle"
  /\ UNCHANGED <<now, starts, mTimer, mClient, due, heapVars, msgs, polled, ppc,
                 timer, client, nowRead, history>>

MsgTimerPush ==
  /\ Received("Push")
  /\ heap' = heap \cup {Head(msgs).timer}
  /\ updateSoonestTime(Top(heap), heap')
  /\ msgs' = Tail(msgs)
  /\ UNCHANGED <<now, starts, mTimer, mClient, due, deleted, armed, ppc, timer, client,
                 nowRead, history>>

\* The fd is updated when the removed delegate was the top: priorTop is then
\* given as NULL, and so is it when the heap was empty.
MsgTimerRemove ==
  /\ Received("Remove")
  /\ LET d == Head(msgs).timer IN
       /\ heap' = heap \ {d}
       /\ IF Top(heap) = (IF d \in heap THEN d ELSE None)
          THEN updateSoonestTime(None, heap')
          ELSE UNCHANGED <<polled, mpc>>
       /\ deleted' = deleted \cup {d}
  /\ msgs' = Tail(msgs)
  /\ UNCHANGED <<now, starts, mTimer, mClient, due, armed, ppc, timer, client, nowRead, history>>

\* Mutant: a timer that is popped is deleted at once.
PopAndDelete(d) ==
  /\ heap' = heap \ {d}
  /\ deleted' = deleted \cup {d}
  /\ timer' = d
  /\ mpc' = "expire"
  /\ UNCHANGED polled

Pop(d) ==
  /\ heap' = heap \ {d}
  /\ timer' = d
  /\ mpc' = "expire"
  /\ UNCHANGED <<deleted, polled>>

\* Mutant: the fd is not armed for the timers that stay in the heap.
FinishWithoutUpdate ==
  /\ mpc' = "idle"
  /\ timer' = None
  /\ UNCHANGED <<heapVars, polled>>

FinishExpire ==
  /\ updateSoonestTime(None, heap)
  /\ timer' = None
  /\ UNCHANGED heapVars

\* MsgTimerExpire reads the clock and pops the top whatever its time.
MsgTimerExpire ==
  /\ Received("Expire")
  /\ nowRead' = now
  /\ IF heap # {} THEN Pop(Top(heap)) ELSE FinishExpire
  /\ msgs' = Tail(msgs)
  /\ UNCHANGED <<now, starts, mTimer, mClient, due, armed, ppc, client, history>>

\* LocTimerDelegate::expire: keeps a copy of mClient.
ExpireReadsClient ==
  /\ mpc = "expire"
  /\ client' = mClient[timer]
  /\ mpc' = IF mClient[timer] = NoClient THEN "next" ELSE "stop"
  /\ UNCHANGED <<now, starts, mTimer, mClient, due, heapVars, msgs, fdVars, ppc, timer,
                 nowRead, history>>

\* Mutant: the callback is made whether or not stop() found a timer running.
ExpireIgnoresStop ==
  /\ mpc = "stop"
  /\ timer' = timer
  /\ mpc' = "callback"
  /\ client' = NoClient
  /\ IF mTimer[client] # None
     THEN mTimer' = [mTimer EXCEPT ![client] = None] /\ destroyLocked(mTimer[client])
     ELSE UNCHANGED <<mTimer, mClient, msgs>>
  /\ UNCHANGED <<now, starts, due, heapVars, fdVars, ppc, nowRead, history>>

\* LocTimerDelegate::expire: client->stop() stops whatever delegate the client
\* has by now; without one there is no callback.
ExpireStopsClient ==
  /\ mpc = "stop"
  /\ IF mTimer[client] # None
     THEN /\ mTimer' = [mTimer EXCEPT ![client] = None]
          /\ destroyLocked(mTimer[client])
          /\ timer' = mTimer[client]
          /\ mpc' = "callback"
     ELSE /\ mpc' = "next"
          /\ UNCHANGED <<mTimer, mClient, msgs, timer>>
  /\ client' = NoClient
  /\ UNCHANGED <<now, starts, due, heapVars, fdVars, ppc, nowRead, history>>

timeOutCallback ==
  /\ mpc = "callback"
  /\ fired' = [fired EXCEPT ![timer] = now]
  /\ mpc' = "next"
  /\ UNCHANGED <<now, starts, mTimer, mClient, due, heapVars, msgs, fdVars, ppc, timer,
                 client, nowRead, stopped>>

\* popIfOutRanks until the top is later than the clock was, then arm the fd.
popIfOutRanks ==
  /\ mpc = "next"
  /\ IF heap # {} /\ due[Top(heap)] <= nowRead THEN Pop(Top(heap)) ELSE FinishExpire
  /\ UNCHANGED <<now, starts, mTimer, mClient, due, msgs, armed, ppc, client, nowRead, history>>

-----------------------------------------------------------------------------
MsgThread ==
  \/ MsgTimerPush \/ MsgTimerRemove \/ MsgTimerExpire
  \/ ExpireReadsClient \/ ExpireStopsClient \/ timeOutCallback \/ popIfOutRanks
  \/ Arm

PollThread == PollWakes \/ PollDisarms \/ PollRemoves \/ PollSends

Next ==
  \/ \E c \in Clients : Stop(c) \/ \E delay \in Delays : Start(c, delay)
  \/ MsgThread \/ PollThread \/ Tick

\* Both threads run, and time passes.  Nothing obliges a client.
Fairness == WF_vars(MsgThread) /\ WF_vars(PollThread) /\ WF_vars(Tick)

Spec == Init /\ [][Next]_vars /\ Fairness

-----------------------------------------------------------------------------
(* Properties                                                              *)

\* "All timers are deleted here, and only here" (LocTimer.cpp:358): nothing a
\* thread will still use is a deleted delegate, and none is deleted twice.
NoDanglingDelegate ==
  /\ deleted \cap heap = {}
  /\ timer \notin deleted \/ mpc \notin {"expire", "stop"}
  /\ \A i \in DOMAIN msgs : msgs[i].type # "Expire" => msgs[i].timer \notin deleted
  /\ \A i, j \in DOMAIN msgs :
       i < j /\ msgs[i].type = "Remove" /\ msgs[j].type # "Expire"
         => msgs[i].timer # msgs[j].timer
  /\ \A c \in Clients : mTimer[c] \notin deleted

\* No lost wake-up: while a timer ticks, the fd is polled and armed for a time
\* no later than the soonest one, or one of the two threads is about to see to
\* it.  The threads arm, disarm, add and remove the fd in any interleaving.
TickingIsArmed ==
  heap # {} =>
    \/ polled /\ armed # None /\ armed <= due[Top(heap)]
    \/ ppc # "wait"
    \/ \E i \in DOMAIN msgs : msgs[i].type = "Expire"
    \/ mpc # "idle"

\* A client that stopped its timer (stop() returned true) is not called back
\* for it any more, wherever the expiry was when it did.
StoppedIsNotCalledBack == [][\A d \in stopped : fired'[d] = fired[d]]_vars

\* Every timer that is started is called back in the end, unless it is stopped.
StartedIsCalledBack == \A d \in Delegates :
  (starts >= d) ~> (d \in stopped \/ fired[d] # None)

\* "Upon expire, we check and continuously pop the heap until the top node's
\* timeout is in the future" and "pop everything in the heap that outRanks now,
\* i.e. has time older than now" (LocTimer.cpp:367, 379): no time-out is called
\* back before it is due.
NotCalledBackEarly == \A d \in Delegates : fired[d] # None => fired[d] >= due[d]
=============================================================================
