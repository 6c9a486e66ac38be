------------------------------- MODULE MsgTask -------------------------------
(***************************************************************************)
(* The message task (gps/utils/MsgTask.cpp, LocThread.cpp) over the        *)
(* message queue (msg_q.c) over the doubly linked list (linked_list.c).    *)
(* Any thread sends; the task's own thread receives and handles; the owner *)
(* of the task deletes it once.                                            *)
(*                                                                         *)
(* What a thread does under list_mutex is one step; a wait on list_cond    *)
(* and what follows it are two.  A message is the number of its send, and  *)
(* its list element has the same name.                                     *)
(***************************************************************************)
EXTENDS Naturals, Sequences, FiniteSets

CONSTANT MaxMsgs   \* bound: messages sent

ASSUME MaxMsgsAssumption == MaxMsgs \in Nat

Msgs == 1..MaxMsgs
NULL == 0

VARIABLES
  sent,      \* calls of sendMsg so far
  p_head, p_tail, next, prev,   \* the list_state and its elements
  unblocked, \* msg_q::unblocked
  thread,    \* what the task's thread does next
  msg,       \* MTRunnable::run: the message received, NULL if none
  owner,     \* what the owner of the MsgTask does next
  ownerRef,  \* does the owner hold a reference to the MTRunnable?
  destroyed, \* has ~MTRunnable destroyed the queue?
  queue,     \* what the list should hold: accepted and not yet taken (history)
  handled,   \* messages handled and deleted, in order (history)
  flushed    \* messages deleted by the flush (history)

listVars == <<p_head, p_tail, next, prev>>
history  == <<queue, handled, flushed>>
vars     == <<sent, listVars, unblocked, thread, msg, owner, ownerRef, destroyed, history>>

TypeOK ==
  /\ sent \in 0..MaxMsgs
  /\ p_head \in Msgs \cup {NULL} /\ p_tail \in Msgs \cup {NULL}
  /\ next \in [Msgs -> Msgs \cup {NULL}] /\ prev \in [Msgs -> Msgs \cup {NULL}]
  /\ unblocked \in BOOLEAN
  /\ thread \in {"run", "waiting", "woken", "proc", "exit", "gone"}
  /\ msg \in IF thread = "proc" THEN Msgs ELSE {NULL}
  /\ owner \in {"running", "locked", "interrupted", "gone"}
  /\ ownerRef \in BOOLEAN /\ destroyed \in BOOLEAN
  /\ queue \in Seq(Msgs) /\ handled \in Seq(Msgs) /\ flushed \subseteq Msgs

Init ==
  /\ sent = 0
  /\ p_head = NULL /\ p_tail = NULL
  /\ next = [m \in Msgs |-> NULL] /\ prev = [m \in Msgs |-> NULL]
  /\ unblocked = FALSE
  /\ thread = "run" /\ msg = NULL
  /\ owner = "running" /\ ownerRef = FALSE
  /\ destroyed = FALSE
  /\ queue = <<>> /\ handled = <<>> /\ flushed = {}

-----------------------------------------------------------------------------
(* The list: elements are added at the head and removed at the tail.       *)

linked_list_add(m) ==
  /\ p_head' = m
  /\ p_tail' = IF p_head = NULL THEN m ELSE p_tail
  /\ next' = [next EXCEPT ![m] = p_head]
  /\ prev' = [e \in Msgs |-> IF e = m THEN NULL ELSE IF e = p_head THEN m ELSE prev[e]]
  /\ queue' = Append(queue, m)

\* Mutant: the head keeps pointing at the last element, which is freed.
RemoveKeepsHead ==
  /\ queue' = Tail(queue)
  /\ msg' = p_tail
  /\ p_tail' = prev[p_tail]
  /\ next' = [e \in Msgs |-> IF e = prev[p_tail] THEN NULL ELSE next[e]]
  /\ p_head' = p_head
  /\ UNCHANGED prev

\* Mutant: messages are taken from the end they were added to.
RemoveNewest ==
  /\ queue' = Tail(queue)
  /\ msg' = p_head
  /\ p_head' = next[p_head]
  /\ prev' = [e \in Msgs |-> IF e = next[p_head] THEN NULL ELSE prev[e]]
  /\ p_tail' = IF next[p_head] = NULL THEN NULL ELSE p_tail
  /\ UNCHANGED next

\* linked_list_remove of a list that is not empty: the oldest, at p_tail.
linked_list_remove ==
  /\ queue' = Tail(queue)
  /\ msg' = p_tail
  /\ p_tail' = prev[p_tail]
  /\ next' = [e \in Msgs |-> IF e = prev[p_tail] THEN NULL ELSE next[e]]
  /\ p_head' = IF prev[p_tail] = NULL THEN NULL ELSE p_head
  /\ UNCHANGED prev

linked_list_flush ==
  /\ p_head' = NULL /\ p_tail' = NULL
  /\ queue' = <<>>
  /\ flushed' = flushed \cup {queue[i] : i \in DOMAIN queue}
  /\ UNCHANGED <<next, prev>>

-----------------------------------------------------------------------------
(* Senders.                                                                *)

\* Mutant: the waiting thread is not signalled.
SendSilently ==
  /\ sent < MaxMsgs /\ owner # "gone"
  /\ sent' = sent + 1
  /\ IF unblocked
     THEN UNCHANGED <<listVars, queue>>
     ELSE linked_list_add(sent + 1)
  /\ UNCHANGED <<unblocked, thread, msg, owner, ownerRef, destroyed, handled, flushed>>

\* MsgTask::sendMsg: when the queue is unblocked msg_q_snd refuses the message,
\* its answer is not looked at and the message leaks.
sendMsg ==
  /\ sent < MaxMsgs /\ owner # "gone"
  /\ sent' = sent + 1
  /\ IF unblocked
     THEN UNCHANGED <<listVars, thread, queue>>
     ELSE /\ linked_list_add(sent + 1)
          /\ thread' = IF thread = "waiting" THEN "woken" ELSE thread
  /\ UNCHANGED <<unblocked, msg, owner, ownerRef, destroyed, handled, flushed>>

-----------------------------------------------------------------------------
(* The thread: MTRunnable::run until it returns false.                     *)

\* Mutant: run() does not look at what msg_q_rcv answers.
TakeUnchecked ==
  /\ thread' = "proc"
  /\ IF p_tail = NULL THEN UNCHANGED <<msg, listVars, queue>> ELSE linked_list_remove

\* The end of msg_q_rcv: linked_list_remove finds a message, or not, and then
\* run() returns false.
Take ==
  IF p_tail = NULL
  THEN thread' = "exit" /\ UNCHANGED <<msg, listVars, queue>>
  ELSE thread' = "proc" /\ linked_list_remove

\* msg_q_rcv up to the wait.
msg_q_rcv ==
  /\ thread = "run"
  /\ IF unblocked THEN thread' = "exit" /\ UNCHANGED <<msg, listVars, queue>>
     ELSE IF p_head = NULL THEN thread' = "waiting" /\ UNCHANGED <<msg, listVars, queue>>
     ELSE Take
  /\ UNCHANGED <<sent, unblocked, owner, ownerRef, destroyed, handled, flushed>>

\* pthread_cond_wait may return without a signal.
SpuriousWakeup ==
  /\ thread = "waiting"
  /\ thread' = "woken"
  /\ UNCHANGED <<sent, listVars, unblocked, msg, owner, ownerRef, destroyed, history>>

Woken ==
  /\ thread = "woken"
  /\ IF p_head = NULL /\ ~unblocked
     THEN thread' = "waiting" /\ UNCHANGED <<msg, listVars, queue>>
     ELSE Take
  /\ UNCHANGED <<sent, unblocked, owner, ownerRef, destroyed, handled, flushed>>

\* msg->proc() and delete msg.
proc ==
  /\ thread = "proc"
  /\ handled' = Append(handled, msg)
  /\ msg' = NULL
  /\ thread' = "run"
  /\ UNCHANGED <<sent, listVars, unblocked, owner, ownerRef, destroyed, queue, flushed>>

\* ~MTRunnable, run by whoever drops the last reference.
DestroyQueue == destroyed' = TRUE /\ linked_list_flush

\* The thread ends: its copy of the shared_ptr is dropped.
ThreadEnds ==
  /\ thread = "exit"
  /\ thread' = "gone"
  /\ IF ownerRef THEN UNCHANGED <<destroyed, flushed, queue, listVars>> ELSE DestroyQueue
  /\ UNCHANGED <<sent, unblocked, msg, owner, ownerRef, handled>>

-----------------------------------------------------------------------------
(* The owner: ~MsgTask, LocThread::stop and ~LocThreadDelegate.            *)

\* Mutant: the owner uses the runnable without a reference to it.
StopWithoutRef ==
  /\ owner = "running"
  /\ owner' = "locked"
  /\ UNCHANGED <<sent, listVars, unblocked, thread, msg, ownerRef, destroyed, history>>

\* weak_ptr::lock finds the runnable unless the thread has ended.
StopLocks ==
  /\ owner = "running"
  /\ IF thread = "gone" THEN owner' = "gone" /\ UNCHANGED ownerRef
     ELSE owner' = "locked" /\ ownerRef' = TRUE
  /\ UNCHANGED <<sent, listVars, unblocked, thread, msg, destroyed, history>>

\* MTRunnable::interrupt: msg_q_unblock sets the flag and wakes the waiter.
interrupt ==
  /\ owner = "locked"
  /\ unblocked' = TRUE
  /\ thread' = IF thread = "waiting" THEN "woken" ELSE thread
  /\ owner' = "interrupted"
  /\ UNCHANGED <<sent, listVars, msg, ownerRef, destroyed, history>>

\* The reference is dropped at the end of ~LocThreadDelegate.
StopReleases ==
  /\ owner = "interrupted"
  /\ owner' = "gone" /\ ownerRef' = FALSE
  /\ IF thread = "gone" THEN DestroyQueue ELSE UNCHANGED <<destroyed, flushed, queue, listVars>>
  /\ UNCHANGED <<sent, unblocked, thread, msg, handled>>

-----------------------------------------------------------------------------
TaskThread == msg_q_rcv \/ Woken \/ proc \/ ThreadEnds
Stopping   == interrupt \/ StopReleases

Next == sendMsg \/ TaskThread \/ SpuriousWakeup \/ StopLocks \/ Stopping

\* The thread is scheduled, and a destructor once begun goes on.  Whether
\* anybody sends or ever deletes the task is open.
Spec == Init /\ [][Next]_vars /\ WF_vars(TaskThread) /\ WF_vars(Stopping)

-----------------------------------------------------------------------------
(* Properties                                                              *)

\* The doubly linked list is what was accepted and not yet taken, oldest at the
\* tail, linked both ways: no element is lost, kept after it was freed, or
\* linked twice.
ListIsQueue ==
  /\ IF queue = <<>> THEN p_head = NULL /\ p_tail = NULL
     ELSE p_tail = queue[1] /\ p_head = queue[Len(queue)]
  /\ \A i \in 1..Len(queue) :
       /\ next[queue[i]] = IF i = 1 THEN NULL ELSE queue[i - 1]
       /\ prev[queue[i]] = IF i = Len(queue) THEN NULL ELSE queue[i + 1]

\* The queue, its mutex and its condition are not destroyed under a thread that
\* is still using them: neither the task's thread nor the owner, who may be
\* inside msg_q_unblock when the thread it woke drops its reference.
NoUseOfDestroyedQueue ==
  destroyed => thread = "gone" /\ owner \notin {"locked", "interrupted"}

\* The task implements MsgChannel: accepted messages are handled in order, one
\* at a time, none twice, and none after the interruption has emptied the queue.
Channel == INSTANCE MsgChannel
             WITH pending <- queue, handling <- msg, dropped <- flushed,
                  closed <- unblocked
ImplementsChannel == Channel!Spec

\* No lost wake-up: every message the queue accepts is deleted in the end,
\* handled or flushed, however the sends fall between the thread's checks.
AcceptedIsDeleted == \A m \in Msgs :
  (\E i \in DOMAIN queue : queue[i] = m) ~> (m \in flushed \/ \E i \in DOMAIN handled : handled[i] = m)

=============================================================================
