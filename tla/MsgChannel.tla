----------------------------- MODULE MsgChannel -----------------------------
(***************************************************************************)
(* What a MsgTask promises the threads that send to it: messages are       *)
(* handled one at a time in the order they were accepted; once the task is *)
(* interrupted it accepts no more, and whatever is left is thrown away.    *)
(* MsgTask implements this with a linked list, a condition and a thread.   *)
(***************************************************************************)
EXTENDS Naturals, Sequences

CONSTANT MaxMsgs   \* bound: messages sent

Msgs == 1..MaxMsgs

VARIABLES pending,  \* accepted, in order
          handling, \* the message being handled, 0 if none
          handled,  \* handled so far, in order
          dropped,  \* thrown away
          closed    \* has the task been interrupted?

vars == <<pending, handling, handled, dropped, closed>>

Init ==
  /\ pending = <<>> /\ handling = 0 /\ handled = <<>>
  /\ dropped = {} /\ closed = FALSE

Accept(m) ==
  /\ ~closed
  /\ pending' = Append(pending, m)
  /\ UNCHANGED <<handling, handled, dropped, closed>>

Handle ==
  /\ handling = 0 /\ pending # <<>>
  /\ handling' = Head(pending)
  /\ pending' = Tail(pending)
  /\ UNCHANGED <<handled, dropped, closed>>

Done ==
  /\ handling # 0
  /\ handled' = Append(handled, handling)
  /\ handling' = 0
  /\ UNCHANGED <<pending, dropped, closed>>

Close ==
  /\ ~closed
  /\ closed' = TRUE
  /\ UNCHANGED <<pending, handling, handled, dropped>>

Discard ==
  /\ closed /\ handling = 0
  /\ dropped' = dropped \cup {pending[i] : i \in DOMAIN pending}
  /\ pending' = <<>>
  /\ UNCHANGED <<handling, handled, closed>>

Next == (\E m \in Msgs : Accept(m)) \/ Handle \/ Done \/ Close \/ Discard

Spec == Init /\ [][Next]_vars
=============================================================================
