---------------------------- MODULE MsgTaskProofs ----------------------------
(***************************************************************************)
(* Proofs about MsgTask for any number of messages: the types, the life of *)
(* the queue, the linked list, and the refinement of MsgChannel.           *)
(***************************************************************************)
EXTENDS MsgTask, SequenceTheorems, TLAPS

-----------------------------------------------------------------------------
(* The inductive invariant.                                                *)

\* Messages are numbered in the order they were sent, so no element is in the
\* list twice and a new one is in it nowhere.
Ordered ==
  /\ \A i \in 1..Len(queue) : queue[i] <= sent
  /\ \A i, j \in 1..Len(queue) : i < j => queue[i] < queue[j]

\* Who holds the MTRunnable: the owner from the lock of its weak_ptr to the end
\* of ~LocThreadDelegate, the thread until it is gone.  The queue is destroyed
\* only when neither does, and the thread ends only after the interruption.
Holders ==
  /\ ownerRef <=> owner \in {"locked", "interrupted"}
  /\ destroyed => thread = "gone" /\ ~ownerRef
  /\ unblocked <=> owner \in {"interrupted", "gone"}
  /\ thread \in {"exit", "gone"} => unblocked

IInv == TypeOK /\ Ordered /\ ListIsQueue /\ Holders

-----------------------------------------------------------------------------
(* What the two list operations do to the list.                            *)

\* What the invariant says of the list, in terms of its length.
LEMMA ListFacts ==
  ASSUME IInv
  PROVE  /\ sent \in Nat /\ Len(queue) \in Nat /\ queue \in Seq(Msgs)
         /\ \A i \in 1..Len(queue) : queue[i] \in Nat /\ queue[i] \in Msgs /\ queue[i] # NULL
         /\ Len(queue) = 0 <=> queue = <<>>
         /\ Len(queue) = 0 => p_head = NULL /\ p_tail = NULL
         /\ Len(queue) > 0 => p_head = queue[Len(queue)] /\ p_tail = queue[1]
<1>1. sent \in Nat /\ queue \in Seq(Msgs) /\ Len(queue) \in Nat
  BY MaxMsgsAssumption, LenProperties DEF IInv, TypeOK
<1>2. \A i \in 1..Len(queue) : queue[i] \in Msgs
  BY <1>1, ElementOfSeq
<1>3. Len(queue) = 0 <=> queue = <<>>
  BY <1>1, EmptySeq
<1>4. QED
  BY <1>1, <1>2, <1>3, MaxMsgsAssumption DEF IInv, ListIsQueue, Msgs, NULL

\* The new element goes behind the newest.
LEMMA AddKeepsList ==
  ASSUME IInv, sent < MaxMsgs, sent' = sent + 1, linked_list_add(sent + 1)
  PROVE  /\ queue' = Append(queue, sent + 1) /\ queue' \in Seq(Msgs)
         /\ p_head' \in Msgs /\ p_tail' \in Msgs
         /\ next' \in [Msgs -> Msgs \cup {NULL}]
         /\ prev' \in [Msgs -> Msgs \cup {NULL}]
         /\ Ordered' /\ ListIsQueue'
<1> DEFINE n == Len(queue)
<1>1. /\ sent \in Nat /\ n \in Nat /\ queue \in Seq(Msgs) /\ sent + 1 \in Msgs /\ 0 \notin Msgs
      /\ Msgs \subseteq Nat /\ NULL = 0
      /\ \A i \in 1..n : queue[i] \in Nat /\ queue[i] \in Msgs /\ queue[i] # NULL
      /\ n = 0 => p_head = NULL /\ p_tail = NULL
      /\ n > 0 => p_head = queue[n] /\ p_tail = queue[1]
  BY ListFacts, MaxMsgsAssumption DEF Msgs, NULL
<1>2. /\ \A i \in 1..n : queue[i] <= sent
      /\ \A i, j \in 1..n : i < j => queue[i] < queue[j]
      /\ \A i \in 1..n : /\ next[queue[i]] = IF i = 1 THEN NULL ELSE queue[i - 1]
                         /\ prev[queue[i]] = IF i = n THEN NULL ELSE queue[i + 1]
  BY DEF IInv, Ordered, ListIsQueue
<1>3. /\ queue' = Append(queue, sent + 1)
      /\ p_head' = sent + 1
      /\ p_tail' = IF p_head = NULL THEN sent + 1 ELSE p_tail
      /\ next' \in [Msgs -> Msgs \cup {NULL}]
      /\ prev' \in [Msgs -> Msgs \cup {NULL}]
      /\ \A e \in Msgs : next'[e] = IF e = sent + 1 THEN p_head ELSE next[e]
      /\ \A e \in Msgs :
           prev'[e] = IF e = sent + 1 THEN NULL ELSE IF e = p_head THEN sent + 1 ELSE prev[e]
  BY <1>1 DEF linked_list_add, IInv, TypeOK
<1>4. /\ queue' \in Seq(Msgs) /\ Len(queue') = n + 1
      /\ \A i \in 1..n : queue'[i] = queue[i]
      /\ queue'[n + 1] = sent + 1
  BY <1>1, <1>3, AppendProperties
<1> HIDE DEF n
<1>5. Ordered'
  <2>1. ASSUME NEW i \in 1..(n + 1) PROVE queue'[i] <= sent'
    <3>1. CASE i = n + 1
      BY <1>1, <1>4, <3>1
    <3>2. CASE i \in 1..n
      <4>1. queue'[i] = queue[i] /\ queue[i] \in Nat /\ queue[i] <= sent
        BY <1>1, <1>2, <1>4, <3>2
      <4>2. QED
        BY <1>1, <4>1
    <3>3. QED
      BY <1>1, <3>1, <3>2
  <2>2. ASSUME NEW i \in 1..(n + 1), NEW j \in 1..(n + 1), i < j PROVE queue'[i] < queue'[j]
    <3>1. i \in 1..n /\ queue'[i] = queue[i] /\ queue[i] \in Nat /\ queue[i] < sent + 1
      BY <1>1, <1>2, <1>4, <2>2
    <3>2. CASE j = n + 1
      BY <1>4, <3>1, <3>2
    <3>3. CASE j \in 1..n
      BY <1>2, <1>4, <2>2, <3>1, <3>3
    <3>4. QED
      BY <1>1, <3>2, <3>3
  <2>3. QED
    BY <1>4, <2>1, <2>2 DEF Ordered
<1>6. queue' # <<>>
  BY <1>1, <1>4, EmptySeq
<1>7. p_tail' = queue'[1] /\ p_head' = queue'[n + 1]
  BY <1>1, <1>3, <1>4
<1>8. ASSUME NEW i \in 1..(n + 1)
      PROVE  /\ next'[queue'[i]] = IF i = 1 THEN NULL ELSE queue'[i - 1]
             /\ prev'[queue'[i]] = IF i = n + 1 THEN NULL ELSE queue'[i + 1]
  <2>1. CASE i = n + 1
    <3>1. next'[queue'[i]] = p_head /\ prev'[queue'[i]] = NULL
      BY <1>1, <1>3, <1>4, <2>1
    <3>2. p_head = IF i = 1 THEN NULL ELSE queue'[i - 1]
      BY <1>1, <1>4, <2>1
    <3>3. QED
      BY <2>1, <3>1, <3>2
  <2>2. CASE i \in 1..n
    <3>1. queue'[i] = queue[i] /\ queue[i] \in Msgs /\ queue[i] # sent + 1
      BY <1>1, <1>2, <1>4, <2>2
    <3>2. next'[queue'[i]] = next[queue[i]]
      BY <1>3, <3>1
    <3>3. i # 1 => queue'[i - 1] = queue[i - 1]
      BY <1>1, <1>4, <2>2
    <3>4. next'[queue'[i]] = IF i = 1 THEN NULL ELSE queue'[i - 1]
      BY <1>2, <2>2, <3>2, <3>3
    <3>5. CASE i = n
      BY <1>1, <1>3, <1>4, <3>1, <3>4, <3>5
    <3>6. CASE i < n
      <4>1. queue[i] # p_head
        BY <1>1, <1>2, <2>2, <3>6
      <4>2. prev'[queue'[i]] = prev[queue[i]] /\ queue'[i + 1] = queue[i + 1]
        BY <1>1, <1>3, <1>4, <2>2, <3>1, <3>6, <4>1
      <4>3. QED
        BY <1>1, <1>2, <2>2, <3>4, <3>6, <4>2
    <3>7. QED
      BY <1>1, <2>2, <3>5, <3>6
  <2>3. QED
    BY <1>1, <2>1, <2>2
<1>9. ListIsQueue'
  BY <1>4, <1>6, <1>7, <1>8 DEF ListIsQueue
<1>10. p_tail' \in Msgs /\ p_head' \in Msgs
  BY <1>1, <1>3
<1>11. QED
  BY <1>3, <1>4, <1>5, <1>9, <1>10

\* The message that is taken is the oldest, and the others stay as they were.
LEMMA RemoveKeepsList ==
  ASSUME IInv, p_tail # NULL, linked_list_remove, UNCHANGED sent
  PROVE  /\ queue # <<>> /\ msg' = Head(queue) /\ msg' \in Msgs
         /\ queue' = Tail(queue) /\ queue' \in Seq(Msgs)
         /\ p_head' \in Msgs \cup {NULL} /\ p_tail' \in Msgs \cup {NULL}
         /\ next' \in [Msgs -> Msgs \cup {NULL}]
         /\ prev' \in [Msgs -> Msgs \cup {NULL}]
         /\ Ordered' /\ ListIsQueue'
<1> DEFINE n == Len(queue)
<1>1. /\ sent \in Nat /\ n \in Nat /\ n > 0 /\ queue \in Seq(Msgs) /\ queue # <<>>
      /\ \A i \in 1..n : queue[i] \in Nat /\ queue[i] \in Msgs /\ queue[i] # NULL
      /\ p_head = queue[n] /\ p_tail = queue[1] /\ p_tail \in Msgs
  BY ListFacts
<1>2. /\ \A i \in 1..n : queue[i] <= sent
      /\ \A i, j \in 1..n : i < j => queue[i] < queue[j]
      /\ \A i \in 1..n : /\ next[queue[i]] = IF i = 1 THEN NULL ELSE queue[i - 1]
                         /\ prev[queue[i]] = IF i = n THEN NULL ELSE queue[i + 1]
  BY DEF IInv, Ordered, ListIsQueue
<1>3. /\ queue' = Tail(queue) /\ msg' = p_tail
      /\ p_tail' = prev[p_tail]
      /\ p_head' = IF prev[p_tail] = NULL THEN NULL ELSE p_head
      /\ next' \in [Msgs -> Msgs \cup {NULL}]
      /\ prev' = prev /\ prev \in [Msgs -> Msgs \cup {NULL}]
      /\ \A e \in Msgs : next'[e] = IF e = prev[p_tail] THEN NULL ELSE next[e]
  BY DEF linked_list_remove, IInv, TypeOK
<1>4. /\ queue' \in Seq(Msgs) /\ Len(queue') = n - 1
      /\ \A i \in 1..(n - 1) : queue'[i] = queue[i + 1]
      /\ Head(queue) = queue[1]
  BY <1>1, <1>3, HeadTailProperties
<1> HIDE DEF n
<1>5. prev[p_tail] = IF n = 1 THEN NULL ELSE queue[2]
  BY <1>1, <1>2
<1>6. Ordered'
  <2>1. ASSUME NEW i \in 1..(n - 1) PROVE queue'[i] <= sent'
    <3>1. i + 1 \in 1..n
      BY <1>1
    <3>2. queue'[i] = queue[i + 1] /\ queue[i + 1] <= sent
      BY <1>2, <1>4, <3>1
    <3>3. QED
      BY <3>2
  <2>2. ASSUME NEW i \in 1..(n - 1), NEW j \in 1..(n - 1), i < j PROVE queue'[i] < queue'[j]
    BY <1>1, <1>2, <1>4, <2>2
  <2>3. QED
    BY <1>4, <2>1, <2>2 DEF Ordered
<1>7. CASE n = 1
  <2>1. queue' = <<>>
    BY <1>4, <1>7, EmptySeq
  <2>2. p_head' = NULL /\ p_tail' = NULL
    BY <1>3, <1>5, <1>7
  <2>3. ListIsQueue'
    BY <1>4, <1>7, <2>1, <2>2 DEF ListIsQueue
  <2>4. QED
    BY <1>1, <1>3, <1>4, <1>6, <2>2, <2>3
<1>8. CASE n > 1
  <2>1. 2 \in 1..n /\ queue[2] \in Msgs /\ queue[2] # NULL /\ prev[p_tail] = queue[2]
    BY <1>1, <1>5, <1>8
  <2>2. p_tail' = queue[2] /\ p_head' = queue[n]
    BY <1>1, <1>3, <1>5, <1>8, <2>1
  <2>3. p_tail' = queue'[1] /\ p_head' = queue'[n - 1]
    BY <1>1, <1>4, <1>8, <2>2
  <2>4. queue' # <<>>
    BY <1>1, <1>4, <1>8, EmptySeq
  <2>5. ASSUME NEW i \in 1..(n - 1)
        PROVE  /\ next'[queue'[i]] = IF i = 1 THEN NULL ELSE queue'[i - 1]
               /\ prev'[queue'[i]] = IF i = n - 1 THEN NULL ELSE queue'[i + 1]
    <3>1. queue'[i] = queue[i + 1] /\ i + 1 \in 1..n /\ queue[i + 1] \in Msgs
      BY <1>1, <1>4
    <3>2. /\ next[queue[i + 1]] = IF i + 1 = 1 THEN NULL ELSE queue[(i + 1) - 1]
          /\ prev[queue[i + 1]] = IF i + 1 = n THEN NULL ELSE queue[(i + 1) + 1]
      BY <1>2, <3>1
    <3>3. (i + 1) - 1 = i /\ i + 1 # 1 /\ (i + 1 = n <=> i = n - 1)
      BY <1>1
    <3>4. next[queue[i + 1]] = queue[i]
      BY <3>2, <3>3
    <3>5. prev'[queue'[i]] = IF i = n - 1 THEN NULL ELSE queue[(i + 1) + 1]
      BY <1>3, <3>1, <3>2, <3>3
    <3>6. i # n - 1 => queue'[i + 1] = queue[(i + 1) + 1]
      BY <1>1, <1>4
    <3>7. prev'[queue'[i]] = IF i = n - 1 THEN NULL ELSE queue'[i + 1]
      BY <3>5, <3>6
    <3>8. CASE i = 1
      <4>1. queue'[i] = queue[2]
        BY <3>1, <3>8
      <4>2. next'[queue'[i]] = NULL
        BY <1>3, <2>1, <4>1
      <4>3. QED
        BY <1>1, <3>7, <3>8, <4>2
    <3>9. CASE i # 1
      <4>1. queue[2] < queue[i + 1]
        BY <1>1, <1>2, <2>1, <3>1, <3>9
      <4>2. queue[2] # queue[i + 1]
        BY <1>1, <2>1, <3>1, <4>1
      <4>3. next'[queue'[i]] = queue[i]
        BY <1>3, <2>1, <3>1, <3>4, <4>2
      <4>4. i - 1 \in 1..(n - 1) /\ (i - 1) + 1 = i
        BY <1>1, <3>9
      <4>5. queue'[i - 1] = queue[i]
        BY <1>4, <4>4
      <4>6. QED
        BY <1>1, <3>7, <3>9, <4>3, <4>5
    <3>10. QED
      BY <3>8, <3>9
  <2>6. ListIsQueue'
    BY <1>4, <2>3, <2>4, <2>5 DEF ListIsQueue
  <2>7. QED
    BY <1>1, <1>3, <1>4, <1>6, <2>1, <2>2, <2>6
<1>9. QED
  BY <1>1, <1>7, <1>8

-----------------------------------------------------------------------------
(* The invariant is inductive.                                             *)

LEMMA InitIInv == Init => IInv
<1> SUFFICES ASSUME Init PROVE IInv
  OBVIOUS
<1>1. /\ queue = <<>> /\ Len(queue) = 0 /\ queue \in Seq(Msgs)
      /\ handled \in Seq(Msgs)
  BY DEF Init
<1>2. TypeOK
  <2>1. msg \in IF thread = "proc" THEN Msgs ELSE {NULL}
    BY DEF Init
  <2>2. next \in [Msgs -> Msgs \cup {NULL}] /\ prev \in [Msgs -> Msgs \cup {NULL}]
    BY DEF Init
  <2>3. sent \in 0..MaxMsgs
    BY MaxMsgsAssumption DEF Init
  <2>4. flushed \subseteq Msgs
    BY DEF Init
  <2>5. QED
    BY <1>1, <2>1, <2>2, <2>3, <2>4 DEF Init, TypeOK
<1>3. Ordered /\ ListIsQueue
  BY <1>1 DEF Init, Ordered, ListIsQueue
<1>4. Holders
  BY DEF Init, Holders
<1>5. QED
  BY <1>2, <1>3, <1>4 DEF IInv

\* Steps that leave the list alone keep what is said of it.
LEMMA ListUntouched ==
  ASSUME IInv, UNCHANGED <<p_head, p_tail, next, prev, queue>>,
         sent' \in {sent, sent + 1}
  PROVE  Ordered' /\ ListIsQueue'
<1>1. sent \in Nat /\ Len(queue) \in Nat /\ \A i \in 1..Len(queue) : queue[i] \in Nat
  BY ListFacts
<1>2. QED
  BY <1>1 DEF IInv, Ordered, ListIsQueue

\* The end of msg_q_rcv.
LEMMA TakeStep ==
  ASSUME IInv, thread \in {"run", "woken"}, Take,
         UNCHANGED <<sent, unblocked, owner, ownerRef, destroyed, handled, flushed>>,
         p_head # NULL \/ unblocked
  PROVE  IInv'
<1>1. CASE p_tail = NULL
  <2>1. unblocked /\ thread' = "exit" /\ UNCHANGED <<msg, listVars, queue>>
    BY <1>1, ListFacts DEF Take
  <2>2. Ordered' /\ ListIsQueue'
    BY <2>1, ListUntouched DEF listVars
  <2>3. TypeOK'
    BY <2>1 DEF IInv, TypeOK, listVars
  <2>4. Holders'
    BY <2>1 DEF IInv, Holders
  <2>5. QED
    BY <2>2, <2>3, <2>4 DEF IInv
<1>2. CASE p_tail # NULL
  <2>1. thread' = "proc" /\ linked_list_remove
    BY <1>2 DEF Take
  <2>2. /\ msg' \in Msgs /\ queue' \in Seq(Msgs)
        /\ p_head' \in Msgs \cup {NULL} /\ p_tail' \in Msgs \cup {NULL}
        /\ next' \in [Msgs -> Msgs \cup {NULL}] /\ prev' \in [Msgs -> Msgs \cup {NULL}]
        /\ Ordered' /\ ListIsQueue'
    BY <1>2, <2>1, RemoveKeepsList
  <2>3. TypeOK'
    BY <2>1, <2>2 DEF IInv, TypeOK
  <2>4. Holders'
    BY <2>1 DEF IInv, Holders
  <2>5. QED
    BY <2>2, <2>3, <2>4 DEF IInv
<1>3. QED
  BY <1>1, <1>2

\* ~MTRunnable leaves an empty list.
LEMMA DestroyStep ==
  ASSUME IInv, DestroyQueue, UNCHANGED sent
  PROVE  /\ p_head' = NULL /\ p_tail' = NULL /\ queue' = <<>>
         /\ next' \in [Msgs -> Msgs \cup {NULL}] /\ prev' \in [Msgs -> Msgs \cup {NULL}]
         /\ flushed' \subseteq Msgs /\ queue' \in Seq(Msgs)
         /\ Ordered' /\ ListIsQueue'
<1>1. p_head' = NULL /\ p_tail' = NULL /\ queue' = <<>> /\ UNCHANGED <<next, prev>>
  BY DEF DestroyQueue, linked_list_flush
<1>2. queue' \in Seq(Msgs) /\ Len(queue') = 0
  BY <1>1
<1>3. flushed' \subseteq Msgs
  <2>1. \A i \in DOMAIN queue : queue[i] \in Msgs
    BY ListFacts, LenProperties
  <2>2. QED
    BY <2>1 DEF DestroyQueue, linked_list_flush, IInv, TypeOK
<1>4. Ordered' /\ ListIsQueue'
  BY <1>1, <1>2 DEF Ordered, ListIsQueue
<1>5. QED
  BY <1>1, <1>2, <1>3, <1>4 DEF IInv, TypeOK

LEMMA NextIInv == IInv /\ [Next]_vars => IInv'
<1> SUFFICES ASSUME IInv, [Next]_vars PROVE IInv'
  OBVIOUS
<1>1. CASE sendMsg
  <2>1. CASE unblocked
    <3>1. UNCHANGED <<listVars, thread, queue>> /\ sent' = sent + 1 /\ sent' \in 0..MaxMsgs
      BY <1>1, <2>1, MaxMsgsAssumption DEF sendMsg, IInv, TypeOK
    <3>2. Ordered' /\ ListIsQueue'
      BY <3>1, ListUntouched DEF listVars
    <3>3. TypeOK' /\ Holders'
      BY <1>1, <3>1 DEF sendMsg, listVars, IInv, TypeOK, Holders
    <3>4. QED
      BY <3>2, <3>3 DEF IInv
  <2>2. CASE ~unblocked
    <3>1. linked_list_add(sent + 1) /\ sent < MaxMsgs /\ sent' = sent + 1 /\ sent' \in 0..MaxMsgs
      BY <1>1, <2>2, MaxMsgsAssumption DEF sendMsg, IInv, TypeOK
    <3>2. /\ queue' \in Seq(Msgs) /\ p_head' \in Msgs /\ p_tail' \in Msgs
          /\ next' \in [Msgs -> Msgs \cup {NULL}] /\ prev' \in [Msgs -> Msgs \cup {NULL}]
          /\ Ordered' /\ ListIsQueue'
      BY <3>1, AddKeepsList
    <3>3. thread' = IF thread = "waiting" THEN "woken" ELSE thread
      BY <1>1, <2>2 DEF sendMsg
    <3>4. TypeOK'
      BY <1>1, <3>1, <3>2, <3>3 DEF sendMsg, IInv, TypeOK
    <3>5. Holders'
      BY <1>1, <3>3 DEF sendMsg, IInv, Holders
    <3>6. QED
      BY <3>2, <3>4, <3>5 DEF IInv
  <2>3. QED
    BY <2>1, <2>2
<1>2. CASE msg_q_rcv
  <2>1. CASE unblocked \/ p_head = NULL
    <3>1. /\ thread' \in {"exit", "waiting"} /\ (thread' = "exit" => unblocked)
          /\ UNCHANGED <<msg, listVars, queue, sent>>
      BY <1>2, <2>1 DEF msg_q_rcv
    <3>2. Ordered' /\ ListIsQueue'
      BY <3>1, ListUntouched DEF listVars
    <3>3. TypeOK' /\ Holders'
      BY <1>2, <3>1 DEF msg_q_rcv, listVars, IInv, TypeOK, Holders
    <3>4. QED
      BY <3>2, <3>3 DEF IInv
  <2>2. CASE ~unblocked /\ p_head # NULL
    BY <1>2, <2>2, TakeStep DEF msg_q_rcv
  <2>3. QED
    BY <2>1, <2>2
<1>3. CASE Woken
  <2>1. CASE p_head = NULL /\ ~unblocked
    <3>1. thread' = "waiting" /\ UNCHANGED <<msg, listVars, queue, sent>>
      BY <1>3, <2>1 DEF Woken
    <3>2. Ordered' /\ ListIsQueue'
      BY <3>1, ListUntouched DEF listVars
    <3>3. TypeOK' /\ Holders'
      BY <1>3, <3>1 DEF Woken, listVars, IInv, TypeOK, Holders
    <3>4. QED
      BY <3>2, <3>3 DEF IInv
  <2>2. CASE p_head # NULL \/ unblocked
    BY <1>3, <2>2, TakeStep DEF Woken
  <2>3. QED
    BY <2>1, <2>2
<1>4. CASE proc
  <2>1. Ordered' /\ ListIsQueue'
    BY <1>4, ListUntouched DEF proc, listVars
  <2>2. handled' \in Seq(Msgs)
    BY <1>4, AppendProperties DEF proc, IInv, TypeOK
  <2>3. TypeOK' /\ Holders'
    BY <1>4, <2>2 DEF proc, listVars, IInv, TypeOK, Holders
  <2>4. QED
    BY <2>1, <2>3 DEF IInv
<1>5. CASE ThreadEnds
  <2>1. CASE ownerRef
    <3>1. Ordered' /\ ListIsQueue'
      BY <1>5, <2>1, ListUntouched DEF ThreadEnds, listVars
    <3>2. TypeOK' /\ Holders'
      BY <1>5, <2>1 DEF ThreadEnds, listVars, IInv, TypeOK, Holders
    <3>3. QED
      BY <3>1, <3>2 DEF IInv
  <2>2. CASE ~ownerRef
    <3>1. DestroyQueue /\ UNCHANGED sent
      BY <1>5, <2>2 DEF ThreadEnds
    <3>2. TypeOK'
      BY <1>5, <3>1, DestroyStep DEF ThreadEnds, DestroyQueue, IInv, TypeOK
    <3>3. Holders'
      BY <1>5, <2>2 DEF ThreadEnds, IInv, Holders
    <3>4. QED
      BY <3>1, <3>2, <3>3, DestroyStep DEF IInv
  <2>3. QED
    BY <2>1, <2>2
<1>6. CASE SpuriousWakeup \/ StopLocks \/ interrupt
  <2>1. UNCHANGED <<listVars, queue, sent, msg, handled, flushed>>
    BY <1>6 DEF SpuriousWakeup, StopLocks, interrupt, history
  <2>2. Ordered' /\ ListIsQueue'
    BY <2>1, ListUntouched DEF listVars
  <2>3. TypeOK'
    BY <1>6, <2>1 DEF SpuriousWakeup, StopLocks, interrupt, listVars, IInv, TypeOK
  <2>4. Holders'
    BY <1>6 DEF SpuriousWakeup, StopLocks, interrupt, IInv, Holders
  <2>5. QED
    BY <2>2, <2>3, <2>4 DEF IInv
<1>7. CASE StopReleases
  <2>1. CASE thread = "gone"
    <3>1. DestroyQueue /\ UNCHANGED sent
      BY <1>7, <2>1 DEF StopReleases
    <3>2. TypeOK'
      BY <1>7, <3>1, DestroyStep DEF StopReleases, DestroyQueue, IInv, TypeOK
    <3>3. Holders'
      BY <1>7, <2>1 DEF StopReleases, IInv, Holders
    <3>4. QED
      BY <3>1, <3>2, <3>3, DestroyStep DEF IInv
  <2>2. CASE thread # "gone"
    <3>1. Ordered' /\ ListIsQueue'
      BY <1>7, <2>2, ListUntouched DEF StopReleases, listVars
    <3>2. TypeOK' /\ Holders'
      BY <1>7, <2>2 DEF StopReleases, listVars, IInv, TypeOK, Holders
    <3>3. QED
      BY <3>1, <3>2 DEF IInv
  <2>3. QED
    BY <2>1, <2>2
<1>8. CASE UNCHANGED vars
  <2>1. Ordered' /\ ListIsQueue'
    BY <1>8, ListUntouched DEF vars, listVars, history
  <2>2. TypeOK' /\ Holders'
    BY <1>8 DEF vars, listVars, history, IInv, TypeOK, Holders
  <2>3. QED
    BY <2>1, <2>2 DEF IInv
<1>9. QED
  BY <1>1, <1>2, <1>3, <1>4, <1>5, <1>6, <1>7, <1>8 DEF Next, TaskThread, Stopping

LEMMA AlwaysIInv == Spec => []IInv
  BY InitIInv, NextIInv, PTL DEF Spec

-----------------------------------------------------------------------------
(* The theorems.                                                           *)

\* Every variable keeps its type, for any number of messages: in particular
\* proc() is only ever called on a message that msg_q_rcv delivered.
THEOREM TypeCorrect == Spec => []TypeOK
<1>1. IInv => TypeOK
  BY DEF IInv
<1>2. QED
  BY <1>1, AlwaysIInv, PTL

\* The linked list is the queue of the accepted messages, for any number of
\* them, whatever the senders and the thread do.
THEOREM ListCorrect == Spec => []ListIsQueue
<1>1. IInv => ListIsQueue
  BY DEF IInv
<1>2. QED
  BY <1>1, AlwaysIInv, PTL

\* Nobody holds the runnable when its queue is destroyed, so no thread is still
\* inside a call of the queue then: the owner, who wakes the thread from inside
\* msg_q_unblock, holds a reference of its own.
THEOREM QueueOutlivesItsUsers == Spec => []NoUseOfDestroyedQueue
<1>1. IInv => NoUseOfDestroyedQueue
  BY DEF IInv, Holders, NoUseOfDestroyedQueue
<1>2. QED
  BY <1>1, AlwaysIInv, PTL

-----------------------------------------------------------------------------
(* The refinement.                                                         *)

LEMMA TakeImplements ==
  ASSUME IInv, thread \in {"run", "woken"}, Take,
         UNCHANGED <<unblocked, handled, flushed>>
  PROVE  [Channel!Next]_Channel!vars
<1>1. CASE p_tail = NULL
  BY <1>1 DEF Take, Channel!vars
<1>2. CASE p_tail # NULL
  <2>1. queue # <<>> /\ msg = 0
    BY <1>2 DEF IInv, TypeOK, ListIsQueue, NULL
  <2>2. p_tail = Head(queue)
    BY <1>2, <2>1 DEF IInv, ListIsQueue, TypeOK
  <2>3. Channel!Handle
    BY <1>2, <2>1, <2>2 DEF Take, linked_list_remove, Channel!Handle
  <2>4. QED
    BY <2>3 DEF Channel!Next
<1>3. QED
  BY <1>1, <1>2

LEMMA DestroyImplements ==
  ASSUME IInv, DestroyQueue, unblocked, thread \in {"exit", "gone"},
         UNCHANGED <<unblocked, msg, handled>>
  PROVE  [Channel!Next]_Channel!vars
<1>1. msg = 0
  BY DEF IInv, TypeOK, NULL
<1>2. Channel!Discard
  BY <1>1 DEF DestroyQueue, linked_list_flush, Channel!Discard
<1>3. QED
  BY <1>2 DEF Channel!Next

LEMMA StepImplements == IInv /\ [Next]_vars => [Channel!Next]_Channel!vars
<1> SUFFICES ASSUME IInv, [Next]_vars PROVE [Channel!Next]_Channel!vars
  OBVIOUS
<1>1. CASE sendMsg
  <2>1. CASE unblocked
    BY <1>1, <2>1 DEF sendMsg, Channel!vars
  <2>2. CASE ~unblocked
    <3>1. sent + 1 \in Channel!Msgs
      BY <1>1, MaxMsgsAssumption DEF sendMsg, IInv, TypeOK, Channel!Msgs
    <3>2. Channel!Accept(sent + 1)
      BY <1>1, <2>2 DEF sendMsg, linked_list_add, Channel!Accept
    <3>3. QED
      BY <3>1, <3>2 DEF Channel!Next
  <2>3. QED
    BY <2>1, <2>2
<1>2. CASE msg_q_rcv
  <2>1. CASE unblocked \/ p_head = NULL
    BY <1>2, <2>1 DEF msg_q_rcv, Channel!vars
  <2>2. CASE ~(unblocked \/ p_head = NULL)
    BY <1>2, <2>2, TakeImplements DEF msg_q_rcv
  <2>3. QED
    BY <2>1, <2>2
<1>3. CASE Woken
  <2>1. CASE p_head = NULL /\ ~unblocked
    BY <1>3, <2>1 DEF Woken, Channel!vars
  <2>2. CASE ~(p_head = NULL /\ ~unblocked)
    BY <1>3, <2>2, TakeImplements DEF Woken
  <2>3. QED
    BY <2>1, <2>2
<1>4. CASE proc
  <2>1. msg # 0
    BY <1>4 DEF proc, IInv, TypeOK, Msgs
  <2>2. Channel!Done
    BY <1>4, <2>1 DEF proc, Channel!Done, NULL
  <2>3. QED
    BY <2>2 DEF Channel!Next
<1>5. CASE ThreadEnds
  <2>1. CASE ownerRef
    BY <1>5, <2>1 DEF ThreadEnds, Channel!vars
  <2>2. CASE ~ownerRef
    BY <1>5, <2>2, DestroyImplements DEF ThreadEnds, IInv, Holders
  <2>3. QED
    BY <2>1, <2>2
<1>6. CASE SpuriousWakeup \/ StopLocks
  BY <1>6 DEF SpuriousWakeup, StopLocks, history, Channel!vars
<1>7. CASE interrupt
  <2>1. ~unblocked
    BY <1>7 DEF interrupt, IInv, Holders
  <2>2. Channel!Close
    BY <1>7, <2>1 DEF interrupt, history, Channel!Close
  <2>3. QED
    BY <2>2 DEF Channel!Next
<1>8. CASE StopReleases
  <2>1. CASE thread = "gone"
    BY <1>8, <2>1, DestroyImplements DEF StopReleases, IInv, Holders
  <2>2. CASE thread # "gone"
    BY <1>8, <2>2 DEF StopReleases, Channel!vars
  <2>3. QED
    BY <2>1, <2>2
<1>9. CASE UNCHANGED vars
  BY <1>9 DEF vars, history, Channel!vars
<1>10. QED
  BY <1>1, <1>2, <1>3, <1>4, <1>5, <1>6, <1>7, <1>8, <1>9 DEF Next, TaskThread, Stopping

\* The message task implements the abstract channel: every initial state maps to
\* an initial state, and every step of a sender, of the thread or of the owner
\* to a step of the channel or to none.
THEOREM Refinement == Spec => ImplementsChannel
<1>1. Init => Channel!Init
  BY DEF Init, Channel!Init, NULL
<1>2. QED
  BY <1>1, AlwaysIInv, StepImplements, PTL DEF Spec, ImplementsChannel, Channel!Spec
=============================================================================
