--------------------------- MODULE GeofenceProofs ---------------------------
(***************************************************************************)
(* For any number of clients, fences, numbers of the modem and calls: the  *)
(* types of Geofence are kept, a LocationAPI object is deleted when no     *)
(* adapter has its client any more, and then at last, and when nothing is  *)
(* on its way the adapter has the fences of the modem.                     *)
(***************************************************************************)
EXTENDS Geofence, SequenceTheorems, FiniteSetTheorems, WellFoundedInduction, TLAPS

-----------------------------------------------------------------------------
(* What the queues hold, in terms of the sets of their elements.           *)

Has(q, W)        == \E i \in DOMAIN q : q[i] \in W
HasThen(q, V, W) == \E i, j \in DOMAIN q : i < j /\ q[i] \in V /\ q[j] \in W
EndsIn(q, V, W)  == \E i \in DOMAIN q : q[i] \in V /\ \A j \in DOMAIN q : i < j => q[j] \notin W
Number(q, W)     == Cardinality({i \in DOMAIN q : q[i] \in W})

\* Commands have options for their fences; a turn and a request are for one of
\* the fences of a command, which is IdOf.
Cmds     == {m \in Commands : m.op \in {"add", "modify"} => Len(m.ids) <= Len(m.options)}
IdOf(r)  == r.command.ids[r.i]
Turnings == {r \in Turns : r.command \in Cmds /\ r.i \in DOMAIN r.command.ids}
Asks     == {r \in Requests :
               /\ r.then = "done" /\ r.command \in Cmds /\ r.i \in DOMAIN r.command.ids
               /\ r.call = r.command.op
               /\ r.call # "add" => r.hwId \in HwIds
               /\ r.call \in {"add", "modify"} => r.fence \in Fences /\ r.fence.id = IdOf(r)}

\* The other requests that are made.
Restores == {r \in Requests : r.call = "add" /\ r.then = "restored" /\ r.fence \in Fences}
Stops    == {r \in Requests : r.call = "remove" /\ r.then = "stopped" /\ r.hwId \in HwIds}
Pauses   == {r \in Requests : /\ r.call \in {"pause", "resume"} /\ r.then \in {"paused", "nothing"}
                              /\ r.hwId \in HwIds}
Opens    == {r \in Requests : r.call = "open" /\ r.then = "nothing"}
Made     == Asks \cup Restores \cup Stops \cup Pauses \cup Opens

\* What can be in the thread's list.
Replies  == {a \in [kind : {"done", "restored", "paused", "stopped"}, req : Made, ok : BOOLEAN,
                    hwId : HwIds \cup {NoHwId}] :
               a.kind = a.req.then /\ (a.ok /\ a.req.call = "add" => a.hwId \in HwIds)}
Turned   == [kind : {"turn"}, req : Turnings]
Msgs     == ClientMsgs \cup {EngineUp} \cup Turned \cup Replies

-----------------------------------------------------------------------------
(* The inductive invariant.                                                *)

\* The types, as narrow as the code makes them.
Typed ==
  /\ LocationApiTypeOK /\ ClientBaseTypeOK
  /\ \A c \in Clients : mLocationAPI[c] = "made" <=> c \in DOMAIN clientData
  /\ mGeofences \in [HwIds -> Fences \cup {NoFence}]
  /\ mGeofenceIds \in [Ids -> HwIds \cup {NoHwId}]
  /\ mSystemPowerState \in {"unknown", "suspend", "resume"}
  /\ msgs \in Seq(Msgs) /\ reqs \in Seq(Turnings \cup Made)
  /\ down \in BOOLEAN
  /\ modem \in [HwIds -> Fences \cup {NoFence}]
  /\ askedPaused \subseteq Ids

\* The messages that add a client to an adapter, and that remove it at last.
AddOf(i, c) == {m \in ClientMsgs : m.kind = "addClient" /\ m.interface = i /\ m.client = c}
CbOf(i, c)  == {m \in ClientMsgs :
                  m.kind = "removeClient" /\ m.interface = i /\ m.client = c /\ m.cb}

Awaited(i, c) == c \in DOMAIN destroyClientData /\ i \in destroyClientData[c]

\* A destroyed object waits for the adapters that have its last message to come,
\* which nothing can follow that adds its client again; the others do not have its
\* client and will not.
LetGo(c) ==
  /\ mLocationAPI[c] = "gone" <=> c \in deleted \cup DOMAIN destroyClientData
  /\ c \in deleted => c \notin DOMAIN destroyClientData
  /\ \A i \in Interfaces :
       /\ mLocationAPI[c] # "gone" => ~Has(msgs, CbOf(i, c))
       /\ ~HasThen(msgs, CbOf(i, c), AddOf(i, c))
       /\ Awaited(i, c) => Has(msgs, CbOf(i, c))
       /\ mLocationAPI[c] = "gone" /\ ~Awaited(i, c) =>
            c \notin mClientData[i] /\ ~Has(msgs, AddOf(i, c))
       /\ c \in mClientData[i] \/ Has(msgs, AddOf(i, c)) => i \in loaded

Inv == Typed /\ \A c \in Clients : LetGo(c)

-----------------------------------------------------------------------------
(* The queues.                                                             *)

\* Where the elements of a concatenation come from.
LEMMA ConcatPlaces ==
  ASSUME NEW S, NEW q \in Seq(S), NEW p \in Seq(S)
  PROVE  /\ Len(q) \in Nat /\ Len(p) \in Nat
         /\ DOMAIN q = 1..Len(q) /\ DOMAIN p = 1..Len(p)
         /\ DOMAIN (q \o p) = 1..Len(q) + Len(p)
         /\ \A i \in DOMAIN q : i \in DOMAIN (q \o p) /\ i <= Len(q) /\ (q \o p)[i] = q[i]
         /\ \A k \in DOMAIN p : Len(q) + k \in DOMAIN (q \o p) /\ Len(q) < Len(q) + k
                                /\ (q \o p)[Len(q) + k] = p[k]
         /\ \A i \in DOMAIN (q \o p) :
              \/ i \in DOMAIN q
              \/ Len(q) < i /\ \E k \in DOMAIN p : i = Len(q) + k
<1>1. /\ q \o p \in Seq(S) /\ Len(q \o p) = Len(q) + Len(p)
      /\ \A i \in 1..Len(q) + Len(p) :
           (q \o p)[i] = IF i <= Len(q) THEN q[i] ELSE p[i - Len(q)]
  BY ConcatProperties
<1>2. /\ Len(q) \in Nat /\ Len(p) \in Nat
      /\ DOMAIN q = 1..Len(q) /\ DOMAIN p = 1..Len(p)
      /\ DOMAIN (q \o p) = 1..Len(q) + Len(p)
  BY <1>1, LenProperties
<1>3. \A i \in DOMAIN q : i \in DOMAIN (q \o p) /\ i <= Len(q) /\ (q \o p)[i] = q[i]
  BY <1>1, <1>2
<1>4. ASSUME NEW k \in DOMAIN p
      PROVE  Len(q) + k \in DOMAIN (q \o p) /\ Len(q) < Len(q) + k /\ (q \o p)[Len(q) + k] = p[k]
  <2>1. k \in 1..Len(p) /\ Len(q) + k \in 1..Len(q) + Len(p) /\ Len(q) < Len(q) + k
        /\ ~(Len(q) + k <= Len(q)) /\ Len(q) + k - Len(q) = k
    BY <1>2
  <2>2. QED
    BY <1>1, <1>2, <2>1
<1>5. ASSUME NEW i \in DOMAIN (q \o p), i \notin DOMAIN q
      PROVE  Len(q) < i /\ \E k \in DOMAIN p : i = Len(q) + k
  <2>1. Len(q) < i /\ i - Len(q) \in DOMAIN p /\ i = Len(q) + (i - Len(q))
    BY <1>2, <1>5
  <2>2. QED
    BY <2>1
<1>6. QED
  BY <1>2, <1>3, <1>4, <1>5

\* What is in a concatenation.
LEMMA ConcatHas ==
  ASSUME NEW S, NEW q \in Seq(S), NEW p \in Seq(S), NEW V, NEW W
  PROVE  /\ Has(q \o p, V) <=> Has(q, V) \/ Has(p, V)
         /\ HasThen(q \o p, V, W) <=>
              HasThen(q, V, W) \/ HasThen(p, V, W) \/ (Has(q, V) /\ Has(p, W))
         /\ EndsIn(q \o p, V, W) <=> EndsIn(p, V, W) \/ (EndsIn(q, V, W) /\ ~Has(p, W))
<1> DEFINE t == q \o p
           n == Len(q)
<1>1. /\ n \in Nat /\ DOMAIN q \subseteq Nat /\ DOMAIN p \subseteq Nat /\ DOMAIN t \subseteq Nat
      /\ \A i \in DOMAIN q : i \in DOMAIN t /\ i <= n /\ t[i] = q[i]
      /\ \A k \in DOMAIN p : n + k \in DOMAIN t /\ n < n + k /\ t[n + k] = p[k]
      /\ \A i \in DOMAIN t : i \in DOMAIN q \/ (n < i /\ \E k \in DOMAIN p : i = n + k)
  BY ConcatPlaces
<1> HIDE DEF t, n
<1>2. Has(t, V) <=> Has(q, V) \/ Has(p, V)
  BY <1>1 DEF Has
<1>3. HasThen(t, V, W) <=> HasThen(q, V, W) \/ HasThen(p, V, W) \/ (Has(q, V) /\ Has(p, W))
  <2>1. ASSUME HasThen(t, V, W)
        PROVE  HasThen(q, V, W) \/ HasThen(p, V, W) \/ (Has(q, V) /\ Has(p, W))
    <3>1. PICK i \in DOMAIN t, j \in DOMAIN t : i < j /\ t[i] \in V /\ t[j] \in W
      BY <2>1 DEF HasThen
    <3>2. CASE j \in DOMAIN q
      <4>1. i \in DOMAIN q
        BY <1>1, <3>1, <3>2
      <4>2. QED
        BY <1>1, <3>1, <3>2, <4>1 DEF HasThen
    <3>3. CASE j \notin DOMAIN q
      <4>1. PICK l \in DOMAIN p : j = n + l
        BY <1>1, <3>3
      <4>2. CASE i \in DOMAIN q
        BY <1>1, <3>1, <4>1, <4>2 DEF Has
      <4>3. CASE i \notin DOMAIN q
        <5>1. PICK k \in DOMAIN p : i = n + k
          BY <1>1, <4>3
        <5>2. k < l
          BY <1>1, <3>1, <4>1, <5>1
        <5>3. QED
          BY <1>1, <3>1, <4>1, <5>1, <5>2 DEF HasThen
      <4>4. QED
        BY <4>2, <4>3
    <3>4. QED
      BY <3>2, <3>3
  <2>2. ASSUME HasThen(q, V, W) PROVE HasThen(t, V, W)
    BY <1>1, <2>2 DEF HasThen
  <2>3. ASSUME HasThen(p, V, W) PROVE HasThen(t, V, W)
    <3>1. PICK k \in DOMAIN p, l \in DOMAIN p : k < l /\ p[k] \in V /\ p[l] \in W
      BY <2>3 DEF HasThen
    <3>2. n + k < n + l /\ t[n + k] \in V /\ t[n + l] \in W
      BY <1>1, <3>1
    <3>3. QED
      BY <1>1, <3>2 DEF HasThen
  <2>4. ASSUME Has(q, V), Has(p, W) PROVE HasThen(t, V, W)
    <3>1. PICK i \in DOMAIN q : q[i] \in V
      BY <2>4 DEF Has
    <3>2. PICK k \in DOMAIN p : p[k] \in W
      BY <2>4 DEF Has
    <3>3. i < n + k /\ t[i] \in V /\ t[n + k] \in W
      BY <1>1, <3>1, <3>2
    <3>4. QED
      BY <1>1, <3>3 DEF HasThen
  <2>5. QED
    BY <2>1, <2>2, <2>3, <2>4
<1>4. EndsIn(t, V, W) <=> EndsIn(p, V, W) \/ (EndsIn(q, V, W) /\ ~Has(p, W))
  <2>1. ASSUME EndsIn(t, V, W)
        PROVE  EndsIn(p, V, W) \/ (EndsIn(q, V, W) /\ ~Has(p, W))
    <3>1. PICK i \in DOMAIN t : t[i] \in V /\ \A j \in DOMAIN t : i < j => t[j] \notin W
      BY <2>1 DEF EndsIn
    <3>2. CASE i \in DOMAIN q
      <4>1. EndsIn(q, V, W)
        BY <1>1, <3>1, <3>2 DEF EndsIn
      <4>2. ASSUME NEW k \in DOMAIN p PROVE p[k] \notin W
        <5>1. i < n + k
          BY <1>1, <3>2
        <5>2. QED
          BY <1>1, <3>1, <5>1
      <4>3. QED
        BY <4>1, <4>2 DEF Has
    <3>3. CASE i \notin DOMAIN q
      <4>1. PICK k \in DOMAIN p : i = n + k
        BY <1>1, <3>3
      <4>2. ASSUME NEW l \in DOMAIN p, k < l PROVE p[l] \notin W
        <5>1. i < n + l
          BY <1>1, <4>1, <4>2
        <5>2. QED
          BY <1>1, <3>1, <5>1
      <4>3. QED
        BY <1>1, <3>1, <4>1, <4>2 DEF EndsIn
    <3>4. QED
      BY <3>2, <3>3
  <2>2. ASSUME EndsIn(p, V, W) PROVE EndsIn(t, V, W)
    <3>1. PICK k \in DOMAIN p : p[k] \in V /\ \A l \in DOMAIN p : k < l => p[l] \notin W
      BY <2>2 DEF EndsIn
    <3>2. ASSUME NEW j \in DOMAIN t, n + k < j PROVE t[j] \notin W
      <4>1. j \notin DOMAIN q
        BY <1>1, <3>2
      <4>2. PICK l \in DOMAIN p : j = n + l
        BY <1>1, <4>1
      <4>3. k < l
        BY <1>1, <3>2, <4>2
      <4>4. QED
        BY <1>1, <3>1, <4>2, <4>3
    <3>3. QED
      BY <1>1, <3>1, <3>2 DEF EndsIn
  <2>3. ASSUME EndsIn(q, V, W), ~Has(p, W) PROVE EndsIn(t, V, W)
    <3>1. PICK i \in DOMAIN q : q[i] \in V /\ \A j \in DOMAIN q : i < j => q[j] \notin W
      BY <2>3 DEF EndsIn
    <3>2. ASSUME NEW j \in DOMAIN t, i < j PROVE t[j] \notin W
      BY <1>1, <2>3, <3>1, <3>2 DEF Has
    <3>3. QED
      BY <1>1, <3>1, <3>2 DEF EndsIn
  <2>4. QED
    BY <2>1, <2>2, <2>3
<1>5. QED
  BY <1>2, <1>3, <1>4 DEF t

\* What is in a sequence of one element, and in none.
LEMMA ShortHas ==
  ASSUME NEW x, NEW V, NEW W
  PROVE  /\ Has(<<x>>, V) <=> x \in V
         /\ ~HasThen(<<x>>, V, W)
         /\ EndsIn(<<x>>, V, W) <=> x \in V
         /\ ~Has(<<>>, V) /\ ~HasThen(<<>>, V, W) /\ ~EndsIn(<<>>, V, W)
<1>1. DOMAIN <<x>> = {1} /\ <<x>>[1] = x
  OBVIOUS
<1>2. DOMAIN <<>> = {}
  OBVIOUS
<1>3. QED
  BY <1>1, <1>2 DEF Has, HasThen, EndsIn

\* How many elements of a set a sequence has.
LEMMA NumberFacts ==
  ASSUME NEW S, NEW q \in Seq(S), NEW W
  PROVE  /\ Number(q, W) \in Nat
         /\ IsFiniteSet({i \in DOMAIN q : q[i] \in W})
         /\ Number(q, W) = 0 <=> ~Has(q, W)
<1>1. DOMAIN q = 1..Len(q) /\ Len(q) \in Nat
  BY LenProperties
<1>2. IsFiniteSet(DOMAIN q)
  BY <1>1, FS_Interval
<1>3. IsFiniteSet({i \in DOMAIN q : q[i] \in W})
  BY <1>2, FS_Subset
<1>4. QED
  BY <1>3, FS_CardinalityType, FS_EmptySet DEF Number, Has

\* What is counted in a concatenation.
LEMMA ConcatNumber ==
  ASSUME NEW S, NEW q \in Seq(S), NEW p \in Seq(S), NEW W
  PROVE  Number(q \o p, W) = Number(q, W) + Number(p, W)
<1> DEFINE t == q \o p
           n == Len(q)
           A == {i \in DOMAIN q : q[i] \in W}
           B == {k \in DOMAIN p : p[k] \in W}
           T == {i \in DOMAIN t : t[i] \in W}
           f == [k \in B |-> n + k]
<1>1. /\ n \in Nat /\ DOMAIN q \subseteq Nat /\ DOMAIN p \subseteq Nat /\ DOMAIN t \subseteq Nat
      /\ \A i \in DOMAIN q : i \in DOMAIN t /\ i <= n /\ t[i] = q[i]
      /\ \A k \in DOMAIN p : n + k \in DOMAIN t /\ n < n + k /\ t[n + k] = p[k]
      /\ \A i \in DOMAIN t : i \in DOMAIN q \/ (n < i /\ \E k \in DOMAIN p : i = n + k)
  BY ConcatPlaces
<1>2. IsFiniteSet(A) /\ IsFiniteSet(B)
  BY NumberFacts
<1> HIDE DEF t, n
<1>3. A \subseteq T /\ \A i \in T \ A : \E k \in B : i = n + k
  BY <1>1
<1>4. \A k \in B : n + k \in T \ A
  <2> SUFFICES ASSUME NEW k \in B PROVE n + k \in T /\ n + k \notin A
    OBVIOUS
  <2>1. n + k \in DOMAIN t /\ n < n + k /\ t[n + k] = p[k]
    BY <1>1
  <2>2. n + k \notin DOMAIN q
    BY <1>1, <2>1
  <2>3. QED
    BY <2>1, <2>2
<1>5. f \in Bijection(B, T \ A)
  <2>1. f \in [B -> T \ A]
    BY <1>4
  <2>2. \A k, l \in B : f[k] = f[l] => k = l
    BY <1>1
  <2>3. \A i \in T \ A : \E k \in B : f[k] = i
    BY <1>3
  <2>4. QED
    BY <2>1, <2>2, <2>3 DEF Bijection, Injection, Surjection, IsInjective
<1>6. IsFiniteSet(T \ A) /\ Cardinality(T \ A) = Cardinality(B)
  BY <1>2, <1>5, FS_Bijection DEF ExistsBijection
<1>7. T = A \cup (T \ A) /\ A \cap (T \ A) = {}
  BY <1>3
<1>8. Cardinality(T) = Cardinality(A) + Cardinality(T \ A) - Cardinality(A \cap (T \ A))
  BY <1>2, <1>6, <1>7, FS_Union
<1>9. Cardinality(A) \in Nat /\ Cardinality(B) \in Nat /\ Cardinality(A \cap (T \ A)) = 0
  BY <1>2, <1>7, FS_CardinalityType, FS_EmptySet
<1>10. Cardinality(T) = Cardinality(A) + Cardinality(B)
  BY <1>6, <1>8, <1>9
<1>11. QED
  BY <1>10 DEF Number, t

\* A sequence of one element, and none.
LEMMA ShortNumber ==
  ASSUME NEW x, NEW W
  PROVE  Number(<<x>>, W) = (IF x \in W THEN 1 ELSE 0) /\ Number(<<>>, W) = 0
<1>1. DOMAIN <<x>> = {1} /\ <<x>>[1] = x /\ DOMAIN <<>> = {}
  OBVIOUS
<1>2. {i \in DOMAIN <<x>> : <<x>>[i] \in W} = IF x \in W THEN {1} ELSE {}
  BY <1>1
<1>3. {i \in DOMAIN <<>> : <<>>[i] \in W} = {}
  BY <1>1
<1>4. QED
  BY <1>2, <1>3, FS_Singleton, FS_EmptySet DEF Number

\* A sequence begins with its head, and the rest of it follows.
LEMMA HeadFirst ==
  ASSUME NEW S, NEW q \in Seq(S), q # <<>>
  PROVE  /\ Head(q) \in S /\ Tail(q) \in Seq(S) /\ <<Head(q)>> \in Seq(S)
         /\ q = <<Head(q)>> \o Tail(q)
<1>1. Head(q) \in S /\ Tail(q) \in Seq(S) /\ Len(Tail(q)) = Len(q) - 1
      /\ \A i \in 1..Len(Tail(q)) : Tail(q)[i] = q[i + 1]
  BY HeadTailProperties
<1>2. Len(q) \in Nat \ {0} /\ Head(q) = q[1]
  BY EmptySeq
<1>3. <<Head(q)>> \in Seq(S) /\ Len(<<Head(q)>>) = 1 /\ <<Head(q)>>[1] = Head(q)
  BY <1>1
<1> DEFINE t == <<Head(q)>> \o Tail(q)
<1>4. /\ t \in Seq(S) /\ Len(t) = Len(q)
      /\ \A i \in 1..Len(q) : t[i] = IF i <= 1 THEN Head(q) ELSE Tail(q)[i - 1]
  BY <1>1, <1>2, <1>3, ConcatProperties
<1>5. \A i \in 1..Len(q) : t[i] = q[i]
  <2> HIDE DEF t
  <2> TAKE i \in 1..Len(q)
  <2>1. CASE i = 1
    BY <1>2, <1>4, <2>1
  <2>2. CASE i # 1
    <3>1. i - 1 \in 1..Len(Tail(q)) /\ (i - 1) + 1 = i /\ ~(i <= 1)
      BY <1>1, <1>2, <2>2
    <3>2. QED
      BY <1>1, <1>4, <3>1
  <2>3. QED
    BY <2>1, <2>2
<1>6. t = q
  BY <1>4, <1>5, SeqEqual
<1>7. QED
  BY <1>1, <1>3, <1>6

\* What is in a sequence and in the rest of it.
LEMMA TailHas ==
  ASSUME NEW S, NEW q \in Seq(S), q # <<>>
  PROVE  /\ Tail(q) \in Seq(S)
         /\ \A V : Has(q, V) <=> Head(q) \in V \/ Has(Tail(q), V)
         /\ \A V, W : HasThen(q, V, W) <=> HasThen(Tail(q), V, W) \/ (Head(q) \in V /\ Has(Tail(q), W))
         /\ \A V, W : EndsIn(q, V, W) <=> EndsIn(Tail(q), V, W) \/ (Head(q) \in V /\ ~Has(Tail(q), W))
         /\ \A W : Number(q, W) = (IF Head(q) \in W THEN 1 ELSE 0) + Number(Tail(q), W)
<1> SUFFICES ASSUME NEW V, NEW W
             PROVE  /\ Tail(q) \in Seq(S)
                    /\ Has(q, V) <=> Head(q) \in V \/ Has(Tail(q), V)
                    /\ HasThen(q, V, W) <=> HasThen(Tail(q), V, W) \/ (Head(q) \in V /\ Has(Tail(q), W))
                    /\ EndsIn(q, V, W) <=> EndsIn(Tail(q), V, W) \/ (Head(q) \in V /\ ~Has(Tail(q), W))
                    /\ Number(q, W) = (IF Head(q) \in W THEN 1 ELSE 0) + Number(Tail(q), W)
  BY Zenon
<1> DEFINE h == <<Head(q)>>
           r == Tail(q)
           t == h \o r
<1>1. r \in Seq(S) /\ h \in Seq(S) /\ q = t
  BY HeadFirst
<1>2. /\ Has(t, V) <=> Has(h, V) \/ Has(r, V)
      /\ HasThen(t, V, W) <=> HasThen(h, V, W) \/ HasThen(r, V, W) \/ (Has(h, V) /\ Has(r, W))
      /\ EndsIn(t, V, W) <=> EndsIn(r, V, W) \/ (EndsIn(h, V, W) /\ ~Has(r, W))
  <2> HIDE DEF h, r
  <2>1. QED
    BY <1>1, ConcatHas
<1>3. Number(t, W) = Number(h, W) + Number(r, W)
  <2> HIDE DEF h, r
  <2>1. QED
    BY <1>1, ConcatNumber
<1>4. Has(h, V) <=> Head(q) \in V
  BY ShortHas
<1>5. ~HasThen(h, V, W) /\ (EndsIn(h, V, W) <=> Head(q) \in V)
  BY ShortHas
<1>6. Number(h, W) = IF Head(q) \in W THEN 1 ELSE 0
  BY ShortNumber
<1> HIDE DEF t, h
<1>7. QED
  BY <1>1, <1>2, <1>3, <1>4, <1>5, <1>6

\* t is q with x at its end; t is q followed by p.
Extended(t, q, x) == t = Append(q, x)
Joined(t, q, p)   == t = q \o p

\* What an element at the end adds.
LEMMA AppendHas ==
  ASSUME NEW S, NEW q \in Seq(S), NEW x \in S, NEW t, Extended(t, q, x)
  PROVE  /\ t \in Seq(S)
         /\ \A V : Has(t, V) <=> Has(q, V) \/ x \in V
         /\ \A V, W : HasThen(t, V, W) <=> HasThen(q, V, W) \/ (Has(q, V) /\ x \in W)
         /\ \A V, W : EndsIn(t, V, W) <=> x \in V \/ (EndsIn(q, V, W) /\ x \notin W)
         /\ \A W : Number(t, W) = Number(q, W) + (IF x \in W THEN 1 ELSE 0)
<1> SUFFICES ASSUME NEW V, NEW W
             PROVE  /\ t \in Seq(S)
                    /\ Has(t, V) <=> Has(q, V) \/ x \in V
                    /\ HasThen(t, V, W) <=> HasThen(q, V, W) \/ (Has(q, V) /\ x \in W)
                    /\ EndsIn(t, V, W) <=> x \in V \/ (EndsIn(q, V, W) /\ x \notin W)
                    /\ Number(t, W) = Number(q, W) + (IF x \in W THEN 1 ELSE 0)
  BY Zenon
<1> DEFINE h == <<x>>
<1>1. h \in Seq(S) /\ t = q \o h /\ t \in Seq(S)
  BY AppendIsConcat DEF Extended
<1>2. /\ Has(q \o h, V) <=> Has(q, V) \/ Has(h, V)
      /\ HasThen(q \o h, V, W) <=> HasThen(q, V, W) \/ HasThen(h, V, W) \/ (Has(q, V) /\ Has(h, W))
      /\ EndsIn(q \o h, V, W) <=> EndsIn(h, V, W) \/ (EndsIn(q, V, W) /\ ~Has(h, W))
  <2> HIDE DEF h
  <2>1. QED
    BY <1>1, ConcatHas
<1>3. Number(q \o h, W) = Number(q, W) + Number(h, W)
  <2> HIDE DEF h
  <2>1. QED
    BY <1>1, ConcatNumber
<1>4. Has(h, V) <=> x \in V
  BY ShortHas
<1>5. ~HasThen(h, V, W) /\ (EndsIn(h, V, W) <=> x \in V) /\ (Has(h, W) <=> x \in W)
  BY ShortHas
<1>6. Number(h, W) = IF x \in W THEN 1 ELSE 0
  BY ShortNumber
<1> HIDE DEF h
<1>7. QED
  BY <1>1, <1>2, <1>3, <1>4, <1>5, <1>6

\* What two sequences have together.
LEMMA JoinHas ==
  ASSUME NEW S, NEW q \in Seq(S), NEW p \in Seq(S), NEW t, Joined(t, q, p)
  PROVE  /\ t \in Seq(S)
         /\ \A V : Has(t, V) <=> Has(q, V) \/ Has(p, V)
         /\ \A V, W : HasThen(t, V, W) <=>
                       HasThen(q, V, W) \/ HasThen(p, V, W) \/ (Has(q, V) /\ Has(p, W))
         /\ \A V, W : EndsIn(t, V, W) <=> EndsIn(p, V, W) \/ (EndsIn(q, V, W) /\ ~Has(p, W))
         /\ \A W : Number(t, W) = Number(q, W) + Number(p, W)
<1> SUFFICES ASSUME NEW V, NEW W
             PROVE  /\ t \in Seq(S)
                    /\ Has(t, V) <=> Has(q, V) \/ Has(p, V)
                    /\ HasThen(t, V, W) <=>
                         HasThen(q, V, W) \/ HasThen(p, V, W) \/ (Has(q, V) /\ Has(p, W))
                    /\ EndsIn(t, V, W) <=> EndsIn(p, V, W) \/ (EndsIn(q, V, W) /\ ~Has(p, W))
                    /\ Number(t, W) = Number(q, W) + Number(p, W)
  BY Zenon
<1>1. t \in Seq(S)
  BY ConcatProperties DEF Joined
<1>2. Number(q \o p, W) = Number(q, W) + Number(p, W)
  BY ConcatNumber
<1>3. /\ Has(q \o p, V) <=> Has(q, V) \/ Has(p, V)
      /\ HasThen(q \o p, V, W) <=> HasThen(q, V, W) \/ HasThen(p, V, W) \/ (Has(q, V) /\ Has(p, W))
      /\ EndsIn(q \o p, V, W) <=> EndsIn(p, V, W) \/ (EndsIn(q, V, W) /\ ~Has(p, W))
  BY ConcatHas
<1>4. QED
  BY <1>1, <1>2, <1>3, Zenon DEF Joined

-----------------------------------------------------------------------------
(* Order.                                                                  *)

\* Every set of numbers that is not empty has a least one.
LEMMA Least == ASSUME NEW T \in SUBSET Nat, T # {} PROVE \E x \in T : \A y \in T : x <= y
<1>1. PICK x \in T : \A y \in T : ~(<<y, x>> \in OpToRel(<, Nat))
  BY NatLessThanWellFounded, WFMin, Zenon
<1>2. \A y \in T : y < x => <<y, x>> \in OpToRel(<, Nat)
  BY DEF OpToRel
<1>3. \A y \in T : ~(y < x)
  BY <1>1, <1>2, Zenon
<1>4. \A y \in T : x <= y
  <2> TAKE y \in T
  <2>1. ~(y < x) /\ x \in Nat /\ y \in Nat
    BY <1>3
  <2>2. QED
    BY <2>1
<1>5. QED
  BY <1>4
\* A function on 1..n is a sequence.
LEMMA FunctionIsSeq ==
  ASSUME NEW S, NEW n \in Nat, NEW f \in [1..n -> S]
  PROVE  f \in Seq(S) /\ Len(f) = n /\ DOMAIN f = 1..n
OBVIOUS

\* A set of positions can be counted through in their order.
LEMMA Ordered ==
  ASSUME NEW N \in Nat, NEW T \in SUBSET (1..N)
  PROVE  \E q \in [1..Cardinality(T) -> T] : \A i, j \in DOMAIN q : i < j => q[i] < q[j]
<1> DEFINE Ord(q, U) == /\ q \in [1..Cardinality(U) -> U]
                        /\ \A i, j \in DOMAIN q : i < j => q[i] < q[j]
           Bad == {n \in Nat : \E U \in SUBSET (1..n) : \A q : ~Ord(q, U)}
<1>1. ASSUME NEW n \in Nat, NEW U \in SUBSET (1..n)
      PROVE  IsFiniteSet(U) /\ Cardinality(U) \in Nat /\ U \subseteq Nat
  <2>1. IsFiniteSet(1..n)
    BY FS_Interval
  <2>2. IsFiniteSet(U)
    BY <2>1, FS_Subset
  <2>3. QED
    BY <2>2, FS_CardinalityType
<1>2. \E q : Ord(q, T)
  <2>1. SUFFICES ASSUME Bad # {} PROVE FALSE
    OBVIOUS
  <2>2. PICK n \in Bad : \A i \in Bad : n <= i
    <3>1. Bad \in SUBSET Nat
      OBVIOUS
    <3> HIDE DEF Bad
    <3>2. QED
      BY <2>1, <3>1, Least
  <2>3. PICK U \in SUBSET (1..n) : \A q : ~Ord(q, U)
    OBVIOUS
  <2>4. n \in Nat
    OBVIOUS
  <2>5. CASE U = {}
    <3>1. Cardinality(U) = 0
      BY <2>5, FS_EmptySet
    <3>2. [i \in 1..0 |-> 0] \in [1..0 -> U] /\ DOMAIN [i \in 1..0 |-> 0] = {}
      OBVIOUS
    <3>3. Ord([i \in 1..0 |-> 0], U)
      BY <3>1, <3>2
    <3>4. QED
      BY <2>3, <3>3
  <2>6. CASE U # {}
    <3>1. n - 1 \in Nat /\ n - 1 \notin Bad
      <4> HIDE DEF Bad
      <4>0. 1..0 = {}
        OBVIOUS
      <4>1. n # 0
        BY <2>6, <4>0
      <4>2. QED
        BY <2>2, <2>4, <4>1
    <3>2. CASE n \notin U
      <4>1. U \in SUBSET (1..n - 1)
        BY <2>4, <3>2
      <4>2. QED
        BY <2>3, <3>1, <4>1
    <3>3. CASE n \in U
      <4> DEFINE R == U \ {n}
                 c == Cardinality(R)
      <4>1. R \in SUBSET (1..n - 1)
        BY <2>4
      <4>2. PICK q : Ord(q, R)
        BY <3>1, <4>1
      <4>3. c \in Nat /\ Cardinality(U) = c + 1
        <5>1. IsFiniteSet(R) /\ c \in Nat /\ U = R \cup {n} /\ n \notin R
          BY <1>1, <3>1, <3>3, <4>1
        <5>2. QED
          BY <5>1, FS_AddElement
      <4> DEFINE p == [i \in 1..c + 1 |-> IF i = c + 1 THEN n ELSE q[i]]
      <4> HIDE DEF Bad
      <4>4. \A i \in 1..c : q[i] \in R /\ q[i] < n
        <5>1. \A r \in R : r < n
          BY <2>4, <4>1
        <5>2. \A i \in 1..c : q[i] \in R
          BY <4>2
        <5>3. QED
          BY <5>1, <5>2
      <4>5. p \in [1..c + 1 -> U]
        <5>1. \A i \in 1..c + 1 : i = c + 1 \/ i \in 1..c
          BY <4>3
        <5>2. QED
          BY <3>3, <4>4, <5>1
      <4>6. ASSUME NEW i \in 1..c + 1, NEW j \in 1..c + 1, i < j PROVE p[i] < p[j]
        <5>1. i \in 1..c /\ i # c + 1 /\ (j # c + 1 => j \in 1..c)
          BY <4>3, <4>6
        <5>2. p[i] = q[i] /\ p[j] = IF j = c + 1 THEN n ELSE q[j]
          BY <5>1
        <5>3. j \in 1..c => q[i] < q[j]
          BY <4>2, <4>6, <5>1
        <5>4. q[i] < n
          BY <4>4, <5>1
        <5> HIDE DEF p
        <5>5. QED
          BY <5>1, <5>2, <5>3, <5>4
      <4>7. Ord(p, U)
        BY <4>3, <4>5, <4>6
      <4>8. QED
        BY <2>3, <4>7
    <3>4. QED
      BY <3>2, <3>3
  <2>7. QED
    BY <2>5, <2>6
<1>3. QED
  BY <1>2

\* Selected gives distinct elements of the sequence, all in S, and no more of
\* them than there are.
LEMMA SelectedFacts ==
  ASSUME NEW s \in IdSeqs, NEW S
  PROVE  /\ Len(s) \in 1..MaxFences /\ DOMAIN s = 1..Len(s) /\ s \in Seq(Ids)
         /\ Selected(s, S) \in IdSeqs \/ Selected(s, S) = <<>>
         /\ Selected(s, S) \in Seq(Ids) /\ Len(Selected(s, S)) <= Len(s)
         /\ Range(Selected(s, S)) \subseteq Range(s) \cap S
         /\ IsInjective(Selected(s, S))
<1> DEFINE places == {i \in DOMAIN s : s[i] \in S}
           Ord(q) == \A i, j \in DOMAIN q : i < j => q[i] < q[j]
           order == CHOOSE q \in [1..Cardinality(places) -> places] : Ord(q)
           t == [k \in DOMAIN order |-> s[order[k]]]
<1>1. PICK n \in 1..MaxFences : s \in [1..n -> Ids] /\ IsInjective(s)
  BY DEF IdSeqs
<1>2. n \in Nat /\ MaxFences \in Nat /\ places \in SUBSET (1..n)
  BY <1>1, ClientBaseAssumption
<1>3. order \in [1..Cardinality(places) -> places] /\ Ord(order)
  <2> HIDE DEF places
  <2>1. \E q \in [1..Cardinality(places) -> places] : Ord(q)
    BY <1>2, Ordered
  <2>2. QED
    BY <2>1
<1>4. IsFiniteSet(places) /\ Cardinality(places) \in Nat /\ Cardinality(places) <= n
  <2>1. IsFiniteSet(1..n) /\ Cardinality(1..n) = n
    BY <1>2, FS_Interval
  <2> HIDE DEF places
  <2>2. QED
    BY <1>2, <2>1, FS_Subset, FS_CardinalityType
<1>5. Len(s) = n /\ DOMAIN s = 1..n /\ s \in Seq(Ids)
  BY <1>1, <1>2
<1> DEFINE c == Cardinality(places)
<1>6. DOMAIN order = 1..c /\ \A k \in 1..c : order[k] \in places
  <2> HIDE DEF places, order
  <2>1. QED
    BY <1>3
<1>7. t \in [1..c -> Ids] /\ \A k \in 1..c : t[k] = s[order[k]]
  <2>1. \A k \in 1..c : s[order[k]] \in Ids
    BY <1>1, <1>5, <1>6
  <2> HIDE DEF places, order
  <2>2. QED
    BY <1>6, <2>1
<1>8. IsInjective(t)
  <2> SUFFICES ASSUME NEW a \in 1..c, NEW b \in 1..c, t[a] = t[b], a # b PROVE FALSE
    BY <1>7 DEF IsInjective
  <2>1. order[a] = order[b]
    <3>1. order[a] \in places /\ order[b] \in places /\ places \subseteq DOMAIN s
      BY <1>6
    <3> HIDE DEF order, places, t
    <3>2. s[order[a]] = s[order[b]]
      BY <1>7
    <3>3. QED
      BY <1>1, <3>1, <3>2 DEF IsInjective
  <2>2. a < b \/ b < a
    BY <1>4
  <2> HIDE DEF order, places, t
  <2>3. order[a] \in Nat /\ order[b] \in Nat
    <3>1. order[a] \in places /\ order[b] \in places
      BY <1>6
    <3>2. places \subseteq Nat
      BY <1>2
    <3>3. QED
      BY <3>1, <3>2
  <2>4. QED
    BY <1>3, <1>6, <2>1, <2>2, <2>3
<1>9. \A k \in 1..c : t[k] \in Range(s) \cap S
  <2>1. \A k \in 1..c : order[k] \in DOMAIN s /\ s[order[k]] \in S
    BY <1>6
  <2> HIDE DEF order, places, t
  <2>2. QED
    BY <1>7, <2>1 DEF Range
<1>10. Selected(s, S) = t
  BY DEF Selected
<1>11. Len(t) = c /\ t \in Seq(Ids)
  <2> HIDE DEF t, places
  <2>1. QED
    BY <1>4, <1>7, FunctionIsSeq
<1>12. t \in IdSeqs \/ t = <<>>
  <2> HIDE DEF t, places
  <2>1. CASE c = 0
    BY <1>11, <2>1, EmptySeq
  <2>2. CASE c # 0
    <3>1. c \in 1..MaxFences
      BY <1>2, <1>4, <2>2
    <3>2. QED
      BY <1>7, <1>8, <3>1 DEF IdSeqs
  <2>3. QED
    BY <2>1, <2>2
<1>13. Range(t) \subseteq Range(s) \cap S
  <2> HIDE DEF t, places
  <2>1. QED
    BY <1>7, <1>9 DEF Range
<1> HIDE DEF t, places
<1>14. QED
  BY <1>1, <1>4, <1>5, <1>8, <1>10, <1>11, <1>12, <1>13

-----------------------------------------------------------------------------
(* The values.                                                             *)

\* What is in one of the sequences is in the other part of a pair too.
LEMMA ThenHas ==
  ASSUME NEW q, NEW V, NEW W, HasThen(q, V, W)
  PROVE  Has(q, V) /\ Has(q, W)
BY DEF Has, HasThen

\* An entry is put into a map.
LEMMA WithFacts ==
  ASSUME NEW f, NEW c, NEW v
  PROVE  /\ DOMAIN With(f, c, v) = DOMAIN f \cup {c} /\ With(f, c, v)[c] = v
         /\ \A x \in DOMAIN f \ {c} : With(f, c, v)[x] = f[x]
BY DEF With

\* An entry is taken out of a map.
LEMMA WithoutFacts ==
  ASSUME NEW f, NEW c
  PROVE  /\ DOMAIN Without(f, c) = DOMAIN f \ {c}
         /\ \A x \in DOMAIN f \ {c} : Without(f, c)[x] = f[x]
BY DEF Without

\* The messages for some interfaces in the order of the code are those messages.
LEMMA InOrderHas ==
  ASSUME NEW S, NEW m, DOMAIN m \subseteq Interfaces, \A i \in DOMAIN m : m[i] \in S
  PROVE  /\ InOrder(m) \in Seq(S)
         /\ \A W : Has(InOrder(m), W) <=> \E i \in DOMAIN m : m[i] \in W
<1> DEFINE of(i) == IF i \in DOMAIN m THEN <<m[i]>> ELSE <<>>
<1>1. InOrder(m) = (of("gnss") \o of("batching")) \o of("geofence")
  BY DEF InOrder
<1>2. ASSUME NEW i PROVE of(i) \in Seq(S)
  OBVIOUS
<1>3. ASSUME NEW i, NEW W PROVE Has(of(i), W) <=> i \in DOMAIN m /\ m[i] \in W
  BY ShortHas
<1> DEFINE p == of("gnss") \o of("batching")
           t == p \o of("geofence")
<1> HIDE DEF of
<1>4. p \in Seq(S) /\ \A W : Has(p, W) <=> Has(of("gnss"), W) \/ Has(of("batching"), W)
  BY <1>2, ConcatProperties, ConcatHas
<1> HIDE DEF p
<1>5. t \in Seq(S) /\ \A W : Has(t, W) <=> Has(p, W) \/ Has(of("geofence"), W)
  BY <1>2, <1>4, ConcatProperties, ConcatHas
<1>6. InOrder(m) = t
  BY <1>1 DEF p
<1> HIDE DEF t
<1>7. ASSUME NEW W
      PROVE  Has(InOrder(m), W) <=> \E i \in DOMAIN m : m[i] \in W
  <2>1. Has(t, W) <=> Has(of("gnss"), W) \/ Has(of("batching"), W) \/ Has(of("geofence"), W)
    BY <1>4, <1>5
  <2>2. QED
    BY <1>3, <1>6, <2>1 DEF Interfaces
<1>8. QED
  BY <1>5, <1>6, <1>7

\* No id is the id of no fence, and no client is none.
LEMMA ConstantFacts ==
  /\ MaxFences \in Nat /\ MaxCalls \in Nat /\ Ids = 1..MaxFences /\ 0 \notin Ids
  /\ NoClient \notin Clients /\ NoHwId \notin HwIds /\ IsFiniteSet(HwIds)
  /\ NoFence \notin Fences /\ NoFence.id = 0 /\ \A f \in Fences : f.id \in Ids /\ f.id # 0
  /\ Installed \subseteq Interfaces /\ \A kinds \in Callbacks : kinds \subseteq Interfaces
BY ClientBaseAssumption, GeofenceAssumption, LocationApiAssumption DEF NoFence, Fences, Ids

\* A fence that is made.
LEMMA FenceFacts ==
  ASSUME NEW id \in Ids, NEW o \in Options, NEW p \in BOOLEAN
  PROVE  Fence(id, o, p) \in Fences /\ Fence(id, o, p).id = id /\ Fence(id, o, p).options = o
         /\ Fence(id, o, p).paused = p
BY DEF Fence, Fences

\* A fence that is changed.
LEMMA FenceUpdate ==
  ASSUME NEW f \in Fences, NEW p \in BOOLEAN, NEW o \in Options
  PROVE  /\ [f EXCEPT !.paused = p] \in Fences /\ [f EXCEPT !.options = o] \in Fences
         /\ [f EXCEPT !.paused = p].id = f.id /\ [f EXCEPT !.paused = p].options = f.options
         /\ [f EXCEPT !.options = o].id = f.id /\ [f EXCEPT !.options = o].options = o
BY DEF Fences

\* The fences of a command and their options.
LEMMA CommandFacts ==
  ASSUME NEW m \in Cmds
  PROVE  /\ m \in Commands /\ m.op \in Operations /\ m.client \in Clients /\ m.ids \in IdSeqs
         /\ m.ids \in Seq(Ids) /\ Len(m.ids) \in 1..MaxFences /\ DOMAIN m.ids = 1..Len(m.ids)
         /\ \A i \in DOMAIN m.ids :
              /\ i \in 1..MaxFences /\ m.ids[i] \in Ids
              /\ m.op \in {"add", "modify"} => m.options[i] \in Options
<1>1. m \in Commands /\ m.op \in Operations /\ m.client \in Clients /\ m.ids \in IdSeqs
      /\ m.options \in Seq(Options) /\ (m.op \in {"add", "modify"} => Len(m.ids) <= Len(m.options))
  BY DEF Cmds, Commands
<1>2. m.ids \in Seq(Ids) /\ Len(m.ids) \in 1..MaxFences /\ DOMAIN m.ids = 1..Len(m.ids)
  BY <1>1, SelectedFacts
<1>3. Len(m.options) \in Nat /\ \A i \in 1..Len(m.options) : m.options[i] \in Options
  BY <1>1, LenProperties
<1>4. ASSUME NEW i \in DOMAIN m.ids
      PROVE  /\ i \in 1..MaxFences /\ m.ids[i] \in Ids
             /\ m.op \in {"add", "modify"} => m.options[i] \in Options
  BY <1>1, <1>2, <1>3, ConstantFacts
<1>5. QED
  BY <1>1, <1>2, <1>4

\* The requests that are for no command.
LEMMA RequestsMade ==
  /\ Request("open", NoHwId, NoFence, "nothing") \in Opens
  /\ \A h \in HwIds : /\ Request("remove", h, NoFence, "stopped") \in Stops
                      /\ \A call \in {"pause", "resume"}, then \in {"paused", "nothing"} :
                           Request(call, h, NoFence, then) \in Pauses
  /\ \A f \in Fences : Request("add", NoHwId, f, "restored") \in Restores
BY ConstantFacts DEF Request, Requests, Operations, Opens, Stops, Pauses, Restores

\* A request for a fence of a command.
LEMMA AskMade ==
  ASSUME NEW m \in Cmds, NEW i \in DOMAIN m.ids, NEW h \in HwIds \cup {NoHwId},
         NEW f \in Fences \cup {NoFence},
         m.op # "add" => h \in HwIds,
         m.op \in {"add", "modify"} => f \in Fences /\ f.id = m.ids[i],
         NEW r, r = Ask(m, i, h, f)
  PROVE  /\ r \in Asks /\ IdOf(r) = m.ids[i]
         /\ r.call = m.op /\ r.hwId = h /\ r.fence = f /\ r.command = m /\ r.i = i /\ r.then = "done"
<1>1. r = [call |-> m.op, hwId |-> h, fence |-> f, command |-> m, i |-> i, then |-> "done"]
  BY DEF Ask
<1>2. m \in Commands /\ m.op \in Operations /\ i \in 1..MaxFences
  BY CommandFacts
<1>3. i \in 0..MaxFences
  BY <1>2, ConstantFacts
<1>4. r \in Requests
  BY <1>1, <1>2, <1>3 DEF Requests
<1>5. QED
  BY <1>1, <1>4 DEF Asks, IdOf

\* The requests by what is done with the answer and what they are for.
LEMMA MadeCases ==
  ASSUME NEW r \in Made
  PROVE  /\ r \in Requests
         /\ r.then = "done" => r \in Asks
         /\ r.then = "restored" => r \in Restores
         /\ r.then = "stopped" => r \in Stops
         /\ r.then = "paused" => r \in Pauses
         /\ r.then \in {"done", "restored", "paused", "stopped", "nothing"}
         /\ r.call = "open" <=> r \in Opens
         /\ r.call = "add" => r.fence \in Fences /\ r \in Asks \cup Restores
         /\ r.call \in {"remove", "modify", "pause", "resume"} => r.hwId \in HwIds
         /\ r.call = "modify" => r.fence \in Fences
         /\ r.call = "open" => r.then = "nothing"
         /\ r.call \in Operations \cup {"open"}
<1>1. ASSUME r \in Asks
      PROVE  /\ r \in Requests /\ r.then = "done" /\ r.call \in Operations
             /\ r.call # "add" => r.hwId \in HwIds
             /\ r.call \in {"add", "modify"} => r.fence \in Fences
  <2>1. r.command \in Cmds /\ r.call = r.command.op
    BY <1>1 DEF Asks
  <2>2. r.command.op \in Operations
    BY <2>1, CommandFacts
  <2>3. QED
    BY <1>1, <2>1, <2>2 DEF Asks
<1>2. ASSUME r \in Restores
      PROVE  r \in Requests /\ r.then = "restored" /\ r.call = "add" /\ r.fence \in Fences
  BY <1>2 DEF Restores
<1>3. ASSUME r \in Stops
      PROVE  r \in Requests /\ r.then = "stopped" /\ r.call = "remove" /\ r.hwId \in HwIds
  BY <1>3 DEF Stops
<1>4. ASSUME r \in Pauses
      PROVE  /\ r \in Requests /\ r.then \in {"paused", "nothing"} /\ r.call \in {"pause", "resume"}
             /\ r.hwId \in HwIds
  BY <1>4 DEF Pauses
<1>5. ASSUME r \in Opens PROVE r \in Requests /\ r.call = "open" /\ r.then = "nothing"
  BY <1>5 DEF Opens
<1>6. r \in Asks \cup Restores \cup Stops \cup Pauses \cup Opens
  BY DEF Made
<1>7. QED
  BY <1>1, <1>2, <1>3, <1>4, <1>5, <1>6 DEF Operations

\* An element of LocApi's queue is a turn or not.
LEMMA RequestCases ==
  ASSUME NEW r \in Turnings \cup Made
  PROVE  r.call = "turn" <=> r \in Turnings
<1>1. r \in Made => r.call # "turn"
  BY MadeCases DEF Operations
<1>2. r \in Turnings => r.call = "turn"
  BY DEF Turnings, Turns
<1>3. QED
  BY <1>1, <1>2

\* A message is one of the four.
LEMMA MsgCases ==
  ASSUME NEW a \in Msgs
  PROVE  /\ a.kind \in {"addClient", "removeClient"} <=> a \in ClientMsgs
         /\ a.kind = "engineUp" <=> a = EngineUp
         /\ a.kind = "turn" <=> a \in Turned
         /\ a.kind \in {"done", "restored", "paused", "stopped"} <=> a \in Replies
         /\ a \in ClientMsgs \cup {EngineUp} \cup Turned \cup Replies
<1>1. a \in ClientMsgs => a.kind \in {"addClient", "removeClient"}
  BY DEF ClientMsgs
<1>2. a = EngineUp => a.kind = "engineUp"
  BY DEF EngineUp
<1>3. a \in Turned => a.kind = "turn"
  BY DEF Turned
<1>4. a \in Replies => a.kind \in {"done", "restored", "paused", "stopped"}
  BY DEF Replies
<1>5. QED
  BY <1>1, <1>2, <1>3, <1>4 DEF Msgs

\* A reply and the request it answers.
LEMMA ReplyFacts ==
  ASSUME NEW a \in Replies
  PROVE  /\ a.req \in Made /\ a.ok \in BOOLEAN /\ a.req.then = a.kind
         /\ a.ok /\ a.req.call = "add" => a.hwId \in HwIds
BY DEF Replies

\* The messages about a client.
LEMMA ClientMsgFacts ==
  ASSUME NEW i \in Interfaces, NEW c \in Clients
  PROVE  /\ ClientMsg("addClient", i, c, FALSE) \in ClientMsgs
         /\ ClientMsg("removeClient", i, c, FALSE) \in ClientMsgs
         /\ ClientMsg("removeClient", i, c, TRUE) \in ClientMsgs
BY DEF ClientMsg, ClientMsgs

-----------------------------------------------------------------------------
(* The calls of clients.                                                   *)

\* p makes client c known to interfaces that are loaded then, and removes none for
\* the last time.
Announces(p, c) ==
  /\ p \in Seq(ClientMsgs) /\ Joined(msgs', msgs, p)
  /\ \A i \in Interfaces, d \in Clients :
       ~Has(p, CbOf(i, d)) /\ (Has(p, AddOf(i, d)) => d = c /\ i \in loaded')

\* p removes client c for the last time from the interfaces that are loaded.
Dismisses(p, c) ==
  /\ p \in Seq(ClientMsgs) /\ Joined(msgs', msgs, p)
  /\ \A i \in Interfaces, d \in Clients :
       ~Has(p, AddOf(i, d)) /\ (Has(p, CbOf(i, d)) <=> d = c /\ i \in loaded)

\* A new client.
LEMMA CreateFacts ==
  ASSUME LocationApiTypeOK, NEW c \in Clients, NEW kinds \in Callbacks, createInstance(c, kinds)
  PROVE  /\ \E p : Announces(p, c)
         /\ loaded \subseteq loaded' /\ loaded' \in SUBSET Installed
         /\ DOMAIN clientData' = DOMAIN clientData \cup {c}
         /\ \A d \in DOMAIN clientData' : clientData'[d] \in SUBSET Interfaces
         /\ UNCHANGED <<destroyClientData, deleted>>
<1> DEFINE served == IF kinds \cap Installed # {} THEN kinds \cap Installed
                     ELSE {"gnss"} \cap Installed
           m == [i \in served |-> ClientMsg("addClient", i, c, FALSE)]
           p == InOrder(m)
<1>1. served \subseteq Installed /\ served \subseteq Interfaces /\ kinds \subseteq Interfaces
  BY ConstantFacts
<1>2. loaded' = loaded \cup served /\ msgs' = msgs \o p /\ UNCHANGED <<destroyClientData, deleted>>
      /\ clientData' = With(clientData, c, kinds)
  BY DEF createInstance
<1>3. DOMAIN m = served /\ \A i \in served : m[i] = ClientMsg("addClient", i, c, FALSE)
  OBVIOUS
<1> HIDE DEF served, m
<1>4. \A i \in DOMAIN m : m[i] \in ClientMsgs
  <2> TAKE i \in DOMAIN m
  <2>1. i \in Interfaces /\ m[i] = ClientMsg("addClient", i, c, FALSE)
    BY <1>1, <1>3
  <2>2. ClientMsg("addClient", i, c, FALSE) \in ClientMsgs
    BY <2>1, ClientMsgFacts
  <2>3. QED
    BY <2>1, <2>2
<1>5. p \in Seq(ClientMsgs) /\ \A W : Has(p, W) <=> \E i \in DOMAIN m : m[i] \in W
  BY <1>1, <1>3, <1>4, InOrderHas
<1> HIDE DEF p
<1>6. ASSUME NEW i \in Interfaces, NEW d \in Clients
      PROVE  ~Has(p, CbOf(i, d)) /\ (Has(p, AddOf(i, d)) => d = c /\ i \in loaded')
  <2>1. ASSUME NEW j \in served
        PROVE  m[j] \notin CbOf(i, d) /\ (m[j] \in AddOf(i, d) => d = c /\ i = j)
    <3>1. j \in Interfaces /\ m[j] = ClientMsg("addClient", j, c, FALSE)
      BY <1>1, <1>3
    <3>2. QED
      BY <3>1 DEF ClientMsg, AddOf, CbOf
  <2>2. QED
    BY <1>2, <1>3, <1>5, <2>1
<1>7. Announces(p, c)
  BY <1>2, <1>5, <1>6 DEF Announces, Joined
<1>8. loaded \in SUBSET Installed
  BY DEF LocationApiTypeOK
<1>9. /\ DOMAIN clientData' = DOMAIN clientData \cup {c}
      /\ \A d \in DOMAIN clientData' : clientData'[d] \in SUBSET Interfaces
  <2>1. /\ DOMAIN clientData' = DOMAIN clientData \cup {c} /\ clientData'[c] = kinds
        /\ \A d \in DOMAIN clientData \ {c} : clientData'[d] = clientData[d]
    BY <1>2 DEF With
  <2>2. \A d \in DOMAIN clientData : clientData[d] \in SUBSET Interfaces
    BY DEF LocationApiTypeOK
  <2>3. QED
    BY <1>1, <2>1, <2>2
<1>10. QED
  BY <1>1, <1>2, <1>7, <1>8, <1>9

\* Other callbacks.
LEMMA UpdateFacts ==
  ASSUME LocationApiTypeOK, NEW c \in DOMAIN clientData, NEW kinds \in Callbacks,
         updateCallbacks(c, kinds)
  PROVE  /\ \E p : Announces(p, c)
         /\ loaded \subseteq loaded' /\ loaded' \in SUBSET Installed
         /\ DOMAIN clientData' = DOMAIN clientData
         /\ \A d \in DOMAIN clientData' : clientData'[d] \in SUBSET Interfaces
         /\ UNCHANGED <<destroyClientData, deleted>>
<1> DEFINE dropped == (loaded \cap clientData[c]) \ kinds
           both == dropped \cup (kinds \cap Installed)
           m == [i \in both |-> IF i \in dropped THEN ClientMsg("removeClient", i, c, FALSE)
                                ELSE ClientMsg("addClient", i, c, FALSE)]
           p == InOrder(m)
<1>1. /\ kinds \subseteq Interfaces /\ c \in Clients
      /\ loaded \in SUBSET Installed /\ Installed \subseteq Interfaces
      /\ \A d \in DOMAIN clientData : clientData[d] \in SUBSET Interfaces
  BY ConstantFacts DEF LocationApiTypeOK
<1>2. both \subseteq Interfaces /\ both \ dropped \subseteq kinds \cap Installed
  BY <1>1
<1>3. /\ loaded' = loaded \cup (kinds \cap Installed) /\ msgs' = msgs \o p
      /\ UNCHANGED <<destroyClientData, deleted>>
      /\ clientData' = [clientData EXCEPT ![c] = kinds]
  BY DEF updateCallbacks
<1>4. DOMAIN m = both /\ \A i \in both : m[i] = IF i \in dropped
                                                THEN ClientMsg("removeClient", i, c, FALSE)
                                                ELSE ClientMsg("addClient", i, c, FALSE)
  OBVIOUS
<1> HIDE DEF dropped, both, m
<1>5. \A i \in DOMAIN m : m[i] \in ClientMsgs
  <2> TAKE i \in DOMAIN m
  <2>1. i \in Interfaces /\ m[i] = IF i \in dropped THEN ClientMsg("removeClient", i, c, FALSE)
                                   ELSE ClientMsg("addClient", i, c, FALSE)
    BY <1>2, <1>4
  <2>2. ClientMsg("addClient", i, c, FALSE) \in ClientMsgs
        /\ ClientMsg("removeClient", i, c, FALSE) \in ClientMsgs
    BY <1>1, <2>1, ClientMsgFacts
  <2>3. QED
    BY <2>1, <2>2
<1>6. p \in Seq(ClientMsgs) /\ \A W : Has(p, W) <=> \E i \in DOMAIN m : m[i] \in W
  BY <1>2, <1>4, <1>5, InOrderHas
<1> HIDE DEF p
<1>7. ASSUME NEW i \in Interfaces, NEW d \in Clients
      PROVE  ~Has(p, CbOf(i, d)) /\ (Has(p, AddOf(i, d)) => d = c /\ i \in loaded')
  <2>1. ASSUME NEW j \in both
        PROVE  m[j] \notin CbOf(i, d) /\ (m[j] \in AddOf(i, d) => d = c /\ i = j /\ j \notin dropped)
    <3>1. j \in Interfaces
      BY <1>2
    <3>2. CASE j \in dropped
      <4>1. m[j] = ClientMsg("removeClient", j, c, FALSE)
        BY <1>4, <3>2
      <4>2. QED
        BY <3>1, <4>1 DEF ClientMsg, AddOf, CbOf
    <3>3. CASE j \notin dropped
      <4>1. m[j] = ClientMsg("addClient", j, c, FALSE)
        BY <1>4, <3>3
      <4>2. QED
        BY <3>1, <3>3, <4>1 DEF ClientMsg, AddOf, CbOf
    <3>4. QED
      BY <3>2, <3>3
  <2>2. QED
    BY <1>2, <1>3, <1>4, <1>6, <2>1
<1>8. Announces(p, c)
  BY <1>3, <1>6, <1>7 DEF Announces, Joined
<1>9. /\ DOMAIN clientData' = DOMAIN clientData
      /\ \A d \in DOMAIN clientData' : clientData'[d] \in SUBSET Interfaces
  BY <1>1, <1>3
<1>10. QED
  BY <1>1, <1>3, <1>8, <1>9

\* A client that goes.
LEMMA DestroyFacts ==
  ASSUME LocationApiTypeOK, NEW c \in Clients, destroy(c)
  PROVE  /\ \E p : Dismisses(p, c)
         /\ loaded' = loaded
         /\ DOMAIN clientData' = DOMAIN clientData \ {c}
         /\ \A d \in DOMAIN clientData' : clientData'[d] \in SUBSET Interfaces
         /\ loaded = {} => destroyClientData' = destroyClientData /\ deleted' = deleted \cup {c}
         /\ loaded # {} => deleted' = deleted /\ destroyClientData' = With(destroyClientData, c, loaded)
<1> DEFINE m == [i \in loaded |-> ClientMsg("removeClient", i, c, TRUE)]
           p == InOrder(m)
<1>1. /\ loaded \subseteq Interfaces
      /\ \A d \in DOMAIN clientData : clientData[d] \in SUBSET Interfaces
  BY ConstantFacts DEF LocationApiTypeOK
<1>2. /\ loaded' = loaded /\ msgs' = msgs \o p /\ clientData' = Without(clientData, c)
      /\ loaded = {} => destroyClientData' = destroyClientData /\ deleted' = deleted \cup {c}
      /\ loaded # {} => deleted' = deleted /\ destroyClientData' = With(destroyClientData, c, loaded)
  BY DEF destroy
<1>3. DOMAIN m = loaded /\ \A i \in loaded : m[i] = ClientMsg("removeClient", i, c, TRUE)
  OBVIOUS
<1> HIDE DEF m
<1>4. \A i \in DOMAIN m : m[i] \in ClientMsgs
  <2> TAKE i \in DOMAIN m
  <2>1. i \in Interfaces /\ m[i] = ClientMsg("removeClient", i, c, TRUE)
    BY <1>1, <1>3
  <2>2. ClientMsg("removeClient", i, c, TRUE) \in ClientMsgs
    BY <2>1, ClientMsgFacts
  <2>3. QED
    BY <2>1, <2>2
<1>5. p \in Seq(ClientMsgs) /\ \A W : Has(p, W) <=> \E i \in DOMAIN m : m[i] \in W
  BY <1>1, <1>3, <1>4, InOrderHas
<1> HIDE DEF p
<1>6. ASSUME NEW i \in Interfaces, NEW d \in Clients
      PROVE  ~Has(p, AddOf(i, d)) /\ (Has(p, CbOf(i, d)) <=> d = c /\ i \in loaded)
  <2>1. ASSUME NEW j \in loaded
        PROVE  m[j] \notin AddOf(i, d) /\ (m[j] \in CbOf(i, d) <=> d = c /\ i = j)
    <3>1. j \in Interfaces /\ m[j] = ClientMsg("removeClient", j, c, TRUE)
            /\ m[j] \in ClientMsgs
      BY <1>1, <1>3, <1>4
    <3>2. QED
      BY <3>1 DEF ClientMsg, AddOf, CbOf
  <2>2. QED
    BY <1>3, <1>5, <2>1
<1>7. Dismisses(p, c)
  BY <1>2, <1>5, <1>6 DEF Dismisses, Joined
<1>8. /\ DOMAIN clientData' = DOMAIN clientData \ {c}
      /\ \A d \in DOMAIN clientData' : clientData'[d] \in SUBSET Interfaces
  <2>1. /\ DOMAIN clientData' = DOMAIN clientData \ {c}
        /\ \A d \in DOMAIN clientData \ {c} : clientData'[d] = clientData[d]
    BY <1>2 DEF Without
  <2>2. QED
    BY <1>1, <2>1
<1>9. QED
  BY <1>2, <1>7, <1>8

\* Positions are kept by what is appended to the list of messages.
LEMMA ListTyped ==
  ASSUME Typed, NEW p \in Seq(ClientMsgs), Joined(msgs', msgs, p)
  PROVE  /\ msgs' \in Seq(Msgs) /\ p \in Seq(Msgs)
         /\ \A V : Has(msgs', V) <=> Has(msgs, V) \/ Has(p, V)
         /\ \A V, W : HasThen(msgs', V, W) <=>
                       HasThen(msgs, V, W) \/ HasThen(p, V, W) \/ (Has(msgs, V) /\ Has(p, W))
<1>1. ClientMsgs \subseteq Msgs /\ msgs \in Seq(Msgs)
  BY DEF Msgs, Typed
<1>2. p \in Seq(Msgs)
  BY <1>1, SeqMonotonic
<1>3. QED
  BY <1>1, <1>2, JoinHas, Zenon

\* The turns of a command: one for each of its fences.
Called(p, op, c, ids) ==
  /\ p \in Seq(Turnings) /\ Joined(reqs', reqs, p) /\ DOMAIN p = DOMAIN ids
  /\ \A k \in DOMAIN ids :
       IdOf(p[k]) = ids[k] /\ p[k].command.op = op /\ p[k].command.client = c

\* A command asks for a turn for each fence.
LEMMA CommandCalled ==
  ASSUME NEW op \in Operations, NEW c \in Clients, NEW ids \in IdSeqs, NEW options \in Seq(Options),
         op \in {"add", "modify"} => Len(ids) <= Len(options),
         calls + 1 \in 1..MaxCalls, MsgGeofences(op, c, ids, options)
  PROVE  \E p : Called(p, op, c, ids)
<1> DEFINE m == [op |-> op, n |-> calls + 1, client |-> c, ids |-> ids, options |-> options]
           p == [i \in DOMAIN ids |-> Turn(m, i)]
<1>1. reqs' = reqs \o p
  BY DEF MsgGeofences
<1>2. m \in Cmds /\ m.op = op /\ m.client = c /\ m.ids = ids
  BY DEF Cmds, Commands
<1> HIDE DEF m
<1>3. DOMAIN ids = 1..Len(ids) /\ Len(ids) \in Nat /\ \A i \in DOMAIN ids : i \in 1..MaxFences
  BY <1>2, CommandFacts, ConstantFacts
<1>4. ASSUME NEW i \in DOMAIN ids
      PROVE  /\ Turn(m, i) \in Turnings /\ IdOf(Turn(m, i)) = ids[i]
             /\ Turn(m, i).command.op = op /\ Turn(m, i).command.client = c
  <2>1. /\ Turn(m, i).call = "turn" /\ Turn(m, i).command = m /\ Turn(m, i).i = i
        /\ m \in Commands /\ Turn(m, i) \in Turns
    BY <1>2, <1>3 DEF Turn, Turns, Cmds
  <2>2. QED
    BY <1>2, <2>1 DEF Turnings, IdOf
<1>5. p \in [1..Len(ids) -> Turnings]
  BY <1>3, <1>4
<1>6. p \in Seq(Turnings) /\ DOMAIN p = DOMAIN ids
  BY <1>3, <1>5, FunctionIsSeq
<1>7. \A i \in DOMAIN ids : p[i] = Turn(m, i)
  OBVIOUS
<1> HIDE DEF p
<1>8. QED
  BY <1>1, <1>4, <1>6, <1>7 DEF Called, Joined

\* Turns are appended to what is in LocApi's queue.
LEMMA QueueTyped ==
  ASSUME Typed, NEW p \in Seq(Turnings \cup Made), Joined(reqs', reqs, p)
  PROVE  reqs' \in Seq(Turnings \cup Made)
BY JoinHas, Zenon DEF Typed

\* What was under way or not, the history is made of the same words.
LEMMA HistoryWords ==
  ASSUME Typed, NEW what, Count(what),
         what \subseteq {"impatient", "unserved", "failed", "crashed", "again", "suspended", "stale"}
  PROVE  /\ calls' \in 0..MaxCalls /\ calls + 1 \in 1..MaxCalls
         /\ past' \subseteq {"impatient", "unserved", "failed", "crashed", "again", "suspended",
                             "stale"}
         /\ past \subseteq past' /\ what \subseteq past'
BY ConstantFacts DEF Typed, ClientBaseTypeOK, Count

\* The ids that are given are those of no client, and distinct.
LEMMA NewIds ==
  ASSUME Typed, NEW k \in 1..MaxFences, k <= Cardinality(Free)
  PROVE  /\ [i \in 1..k |-> MaxFences - Cardinality(Free) + i] \in IdSeqs
         /\ Cardinality(Free) \in 0..MaxFences
<1>1. MaxFences \in Nat /\ Ids = 1..MaxFences /\ Free \subseteq 1..MaxFences
  BY ConstantFacts DEF Free
<1>2. IsFiniteSet(1..MaxFences) /\ Cardinality(1..MaxFences) = MaxFences
  BY <1>1, FS_Interval
<1>3. IsFiniteSet(Free) /\ Cardinality(Free) <= MaxFences
  BY <1>1, <1>2, FS_Subset
<1>4. Cardinality(Free) \in 0..MaxFences
  BY <1>1, <1>3, FS_CardinalityType
<1> DEFINE n == Cardinality(Free)
           s == [i \in 1..k |-> MaxFences - n + i]
<1> HIDE DEF n
<1>5. n \in 0..MaxFences /\ k <= n /\ k \in Nat
  BY <1>4 DEF n
<1>6. s \in [1..k -> Ids]
  BY <1>1, <1>5
<1>7. \A i, j \in 1..k : s[i] = s[j] => i = j
  BY <1>1, <1>5
<1>8. IsInjective(s)
  BY <1>6, <1>7 DEF IsInjective
<1>9. s \in IdSeqs
  BY <1>6, <1>8 DEF IdSeqs
<1>10. QED
  BY <1>4, <1>9 DEF n

\* Variables that no call of a client changes.
Elsewhere == <<mClientData, mGeofences, mGeofenceIds, mSystemPowerState, down, modem, askedPaused>>

\* The types of those are kept.
LEMMA ElsewhereTyped ==
  ASSUME Typed, UNCHANGED Elsewhere
  PROVE  /\ mClientData' \in [Interfaces -> SUBSET Clients]
         /\ mGeofences' \in [HwIds -> Fences \cup {NoFence}]
         /\ mGeofenceIds' \in [Ids -> HwIds \cup {NoHwId}]
         /\ mSystemPowerState' \in {"unknown", "suspend", "resume"}
         /\ down' \in BOOLEAN /\ modem' \in [HwIds -> Fences \cup {NoFence}]
         /\ askedPaused' \subseteq Ids
BY DEF Typed, LocationApiTypeOK, Elsewhere

\* A command to the adapter keeps the types.
LEMMA CommandTyped ==
  ASSUME Typed, UNCHANGED Elsewhere, UNCHANGED <<gData, msgs, mLocationAPI>>,
         NEW p, NEW op, NEW c \in Clients, NEW ids, Called(p, op, c, ids),
         calls' \in 0..MaxCalls, calls + 1 \in 1..MaxCalls,
         past' \subseteq {"impatient", "unserved", "failed", "crashed", "again", "suspended",
                          "stale"},
         mRequestQueues' \in [Clients -> Seq(1..MaxCalls)], geofenceSession' \subseteq Clients,
         mGeofenceBiDict' \in [Clients -> SUBSET Ids], owner' \in [Ids -> Clients \cup {NoClient}]
  PROVE  Typed'
<1>1. reqs' \in Seq(Turnings \cup Made)
  <2>1. p \in Seq(Turnings) /\ Joined(reqs', reqs, p)
    BY DEF Called
  <2>2. p \in Seq(Turnings \cup Made)
    BY <2>1, SeqMonotonic
  <2>3. QED
    BY <2>1, <2>2, QueueTyped
<1>2. msgs' \in Seq(Msgs)
  BY DEF Typed
<1>3. LocationApiTypeOK'
  <2>1. mClientData' \in [Interfaces -> SUBSET Clients]
    BY ElsewhereTyped
  <2>2. QED
    BY <2>1 DEF Typed, LocationApiTypeOK, gData
<1>4. ClientBaseTypeOK'
  BY DEF Typed, ClientBaseTypeOK
<1>5. \A d \in Clients : mLocationAPI'[d] = "made" <=> d \in DOMAIN clientData'
  BY DEF Typed, gData
<1>6. QED
  BY <1>1, <1>2, <1>3, <1>4, <1>5, ElsewhereTyped DEF Typed

\* A call for fences that the client knows: its turns, and the types.
LEMMA CallForFacts ==
  ASSUME Typed, UNCHANGED Elsewhere, NEW c \in Clients, NEW op \in Operations \ {"add"},
         NEW ids \in IdSeqs, NEW options \in Seq(Options), op = "modify" => Len(options) = Len(ids),
         NEW what, what \subseteq {"impatient"}, CallFor(op, c, ids, options, what),
         mGeofenceBiDict' \in [Clients -> SUBSET Ids]
  PROVE  /\ Typed'
         /\ \E sessions \in IdSeqs :
              /\ Range(sessions) \subseteq Range(ids) \cap mGeofenceBiDict[c]
              /\ \E p : Called(p, op, c, sessions)
         /\ past' = past \cup what \cup Unserved(c)
<1> DEFINE sessions == Selected(ids, mGeofenceBiDict[c])
<1>1. /\ sessions # <<>> /\ Count(what \cup Unserved(c))
      /\ mRequestQueues' = [mRequestQueues EXCEPT ![c] = Append(@, calls + 1)]
      /\ MsgGeofences(op, c, sessions, options)
      /\ UNCHANGED <<gData, msgs, mLocationAPI, geofenceSession, owner>>
  BY DEF CallFor
<1>2. /\ sessions \in IdSeqs /\ Range(sessions) \subseteq Range(ids) \cap mGeofenceBiDict[c]
      /\ Len(sessions) <= Len(ids)
  BY <1>1, SelectedFacts
<1> HIDE DEF sessions
<1>3. what \cup Unserved(c) \subseteq {"impatient", "unserved"}
  BY DEF Unserved
<1>4. /\ calls' \in 0..MaxCalls /\ calls + 1 \in 1..MaxCalls
      /\ past' \subseteq {"impatient", "unserved", "failed", "crashed", "again", "suspended",
                          "stale"}
      /\ past' = past \cup what \cup Unserved(c)
  <2>1. /\ calls' \in 0..MaxCalls /\ calls + 1 \in 1..MaxCalls
        /\ past' \subseteq {"impatient", "unserved", "failed", "crashed", "again", "suspended",
                            "stale"}
    BY <1>1, <1>3, HistoryWords
  <2>2. past' = past \cup what \cup Unserved(c)
    BY <1>1 DEF Count
  <2>3. QED
    BY <2>1, <2>2
<1>5. op \in {"add", "modify"} => Len(sessions) <= Len(options)
  BY <1>2
<1>6. PICK p : Called(p, op, c, sessions)
  BY <1>1, <1>2, <1>4, <1>5, CommandCalled
<1>7. mRequestQueues' \in [Clients -> Seq(1..MaxCalls)]
  <2>1. mRequestQueues \in [Clients -> Seq(1..MaxCalls)]
    BY DEF Typed, ClientBaseTypeOK
  <2>2. QED
    BY <1>1, <1>4, <2>1
<1>8. geofenceSession' \subseteq Clients /\ owner' \in [Ids -> Clients \cup {NoClient}]
  BY <1>1 DEF Typed, ClientBaseTypeOK
<1>9. Typed'
  BY <1>1, <1>4, <1>6, <1>7, <1>8, CommandTyped
<1>10. QED
  BY <1>2, <1>4, <1>6, <1>9

\* The client adds k fences; these are the ids.
Adds(c, k, ids) ==
  /\ k <= Cardinality(Free)
  /\ ids = [i \in 1..k |-> MaxFences - Cardinality(Free) + i]
  /\ \E p : Called(p, "add", c, ids)
  /\ mGeofenceBiDict' = [mGeofenceBiDict EXCEPT ![c] = @ \cup Range(ids)]
  /\ owner' = [id \in Ids |-> IF id \in Range(ids) THEN c ELSE owner[id]]

\* An addition gives new fences to the client and asks for them, if there is a
\* library for geofences.
LEMMA AddFacts ==
  ASSUME Typed, UNCHANGED Elsewhere, NEW c \in Clients, NEW k \in 1..MaxFences, NEW o \in Options,
         locAPIAddGeofences(c, [i \in 1..k |-> o])
  PROVE  /\ Typed'
         /\ UNCHANGED <<gData, msgs, mLocationAPI>> /\ past' = past \cup Unserved(c)
         /\ \/ UNCHANGED <<reqs, mGeofenceBiDict, owner>>
            \/ \E ids \in IdSeqs : Adds(c, k, ids)
<1> DEFINE options == [i \in 1..k |-> o]
           ids == [j \in DOMAIN options |-> MaxFences - Cardinality(Free) + j]
           old == IF c \in geofenceSession THEN mRequestQueues[c] ELSE <<>>
<1>1. k \in Nat /\ 1..k = DOMAIN options /\ options \in Seq(Options) /\ Len(options) = k
  <2>1. k \in Nat /\ options \in [1..k -> Options]
    BY ConstantFacts
  <2>2. QED
    BY <2>1, FunctionIsSeq
<1>2. /\ mLocationAPI[c] = "made" /\ k <= Cardinality(Free) /\ Count(Unserved(c))
      /\ geofenceSession' = geofenceSession \cup {c}
      /\ UNCHANGED <<gData, msgs, mLocationAPI>>
      /\ "geofence" \in loaded =>
           /\ MsgGeofences("add", c, ids, options)
           /\ mRequestQueues' = [mRequestQueues EXCEPT ![c] = Append(old, calls + 1)]
           /\ mGeofenceBiDict' = [mGeofenceBiDict EXCEPT ![c] = @ \cup Range(ids)]
           /\ owner' = [id \in Ids |-> IF id \in Range(ids) THEN c ELSE owner[id]]
      /\ "geofence" \notin loaded =>
           /\ mRequestQueues' = [mRequestQueues EXCEPT ![c] = old]
           /\ UNCHANGED <<reqs, mGeofenceBiDict, owner>>
  BY <1>1 DEF locAPIAddGeofences
<1>3. ids = [i \in 1..k |-> MaxFences - Cardinality(Free) + i]
  BY <1>1
<1>4. ids \in IdSeqs
  BY <1>2, <1>3, NewIds
<1>5. Len(ids) = k
  BY <1>1, <1>3
<1> HIDE DEF options, ids
<1>6. /\ calls' \in 0..MaxCalls /\ calls + 1 \in 1..MaxCalls
      /\ past' \subseteq {"impatient", "unserved", "failed", "crashed", "again", "suspended",
                          "stale"}
      /\ past' = past \cup Unserved(c)
  <2>1. Unserved(c) \subseteq {"unserved"}
    BY DEF Unserved
  <2>2. past' = past \cup Unserved(c)
    BY <1>2 DEF Count
  <2>3. QED
    BY <1>2, <2>1, <2>2, HistoryWords
<1>7. mRequestQueues \in [Clients -> Seq(1..MaxCalls)] /\ old \in Seq(1..MaxCalls)
      /\ mGeofenceBiDict \in [Clients -> SUBSET Ids] /\ owner \in [Ids -> Clients \cup {NoClient}]
      /\ geofenceSession' \subseteq Clients
  <2>1. /\ mRequestQueues \in [Clients -> Seq(1..MaxCalls)] /\ geofenceSession \subseteq Clients
        /\ mGeofenceBiDict \in [Clients -> SUBSET Ids]
        /\ owner \in [Ids -> Clients \cup {NoClient}]
    BY DEF Typed, ClientBaseTypeOK
  <2>2. mRequestQueues[c] \in Seq(1..MaxCalls)
    BY <2>1
  <2>3. <<>> \in Seq(1..MaxCalls)
    BY EmptySeq
  <2>4. old \in Seq(1..MaxCalls)
    BY <2>2, <2>3
  <2>5. geofenceSession' \subseteq Clients
    BY <1>2, <2>1
  <2>6. QED
    BY <2>1, <2>4, <2>5
<1> HIDE DEF old
<1>8. CASE "geofence" \in loaded
  <2>1. PICK p : Called(p, "add", c, ids)
    BY <1>1, <1>2, <1>4, <1>5, <1>6, <1>8, CommandCalled DEF Operations
  <2>2. Range(ids) \subseteq Ids
    BY <1>4, SelectedFacts, LenProperties DEF Range
  <2>3. /\ mRequestQueues' \in [Clients -> Seq(1..MaxCalls)]
        /\ mGeofenceBiDict' \in [Clients -> SUBSET Ids]
        /\ owner' \in [Ids -> Clients \cup {NoClient}]
    <3>1. Append(old, calls + 1) \in Seq(1..MaxCalls)
      BY <1>6, <1>7, AppendProperties
    <3>2. mRequestQueues' \in [Clients -> Seq(1..MaxCalls)]
      BY <1>2, <1>7, <1>8, <3>1
    <3>3. mGeofenceBiDict' \in [Clients -> SUBSET Ids]
      <4>1. mGeofenceBiDict[c] \cup Range(ids) \in SUBSET Ids
        BY <1>7, <2>2
      <4>2. mGeofenceBiDict' = [mGeofenceBiDict EXCEPT ![c] = mGeofenceBiDict[c] \cup Range(ids)]
        BY <1>2, <1>8
      <4>3. QED
        BY <1>7, <4>1, <4>2
    <3>4. owner' \in [Ids -> Clients \cup {NoClient}]
      BY <1>2, <1>7, <1>8
    <3>5. QED
      BY <3>2, <3>3, <3>4
  <2>4. Typed'
    BY <1>2, <1>6, <1>7, <2>1, <2>3, CommandTyped
  <2>5. Adds(c, k, ids)
    BY <1>2, <1>3, <1>8, <2>1 DEF Adds
  <2>6. QED
    BY <1>2, <1>4, <1>6, <2>4, <2>5
<1>9. CASE "geofence" \notin loaded
  <2>1. /\ mRequestQueues' \in [Clients -> Seq(1..MaxCalls)] /\ UNCHANGED <<reqs, mGeofenceBiDict, owner>>
    BY <1>2, <1>7, <1>9
  <2>2. ClientBaseTypeOK'
    BY <1>2, <1>6, <1>7, <2>1 DEF Typed, ClientBaseTypeOK
  <2>3. LocationApiTypeOK'
    BY <1>2, ElsewhereTyped DEF Typed, LocationApiTypeOK, gData
  <2>4. /\ msgs' \in Seq(Msgs) /\ reqs' \in Seq(Turnings \cup Made)
        /\ \A d \in Clients : mLocationAPI'[d] = "made" <=> d \in DOMAIN clientData'
    BY <1>2, <2>1 DEF Typed, gData
  <2>5. Typed'
    BY <2>2, <2>3, <2>4, ElsewhereTyped DEF Typed
  <2>6. QED
    BY <1>2, <1>6, <2>1, <2>5
<1>10. QED
  BY <1>8, <1>9

\* A client is let go as before when nothing about it changes.
LEMMA LetGoSame ==
  ASSUME NEW c, LetGo(c), UNCHANGED <<gData, mLocationAPI, mClientData>>,
         \A i \in Interfaces :
           /\ Has(msgs', AddOf(i, c)) <=> Has(msgs, AddOf(i, c))
           /\ Has(msgs', CbOf(i, c)) <=> Has(msgs, CbOf(i, c))
           /\ HasThen(msgs', CbOf(i, c), AddOf(i, c)) => HasThen(msgs, CbOf(i, c), AddOf(i, c))
  PROVE  LetGo(c)'
BY DEF LetGo, Awaited, gData

\* A client sets or changes its callbacks.
LEMMA AnnounceLetsGo ==
  ASSUME Inv, NEW c \in Clients, NEW p, Announces(p, c),
         loaded \subseteq loaded', UNCHANGED <<destroyClientData, deleted, mClientData>>,
         mLocationAPI[c] # "gone", mLocationAPI' = [mLocationAPI EXCEPT ![c] = "made"],
         NEW d \in Clients
  PROVE  LetGo(d)'
<1>1. Typed /\ LetGo(d) /\ mLocationAPI \in [Clients -> {"none", "made", "gone"}]
  BY DEF Inv, Typed, ClientBaseTypeOK
<1>2. p \in Seq(ClientMsgs) /\ Joined(msgs', msgs, p)
  BY DEF Announces
<1>3. mLocationAPI'[d] = "gone" <=> mLocationAPI[d] = "gone"
  BY <1>1
<1>4. ASSUME NEW i \in Interfaces
      PROVE  /\ Has(msgs', CbOf(i, d)) <=> Has(msgs, CbOf(i, d))
             /\ Has(msgs', AddOf(i, d)) => Has(msgs, AddOf(i, d)) \/ (d = c /\ i \in loaded')
             /\ ~HasThen(msgs', CbOf(i, d), AddOf(i, d))
  <2>1. ~Has(p, CbOf(i, d)) /\ (Has(p, AddOf(i, d)) => d = c /\ i \in loaded')
    BY DEF Announces
  <2>2. ~HasThen(p, CbOf(i, d), AddOf(i, d))
    BY <2>1, ThenHas
  <2>3. ~HasThen(msgs, CbOf(i, d), AddOf(i, d)) /\ (d = c => ~Has(msgs, CbOf(i, d)))
    BY <1>1 DEF LetGo
  <2>4. QED
    BY <1>1, <1>2, <2>1, <2>2, <2>3, ListTyped
<1>5. QED
  BY <1>1, <1>3, <1>4 DEF LetGo, Awaited

\* A client is destroyed.
LEMMA DestroyLetsGo ==
  ASSUME Inv, NEW c \in Clients, destroy(c), UNCHANGED mClientData,
         mLocationAPI[c] = "made", mLocationAPI' = [mLocationAPI EXCEPT ![c] = "gone"],
         NEW d \in Clients
  PROVE  LetGo(d)'
<1>1. Typed /\ LetGo(d) /\ LetGo(c) /\ mLocationAPI \in [Clients -> {"none", "made", "gone"}]
      /\ LocationApiTypeOK
  BY DEF Inv, Typed, ClientBaseTypeOK
<1>2. PICK p : Dismisses(p, c)
  BY <1>1, DestroyFacts
<1>3. p \in Seq(ClientMsgs) /\ Joined(msgs', msgs, p)
  BY <1>2 DEF Dismisses
<1>4. /\ loaded' = loaded
      /\ loaded = {} => destroyClientData' = destroyClientData /\ deleted' = deleted \cup {c}
      /\ loaded # {} => deleted' = deleted /\ destroyClientData' = With(destroyClientData, c, loaded)
  BY <1>1, DestroyFacts
<1>5. ASSUME NEW i \in Interfaces
      PROVE  /\ Has(msgs', AddOf(i, d)) <=> Has(msgs, AddOf(i, d))
             /\ Has(msgs', CbOf(i, d)) <=> Has(msgs, CbOf(i, d)) \/ (d = c /\ i \in loaded)
             /\ ~HasThen(msgs', CbOf(i, d), AddOf(i, d))
  <2>1. ~Has(p, AddOf(i, d)) /\ (Has(p, CbOf(i, d)) <=> d = c /\ i \in loaded)
    BY <1>2 DEF Dismisses
  <2>2. ~HasThen(p, CbOf(i, d), AddOf(i, d))
    BY <2>1, ThenHas
  <2>3. ~HasThen(msgs, CbOf(i, d), AddOf(i, d))
    BY <1>1 DEF LetGo
  <2>4. QED
    BY <1>1, <1>3, <2>1, <2>2, <2>3, ListTyped
<1>6. CASE d # c
  <2>1. mLocationAPI'[d] = mLocationAPI[d]
    BY <1>1, <1>6
  <2>2. /\ d \in deleted' <=> d \in deleted
        /\ d \in DOMAIN destroyClientData' <=> d \in DOMAIN destroyClientData
        /\ \A i \in Interfaces : Awaited(i, d)' <=> Awaited(i, d)
    <3>1. CASE loaded = {}
      BY <1>4, <1>6, <3>1 DEF Awaited
    <3>2. CASE loaded # {}
      <4>1. /\ DOMAIN destroyClientData' = DOMAIN destroyClientData \cup {c}
            /\ \A x \in DOMAIN destroyClientData \ {c} : destroyClientData'[x] = destroyClientData[x]
        BY <1>4, <3>2 DEF With
      <4>2. QED
        BY <1>4, <1>6, <3>2, <4>1 DEF Awaited
    <3>3. QED
      BY <3>1, <3>2
  <2>3. QED
    BY <1>1, <1>4, <1>5, <1>6, <2>1, <2>2 DEF LetGo
<1>7. CASE d = c
  <2>1. mLocationAPI'[c] = "gone" /\ c \notin deleted /\ c \notin DOMAIN destroyClientData
    BY <1>1 DEF LetGo
  <2>2. /\ c \in deleted' \cup DOMAIN destroyClientData'
        /\ ~(c \in deleted' /\ c \in DOMAIN destroyClientData')
        /\ \A i \in Interfaces : Awaited(i, c)' <=> i \in loaded
    <3>1. CASE loaded = {}
      BY <1>4, <2>1, <3>1 DEF Awaited
    <3>2. CASE loaded # {}
      <4>1. /\ DOMAIN destroyClientData' = DOMAIN destroyClientData \cup {c}
            /\ destroyClientData'[c] = loaded
        BY <1>4, <3>2 DEF With
      <4>2. QED
        BY <1>4, <2>1, <3>2, <4>1 DEF Awaited
    <3>3. QED
      BY <3>1, <3>2
  <2>3. QED
    BY <1>1, <1>4, <1>5, <1>7, <2>1, <2>2 DEF LetGo
<1>8. QED
  BY <1>6, <1>7

\* A call about callbacks keeps the types.
LEMMA CallbacksTyped ==
  ASSUME Typed, UNCHANGED Elsewhere, NEW c \in Clients,
         NEW p \in Seq(ClientMsgs), Joined(msgs', msgs, p),
         loaded' \in SUBSET Installed, deleted' \in SUBSET Clients,
         DOMAIN clientData' \subseteq Clients,
         \A d \in DOMAIN clientData' : clientData'[d] \in SUBSET Interfaces,
         DOMAIN destroyClientData' \subseteq Clients,
         \A d \in DOMAIN destroyClientData' :
           destroyClientData'[d] \in (SUBSET Interfaces) \ {{}},
         \A d \in Clients : mLocationAPI'[d] = "made" <=> d \in DOMAIN clientData',
         ClientBaseTypeOK', UNCHANGED reqs
  PROVE  Typed'
<1>1. msgs' \in Seq(Msgs)
  BY ListTyped
<1>2. LocationApiTypeOK'
  BY ElsewhereTyped DEF LocationApiTypeOK
<1>3. QED
  BY <1>1, <1>2, ElsewhereTyped DEF Typed


\* A client is let go as before by a command.
LEMMA CommandLetsGo ==
  ASSUME Inv, UNCHANGED <<gData, msgs, mLocationAPI, mClientData>>, NEW d \in Clients
  PROVE  LetGo(d)'
<1>1. LetGo(d)
  BY DEF Inv
<1>2. \A i \in Interfaces :
        /\ Has(msgs', AddOf(i, d)) <=> Has(msgs, AddOf(i, d))
        /\ Has(msgs', CbOf(i, d)) <=> Has(msgs, CbOf(i, d))
        /\ HasThen(msgs', CbOf(i, d), AddOf(i, d)) => HasThen(msgs, CbOf(i, d), AddOf(i, d))
  OBVIOUS
<1>3. QED
  BY <1>1, <1>2, LetGoSame

\* A client makes its LocationAPI object.
LEMMA CreateKeeps ==
  ASSUME Inv, UNCHANGED Elsewhere, NEW c \in Clients, NEW kinds \in Callbacks,
         mLocationAPI[c] = "none", mLocationAPI' = [mLocationAPI EXCEPT ![c] = "made"],
         createInstance(c, kinds),
         UNCHANGED <<mRequestQueues, geofenceSession, mGeofenceBiDict, owner, reqs, calls, past>>
  PROVE  Inv'
<1>1. /\ Typed /\ LocationApiTypeOK /\ mLocationAPI \in [Clients -> {"none", "made", "gone"}]
      /\ UNCHANGED mClientData
  BY DEF Inv, Typed, ClientBaseTypeOK, Elsewhere
<1>2. PICK p : Announces(p, c)
  BY <1>1, CreateFacts
<1>3. /\ loaded \subseteq loaded' /\ loaded' \in SUBSET Installed
      /\ DOMAIN clientData' = DOMAIN clientData \cup {c}
      /\ \A d \in DOMAIN clientData' : clientData'[d] \in SUBSET Interfaces
      /\ UNCHANGED <<destroyClientData, deleted>>
  BY <1>1, CreateFacts
<1>4. p \in Seq(ClientMsgs) /\ Joined(msgs', msgs, p)
  BY <1>2 DEF Announces
<1>5. /\ deleted' \in SUBSET Clients /\ DOMAIN clientData' \subseteq Clients
      /\ DOMAIN destroyClientData' \subseteq Clients
      /\ \A d \in DOMAIN destroyClientData' : destroyClientData'[d] \in (SUBSET Interfaces) \ {{}}
  BY <1>1, <1>3 DEF LocationApiTypeOK
<1>6. \A d \in Clients : mLocationAPI'[d] = "made" <=> d \in DOMAIN clientData'
  <2>1. \A d \in Clients : mLocationAPI[d] = "made" <=> d \in DOMAIN clientData
    BY <1>1 DEF Typed
  <2>2. QED
    BY <1>1, <1>3, <2>1
<1>7. ClientBaseTypeOK'
  <2>1. mLocationAPI' \in [Clients -> {"none", "made", "gone"}]
    BY <1>1
  <2>2. QED
    BY <1>1, <2>1 DEF Typed, ClientBaseTypeOK
<1>8. Typed'
  BY <1>1, <1>3, <1>4, <1>5, <1>6, <1>7, CallbacksTyped
<1>9. \A d \in Clients : LetGo(d)'
  BY <1>1, <1>2, <1>3, AnnounceLetsGo
<1>10. QED
  BY <1>8, <1>9 DEF Inv

\* A client changes its callbacks.
LEMMA UpdateKeeps ==
  ASSUME Inv, UNCHANGED Elsewhere, NEW c \in Clients, NEW kinds \in Callbacks,
         mLocationAPI[c] = "made", NEW what, Count(what), what \subseteq {"impatient", "unserved"},
         updateCallbacks(c, kinds), UNCHANGED <<clientBase, reqs>>
  PROVE  Inv'
<1>1. /\ Typed /\ LocationApiTypeOK /\ mLocationAPI \in [Clients -> {"none", "made", "gone"}]
      /\ UNCHANGED mClientData
      /\ \A d \in Clients : mLocationAPI[d] = "made" <=> d \in DOMAIN clientData
  BY DEF Inv, Typed, ClientBaseTypeOK, Elsewhere
<1>2. c \in DOMAIN clientData
  BY <1>1
<1>3. PICK p : Announces(p, c)
  BY <1>1, <1>2, UpdateFacts
<1>4. /\ loaded \subseteq loaded' /\ loaded' \in SUBSET Installed
      /\ DOMAIN clientData' = DOMAIN clientData
      /\ \A d \in DOMAIN clientData' : clientData'[d] \in SUBSET Interfaces
      /\ UNCHANGED <<destroyClientData, deleted>>
  BY <1>1, <1>2, UpdateFacts
<1>5. p \in Seq(ClientMsgs) /\ Joined(msgs', msgs, p)
  BY <1>3 DEF Announces
<1>6. /\ deleted' \in SUBSET Clients /\ DOMAIN clientData' \subseteq Clients
      /\ DOMAIN destroyClientData' \subseteq Clients
      /\ \A d \in DOMAIN destroyClientData' : destroyClientData'[d] \in (SUBSET Interfaces) \ {{}}
  BY <1>1, <1>4 DEF LocationApiTypeOK
<1>7. ClientBaseTypeOK'
  <2>1. /\ calls' \in 0..MaxCalls
        /\ past' \subseteq {"impatient", "unserved", "failed", "crashed", "again", "suspended",
                            "stale"}
    BY <1>1, HistoryWords
  <2>2. QED
    BY <1>1, <2>1 DEF Typed, ClientBaseTypeOK, clientBase
<1>8. mLocationAPI' = mLocationAPI /\ UNCHANGED reqs
  BY DEF clientBase
<1>9. mLocationAPI' = [mLocationAPI EXCEPT ![c] = "made"]
  BY <1>1, <1>8
<1>10. Typed'
  BY <1>1, <1>4, <1>5, <1>6, <1>7, <1>8, CallbacksTyped
<1>11. \A d \in Clients : LetGo(d)'
  BY <1>1, <1>3, <1>4, <1>9, AnnounceLetsGo
<1>12. QED
  BY <1>10, <1>11 DEF Inv

\* A client goes.
LEMMA DestroyKeeps ==
  ASSUME Inv, UNCHANGED Elsewhere, NEW c \in Clients, NEW what, what \subseteq {"impatient"},
         clientDestroy(c, what)
  PROVE  Inv'
<1>1. /\ Typed /\ LocationApiTypeOK /\ ClientBaseTypeOK
      /\ mLocationAPI \in [Clients -> {"none", "made", "gone"}]
      /\ mRequestQueues \in [Clients -> Seq(1..MaxCalls)] /\ geofenceSession \subseteq Clients
      /\ UNCHANGED mClientData
      /\ \A d \in Clients : mLocationAPI[d] = "made" <=> d \in DOMAIN clientData
  BY DEF Inv, Typed, ClientBaseTypeOK, Elsewhere
<1>2. /\ mLocationAPI[c] = "made" /\ mLocationAPI' = [mLocationAPI EXCEPT ![c] = "gone"]
      /\ mRequestQueues' = [mRequestQueues EXCEPT ![c] = <<>>]
      /\ geofenceSession' = geofenceSession \ {c}
      /\ destroy(c) /\ Count(what) /\ UNCHANGED <<mGeofenceBiDict, owner, reqs>>
  BY DEF clientDestroy
<1>3. PICK p : Dismisses(p, c)
  BY <1>1, <1>2, DestroyFacts
<1>4. /\ loaded' = loaded
      /\ DOMAIN clientData' = DOMAIN clientData \ {c}
      /\ \A d \in DOMAIN clientData' : clientData'[d] \in SUBSET Interfaces
      /\ loaded = {} => destroyClientData' = destroyClientData /\ deleted' = deleted \cup {c}
      /\ loaded # {} => deleted' = deleted /\ destroyClientData' = With(destroyClientData, c, loaded)
  BY <1>1, <1>2, DestroyFacts
<1>5. p \in Seq(ClientMsgs) /\ Joined(msgs', msgs, p)
  BY <1>3 DEF Dismisses
<1>6. /\ loaded' \in SUBSET Installed /\ loaded' \subseteq Interfaces
      /\ deleted' \in SUBSET Clients /\ DOMAIN clientData' \subseteq Clients
  BY <1>1, <1>4, ConstantFacts DEF LocationApiTypeOK
<1>7. /\ DOMAIN destroyClientData' \subseteq Clients
      /\ \A d \in DOMAIN destroyClientData' : destroyClientData'[d] \in (SUBSET Interfaces) \ {{}}
  <2>1. /\ DOMAIN destroyClientData \subseteq Clients
        /\ \A d \in DOMAIN destroyClientData : destroyClientData[d] \in (SUBSET Interfaces) \ {{}}
    BY <1>1 DEF LocationApiTypeOK
  <2>2. CASE loaded = {}
    BY <1>4, <2>1, <2>2
  <2>3. CASE loaded # {}
    <3>1. /\ DOMAIN destroyClientData' = DOMAIN destroyClientData \cup {c}
          /\ destroyClientData'[c] = loaded
          /\ \A x \in DOMAIN destroyClientData \ {c} : destroyClientData'[x] = destroyClientData[x]
      BY <1>4, <2>3 DEF With
    <3>2. ASSUME NEW d \in DOMAIN destroyClientData'
          PROVE  d \in Clients /\ destroyClientData'[d] \in (SUBSET Interfaces) \ {{}}
      <4>1. CASE d = c
        <5>1. loaded \in SUBSET Interfaces /\ loaded \notin {{}}
          BY <1>4, <1>6, <2>3
        <5>2. destroyClientData'[d] = loaded
          BY <3>1, <4>1
        <5>3. QED
          BY <4>1, <5>1, <5>2
      <4>2. CASE d # c
        <5>1. d \in DOMAIN destroyClientData /\ destroyClientData'[d] = destroyClientData[d]
          BY <3>1, <3>2, <4>2
        <5>2. QED
          BY <2>1, <5>1
      <4>3. QED
        BY <4>1, <4>2
    <3>3. QED
      BY <3>2
  <2>4. QED
    BY <2>2, <2>3
<1>8. \A d \in Clients : mLocationAPI'[d] = "made" <=> d \in DOMAIN clientData'
  BY <1>1, <1>2, <1>4
<1>9. ClientBaseTypeOK'
  <2>1. /\ calls' \in 0..MaxCalls
        /\ past' \subseteq {"impatient", "unserved", "failed", "crashed", "again", "suspended",
                            "stale"}
    BY <1>1, <1>2, HistoryWords
  <2>2. mLocationAPI' \in [Clients -> {"none", "made", "gone"}]
    BY <1>1, <1>2
  <2>3. mRequestQueues' \in [Clients -> Seq(1..MaxCalls)]
    <3>1. <<>> \in Seq(1..MaxCalls)
      BY EmptySeq
    <3>2. QED
      BY <1>1, <1>2, <3>1
  <2>4. geofenceSession' \subseteq Clients
    BY <1>1, <1>2
  <2>5. QED
    BY <1>1, <1>2, <2>1, <2>2, <2>3, <2>4 DEF ClientBaseTypeOK
<1>10. Typed'
  BY <1>1, <1>2, <1>5, <1>6, <1>7, <1>8, <1>9, <1>4, CallbacksTyped
<1>11. \A d \in Clients : LetGo(d)'
  BY <1>1, <1>2, DestroyLetsGo
<1>12. QED
  BY <1>10, <1>11 DEF Inv

\* The calls of clients.
LEMMA ClientKeeps ==
  ASSUME Inv, Client
  PROVE  Inv'
<1>1. Typed /\ UNCHANGED Elsewhere
  BY DEF Inv, Client, adapter, Elsewhere
<1>2. \A S : Impatient(S) \subseteq {"impatient"}
  BY DEF Impatient
<1>3. UNCHANGED mClientData
  BY <1>1 DEF Elsewhere
<1>4. ASSUME NEW c \in Clients, NEW kinds \in Callbacks,
             locAPISetCallbacks(c, kinds, Impatient(Of(c)))
      PROVE  Inv'
  <2> DEFINE what == IF "geofence" \in clientData[c] \ kinds
                     THEN Impatient(Of(c)) \cup {"unserved"} ELSE {}
  <2>1. CASE mLocationAPI[c] = "none"
    BY <1>1, <1>4, <2>1, CreateKeeps DEF locAPISetCallbacks
  <2>2. CASE mLocationAPI[c] # "none"
    <3>1. /\ mLocationAPI[c] = "made" /\ Count(what) /\ updateCallbacks(c, kinds)
          /\ UNCHANGED <<clientBase, reqs>>
      BY <1>4, <2>2 DEF locAPISetCallbacks
    <3>2. what \subseteq {"impatient", "unserved"}
      BY <1>2
    <3> HIDE DEF what
    <3>3. QED
      BY <1>1, <3>1, <3>2, UpdateKeeps
  <2>3. QED
    BY <2>1, <2>2
<1>5. ASSUME NEW c \in Clients, clientDestroy(c, Impatient(Of(c)))
      PROVE  Inv'
  BY <1>1, <1>2, <1>5, DestroyKeeps
<1>6. ASSUME NEW c \in Clients, NEW k \in 1..MaxFences, NEW o \in Options,
             locAPIAddGeofences(c, [i \in 1..k |-> o])
      PROVE  Inv'
  <2>1. Typed' /\ UNCHANGED <<gData, msgs, mLocationAPI>>
    BY <1>1, <1>6, AddFacts
  <2>2. \A d \in Clients : LetGo(d)'
    BY <1>3, <2>1, CommandLetsGo
  <2>3. QED
    BY <2>1, <2>2 DEF Inv
<1>7. ASSUME NEW c \in Clients, NEW op \in Operations \ {"add"}, NEW ids \in IdSeqs,
             NEW options \in Seq(Options), op = "modify" => Len(options) = Len(ids),
             NEW S, CallFor(op, c, ids, options, Impatient(S)),
             mGeofenceBiDict' \in [Clients -> SUBSET Ids]
      PROVE  Inv'
  <2>1. Typed'
    BY <1>1, <1>2, <1>7, CallForFacts
  <2>2. UNCHANGED <<gData, msgs, mLocationAPI>>
    BY <1>7 DEF CallFor
  <2>3. \A d \in Clients : LetGo(d)'
    BY <1>3, <2>2, CommandLetsGo
  <2>4. QED
    BY <2>1, <2>3 DEF Inv
<1>8. mGeofenceBiDict \in [Clients -> SUBSET Ids] /\ <<>> \in Seq(Options)
  BY <1>1, EmptySeq DEF Typed, ClientBaseTypeOK
<1>9. ASSUME NEW c \in Clients, NEW ids \in IdSeqs,
             \/ locAPIRemoveGeofences(c, ids, Impatient(Range(ids)))
             \/ locAPIPauseGeofences(c, ids, Impatient(Range(ids)))
             \/ locAPIResumeGeofences(c, ids, Impatient(Range(ids)))
      PROVE  Inv'
  <2>1. CASE locAPIRemoveGeofences(c, ids, Impatient(Range(ids)))
    <3>1. CallFor("remove", c, ids, <<>>, Impatient(Range(ids)))
          /\ mGeofenceBiDict' \in [Clients -> SUBSET Ids]
      BY <1>8, <2>1 DEF locAPIRemoveGeofences
    <3>2. "remove" \in Operations \ {"add"}
      BY DEF Operations
    <3>3. QED
      BY <1>7, <1>8, <3>1, <3>2
  <2>2. CASE locAPIPauseGeofences(c, ids, Impatient(Range(ids)))
    <3>1. CallFor("pause", c, ids, <<>>, Impatient(Range(ids)))
          /\ mGeofenceBiDict' \in [Clients -> SUBSET Ids]
      BY <1>8, <2>2 DEF locAPIPauseGeofences
    <3>2. "pause" \in Operations \ {"add"}
      BY DEF Operations
    <3>3. QED
      BY <1>7, <1>8, <3>1, <3>2
  <2>3. CASE locAPIResumeGeofences(c, ids, Impatient(Range(ids)))
    <3>1. CallFor("resume", c, ids, <<>>, Impatient(Range(ids)))
          /\ mGeofenceBiDict' \in [Clients -> SUBSET Ids]
      BY <1>8, <2>3 DEF locAPIResumeGeofences
    <3>2. "resume" \in Operations \ {"add"}
      BY DEF Operations
    <3>3. QED
      BY <1>7, <1>8, <3>1, <3>2
  <2>4. QED
    BY <1>9, <2>1, <2>2, <2>3
<1>10. ASSUME NEW c \in Clients, NEW ids \in IdSeqs, NEW o \in Options,
              locAPIModifyGeofences(c, ids, [i \in DOMAIN ids |-> o], Impatient(Range(ids)))
       PROVE  Inv'
  <2> DEFINE options == [i \in DOMAIN ids |-> o]
  <2>1. CallFor("modify", c, ids, options, Impatient(Range(ids)))
        /\ mGeofenceBiDict' \in [Clients -> SUBSET Ids] /\ "modify" \in Operations \ {"add"}
    BY <1>8, <1>10 DEF locAPIModifyGeofences, Operations
  <2>2. options \in Seq(Options) /\ Len(options) = Len(ids)
    <3>1. Len(ids) \in 1..MaxFences /\ DOMAIN ids = 1..Len(ids)
      BY SelectedFacts
    <3>2. Len(ids) \in Nat /\ options \in [1..Len(ids) -> Options]
      BY <3>1, ConstantFacts
    <3> HIDE DEF options
    <3>3. QED
      BY <3>2, FunctionIsSeq
  <2> HIDE DEF options
  <2>3. QED
    BY <1>7, <2>1, <2>2
<1>11. QED
  BY <1>4, <1>5, <1>6, <1>9, <1>10 DEF Client

-----------------------------------------------------------------------------
(* What is common to the steps of the adapter and of LocApi.               *)

Words == {"impatient", "unserved", "failed", "crashed", "again", "suspended", "stale"}

\* Those steps change no object of LocationAPI and no fence of a client.
LEMMA TypedAgain ==
  ASSUME Typed, UNCHANGED <<gData, mClientData, mLocationAPI, geofenceSession, mGeofenceBiDict, owner>>,
         mRequestQueues' \in [Clients -> Seq(1..MaxCalls)], calls' \in 0..MaxCalls,
         past' \subseteq Words,
         mGeofences' \in [HwIds -> Fences \cup {NoFence}],
         mGeofenceIds' \in [Ids -> HwIds \cup {NoHwId}],
         mSystemPowerState' \in {"unknown", "suspend", "resume"},
         msgs' \in Seq(Msgs), reqs' \in Seq(Turnings \cup Made), down' \in BOOLEAN,
         modem' \in [HwIds -> Fences \cup {NoFence}], askedPaused' \subseteq Ids
  PROVE  Typed'
<1>1. LocationApiTypeOK'
  BY DEF Typed, LocationApiTypeOK, gData
<1>2. ClientBaseTypeOK'
  BY DEF Typed, ClientBaseTypeOK, Words
<1>3. \A c \in Clients : mLocationAPI'[c] = "made" <=> c \in DOMAIN clientData'
  BY DEF Typed, gData
<1>4. QED
  BY <1>1, <1>2, <1>3 DEF Typed

\* The types one by one.
LEMMA TypesOf ==
  ASSUME Typed
  PROVE  /\ mRequestQueues \in [Clients -> Seq(1..MaxCalls)] /\ calls \in 0..MaxCalls
         /\ past \subseteq Words
         /\ mGeofences \in [HwIds -> Fences \cup {NoFence}]
         /\ mGeofenceIds \in [Ids -> HwIds \cup {NoHwId}]
         /\ mSystemPowerState \in {"unknown", "suspend", "resume"}
         /\ msgs \in Seq(Msgs) /\ reqs \in Seq(Turnings \cup Made) /\ down \in BOOLEAN
         /\ modem \in [HwIds -> Fences \cup {NoFence}] /\ askedPaused \subseteq Ids
         /\ owner \in [Ids -> Clients \cup {NoClient}]
         /\ mClientData \in [Interfaces -> SUBSET Clients]
BY DEF Typed, ClientBaseTypeOK, LocationApiTypeOK, Words

\* The first message is taken.
LEMMA Taken ==
  ASSUME Typed, NEW kind, Take(kind)
  PROVE  /\ Head(msgs) \in Msgs /\ Head(msgs).kind = kind /\ msgs' = Tail(msgs)
         /\ msgs' \in Seq(Msgs)
         /\ \A V : Has(msgs, V) <=> Head(msgs) \in V \/ Has(msgs', V)
         /\ \A V, W : HasThen(msgs, V, W) <=>
                       HasThen(msgs', V, W) \/ (Head(msgs) \in V /\ Has(msgs', W))
<1>1. msgs \in Seq(Msgs) /\ msgs # <<>> /\ Head(msgs).kind = kind /\ msgs' = Tail(msgs)
  BY DEF Typed, Take
<1>2. Head(msgs) \in Msgs
  BY <1>1, HeadFirst
<1>3. QED
  BY <1>1, <1>2, TailHas, Zenon

\* A message that is not about a client lets go of none.
LEMMA TakeLetsGo ==
  ASSUME Inv, NEW kind, Take(kind), kind \notin {"addClient", "removeClient"},
         UNCHANGED <<gData, mLocationAPI, mClientData>>, NEW d \in Clients
  PROVE  LetGo(d)'
<1>1. Typed /\ LetGo(d)
  BY DEF Inv
<1>2. Head(msgs) \in Msgs /\ Head(msgs).kind = kind
  BY <1>1, Taken
<1>3. Head(msgs) \notin ClientMsgs
  BY <1>2, MsgCases
<1>4. ASSUME NEW i \in Interfaces
      PROVE  /\ Has(msgs', AddOf(i, d)) <=> Has(msgs, AddOf(i, d))
             /\ Has(msgs', CbOf(i, d)) <=> Has(msgs, CbOf(i, d))
             /\ HasThen(msgs', CbOf(i, d), AddOf(i, d)) => HasThen(msgs, CbOf(i, d), AddOf(i, d))
  <2>1. Head(msgs) \notin AddOf(i, d) /\ Head(msgs) \notin CbOf(i, d)
    BY <1>3 DEF AddOf, CbOf
  <2>2. QED
    BY <1>1, <2>1, Taken
<1>5. QED
  BY <1>1, <1>4, LetGoSame

\* Neither does one that comes.
LEMMA AppendLetsGo ==
  ASSUME Inv, NEW x \in Msgs \ ClientMsgs, Extended(msgs', msgs, x),
         UNCHANGED <<gData, mLocationAPI, mClientData>>, NEW d \in Clients
  PROVE  LetGo(d)'
<1>1. Typed /\ LetGo(d) /\ msgs \in Seq(Msgs) /\ x \in Msgs
  BY DEF Inv, Typed
<1>2. ASSUME NEW i \in Interfaces
      PROVE  /\ Has(msgs', AddOf(i, d)) <=> Has(msgs, AddOf(i, d))
             /\ Has(msgs', CbOf(i, d)) <=> Has(msgs, CbOf(i, d))
             /\ HasThen(msgs', CbOf(i, d), AddOf(i, d)) => HasThen(msgs, CbOf(i, d), AddOf(i, d))
  <2>1. x \notin AddOf(i, d) /\ x \notin CbOf(i, d)
    BY DEF AddOf, CbOf
  <2>2. QED
    BY <1>1, <2>1, AppendHas
<1>3. QED
  BY <1>1, <1>2, LetGoSame

\* Elements of a set in some order.
LEMMA OrderFacts ==
  ASSUME NEW S, IsFiniteSet(S), NEW order \in Orders(S)
  PROVE  /\ order \in Seq(S) /\ Len(order) \in Nat /\ DOMAIN order = 1..Len(order)
         /\ \A k \in DOMAIN order : order[k] \in S
<1>1. order \in [1..Cardinality(S) -> S]
  BY DEF Orders
<1>2. Cardinality(S) \in Nat
  BY FS_CardinalityType
<1>3. QED
  BY <1>1, <1>2, FunctionIsSeq

\* Requests that are made for the elements of a sequence.
LEMMA Asked ==
  ASSUME Typed, NEW n \in Nat, NEW p \in [1..n -> Made], reqs' = reqs \o p
  PROVE  reqs' \in Seq(Turnings \cup Made) /\ p \in Seq(Turnings \cup Made) /\ Joined(reqs', reqs, p)
<1>1. p \in Seq(Made)
  BY FunctionIsSeq
<1>2. p \in Seq(Turnings \cup Made)
  BY <1>1, SeqMonotonic
<1>3. Joined(reqs', reqs, p)
  BY DEF Joined
<1>4. QED
  BY <1>2, <1>3, QueueTyped

\* One request that is made.
LEMMA AskedOne ==
  ASSUME Typed, NEW r \in Turnings \cup Made, reqs' = Append(reqs, r)
  PROVE  reqs' \in Seq(Turnings \cup Made)
BY AppendProperties DEF Typed

\* A response takes a request out of the queue of its client or changes nothing.
LEMMA ResponseTyped ==
  ASSUME Typed, NEW m, NEW i, reportResponse(m, i) \/ UNCHANGED clientBase
  PROVE  /\ UNCHANGED <<mLocationAPI, geofenceSession, mGeofenceBiDict, owner>>
         /\ mRequestQueues' \in [Clients -> Seq(1..MaxCalls)]
<1>1. mRequestQueues \in [Clients -> Seq(1..MaxCalls)]
  BY TypesOf
<1>2. CASE UNCHANGED clientBase
  BY <1>1, <1>2 DEF clientBase
<1>3. CASE ~UNCHANGED clientBase
  <2>1. onCollectiveResponseCb(m.client)
        /\ UNCHANGED <<mLocationAPI, geofenceSession, mGeofenceBiDict, owner>>
    BY <1>3 DEF reportResponse
  <2>2. CASE mRequestQueues' = mRequestQueues
    BY <1>1, <2>1, <2>2
  <2>3. CASE mRequestQueues' # mRequestQueues
    <3>1. /\ m.client \in geofenceSession /\ mRequestQueues[m.client] # <<>>
          /\ mRequestQueues' = [mRequestQueues EXCEPT ![m.client] = Tail(@)]
      BY <2>1, <2>3 DEF onCollectiveResponseCb
    <3>2. m.client \in Clients
      BY <3>1 DEF Typed, ClientBaseTypeOK
    <3>3. mRequestQueues[m.client] \in Seq(1..MaxCalls)
      BY <1>1, <3>2
    <3>4. Tail(mRequestQueues[m.client]) \in Seq(1..MaxCalls)
      BY <3>1, <3>3, HeadTailProperties
    <3>5. QED
      BY <1>1, <2>1, <3>1, <3>4
  <2>4. QED
    BY <2>2, <2>3
<1>4. QED
  BY <1>2, <1>3

\* An item is changed: its fence, and it is an item before and after.
LEMMA UpdateTyped ==
  ASSUME Typed, NEW h \in HwIds, NEW f, UpdateItem(h, f),
         mGeofences[h] # NoFence => f \in Fences
  PROVE  /\ mGeofences' \in [HwIds -> Fences \cup {NoFence}]
         /\ mGeofenceIds' \in [Ids -> HwIds \cup {NoHwId}]
<1>1. /\ mGeofences \in [HwIds -> Fences \cup {NoFence}]
      /\ mGeofenceIds \in [Ids -> HwIds \cup {NoHwId}]
  BY TypesOf
<1>2. mGeofenceIds' = mGeofenceIds /\ mGeofences' = IF mGeofences[h] # NoFence
                                                    THEN [mGeofences EXCEPT ![h] = f]
                                                    ELSE mGeofences
  BY DEF UpdateItem
<1>3. QED
  BY <1>1, <1>2

\* The operations on the maps.
LEMMA ItemsTyped ==
  ASSUME Typed, NEW h \in HwIds,
         \/ \E id \in Ids, o \in Options : saveGeofenceItem(h, id, o)
         \/ removeGeofenceItem(h) \/ pauseGeofenceItem(h) \/ resumeGeofenceItem(h)
         \/ \E o \in Options : modifyGeofenceItem(h, o)
  PROVE  /\ mGeofences' \in [HwIds -> Fences \cup {NoFence}]
         /\ mGeofenceIds' \in [Ids -> HwIds \cup {NoHwId}]
<1>1. /\ mGeofences \in [HwIds -> Fences \cup {NoFence}]
      /\ mGeofenceIds \in [Ids -> HwIds \cup {NoHwId}]
  BY TypesOf
<1>2. ASSUME NEW id \in Ids, NEW o \in Options, saveGeofenceItem(h, id, o)
      PROVE  /\ mGeofences' \in [HwIds -> Fences \cup {NoFence}]
             /\ mGeofenceIds' \in [Ids -> HwIds \cup {NoHwId}]
  <2>1. Fence(id, o, FALSE) \in Fences
    BY FenceFacts
  <2>2. QED
    BY <1>1, <1>2, <2>1 DEF saveGeofenceItem
<1>3. CASE removeGeofenceItem(h)
  <2>1. CASE UNCHANGED <<mGeofences, mGeofenceIds>>
    BY <1>1, <2>1
  <2>2. CASE ~UNCHANGED <<mGeofences, mGeofenceIds>>
    BY <1>1, <1>3, <2>2 DEF removeGeofenceItem
  <2>3. QED
    BY <2>1, <2>2
<1>4. ASSUME mGeofences[h] # NoFence PROVE mGeofences[h] \in Fences
  BY <1>1, <1>4
<1>5. CASE pauseGeofenceItem(h)
  <2>1. mGeofences[h] # NoFence => [mGeofences[h] EXCEPT !.paused = TRUE] \in Fences
    BY <1>4 DEF Fences
  <2>2. QED
    BY <1>5, <2>1, UpdateTyped DEF pauseGeofenceItem
<1>6. CASE resumeGeofenceItem(h)
  <2>1. mGeofences[h] # NoFence => [mGeofences[h] EXCEPT !.paused = FALSE] \in Fences
    BY <1>4 DEF Fences
  <2>2. QED
    BY <1>6, <2>1, UpdateTyped DEF resumeGeofenceItem
<1>7. ASSUME NEW o \in Options, modifyGeofenceItem(h, o)
      PROVE  /\ mGeofences' \in [HwIds -> Fences \cup {NoFence}]
             /\ mGeofenceIds' \in [Ids -> HwIds \cup {NoHwId}]
  <2>1. mGeofences[h] # NoFence => [mGeofences[h] EXCEPT !.options = o] \in Fences
    BY <1>4 DEF Fences
  <2>2. QED
    BY <1>7, <2>1, UpdateTyped DEF modifyGeofenceItem
<1>8. QED
  BY <1>2, <1>3, <1>5, <1>6, <1>7

-----------------------------------------------------------------------------
(* The messages of the adapters' thread.                                   *)

\* A client is added.
LEMMA AddClientKeeps == Inv /\ MsgAddClient => Inv'
<1> SUFFICES ASSUME Inv, MsgAddClient PROVE Inv'
  OBVIOUS
<1> DEFINE m == Head(msgs)
<1>1. /\ Typed /\ Take("addClient")
      /\ mClientData' = [mClientData EXCEPT ![m.interface] = @ \cup {m.client}]
      /\ UNCHANGED <<gData, clientBase, calls, history, adapter, locApi>>
  BY DEF Inv, MsgAddClient, saveClient
<1>2. /\ m \in Msgs /\ m.kind = "addClient" /\ msgs' \in Seq(Msgs)
      /\ \A V : Has(msgs, V) <=> m \in V \/ Has(msgs', V)
      /\ \A V, W : HasThen(msgs, V, W) <=> HasThen(msgs', V, W) \/ (m \in V /\ Has(msgs', W))
  BY <1>1, Taken
<1> HIDE DEF m
<1>3. m \in ClientMsgs /\ m.interface \in Interfaces /\ m.client \in Clients
  <2>1. m \in ClientMsgs
    BY <1>2, MsgCases
  <2>2. QED
    BY <2>1 DEF ClientMsgs
<1>4. Typed'
  <2>1. mClientData' \in [Interfaces -> SUBSET Clients]
    BY <1>1, <1>3, TypesOf
  <2>2. LocationApiTypeOK'
    BY <1>1, <2>1 DEF Typed, LocationApiTypeOK, gData
  <2>3. QED
    BY <1>1, <1>2, <2>2 DEF Typed, ClientBaseTypeOK, gData, clientBase, history, adapter, locApi
<1>5. ASSUME NEW d \in Clients PROVE LetGo(d)'
  <2>1. LetGo(d)
    BY DEF Inv
  <2>2. /\ UNCHANGED <<mLocationAPI, deleted, destroyClientData, loaded>>
        /\ \A i \in Interfaces : Awaited(i, d)' <=> Awaited(i, d)
    BY <1>1 DEF gData, clientBase, Awaited
  <2>3. ASSUME NEW i \in Interfaces
        PROVE  /\ Has(msgs, AddOf(i, d)) <=> m \in AddOf(i, d) \/ Has(msgs', AddOf(i, d))
               /\ Has(msgs', CbOf(i, d)) <=> Has(msgs, CbOf(i, d))
               /\ HasThen(msgs', CbOf(i, d), AddOf(i, d)) => HasThen(msgs, CbOf(i, d), AddOf(i, d))
               /\ d \in mClientData'[i] <=> d \in mClientData[i] \/ m \in AddOf(i, d)
    <3>1. m \notin CbOf(i, d)
      BY <1>2 DEF CbOf
    <3>2. m \in AddOf(i, d) <=> m.interface = i /\ m.client = d
      BY <1>2, <1>3 DEF AddOf
    <3>3. mClientData \in [Interfaces -> SUBSET Clients]
      BY <1>1, TypesOf
    <3>4. QED
      BY <1>1, <1>2, <3>1, <3>2, <3>3
  <2>4. QED
    BY <2>1, <2>2, <2>3 DEF LetGo
<1>6. QED
  BY <1>4, <1>5 DEF Inv

\* An adapter has removed a client for the last time: it is waited for no more.
LEMMA MaskFacts ==
  ASSUME Typed, NEW c \in Clients, NEW i \in Interfaces, onRemoveClientCompleteCb(c, i),
         UNCHANGED <<clientData, loaded>>
  PROVE  /\ DOMAIN destroyClientData' \subseteq DOMAIN destroyClientData
         /\ \A d \in DOMAIN destroyClientData' :
              destroyClientData'[d] \in (SUBSET Interfaces) \ {{}}
         /\ deleted' \subseteq Clients
         /\ \A d \in Clients :
              /\ d \in deleted' \cup DOMAIN destroyClientData' <=>
                   d \in deleted \cup DOMAIN destroyClientData
              /\ d \in deleted' => d \in deleted \/ d \notin DOMAIN destroyClientData'
              /\ \A j \in Interfaces : Awaited(j, d)' <=> Awaited(j, d) /\ ~(d = c /\ j = i)
<1>1. /\ deleted \subseteq Clients
      /\ \A d \in DOMAIN destroyClientData :
           destroyClientData[d] \in (SUBSET Interfaces) \ {{}}
  BY DEF Typed, LocationApiTypeOK
<1>2. CASE c \notin DOMAIN destroyClientData
  <2>1. UNCHANGED <<destroyClientData, deleted>>
    BY <1>2 DEF onRemoveClientCompleteCb
  <2>2. \A d \in Clients, j \in Interfaces :
          Awaited(j, d)' <=> Awaited(j, d) /\ ~(d = c /\ j = i)
    BY <1>2, <2>1 DEF Awaited
  <2>3. QED
    BY <1>1, <2>1, <2>2
<1>3. CASE c \in DOMAIN destroyClientData
  <2> DEFINE mask == destroyClientData[c] \ {i}
  <2>1. CASE mask = {}
    <3>1. destroyClientData' = Without(destroyClientData, c) /\ deleted' = deleted \cup {c}
      BY <1>3, <2>1 DEF onRemoveClientCompleteCb
    <3>2. /\ DOMAIN destroyClientData' = DOMAIN destroyClientData \ {c}
          /\ \A x \in DOMAIN destroyClientData \ {c} : destroyClientData'[x] = destroyClientData[x]
      BY <3>1 DEF Without
    <3>3. ASSUME NEW d \in Clients, NEW j \in Interfaces
          PROVE  Awaited(j, d)' <=> Awaited(j, d) /\ ~(d = c /\ j = i)
      BY <1>3, <2>1, <3>2 DEF Awaited
    <3>4. QED
      BY <1>1, <1>3, <3>1, <3>2, <3>3
  <2>2. CASE mask # {}
    <3>1. destroyClientData' = [destroyClientData EXCEPT ![c] = mask] /\ deleted' = deleted
      BY <1>3, <2>2 DEF onRemoveClientCompleteCb
    <3>2. mask \in (SUBSET Interfaces) \ {{}}
      BY <1>1, <1>3, <2>2
    <3>3. ASSUME NEW d \in Clients, NEW j \in Interfaces
          PROVE  Awaited(j, d)' <=> Awaited(j, d) /\ ~(d = c /\ j = i)
      BY <1>3, <3>1 DEF Awaited
    <3> HIDE DEF mask
    <3>4. /\ DOMAIN destroyClientData' = DOMAIN destroyClientData
          /\ \A d \in DOMAIN destroyClientData' :
               destroyClientData'[d] \in (SUBSET Interfaces) \ {{}}
      BY <1>1, <3>1, <3>2
    <3>5. QED
      BY <1>1, <3>1, <3>3, <3>4
  <2>3. QED
    BY <2>1, <2>2
<1>4. QED
  BY <1>2, <1>3

\* The sessions of a client are stopped.
LEMMA StopTyped ==
  ASSUME Typed, NEW c \in Clients, NEW order \in Orders({id \in Of(c) : mGeofenceIds[id] # NoHwId}),
         stopClientSessions(c, order)
  PROVE  mGeofenceIds' \in [Ids -> HwIds \cup {NoHwId}] /\ reqs' \in Seq(Turnings \cup Made)
<1> DEFINE S == {id \in Of(c) : mGeofenceIds[id] # NoHwId}
           p == [k \in DOMAIN order |->
                   Request("remove", mGeofenceIds[order[k]], NoFence, "stopped")]
<1>1. mGeofenceIds \in [Ids -> HwIds \cup {NoHwId}] /\ S \subseteq Ids
  BY TypesOf DEF Of
<1>2. IsFiniteSet(S)
  <2>1. Ids = 1..MaxFences /\ MaxFences \in Nat
    BY ConstantFacts
  <2>2. IsFiniteSet(Ids)
    BY <2>1, FS_Interval
  <2> HIDE DEF S
  <2>3. QED
    BY <1>1, <2>2, FS_Subset
<1>3. \A id \in S : mGeofenceIds[id] \in HwIds
  BY <1>1
<1>4. reqs' = reqs \o p
      /\ mGeofenceIds' = [id \in Ids |-> IF owner[id] = c THEN NoHwId ELSE mGeofenceIds[id]]
  BY DEF stopClientSessions
<1>5. Len(order) \in Nat /\ DOMAIN order = 1..Len(order) /\ \A k \in DOMAIN order : order[k] \in S
  <2> HIDE DEF S
  <2>1. order \in Orders(S)
    BY DEF S
  <2>2. QED
    BY <1>2, <2>1, OrderFacts
<1> HIDE DEF S
<1>6. p \in [1..Len(order) -> Made]
  <2>1. ASSUME NEW k \in DOMAIN order
        PROVE  Request("remove", mGeofenceIds[order[k]], NoFence, "stopped") \in Made
    <3>1. mGeofenceIds[order[k]] \in HwIds
      BY <1>3, <1>5
    <3>2. QED
      BY <3>1, RequestsMade DEF Made
  <2>2. QED
    BY <1>5, <2>1
<1> HIDE DEF p
<1>7. reqs' \in Seq(Turnings \cup Made)
  BY <1>4, <1>5, <1>6, Asked
<1>8. mGeofenceIds' \in [Ids -> HwIds \cup {NoHwId}]
  BY <1>1, <1>4
<1>9. QED
  BY <1>7, <1>8

\* A client is removed.
LEMMA RemoveClientKeeps == Inv /\ MsgRemoveClient => Inv'
<1> SUFFICES ASSUME Inv, MsgRemoveClient PROVE Inv'
  OBVIOUS
<1> DEFINE m == Head(msgs)
<1>1. /\ Typed /\ Take("removeClient")
      /\ m.interface # "geofence" => UNCHANGED <<mGeofenceIds, reqs, past>>
      /\ m.interface = "geofence" =>
           \E order \in Orders({id \in Of(m.client) : mGeofenceIds[id] # NoHwId}) :
             /\ stopClientSessions(m.client, order)
             /\ past' = IF order = <<>> THEN past ELSE past \cup Stale
      /\ mClientData' = [mClientData EXCEPT ![m.interface] = @ \ {m.client}]
      /\ m.cb => onRemoveClientCompleteCb(m.client, m.interface)
      /\ ~m.cb => UNCHANGED <<destroyClientData, deleted>>
      /\ UNCHANGED <<clientData, loaded, clientBase, calls, askedPaused, mGeofences,
                     mSystemPowerState, down, modem>>
  BY DEF Inv, MsgRemoveClient, eraseClient
<1>2. /\ m \in Msgs /\ m.kind = "removeClient" /\ msgs' \in Seq(Msgs)
      /\ \A V : Has(msgs, V) <=> m \in V \/ Has(msgs', V)
      /\ \A V, W : HasThen(msgs, V, W) <=> HasThen(msgs', V, W) \/ (m \in V /\ Has(msgs', W))
  BY <1>1, Taken
<1> HIDE DEF m
<1>3. m \in ClientMsgs /\ m.interface \in Interfaces /\ m.client \in Clients /\ m.cb \in BOOLEAN
  <2>1. m \in ClientMsgs
    BY <1>2, MsgCases
  <2>2. QED
    BY <2>1 DEF ClientMsgs
<1>4. /\ DOMAIN destroyClientData' \subseteq DOMAIN destroyClientData
      /\ \A d \in DOMAIN destroyClientData' :
           destroyClientData'[d] \in (SUBSET Interfaces) \ {{}}
      /\ deleted' \subseteq Clients
      /\ \A d \in Clients :
           /\ d \in deleted' \cup DOMAIN destroyClientData' <=>
                d \in deleted \cup DOMAIN destroyClientData
           /\ d \in deleted' => d \in deleted \/ d \notin DOMAIN destroyClientData'
           /\ \A j \in Interfaces :
                Awaited(j, d)' <=> Awaited(j, d) /\ ~(m.cb /\ d = m.client /\ j = m.interface)
  <2>1. CASE m.cb
    BY <1>1, <1>3, <2>1, MaskFacts
  <2>2. CASE ~m.cb
    <3>1. UNCHANGED <<destroyClientData, deleted>>
      BY <1>1, <2>2
    <3>2. QED
      BY <1>1, <2>2, <3>1 DEF Typed, LocationApiTypeOK, Awaited
  <2>3. QED
    BY <2>1, <2>2
<1>5. Typed'
  <2>1. mClientData' \in [Interfaces -> SUBSET Clients]
    BY <1>1, <1>3, TypesOf
  <2>2. LocationApiTypeOK'
    BY <1>1, <1>4, <2>1 DEF Typed, LocationApiTypeOK
  <2>3. /\ mGeofenceIds' \in [Ids -> HwIds \cup {NoHwId}] /\ reqs' \in Seq(Turnings \cup Made)
        /\ past' \subseteq Words
    <3>1. CASE m.interface # "geofence"
      BY <1>1, <3>1, TypesOf
    <3>2. CASE m.interface = "geofence"
      <4>1. PICK order \in Orders({id \in Of(m.client) : mGeofenceIds[id] # NoHwId}) :
              /\ stopClientSessions(m.client, order)
              /\ past' = IF order = <<>> THEN past ELSE past \cup Stale
        BY <1>1, <3>2
      <4>2. past' \subseteq Words
        BY <1>1, <4>1, TypesOf DEF Stale, Words
      <4>3. QED
        BY <1>1, <1>3, <4>1, <4>2, StopTyped
    <3>3. QED
      BY <3>1, <3>2
  <2>4. ClientBaseTypeOK'
    BY <1>1, <2>3 DEF Typed, ClientBaseTypeOK, clientBase, Words
  <2>5. QED
    BY <1>1, <1>2, <2>2, <2>3, <2>4 DEF Typed, clientBase
<1>6. ASSUME NEW d \in Clients PROVE LetGo(d)'
  <2>1. LetGo(d)
    BY DEF Inv
  <2>2. UNCHANGED <<mLocationAPI, loaded>>
    BY <1>1 DEF clientBase
  <2>3. ASSUME NEW i \in Interfaces
        PROVE  /\ Has(msgs', AddOf(i, d)) <=> Has(msgs, AddOf(i, d))
               /\ Has(msgs, CbOf(i, d)) <=> m \in CbOf(i, d) \/ Has(msgs', CbOf(i, d))
               /\ m \in CbOf(i, d) => ~Has(msgs, AddOf(i, d)) /\ d \notin mClientData'[i]
               /\ HasThen(msgs', CbOf(i, d), AddOf(i, d)) => HasThen(msgs, CbOf(i, d), AddOf(i, d))
               /\ d \in mClientData'[i] => d \in mClientData[i]
               /\ m \in CbOf(i, d) <=> m.cb /\ d = m.client /\ i = m.interface
    <3>1. m \notin AddOf(i, d)
      BY <1>2 DEF AddOf
    <3>2. m \in CbOf(i, d) <=> m.cb /\ d = m.client /\ i = m.interface
      BY <1>2, <1>3 DEF CbOf
    <3>3. mClientData \in [Interfaces -> SUBSET Clients]
      BY <1>1, TypesOf
    <3>4. d \in mClientData'[i] <=> d \in mClientData[i] /\ ~(d = m.client /\ i = m.interface)
      BY <1>1, <1>3, <3>3
    <3>5. ~HasThen(msgs, CbOf(i, d), AddOf(i, d))
      BY <2>1 DEF LetGo
    <3>6. QED
      BY <1>2, <3>1, <3>2, <3>4, <3>5
  <2>4. /\ mLocationAPI'[d] = "gone" <=> d \in deleted' \cup DOMAIN destroyClientData'
        /\ d \in deleted' => d \notin DOMAIN destroyClientData'
    BY <1>4, <2>1, <2>2 DEF LetGo
  <2>5. ASSUME NEW i \in Interfaces
        PROVE  /\ mLocationAPI'[d] # "gone" => ~Has(msgs', CbOf(i, d))
               /\ ~HasThen(msgs', CbOf(i, d), AddOf(i, d))
               /\ Awaited(i, d)' => Has(msgs', CbOf(i, d))
               /\ mLocationAPI'[d] = "gone" /\ ~Awaited(i, d)' =>
                    d \notin mClientData'[i] /\ ~Has(msgs', AddOf(i, d))
               /\ d \in mClientData'[i] \/ Has(msgs', AddOf(i, d)) => i \in loaded'
    <3>1. Awaited(i, d)' <=> Awaited(i, d) /\ ~(m \in CbOf(i, d))
      BY <1>4, <2>3
    <3>2. QED
      BY <2>1, <2>2, <2>3, <3>1 DEF LetGo
  <2>6. QED
    BY <2>4, <2>5 DEF LetGo
<1>7. QED
  BY <1>5, <1>6 DEF Inv

\* A fence has its turn.
LEMMA InTurnKeeps == Inv /\ InTurn => Inv'
<1> SUFFICES ASSUME Inv, InTurn PROVE Inv'
  OBVIOUS
<1> DEFINE m == It.command
           id == m.ids[It.i]
           hwId == mGeofenceIds[id]
<1>1. /\ Typed /\ Take("turn")
      /\ UNCHANGED <<gData, mClientData, calls, askedPaused, adapter, down, modem>>
      /\ past' = IF m.op # "add" /\ hwId # NoHwId THEN past \cup Stale ELSE past
      /\ \/ /\ m.op \in {"add", "modify"} /\ (m.op # "add" => hwId # NoHwId)
            /\ reqs' = Append(reqs, Ask(m, It.i, hwId, Fence(id, m.options[It.i], FALSE)))
            /\ UNCHANGED clientBase
         \/ /\ m.op \in {"remove", "pause", "resume"} /\ hwId # NoHwId
            /\ reqs' = Append(reqs, Ask(m, It.i, hwId, NoFence))
            /\ UNCHANGED clientBase
         \/ m.op # "add" /\ hwId = NoHwId /\ reportResponse(m, It.i) /\ UNCHANGED reqs
  BY DEF Inv, InTurn
<1>2. It \in Turnings /\ msgs' \in Seq(Msgs)
  <2>1. Head(msgs) \in Msgs /\ Head(msgs).kind = "turn" /\ msgs' \in Seq(Msgs)
    BY <1>1, Taken
  <2>2. Head(msgs) \in Turned
    BY <2>1, MsgCases
  <2>3. QED
    BY <2>1, <2>2 DEF Turned, It
<1>3. /\ m \in Cmds /\ It.i \in DOMAIN m.ids /\ id \in Ids
      /\ m.op \in {"add", "modify"} => m.options[It.i] \in Options
  <2>1. m \in Cmds /\ It.i \in DOMAIN m.ids
    BY <1>2 DEF Turnings
  <2>2. QED
    BY <2>1, CommandFacts
<1>4. hwId \in HwIds \cup {NoHwId}
  BY <1>1, <1>3, TypesOf
<1> HIDE DEF m, id, hwId
<1>5. past' \subseteq Words
  BY <1>1, TypesOf DEF Stale, Words
<1>6. /\ UNCHANGED <<mLocationAPI, geofenceSession, mGeofenceBiDict, owner>>
      /\ mRequestQueues' \in [Clients -> Seq(1..MaxCalls)]
  BY <1>1, ResponseTyped
<1>7. reqs' \in Seq(Turnings \cup Made)
  <2>1. CASE /\ m.op \in {"add", "modify"} /\ (m.op # "add" => hwId # NoHwId)
             /\ reqs' = Append(reqs, Ask(m, It.i, hwId, Fence(id, m.options[It.i], FALSE)))
    <3>1. /\ Fence(id, m.options[It.i], FALSE) \in Fences
          /\ Fence(id, m.options[It.i], FALSE).id = m.ids[It.i]
      BY <1>3, <2>1, FenceFacts DEF id
    <3>2. Ask(m, It.i, hwId, Fence(id, m.options[It.i], FALSE)) \in Asks
      <4>1. \A f \in Fences : f.id = m.ids[It.i] => Ask(m, It.i, hwId, f) \in Asks
        <5> TAKE f \in Fences
        <5> HAVE f.id = m.ids[It.i]
        <5>1. m.op # "add" => hwId \in HwIds
          BY <1>4, <2>1
        <5>2. QED
          BY <1>3, <1>4, <5>1, AskMade
      <4>2. QED
        BY <3>1, <4>1
    <3>3. QED
      BY <1>1, <2>1, <3>2, AskedOne DEF Made
  <2>2. CASE /\ m.op \in {"remove", "pause", "resume"} /\ hwId # NoHwId
             /\ reqs' = Append(reqs, Ask(m, It.i, hwId, NoFence))
    <3>1. Ask(m, It.i, hwId, NoFence) \in Asks
      BY <1>3, <1>4, <2>2, AskMade
    <3>2. QED
      BY <1>1, <2>2, <3>1, AskedOne DEF Made
  <2>3. CASE UNCHANGED reqs
    BY <1>1, <2>3, TypesOf
  <2>4. QED
    BY <1>1, <2>1, <2>2, <2>3
<1>8. Typed'
  BY <1>1, <1>2, <1>5, <1>6, <1>7, TypedAgain, TypesOf DEF adapter
<1>9. \A d \in Clients : LetGo(d)'
  BY <1>1, <1>6, TakeLetsGo
<1>10. QED
  BY <1>8, <1>9 DEF Inv

\* The message that answers a request.
LEMMA AnswerTaken ==
  ASSUME Typed, NEW kind \in {"done", "restored", "paused", "stopped"}, Take(kind)
  PROVE  /\ msgs' \in Seq(Msgs) /\ It \in Made /\ It.then = kind
         /\ Ok \in BOOLEAN /\ (Ok /\ It.call = "add" => Head(msgs).hwId \in HwIds)
<1>1. Head(msgs) \in Msgs /\ Head(msgs).kind = kind /\ msgs' \in Seq(Msgs)
  BY Taken
<1>2. Head(msgs) \in Replies
  BY <1>1, MsgCases
<1>3. QED
  BY <1>1, <1>2, ReplyFacts DEF It, Ok

\* The answer for a fence.
LEMMA DoneKeeps == Inv /\ Done => Inv'
<1> SUFFICES ASSUME Inv, Done PROVE Inv'
  OBVIOUS
<1> DEFINE m == It.command
           h == It.hwId
<1>1. /\ Typed /\ Take("done")
      /\ \/ Ok /\ m.op = "add" /\ saveGeofenceItem(Head(msgs).hwId, It.fence.id, It.fence.options)
         \/ Ok /\ m.op = "remove" /\ removeGeofenceItem(h)
         \/ Ok /\ m.op = "pause" /\ pauseGeofenceItem(h)
         \/ Ok /\ m.op = "resume" /\ resumeGeofenceItem(h)
         \/ Ok /\ m.op = "modify" /\ modifyGeofenceItem(h, It.fence.options)
         \/ UNCHANGED <<mGeofences, mGeofenceIds>>
      /\ askedPaused' = IF Ok /\ m.op = "pause" THEN askedPaused \cup {m.ids[It.i]}
                        ELSE IF Ok /\ m.op = "resume" THEN askedPaused \ {m.ids[It.i]}
                        ELSE askedPaused
      /\ UNCHANGED clientBase \/ reportResponse(m, It.i)
      /\ UNCHANGED <<gData, mClientData, calls, past, mSystemPowerState, locApi>>
  BY DEF Inv, Done
<1>2. /\ msgs' \in Seq(Msgs) /\ It \in Made /\ It.then = "done"
      /\ Ok /\ It.call = "add" => Head(msgs).hwId \in HwIds
  BY <1>1, AnswerTaken
<1>3. It \in Asks
  BY <1>2, MadeCases
<1>4. /\ m \in Cmds /\ It.i \in DOMAIN m.ids /\ It.call = m.op
      /\ m.op # "add" => h \in HwIds
      /\ m.op \in {"add", "modify"} => It.fence \in Fences
  BY <1>3 DEF Asks
<1>5. m.ids[It.i] \in Ids
  BY <1>4, CommandFacts
<1>6. \A f \in Fences : f.id \in Ids /\ f.options \in Options
  BY DEF Fences
<1> HIDE DEF m, h
<1>7. /\ mGeofences' \in [HwIds -> Fences \cup {NoFence}]
      /\ mGeofenceIds' \in [Ids -> HwIds \cup {NoHwId}]
  <2>1. CASE Ok /\ m.op = "add" /\ saveGeofenceItem(Head(msgs).hwId, It.fence.id, It.fence.options)
    BY <1>1, <1>2, <1>4, <1>6, <2>1, ItemsTyped
  <2>2. CASE m.op = "remove" /\ removeGeofenceItem(h)
    BY <1>1, <1>4, <2>2, ItemsTyped
  <2>3. CASE m.op = "pause" /\ pauseGeofenceItem(h)
    BY <1>1, <1>4, <2>3, ItemsTyped
  <2>4. CASE m.op = "resume" /\ resumeGeofenceItem(h)
    BY <1>1, <1>4, <2>4, ItemsTyped
  <2>5. CASE m.op = "modify" /\ modifyGeofenceItem(h, It.fence.options)
    BY <1>1, <1>4, <1>6, <2>5, ItemsTyped
  <2>6. CASE UNCHANGED <<mGeofences, mGeofenceIds>>
    BY <1>1, <2>6, TypesOf
  <2>7. QED
    BY <1>1, <2>1, <2>2, <2>3, <2>4, <2>5, <2>6
<1>8. /\ UNCHANGED <<mLocationAPI, geofenceSession, mGeofenceBiDict, owner>>
      /\ mRequestQueues' \in [Clients -> Seq(1..MaxCalls)]
  BY <1>1, ResponseTyped
<1>9. askedPaused' \subseteq Ids
  BY <1>1, <1>5, TypesOf
<1>10. Typed'
  BY <1>1, <1>2, <1>7, <1>8, <1>9, TypedAgain, TypesOf DEF locApi
<1>11. \A d \in Clients : LetGo(d)'
  BY <1>1, <1>8, TakeLetsGo
<1>12. QED
  BY <1>10, <1>11 DEF Inv

\* The fence of a client that has left is removed.
LEMMA StoppedKeeps == Inv /\ Stopped => Inv'
<1> SUFFICES ASSUME Inv, Stopped PROVE Inv'
  OBVIOUS
<1>1. /\ Typed /\ Take("stopped")
      /\ mGeofences' = IF Ok THEN [mGeofences EXCEPT ![It.hwId] = NoFence] ELSE mGeofences
      /\ UNCHANGED <<gData, mClientData, clientBase, calls, history, mGeofenceIds,
                     mSystemPowerState, locApi>>
  BY DEF Inv, Stopped
<1>2. msgs' \in Seq(Msgs)
  BY <1>1, AnswerTaken
<1>3. mGeofences' \in [HwIds -> Fences \cup {NoFence}]
  BY <1>1, TypesOf
<1>4. Typed'
  BY <1>1, <1>2, <1>3, TypedAgain, TypesOf DEF clientBase, history, locApi
<1>5. \A d \in Clients : LetGo(d)'
  BY <1>1, TakeLetsGo DEF clientBase
<1>6. QED
  BY <1>4, <1>5 DEF Inv

\* A fence has been added again.
LEMMA RestoredKeeps == Inv /\ Restored => Inv'
<1> SUFFICES ASSUME Inv, Restored PROVE Inv'
  OBVIOUS
<1> DEFINE h == Head(msgs).hwId
<1>1. /\ Typed /\ Take("restored")
      /\ Ok => PauseAgain(It.fence, h) /\ saveGeofenceItem(h, It.fence.id, It.fence.options)
      /\ ~Ok => UNCHANGED <<reqs, mGeofences, mGeofenceIds>>
      /\ UNCHANGED <<gData, mClientData, clientBase, calls, history, mSystemPowerState, down, modem>>
  BY DEF Inv, Restored
<1>2. /\ msgs' \in Seq(Msgs) /\ It \in Made /\ It.then = "restored"
      /\ Ok /\ It.call = "add" => h \in HwIds
  BY <1>1, AnswerTaken
<1>3. It.call = "add" /\ It.fence \in Fences
  BY <1>2, MadeCases DEF Restores
<1> HIDE DEF h
<1>4. /\ mGeofences' \in [HwIds -> Fences \cup {NoFence}]
      /\ mGeofenceIds' \in [Ids -> HwIds \cup {NoHwId}]
  <2>1. CASE Ok
    <3>1. It.fence.id \in Ids /\ It.fence.options \in Options
      BY <1>3 DEF Fences
    <3>2. QED
      BY <1>1, <1>2, <1>3, <2>1, <3>1, ItemsTyped
  <2>2. CASE ~Ok
    BY <1>1, <2>2, TypesOf
  <2>3. QED
    BY <2>1, <2>2
<1>5. reqs' \in Seq(Turnings \cup Made)
  <2>1. CASE UNCHANGED reqs
    BY <1>1, <2>1, TypesOf
  <2>2. CASE ~UNCHANGED reqs
    <3>1. Ok /\ reqs' = Append(reqs, Request("pause", h, NoFence, "nothing"))
      BY <1>1, <2>2 DEF PauseAgain
    <3>2. Request("pause", h, NoFence, "nothing") \in Made
      BY <1>2, <1>3, <3>1, RequestsMade DEF Made
    <3>3. QED
      BY <1>1, <3>1, <3>2, AskedOne
  <2>3. QED
    BY <2>1, <2>2
<1>6. Typed'
  BY <1>1, <1>2, <1>4, <1>5, TypedAgain, TypesOf DEF clientBase, history
<1>7. \A d \in Clients : LetGo(d)'
  BY <1>1, TakeLetsGo DEF clientBase
<1>8. QED
  BY <1>6, <1>7 DEF Inv

\* A fence has been paused or resumed with the system.
LEMMA PausedKeeps == Inv /\ PausedOrResumed => Inv'
<1> SUFFICES ASSUME Inv, PausedOrResumed PROVE Inv'
  OBVIOUS
<1>1. /\ Typed /\ Take("paused")
      /\ \/ UNCHANGED <<mGeofences, mGeofenceIds>>
         \/ pauseGeofenceItem(It.hwId) \/ resumeGeofenceItem(It.hwId)
      /\ UNCHANGED <<gData, mClientData, clientBase, calls, history, mSystemPowerState, locApi>>
  BY DEF Inv, PausedOrResumed
<1>2. msgs' \in Seq(Msgs) /\ It \in Made /\ It.then = "paused"
  BY <1>1, AnswerTaken
<1>3. It.hwId \in HwIds
  BY <1>2, MadeCases DEF Pauses
<1>4. /\ mGeofences' \in [HwIds -> Fences \cup {NoFence}]
      /\ mGeofenceIds' \in [Ids -> HwIds \cup {NoHwId}]
  BY <1>1, <1>3, ItemsTyped, TypesOf
<1>5. Typed'
  BY <1>1, <1>2, <1>4, TypedAgain, TypesOf DEF clientBase, history, locApi
<1>6. \A d \in Clients : LetGo(d)'
  BY <1>1, TakeLetsGo DEF clientBase
<1>7. QED
  BY <1>5, <1>6 DEF Inv

\* The modem is back.
LEMMA SSREventKeeps == Inv /\ MsgSSREvent => Inv'
<1> SUFFICES ASSUME Inv, MsgSSREvent PROVE Inv'
  OBVIOUS
<1>1. /\ Typed /\ Take("engineUp")
      /\ \/ UNCHANGED <<mGeofences, mGeofenceIds, reqs>>
         \/ \E order \in Orders(In(mGeofences)) : restartGeofences(order)
      /\ UNCHANGED <<gData, mClientData, clientBase, calls, history, mSystemPowerState, down, modem>>
  BY DEF Inv, MsgSSREvent
<1>2. msgs' \in Seq(Msgs)
  BY <1>1, Taken
<1>3. /\ mGeofences' \in [HwIds -> Fences \cup {NoFence}]
      /\ mGeofenceIds' \in [Ids -> HwIds \cup {NoHwId}]
      /\ reqs' \in Seq(Turnings \cup Made)
  <2>1. CASE UNCHANGED <<mGeofences, mGeofenceIds, reqs>>
    BY <1>1, <2>1, TypesOf
  <2>2. ASSUME NEW order \in Orders(In(mGeofences)), restartGeofences(order)
        PROVE  /\ mGeofences' \in [HwIds -> Fences \cup {NoFence}]
               /\ mGeofenceIds' \in [Ids -> HwIds \cup {NoHwId}]
               /\ reqs' \in Seq(Turnings \cup Made)
    <3> DEFINE p == [k \in DOMAIN order |->
                       Request("add", NoHwId, mGeofences[order[k]], "restored")]
    <3>1. /\ mGeofences' = [h \in HwIds |-> NoFence]
          /\ mGeofenceIds' = IF order = <<>> THEN mGeofenceIds ELSE [id \in Ids |-> NoHwId]
          /\ reqs' = reqs \o p
      BY <2>2 DEF restartGeofences
    <3>2. IsFiniteSet(In(mGeofences))
      BY ConstantFacts, FS_Subset DEF In
    <3>3. Len(order) \in Nat /\ DOMAIN order = 1..Len(order)
          /\ \A k \in DOMAIN order : order[k] \in In(mGeofences)
      BY <3>2, OrderFacts
    <3>4. \A k \in DOMAIN order : mGeofences[order[k]] \in Fences
      BY <1>1, <3>3, TypesOf DEF In
    <3>5. p \in [1..Len(order) -> Made]
      <4>1. \A k \in DOMAIN order :
              Request("add", NoHwId, mGeofences[order[k]], "restored") \in Made
        BY <3>4, RequestsMade DEF Made
      <4>2. QED
        BY <3>3, <4>1
    <3> HIDE DEF p
    <3>6. reqs' \in Seq(Turnings \cup Made)
      BY <1>1, <3>1, <3>3, <3>5, Asked
    <3>7. /\ mGeofences' \in [HwIds -> Fences \cup {NoFence}]
          /\ mGeofenceIds' \in [Ids -> HwIds \cup {NoHwId}]
      BY <1>1, <3>1, TypesOf
    <3>8. QED
      BY <3>6, <3>7
  <2>3. QED
    BY <1>1, <2>1, <2>2
<1>4. Typed'
  BY <1>1, <1>2, <1>3, TypedAgain, TypesOf DEF clientBase, history
<1>5. \A d \in Clients : LetGo(d)'
  BY <1>1, TakeLetsGo DEF clientBase
<1>6. QED
  BY <1>4, <1>5 DEF Inv

-----------------------------------------------------------------------------
(* LocApi and the modem.                                                   *)

\* LocApi takes the first request of its queue.
LEMMA Served ==
  ASSUME Typed, reqs # <<>>
  PROVE  Head(reqs) \in Turnings \cup Made /\ Tail(reqs) \in Seq(Turnings \cup Made)
BY HeadTailProperties DEF Typed

\* A message comes that is not about a client.
LEMMA MessageComes ==
  ASSUME Typed, NEW x \in Msgs, msgs' = Append(msgs, x)
  PROVE  msgs' \in Seq(Msgs) /\ Extended(msgs', msgs, x)
BY AppendProperties DEF Typed, Extended

\* LocApi comes to a turn.
LEMMA TakeTurnKeeps == Inv /\ TakeTurn => Inv'
<1> SUFFICES ASSUME Inv, TakeTurn PROVE Inv'
  OBVIOUS
<1> DEFINE x == [kind |-> "turn", req |-> Head(reqs)]
<1>1. /\ Typed /\ reqs # <<>> /\ Head(reqs).call = "turn"
      /\ msgs' = Append(msgs, x) /\ reqs' = Tail(reqs)
      /\ UNCHANGED <<gData, mClientData, clientBase, calls, history, adapter, down, modem>>
  BY DEF Inv, TakeTurn
<1>2. Head(reqs) \in Turnings /\ reqs' \in Seq(Turnings \cup Made)
  <2>1. Head(reqs) \in Turnings \cup Made /\ reqs' \in Seq(Turnings \cup Made)
    BY <1>1, Served
  <2>2. QED
    BY <1>1, <2>1, RequestCases
<1>3. x \in Msgs \ ClientMsgs
  <2>1. x \in Turned /\ x.kind = "turn"
    BY <1>2 DEF Turned
  <2>2. x \in Msgs
    BY <2>1 DEF Msgs
  <2>3. QED
    BY <2>1, <2>2, MsgCases
<1> HIDE DEF x
<1>4. msgs' \in Seq(Msgs) /\ Extended(msgs', msgs, x)
  BY <1>1, <1>3, MessageComes
<1>5. Typed'
  BY <1>1, <1>2, <1>4, TypedAgain, TypesOf DEF clientBase, history, adapter
<1>6. \A d \in Clients : LetGo(d)'
  BY <1>1, <1>3, <1>4, AppendLetsGo DEF clientBase
<1>7. QED
  BY <1>5, <1>6 DEF Inv

\* What the modem has then, and the number it gave.
LEMMA OutcomeFacts ==
  ASSUME Typed, NEW q \in Made, NEW r \in Outcomes(q), q.call \in Operations
  PROVE  /\ r.ok \in BOOLEAN /\ r.hwId \in HwIds \cup {NoHwId}
         /\ r.ok /\ q.call = "add" => r.hwId \in HwIds
         /\ r.modem \in [HwIds -> Fences \cup {NoFence}]
<1> DEFINE f == IF q.hwId \in HwIds THEN modem[q.hwId] ELSE NoFence
           failed == [ok |-> FALSE, hwId |-> NoHwId, modem |-> modem]
           done(g) == [ok |-> TRUE, hwId |-> NoHwId, modem |-> [modem EXCEPT ![q.hwId] = g]]
           Right(s) == /\ s.ok \in BOOLEAN /\ s.hwId \in HwIds \cup {NoHwId}
                       /\ s.ok /\ q.call = "add" => s.hwId \in HwIds
                       /\ s.modem \in [HwIds -> Fences \cup {NoFence}]
<1>1. modem \in [HwIds -> Fences \cup {NoFence}]
  BY TypesOf
<1>2. Right(failed)
  BY <1>1
<1>3. ASSUME NEW g \in Fences \cup {NoFence}, q.call # "add" PROVE Right(done(g))
  BY <1>1, <1>3
<1>4. f # NoFence => f \in Fences
  BY <1>1
<1>5. CASE r = failed
  BY <1>2, <1>5
<1>6. CASE q.call = "add" /\ r # failed
  <2>1. q.fence \in Fences
    BY <1>6, MadeCases
  <2>2. PICK h \in HwIds \ In(modem) :
          r = [ok |-> TRUE, hwId |-> h,
               modem |-> [modem EXCEPT ![h] = [q.fence EXCEPT !.paused = FALSE]]]
    BY <1>6 DEF Outcomes
  <2>3. [q.fence EXCEPT !.paused = FALSE] \in Fences
    BY <2>1 DEF Fences
  <2>4. QED
    BY <1>1, <2>2, <2>3
<1>7. CASE q.call # "add" /\ r # failed
  <2>1. q.call \in {"remove", "pause", "resume", "modify"} /\ f # NoFence
    <3>1. f # NoFence
      BY <1>7 DEF Outcomes
    <3>2. q.call \in {"remove", "pause", "resume", "modify"}
      BY <1>7 DEF Operations
    <3>3. QED
      BY <3>1, <3>2
  <2>2. \/ q.call = "remove" /\ r = done(NoFence)
        \/ q.call = "pause" /\ r = done([f EXCEPT !.paused = TRUE])
        \/ q.call = "resume" /\ r = done([f EXCEPT !.paused = FALSE])
        \/ q.call = "modify" /\ r = done([f EXCEPT !.options = q.fence.options])
    BY <1>7, <2>1 DEF Outcomes
  <2>3. f \in Fences /\ (q.call = "modify" => q.fence \in Fences)
    BY <1>4, <2>1, MadeCases
  <2>4. /\ [f EXCEPT !.paused = TRUE] \in Fences /\ [f EXCEPT !.paused = FALSE] \in Fences
        /\ q.call = "modify" => [f EXCEPT !.options = q.fence.options] \in Fences
    BY <2>3 DEF Fences
  <2> HIDE DEF f, done, Right
  <2>5. Right(r)
    BY <1>3, <1>7, <2>2, <2>4
  <2>6. QED
    BY <2>5 DEF Right
<1>8. QED
  BY <1>5, <1>6, <1>7

\* LocApi carries out a request.
LEMMA CarryOutKeeps == Inv /\ CarryOut => Inv'
<1> SUFFICES ASSUME Inv, CarryOut PROVE Inv'
  OBVIOUS
<1> DEFINE q == Head(reqs)
<1>1. /\ Typed /\ reqs # <<>> /\ q.call \in Operations /\ reqs' = Tail(reqs)
      /\ UNCHANGED <<gData, mClientData, clientBase, calls, adapter, down, askedPaused>>
  BY DEF Inv, CarryOut
<1>2. PICK r \in Outcomes(q) :
        /\ modem' = r.modem
        /\ msgs' = IF q.then = "nothing" THEN msgs
                   ELSE Append(msgs, [kind |-> q.then, req |-> q, ok |-> r.ok, hwId |-> r.hwId])
        /\ past' = IF r.ok THEN past ELSE past \cup {"failed"}
  BY DEF CarryOut
<1>3. q \in Turnings \cup Made /\ reqs' \in Seq(Turnings \cup Made)
  BY <1>1, Served
<1> HIDE DEF q
<1>4. q \in Made
  <2>1. q.call # "turn"
    BY <1>1 DEF Operations
  <2>2. QED
    BY <1>3, <2>1, RequestCases
<1>5. /\ r.ok \in BOOLEAN /\ r.hwId \in HwIds \cup {NoHwId}
      /\ r.ok /\ q.call = "add" => r.hwId \in HwIds
      /\ modem' \in [HwIds -> Fences \cup {NoFence}]
  BY <1>1, <1>2, <1>4, OutcomeFacts
<1>6. past' \subseteq Words
  BY <1>1, <1>2, TypesOf DEF Words
<1> DEFINE x == [kind |-> q.then, req |-> q, ok |-> r.ok, hwId |-> r.hwId]
<1>7. CASE q.then = "nothing"
  <2>1. msgs' = msgs
    BY <1>2, <1>7
  <2>2. Typed'
    BY <1>1, <1>3, <1>5, <1>6, <2>1, TypedAgain, TypesOf DEF clientBase, adapter
  <2>3. \A d \in Clients : LetGo(d)'
    BY <1>1, <2>1, CommandLetsGo DEF clientBase
  <2>4. QED
    BY <2>2, <2>3 DEF Inv
<1>8. CASE q.then # "nothing"
  <2>1. msgs' = Append(msgs, x)
    BY <1>2, <1>8
  <2>2. x \in Msgs \ ClientMsgs
    <3>1. q.then \in {"done", "restored", "paused", "stopped"}
      BY <1>4, <1>8, MadeCases
    <3>2. x \in Replies /\ x.kind = q.then
      BY <1>4, <1>5, <3>1 DEF Replies
    <3> HIDE DEF x
    <3>3. x \in Msgs
      BY <3>2 DEF Msgs
    <3>4. QED
      BY <3>1, <3>2, <3>3, MsgCases
  <2> HIDE DEF x
  <2>3. msgs' \in Seq(Msgs) /\ Extended(msgs', msgs, x)
    BY <1>1, <2>1, <2>2, MessageComes
  <2>4. Typed'
    BY <1>1, <1>3, <1>5, <1>6, <2>3, TypedAgain, TypesOf DEF clientBase, adapter
  <2>5. \A d \in Clients : LetGo(d)'
    BY <1>1, <2>2, <2>3, AppendLetsGo DEF clientBase
  <2>6. QED
    BY <2>4, <2>5 DEF Inv
<1>9. QED
  BY <1>7, <1>8

\* LocApi opens the modem that is back.
LEMMA OpenKeeps == Inv /\ Open => Inv'
<1> SUFFICES ASSUME Inv, Open PROVE Inv'
  OBVIOUS
<1>1. /\ Typed /\ reqs # <<>> /\ reqs' = Tail(reqs) /\ down' = FALSE
      /\ msgs' = Append(msgs, EngineUp)
      /\ UNCHANGED <<gData, mClientData, clientBase, calls, history, adapter, modem>>
  BY DEF Inv, Open
<1>2. reqs' \in Seq(Turnings \cup Made)
  BY <1>1, Served
<1>3. EngineUp \in Msgs \ ClientMsgs
  <2>1. EngineUp \in Msgs /\ EngineUp.kind = "engineUp"
    BY DEF Msgs, EngineUp
  <2>2. QED
    BY <2>1, MsgCases
<1>4. msgs' \in Seq(Msgs) /\ Extended(msgs', msgs, EngineUp)
  BY <1>1, <1>3, MessageComes
<1>5. Typed'
  BY <1>1, <1>2, <1>4, TypedAgain, TypesOf DEF clientBase, history, adapter
<1>6. \A d \in Clients : LetGo(d)'
  BY <1>1, <1>3, <1>4, AppendLetsGo DEF clientBase
<1>7. QED
  BY <1>5, <1>6 DEF Inv

\* The modem crashes.
LEMMA EngineDownKeeps == Inv /\ handleEngineDownEvent => Inv'
<1> SUFFICES ASSUME Inv, handleEngineDownEvent PROVE Inv'
  OBVIOUS
<1>1. /\ Typed /\ Count(IF "crashed" \in past THEN {"again"} ELSE {"crashed"})
      /\ down' = TRUE /\ modem' = [h \in HwIds |-> NoFence]
      /\ reqs' = Append(reqs, Request("open", NoHwId, NoFence, "nothing"))
      /\ UNCHANGED <<gData, mClientData, msgs, clientBase, adapter, askedPaused>>
  BY DEF Inv, handleEngineDownEvent
<1>2. calls' \in 0..MaxCalls /\ past' \subseteq Words
  BY <1>1, HistoryWords DEF Words
<1>3. reqs' \in Seq(Turnings \cup Made)
  BY <1>1, RequestsMade, AskedOne DEF Made
<1>4. Typed'
  BY <1>1, <1>2, <1>3, TypedAgain, TypesOf DEF clientBase, adapter
<1>5. \A d \in Clients : LetGo(d)'
  BY <1>1, CommandLetsGo DEF clientBase
<1>6. QED
  BY <1>4, <1>5 DEF Inv

\* The system suspends or resumes.
LEMMA PowerKeeps ==
  ASSUME Inv, NEW state \in {"suspend", "resume"}, updateSystemPowerState(state)
  PROVE  Inv'
<1> DEFINE call == IF state = "suspend" THEN "pause" ELSE "resume"
           S == {id \in Ids : mGeofenceIds[id] # NoHwId}
<1>1. /\ Typed /\ Count({"suspended"}) /\ mSystemPowerState' = state
      /\ \E order \in Orders(S) : pauseOrResumeGeofences(call, order)
      /\ UNCHANGED <<gData, mClientData, msgs, clientBase, mGeofences, mGeofenceIds, down, modem,
                     askedPaused>>
  BY DEF Inv, updateSystemPowerState
<1>2. calls' \in 0..MaxCalls /\ past' \subseteq Words
  BY <1>1, HistoryWords DEF Words
<1>3. call \in {"pause", "resume"}
  OBVIOUS
<1>4. IsFiniteSet(S) /\ \A id \in S : mGeofenceIds[id] \in HwIds
  <2>1. S \subseteq Ids
    OBVIOUS
  <2>2. IsFiniteSet(S)
    BY <2>1, ConstantFacts, FS_Interval, FS_Subset
  <2>3. QED
    BY <1>1, <2>2, TypesOf
<1> HIDE DEF call, S
<1>5. reqs' \in Seq(Turnings \cup Made)
  <2>1. PICK order \in Orders(S) : pauseOrResumeGeofences(call, order)
    BY <1>1
  <2> DEFINE p == [k \in DOMAIN order |-> Request(call, mGeofenceIds[order[k]], NoFence, "paused")]
  <2>2. reqs' = reqs \o p
    BY <2>1 DEF pauseOrResumeGeofences
  <2>3. /\ Len(order) \in Nat /\ DOMAIN order = 1..Len(order)
        /\ \A k \in DOMAIN order : order[k] \in S
    BY <1>4, OrderFacts
  <2>4. p \in [1..Len(order) -> Made]
    <3>1. \A k \in DOMAIN order : Request(call, mGeofenceIds[order[k]], NoFence, "paused") \in Made
      BY <1>3, <1>4, <2>3, RequestsMade DEF Made
    <3>2. QED
      BY <2>3, <3>1
  <2> HIDE DEF p
  <2>5. QED
    BY <1>1, <2>2, <2>3, <2>4, Asked
<1>6. Typed'
  BY <1>1, <1>2, <1>5, TypedAgain, TypesOf DEF clientBase
<1>7. \A d \in Clients : LetGo(d)'
  BY <1>1, CommandLetsGo DEF clientBase
<1>8. QED
  BY <1>6, <1>7 DEF Inv

-----------------------------------------------------------------------------
(* The theorems.                                                           *)

\* Initially all is empty.
LEMMA InitKeeps == Init => Inv
<1> SUFFICES ASSUME Init PROVE Inv
  OBVIOUS
<1>1. /\ msgs = <<>> /\ reqs = <<>> /\ clientData = <<>> /\ destroyClientData = <<>>
      /\ loaded = {} /\ deleted = {} /\ mClientData = [i \in Interfaces |-> {}]
      /\ mLocationAPI = [c \in Clients |-> "none"]
  BY DEF Init, LocationApiInit, ClientBaseInit
<1>2. DOMAIN clientData = {} /\ DOMAIN destroyClientData = {}
  BY <1>1
<1>3. LocationApiTypeOK
  BY <1>1, <1>2 DEF LocationApiTypeOK
<1>4. ClientBaseTypeOK
  <2>1. <<>> \in Seq(1..MaxCalls)
    BY EmptySeq
  <2>2. mRequestQueues \in [Clients -> Seq(1..MaxCalls)]
    BY <2>1 DEF Init, ClientBaseInit
  <2>3. /\ geofenceSession = {} /\ mGeofenceBiDict = [c \in Clients |-> {}]
        /\ owner = [id \in Ids |-> NoClient] /\ calls = 0 /\ past = {}
    BY DEF Init, ClientBaseInit
  <2>4. calls \in 0..MaxCalls
    BY <2>3, ConstantFacts
  <2>5. QED
    BY <1>1, <2>2, <2>3, <2>4 DEF ClientBaseTypeOK
<1>5. msgs \in Seq(Msgs) /\ reqs \in Seq(Turnings \cup Made)
  BY <1>1, EmptySeq
<1>6. Typed
  BY <1>1, <1>2, <1>3, <1>4, <1>5 DEF Typed, Init
<1>7. ASSUME NEW c \in Clients PROVE LetGo(c)
  BY <1>1, <1>2, ShortHas DEF LetGo, Awaited
<1>8. QED
  BY <1>6, <1>7 DEF Inv

\* Every step keeps the invariant.
LEMMA NextKeeps == Inv /\ [Next]_vars => Inv'
<1> SUFFICES ASSUME Inv, [Next]_vars PROVE Inv'
  OBVIOUS
<1>1. CASE Client
  BY <1>1, ClientKeeps
<1>2. CASE MsgAddClient
  BY <1>2, AddClientKeeps
<1>3. CASE MsgRemoveClient
  BY <1>3, RemoveClientKeeps
<1>4. CASE InTurn
  BY <1>4, InTurnKeeps
<1>5. CASE Done
  BY <1>5, DoneKeeps
<1>6. CASE Stopped
  BY <1>6, StoppedKeeps
<1>7. CASE Restored
  BY <1>7, RestoredKeeps
<1>8. CASE PausedOrResumed
  BY <1>8, PausedKeeps
<1>9. CASE MsgSSREvent
  BY <1>9, SSREventKeeps
<1>10. CASE TakeTurn
  BY <1>10, TakeTurnKeeps
<1>11. CASE CarryOut
  BY <1>11, CarryOutKeeps
<1>12. CASE Open
  BY <1>12, OpenKeeps
<1>13. CASE handleEngineDownEvent
  BY <1>13, EngineDownKeeps
<1>14. ASSUME NEW state \in {"suspend", "resume"}, updateSystemPowerState(state)
       PROVE  Inv'
  BY <1>14, PowerKeeps
<1>15. CASE UNCHANGED vars
  <2>1. Typed'
    <3>1. Typed
      BY DEF Inv
    <3>2. QED
      BY <1>15, <3>1, TypedAgain, TypesOf
         DEF vars, clientBase, adapter, locApi, history
  <2>2. \A d \in Clients : LetGo(d)'
    BY <1>15, CommandLetsGo DEF vars, clientBase
  <2>3. QED
    BY <2>1, <2>2 DEF Inv
<1>16. QED
  BY <1>1, <1>2, <1>3, <1>4, <1>5, <1>6, <1>7, <1>8, <1>9, <1>10, <1>11, <1>12, <1>13, <1>14, <1>15
     DEF Next, HandleMsg

\* The invariant always holds.
LEMMA Invariant == Spec => []Inv
<1>1. QED
  BY InitKeeps, NextKeeps, PTL DEF Spec

\* The messages and the requests are of their kinds.
LEMMA TypedOK == Typed => TypeOK
<1> SUFFICES ASSUME Typed PROVE TypeOK
  OBVIOUS
<1>1. Turnings \cup Made \subseteq Turns \cup Requests
  <2>1. Made \subseteq Requests
    BY MadeCases
  <2>2. QED
    BY <2>1 DEF Turnings
<1>2. Msgs \subseteq ClientMsgs \cup {EngineUp} \cup Answers
  <2>1. Turned \subseteq Answers
    BY DEF Turned, Turnings, Answers
  <2>2. Replies \subseteq Answers
    <3>1. Made \subseteq Requests
      BY MadeCases
    <3>2. QED
      BY <3>1 DEF Replies, Answers
  <2>3. QED
    BY <2>1, <2>2 DEF Msgs
<1>3. msgs \in Seq(ClientMsgs \cup {EngineUp} \cup Answers) /\ reqs \in Seq(Turns \cup Requests)
  BY <1>1, <1>2, SeqMonotonic DEF Typed
<1>4. QED
  BY <1>3 DEF Typed, TypeOK

\* The types of the geofence adapter, of its clients and of LocationAPI.
THEOREM TypeCorrect == Spec => []TypeOK
<1>1. Inv => TypeOK
  BY TypedOK DEF Inv
<1>2. QED
  BY <1>1, Invariant, PTL

\* A LocationAPI object is deleted when no adapter has its client any more, in
\* whatever order the adapters have been told of it, and when nothing is on its way
\* every destroyed one is deleted (LocationAPI.cpp:196-221 and 337-373).
THEOREM DestroyCorrect == Spec => []DestroyIsComplete
<1>1. Inv => DestroyIsComplete
  <2> SUFFICES ASSUME Inv PROVE DestroyIsComplete
    OBVIOUS
  <2>1. deleted \subseteq Clients
    BY DEF Inv, Typed, LocationApiTypeOK
  <2>2. ASSUME NEW c \in deleted, NEW i \in Interfaces PROVE c \notin mClientData[i]
    <3>1. LetGo(c)
      BY <2>1, <2>2 DEF Inv
    <3>2. mLocationAPI[c] = "gone" /\ ~Awaited(i, c)
      BY <2>2, <3>1 DEF LetGo, Awaited
    <3>3. QED
      BY <3>1, <3>2 DEF LetGo
  <2>3. ASSUME Settled, NEW c \in Clients, mLocationAPI[c] = "gone" PROVE c \in deleted
    <3>1. LetGo(c)
      BY DEF Inv
    <3>2. \A i \in Interfaces : ~Awaited(i, c)
      BY <2>3, <3>1, ShortHas DEF LetGo, Settled
    <3>3. c \notin DOMAIN destroyClientData
      <4>1. SUFFICES ASSUME c \in DOMAIN destroyClientData PROVE FALSE
        OBVIOUS
      <4>2. destroyClientData[c] \in (SUBSET Interfaces) \ {{}}
        BY <4>1 DEF Inv, Typed, LocationApiTypeOK
      <4>3. \A i \in Interfaces : i \notin destroyClientData[c]
        BY <3>2, <4>1 DEF Awaited
      <4>4. QED
        BY <4>2, <4>3
    <3>4. QED
      BY <2>3, <3>1, <3>3 DEF LetGo
  <2>4. QED
    BY <2>2, <2>3 DEF DestroyIsComplete
<1>2. QED
  BY <1>1, Invariant, PTL

-----------------------------------------------------------------------------
(* How the adapter comes to have the fences of the modem.                  *)

\* The requests and the messages of the commands for a fence, and those that
\* add it.
AsksOf(id)  == {r \in Asks : IdOf(r) = id}
CmdReqs(id) == {r \in Turnings : IdOf(r) = id} \cup AsksOf(id)
DoneOf(id)  == {m \in Replies : m.kind = "done" /\ IdOf(m.req) = id}
CmdMsgs(id) == {m \in Turned : IdOf(m.req) = id} \cup DoneOf(id)
AddReqs(id) == {r \in CmdReqs(id) : r.command.op = "add"} \cup {r \in Restores : r.fence.id = id}
AddMsgs(id) == {m \in CmdMsgs(id) : m.req.command.op = "add"}
                 \cup {m \in Replies : m.kind = "restored" /\ m.req.fence.id = id}

\* The requests that are made by a number and change what the modem has, and
\* those of them that are for the fence of a client that has left.
ByNumber   == {r \in Made : r.call \in {"remove", "modify"}}
StopsOf(h) == {r \in Stops : r.hwId = h}

\* The messages that change what the adapter has.
Puts         == {m \in Replies : m.ok /\ m.req.call = "add"}
Changes      == {m \in Replies : m.ok /\ m.req \in ByNumber}
StoppedOf(h) == {m \in Changes : m.req \in StopsOf(h)}
Ups          == {EngineUp}
Removals     == {m \in ClientMsgs : m.kind = "removeClient" /\ m.interface = "geofence"}
RemovalsOf(c) == {m \in Removals : m.client = c}

\* Fences but for being paused.
Plain(f)        == IF f = NoFence THEN NoFence ELSE Fence(f.id, f.options, FALSE)
Plainly(fences) == [h \in HwIds |-> Plain(fences[h])]

\* The adapter has the fences f by the numbers n.  Now comes message m, and it has
\* g by k; w are the owners of the fences.
Handled(w, f, n, m, g, k) ==
  \/ /\ m \in Puts
     /\ f[m.hwId] = NoFence /\ \A h \in HwIds : f[h].id # m.req.fence.id
     /\ g = [f EXCEPT ![m.hwId] = Plain(m.req.fence)]
     /\ k = [n EXCEPT ![m.req.fence.id] = m.hwId]
  \/ /\ m \in Changes /\ m.req \in Stops
     /\ g = [f EXCEPT ![m.req.hwId] = NoFence] /\ k = n
  \/ /\ m \in Changes /\ m.req \in Asks /\ m.req.call = "remove"
     /\ g = [f EXCEPT ![m.req.hwId] = NoFence] /\ k = [n EXCEPT ![IdOf(m.req)] = NoHwId]
  \/ /\ m \in Changes /\ m.req.call = "modify"
     /\ g = [f EXCEPT ![m.req.hwId] = Plain(m.req.fence)] /\ k = n
  \/ /\ m = EngineUp
     /\ g = [h \in HwIds |-> NoFence] /\ k = [id \in Ids |-> NoHwId]
  \/ /\ m \in Removals
     /\ g = f /\ k = [id \in Ids |-> IF w[id] = m.client THEN NoHwId ELSE n[id]]
  \/ /\ m \notin Puts \cup Changes \cup Ups \cup Removals
     /\ g = f /\ k = n

\* Then a request by a number finds the fence it is made for.
Ready(f, n, r) ==
  /\ f[r.hwId] # NoFence
  /\ r \in Stops => n[f[r.hwId].id] = NoHwId
  /\ r \in Asks => f[r.hwId].id = IdOf(r) /\ n[IdOf(r)] = r.hwId

\* What the adapter has before and after each of the messages q: F and N; what
\* was asked for by a number was ready all along.
Leads(F, N, q, w) ==
  /\ F \in [0..Len(q) -> [HwIds -> Fences \cup {NoFence}]]
  /\ N \in [0..Len(q) -> [Ids -> HwIds \cup {NoHwId}]]
  /\ \A i \in 1..Len(q) : Handled(w, F[i - 1], N[i - 1], q[i], F[i], N[i])
  /\ \A i \in 1..Len(q) :
       q[i] \in Changes => \A j \in 0..i - 1 : Ready(F[j], N[j], q[i].req)

\* So are the requests p that are to be carried out.
Awaits(F, N, q, p) ==
  \A i \in DOMAIN p : p[i] \in ByNumber => \A j \in 0..Len(q) : Ready(F[j], N[j], p[i])

\* The messages lead from what the adapter has to what the modem has.
Synced ==
  /\ \E F, N :
       /\ Leads(F, N, msgs, owner) /\ Awaits(F, N, msgs, reqs)
       /\ F[0] = Plainly(mGeofences) /\ N[0] = mGeofenceIds
       /\ ~down => F[Len(msgs)] = Plainly(modem)
  /\ down => modem = [h \in HwIds |-> NoFence]

\* A number leads to its fence, and a fence has one number.
HasNumbers(f, n) == \A id \in Ids : n[id] # NoHwId => f[n[id]].id = id
Unique(f)        == \A h, x \in HwIds : f[h] # NoFence /\ f[h].id = f[x].id => h = x
Lacks(f, id)     == \A h \in HwIds : f[h].id # id
MapsFit          == HasNumbers(mGeofences, mGeofenceIds) /\ Unique(mGeofences)

\* At most one command for a fence is under way and at most one addition, which is
\* of a fence that the adapter does not have; none for a fence of no client.
Commands1(id)  == Number(reqs, CmdReqs(id)) + Number(msgs, CmdMsgs(id))
Additions(id)  == Number(reqs, AddReqs(id)) + Number(msgs, AddMsgs(id))
OneAtATime(id) ==
  /\ Commands1(id) <= 1
  /\ Additions(id) <= (IF Lacks(mGeofences, id) THEN 1 ELSE 0)
  /\ owner[id] = NoClient => Commands1(id) = 0 /\ Additions(id) = 0 /\ Lacks(mGeofences, id)

\* After the removal of a client no command for its fences goes on but one that
\* comes to its turn later.
Leaving(id) ==
  /\ ~HasThen(msgs, CmdMsgs(id), RemovalsOf(owner[id]))
  /\ Has(msgs, RemovalsOf(owner[id])) => ~Has(msgs, DoneOf(id)) /\ ~Has(reqs, AsksOf(id))

\* A fence that is kept without a number is being removed.
Forgotten(h) ==
  mGeofences[h] # NoFence /\ mGeofenceIds[mGeofences[h].id] = NoHwId =>
    down \/ Has(msgs, Ups) \/ Has(reqs, StopsOf(h)) \/ Has(msgs, StoppedOf(h))

\* The modem that is down is opened once, after all that is asked by a number.
Reopening ==
  /\ down <=> Has(reqs, Opens)
  /\ Number(reqs, Opens) <= 1
  /\ ~HasThen(reqs, Opens, ByNumber)

\* What the history says, and the fences of clients.
Told ==
  /\ down \/ Has(msgs, Ups) => "crashed" \in past
  /\ mSystemPowerState = "suspend" => "suspended" \in past
  /\ \E n \in 0..MaxFences : \A id \in Ids : owner[id] = NoClient <=> id > n
  /\ \A c \in Clients : \A id \in mGeofenceBiDict[c] : owner[id] = c

Together ==
  /\ \A id \in Ids : OneAtATime(id) /\ Leaving(id)
  /\ \A h \in HwIds : Forgotten(h) /\ Number(reqs, StopsOf(h)) <= 1
  /\ MapsFit /\ Reopening /\ Synced

-----------------------------------------------------------------------------
(* What is counted in a queue that changes.                                *)

\* Something is taken out of a queue.
LEMMA TakenNumber ==
  ASSUME NEW S, NEW q \in Seq(S), q # <<>>, NEW A
  PROVE  /\ Number(q, A) \in Nat /\ Number(Tail(q), A) \in Nat
         /\ Number(q, A) = (IF Head(q) \in A THEN 1 ELSE 0) + Number(Tail(q), A)
         /\ Number(Tail(q), A) <= Number(q, A)
<1>1. /\ Tail(q) \in Seq(S)
      /\ Number(q, A) = (IF Head(q) \in A THEN 1 ELSE 0) + Number(Tail(q), A)
  BY TailHas
<1>2. Number(q, A) \in Nat /\ Number(Tail(q), A) \in Nat
  BY <1>1, NumberFacts
<1>3. QED
  BY <1>1, <1>2

\* Something is put at the end of a queue.
LEMMA ExtendedNumber ==
  ASSUME NEW S, NEW q \in Seq(S), NEW x \in S, NEW t, Extended(t, q, x), NEW A
  PROVE  /\ Number(q, A) \in Nat /\ Number(t, A) \in Nat
         /\ Number(t, A) = Number(q, A) + (IF x \in A THEN 1 ELSE 0)
<1>1. /\ t \in Seq(S)
      /\ Number(t, A) = Number(q, A) + (IF x \in A THEN 1 ELSE 0)
  BY AppendHas
<1>2. Number(q, A) \in Nat /\ Number(t, A) \in Nat
  BY <1>1, NumberFacts
<1>3. QED
  BY <1>1, <1>2

\* What is taken from one queue is put into another, if it still counts.
LEMMA PassedNumber ==
  ASSUME NEW S, NEW q \in Seq(S), q # <<>>, NEW T, NEW p \in Seq(T), NEW x \in T,
         NEW t, Extended(t, p, x), NEW A, NEW B, x \in B => Head(q) \in A
  PROVE  Number(Tail(q), A) + Number(t, B) <= Number(q, A) + Number(p, B)
<1>1. /\ Number(q, A) \in Nat /\ Number(Tail(q), A) \in Nat
      /\ Number(q, A) = (IF Head(q) \in A THEN 1 ELSE 0) + Number(Tail(q), A)
  BY TakenNumber
<1>2. /\ Number(p, B) \in Nat /\ Number(t, B) \in Nat
      /\ Number(t, B) = Number(p, B) + (IF x \in B THEN 1 ELSE 0)
  BY ExtendedNumber
<1>3. QED
  BY <1>1, <1>2

\* Two queues together.
LEMMA JoinedNumber ==
  ASSUME NEW S, NEW q \in Seq(S), NEW p \in Seq(S), NEW t, Joined(t, q, p), NEW A
  PROVE  /\ Number(q, A) \in Nat /\ Number(p, A) \in Nat /\ Number(t, A) \in Nat
         /\ Number(t, A) = Number(q, A) + Number(p, A)
<1>1. t \in Seq(S) /\ Number(t, A) = Number(q, A) + Number(p, A)
  BY JoinHas
<1>2. QED
  BY <1>1, NumberFacts

\* There is one of a kind.
LEMMA OneNumber ==
  ASSUME NEW S, NEW q \in Seq(S), NEW A,
         \A i, j \in DOMAIN q : q[i] \in A /\ q[j] \in A => i = j
  PROVE  Number(q, A) \in {0, 1}
<1> DEFINE T == {i \in DOMAIN q : q[i] \in A}
<1>1. CASE T = {}
  BY <1>1, FS_EmptySet DEF Number
<1>2. CASE T # {}
  <2>1. PICK i \in T : TRUE
    BY <1>2
  <2>2. T = {i}
    BY <2>1
  <2>3. QED
    BY <2>2, FS_Singleton DEF Number
<1>3. QED
  BY <1>1, <1>2

\* There is one at one place and one at another.
LEMMA TwoNumber ==
  ASSUME NEW S, NEW q \in Seq(S), NEW A, NEW i \in DOMAIN q, NEW j \in DOMAIN q, i # j,
         q[i] \in A, q[j] \in A
  PROVE  Number(q, A) >= 2
<1> DEFINE T == {k \in DOMAIN q : q[k] \in A}
<1>1. IsFiniteSet(T) /\ {i, j} \subseteq T
  BY NumberFacts
<1>2. Cardinality({i, j}) = 2
  <2>1. ASSUME NEW U, IsFiniteSet(U), Cardinality(U) = 1, NEW x, x \notin U
        PROVE  Cardinality(U \cup {x}) = 2
    <3>1. Cardinality(U \cup {x}) = Cardinality(U) + 1
      BY <2>1, FS_AddElement
    <3>2. Cardinality(U) = 1 /\ Cardinality(U) + 1 = 1 + 1
      BY <2>1
    <3>3. QED
      BY <3>1, <3>2
  <2>2. IsFiniteSet({i}) /\ Cardinality({i}) = 1 /\ j \notin {i}
    BY FS_Singleton
  <2>3. Cardinality({i} \cup {j}) = 2
    BY <2>1, <2>2
  <2>4. {i} \cup {j} = {i, j}
    OBVIOUS
  <2>5. QED
    BY <2>3, <2>4
<1>3. Cardinality({i, j}) <= Cardinality(T)
  BY <1>1, FS_Subset
<1>4. Cardinality(T) \in Nat
  BY <1>1, FS_CardinalityType
<1>5. QED
  BY <1>2, <1>3, <1>4 DEF Number

\* What is at some place is there.
LEMMA PlaceHas ==
  ASSUME NEW q, NEW A, NEW i \in DOMAIN q, q[i] \in A PROVE Has(q, A)
BY DEF Has

-----------------------------------------------------------------------------
(* The way from the adapter's fences to the modem's.                       *)

\* The first message is handled: the way goes on from what the adapter has then.
LEMMA WayOn ==
  ASSUME NEW S, NEW q \in Seq(S), q # <<>>, NEW w, NEW F, NEW N, Leads(F, N, q, w)
  PROVE  /\ Handled(w, F[0], N[0], Head(q), F[1], N[1])
         /\ Head(q) \in Changes => Ready(F[0], N[0], Head(q).req)
         /\ \E G, K :
              /\ Leads(G, K, Tail(q), w)
              /\ G[0] = F[1] /\ K[0] = N[1] /\ G[Len(Tail(q))] = F[Len(q)]
              /\ \A j \in 0..Len(Tail(q)) : j + 1 \in 0..Len(q) /\ G[j] = F[j + 1] /\ K[j] = N[j + 1]
<1> DEFINE r == Tail(q)
           G == [j \in 0..Len(r) |-> F[j + 1]]
           K == [j \in 0..Len(r) |-> N[j + 1]]
<1>1. /\ Len(q) \in Nat \ {0} /\ Len(r) = Len(q) - 1 /\ Head(q) = q[1]
      /\ \A i \in 1..Len(r) : r[i] = q[i + 1]
  BY HeadTailProperties, EmptySeq
<1>2. /\ F \in [0..Len(q) -> [HwIds -> Fences \cup {NoFence}]]
      /\ N \in [0..Len(q) -> [Ids -> HwIds \cup {NoHwId}]]
      /\ \A i \in 1..Len(q) : Handled(w, F[i - 1], N[i - 1], q[i], F[i], N[i])
      /\ \A i \in 1..Len(q) :
           q[i] \in Changes => \A j \in 0..i - 1 : Ready(F[j], N[j], q[i].req)
  BY DEF Leads
<1> HIDE DEF r
<1>3. Handled(w, F[0], N[0], Head(q), F[1], N[1])
      /\ (Head(q) \in Changes => Ready(F[0], N[0], Head(q).req))
  <2>1. 1 \in 1..Len(q) /\ 1 - 1 = 0 /\ 0 \in 0..1 - 1
    BY <1>1
  <2>2. Handled(w, F[1 - 1], N[1 - 1], q[1], F[1], N[1])
    BY <1>2, <2>1
  <2>3. q[1] \in Changes => Ready(F[0], N[0], q[1].req)
    BY <1>2, <2>1
  <2>4. QED
    BY <1>1, <2>1, <2>2, <2>3
<1>4. \A j \in 0..Len(r) : j + 1 \in 0..Len(q) /\ G[j] = F[j + 1] /\ K[j] = N[j + 1]
  BY <1>1
<1>5. /\ G \in [0..Len(r) -> [HwIds -> Fences \cup {NoFence}]]
      /\ K \in [0..Len(r) -> [Ids -> HwIds \cup {NoHwId}]]
  BY <1>1, <1>2
<1> HIDE DEF G, K
<1>6. ASSUME NEW i \in 1..Len(r) PROVE Handled(w, G[i - 1], K[i - 1], r[i], G[i], K[i])
  <2>1. i + 1 \in 1..Len(q) /\ (i + 1) - 1 = i /\ i - 1 \in 0..Len(r) /\ i \in 0..Len(r)
        /\ (i - 1) + 1 = i
    BY <1>1
  <2>2. Handled(w, F[(i + 1) - 1], N[(i + 1) - 1], q[i + 1], F[i + 1], N[i + 1])
    BY <1>2, <2>1
  <2>3. /\ r[i] = q[i + 1] /\ G[i] = F[i + 1] /\ K[i] = N[i + 1]
        /\ G[i - 1] = F[i] /\ K[i - 1] = N[i]
    BY <1>1, <1>4, <2>1
  <2>4. QED
    BY <2>1, <2>2, <2>3
<1>7. ASSUME NEW i \in 1..Len(r), r[i] \in Changes, NEW j \in 0..i - 1
      PROVE  Ready(G[j], K[j], r[i].req)
  <2>1. i + 1 \in 1..Len(q) /\ j + 1 \in 0..(i + 1) - 1 /\ j \in 0..Len(r)
    BY <1>1
  <2>2. r[i] = q[i + 1] /\ G[j] = F[j + 1] /\ K[j] = N[j + 1]
    BY <1>1, <1>4, <2>1
  <2>3. q[i + 1] \in Changes => \A k \in 0..(i + 1) - 1 : Ready(F[k], N[k], q[i + 1].req)
    BY <1>2, <2>1
  <2>4. QED
    BY <1>7, <2>1, <2>2, <2>3
<1>8. Leads(G, K, r, w)
  BY <1>5, <1>6, <1>7 DEF Leads
<1>9. G[0] = F[1] /\ K[0] = N[1] /\ G[Len(r)] = F[Len(q)]
  <2>1. 0 \in 0..Len(r) /\ 0 + 1 = 1 /\ Len(r) \in 0..Len(r) /\ Len(r) + 1 = Len(q)
    BY <1>1
  <2>2. G[0] = F[0 + 1] /\ K[0] = N[0 + 1] /\ G[Len(r)] = F[Len(r) + 1]
    BY <1>4, <2>1
  <2>3. QED
    BY <2>1, <2>2
<1>10. QED
  BY <1>3, <1>4, <1>8, <1>9 DEF r

\* A message comes: the way is longer by what the adapter has after it.
LEMMA WayLonger ==
  ASSUME NEW S, NEW q \in Seq(S), NEW x \in S, NEW t, Extended(t, q, x),
         NEW w, NEW F, NEW N, Leads(F, N, q, w),
         NEW g \in [HwIds -> Fences \cup {NoFence}], NEW k \in [Ids -> HwIds \cup {NoHwId}],
         Handled(w, F[Len(q)], N[Len(q)], x, g, k),
         x \in Changes => \A j \in 0..Len(q) : Ready(F[j], N[j], x.req)
  PROVE  \E G, K :
           /\ Leads(G, K, t, w)
           /\ G[0] = F[0] /\ K[0] = N[0] /\ Len(t) = Len(q) + 1
           /\ G[Len(t)] = g /\ K[Len(t)] = k
           /\ \A j \in 0..Len(q) : G[j] = F[j] /\ K[j] = N[j]
<1> DEFINE n == Len(q)
           G == [j \in 0..n + 1 |-> IF j = n + 1 THEN g ELSE F[j]]
           K == [j \in 0..n + 1 |-> IF j = n + 1 THEN k ELSE N[j]]
<1>1. n \in Nat /\ Len(t) = n + 1 /\ t[n + 1] = x /\ \A i \in 1..n : t[i] = q[i]
  BY AppendProperties DEF Extended
<1>2. /\ F \in [0..n -> [HwIds -> Fences \cup {NoFence}]]
      /\ N \in [0..n -> [Ids -> HwIds \cup {NoHwId}]]
      /\ \A i \in 1..n : Handled(w, F[i - 1], N[i - 1], q[i], F[i], N[i])
      /\ \A i \in 1..n :
           q[i] \in Changes => \A j \in 0..i - 1 : Ready(F[j], N[j], q[i].req)
  BY DEF Leads
<1> HIDE DEF n
<1>3. \A j \in 0..n : G[j] = F[j] /\ K[j] = N[j]
  BY <1>1
<1>4. G[n + 1] = g /\ K[n + 1] = k
  BY <1>1
<1>5. /\ G \in [0..n + 1 -> [HwIds -> Fences \cup {NoFence}]]
      /\ K \in [0..n + 1 -> [Ids -> HwIds \cup {NoHwId}]]
  BY <1>1, <1>2
<1> HIDE DEF G, K
<1>6. ASSUME NEW i \in 1..n + 1 PROVE Handled(w, G[i - 1], K[i - 1], t[i], G[i], K[i])
  <2>1. CASE i = n + 1
    <3>1. i - 1 = n /\ n \in 0..n
      BY <1>1, <2>1
    <3>2. Handled(w, F[n], N[n], x, g, k)
      BY DEF n
    <3>3. QED
      BY <1>1, <1>3, <1>4, <2>1, <3>1, <3>2
  <2>2. CASE i # n + 1
    <3>1. i \in 1..n /\ i \in 0..n /\ i - 1 \in 0..n
      BY <1>1, <2>2
    <3>2. Handled(w, F[i - 1], N[i - 1], q[i], F[i], N[i])
      BY <1>2, <3>1
    <3>3. QED
      BY <1>1, <1>3, <3>1, <3>2
  <2>3. QED
    BY <2>1, <2>2
<1>7. ASSUME NEW i \in 1..n + 1, t[i] \in Changes, NEW j \in 0..i - 1
      PROVE  Ready(G[j], K[j], t[i].req)
  <2>1. j \in 0..n /\ G[j] = F[j] /\ K[j] = N[j]
    BY <1>1, <1>3
  <2>2. CASE i = n + 1
    <3>1. x \in Changes /\ t[i] = x
      BY <1>1, <1>7, <2>2
    <3>2. Ready(F[j], N[j], x.req)
      BY <2>1, <3>1 DEF n
    <3>3. QED
      BY <2>1, <3>1, <3>2
  <2>3. CASE i # n + 1
    <3>1. i \in 1..n /\ t[i] = q[i]
      BY <1>1, <2>3
    <3>2. QED
      BY <1>2, <1>7, <2>1, <3>1
  <2>4. QED
    BY <2>2, <2>3
<1>8. Leads(G, K, t, w)
  BY <1>1, <1>5, <1>6, <1>7 DEF Leads
<1>9. G[0] = F[0] /\ K[0] = N[0]
  BY <1>1, <1>3
<1>10. QED
  BY <1>1, <1>3, <1>4, <1>8, <1>9 DEF n

-----------------------------------------------------------------------------
(* What counts as what.                                                    *)

\* The requests by their kinds.
LEMMA RequestClasses ==
  ASSUME NEW id
  PROVE  /\ \A r \in Turnings : /\ r \in CmdReqs(id) <=> IdOf(r) = id
                                /\ r \in AddReqs(id) <=> IdOf(r) = id /\ r.command.op = "add"
                                /\ r \notin AsksOf(id) /\ r \notin ByNumber /\ r \notin Stops
         /\ \A r \in Asks : /\ r \in CmdReqs(id) <=> IdOf(r) = id
                            /\ r \in AsksOf(id) <=> IdOf(r) = id
                            /\ r \in AddReqs(id) <=> IdOf(r) = id /\ r.call = "add"
                            /\ r \notin Stops /\ r \notin Restores
         /\ \A r \in Restores : /\ r \notin CmdReqs(id) /\ r \notin AsksOf(id)
                                /\ r \in AddReqs(id) <=> r.fence.id = id
                                /\ r \notin ByNumber /\ r \notin Stops
         /\ \A r \in Stops : /\ r \notin CmdReqs(id) /\ r \notin AsksOf(id) /\ r \notin AddReqs(id)
                             /\ r \in ByNumber /\ r \notin Asks /\ r \notin Restores
         /\ \A r \in Pauses \cup Opens :
              /\ r \notin CmdReqs(id) /\ r \notin AsksOf(id) /\ r \notin AddReqs(id)
              /\ r \notin ByNumber /\ r \notin Stops /\ r \notin Restores
         /\ \A r \in ByNumber : (r \in Asks \/ r \in Stops) /\ r.hwId \in HwIds
                                /\ (r \in Asks => r.command.op = r.call /\ IdOf(r) \in Ids)
<1>1. ASSUME NEW r \in Turnings
      PROVE  /\ r \in CmdReqs(id) <=> IdOf(r) = id
             /\ r \in AddReqs(id) <=> IdOf(r) = id /\ r.command.op = "add"
             /\ r \notin AsksOf(id) /\ r \notin ByNumber /\ r \notin Stops
  <2>1. r.call = "turn"
    BY DEF Turnings, Turns
  <2>2. r \notin Made
    BY <2>1, MadeCases DEF Operations
  <2>3. r \notin Asks /\ r \notin Restores /\ r \notin Stops
    BY <2>2 DEF Made
  <2>4. QED
    BY <2>2, <2>3 DEF CmdReqs, AddReqs, AsksOf, ByNumber
<1>2. ASSUME NEW r \in Made PROVE r \notin Turnings /\ r \in Requests
  <2>1. r.call # "turn" /\ r \in Requests
    BY MadeCases DEF Operations
  <2>2. QED
    BY <2>1 DEF Turnings, Turns
<1>3. ASSUME NEW r \in Asks
      PROVE  /\ r \in CmdReqs(id) <=> IdOf(r) = id
             /\ r \in AsksOf(id) <=> IdOf(r) = id
             /\ r \in AddReqs(id) <=> IdOf(r) = id /\ r.call = "add"
             /\ r \notin Stops /\ r \notin Restores
  <2>1. r \in Made /\ r.then = "done" /\ r.call = r.command.op
    BY DEF Made, Asks
  <2>2. r \notin Stops /\ r \notin Restores
    BY <2>1 DEF Stops, Restores
  <2>3. QED
    BY <2>1, <2>2 DEF CmdReqs, AddReqs, AsksOf
<1>4. ASSUME NEW r \in Restores
      PROVE  /\ r \notin CmdReqs(id) /\ r \notin AsksOf(id)
             /\ r \in AddReqs(id) <=> r.fence.id = id
             /\ r \notin ByNumber /\ r \notin Stops
  <2>1. r \in Made /\ r.then = "restored" /\ r.call = "add"
    BY DEF Made, Restores
  <2>2. r \notin Stops /\ r \notin Asks /\ r \notin ByNumber
    BY <2>1 DEF Stops, Asks, ByNumber
  <2>3. QED
    BY <1>2, <2>1, <2>2 DEF CmdReqs, AddReqs, AsksOf
<1>5. ASSUME NEW r \in Stops
      PROVE  /\ r \notin CmdReqs(id) /\ r \notin AsksOf(id) /\ r \notin AddReqs(id)
             /\ r \in ByNumber /\ r \notin Asks /\ r \notin Restores
  <2>1. r \in Made /\ r.then = "stopped" /\ r.call = "remove"
    BY DEF Made, Stops
  <2>2. r \notin Restores /\ r \notin Asks /\ r \in ByNumber
    BY <2>1 DEF Restores, Asks, ByNumber
  <2>3. QED
    BY <1>2, <2>1, <2>2 DEF CmdReqs, AddReqs, AsksOf
<1>6. ASSUME NEW r \in Pauses \cup Opens
      PROVE  /\ r \notin CmdReqs(id) /\ r \notin AsksOf(id) /\ r \notin AddReqs(id)
             /\ r \notin ByNumber /\ r \notin Stops /\ r \notin Restores
  <2>1. r \in Made /\ r.then \in {"paused", "nothing"} /\ r.call \in {"pause", "resume", "open"}
    BY DEF Made, Pauses, Opens
  <2>2. r \notin Restores /\ r \notin Asks /\ r \notin ByNumber /\ r \notin Stops
    BY <2>1 DEF Restores, Asks, ByNumber, Stops
  <2>3. QED
    BY <1>2, <2>1, <2>2 DEF CmdReqs, AddReqs, AsksOf
<1>7. ASSUME NEW r \in ByNumber
      PROVE  (r \in Asks \/ r \in Stops) /\ r.hwId \in HwIds
             /\ (r \in Asks => r.command.op = r.call /\ IdOf(r) \in Ids)
  <2>1. r \in Made /\ r.call \in {"remove", "modify"}
    BY DEF ByNumber
  <2>2. r \in Asks \/ r \in Stops
    <3>1. r \notin Restores /\ r \notin Pauses /\ r \notin Opens
      BY <2>1 DEF Restores, Pauses, Opens
    <3>2. QED
      BY <2>1, <3>1 DEF Made
  <2>3. r.hwId \in HwIds
    BY <2>1, MadeCases
  <2>4. r \in Asks => r.command.op = r.call /\ r.command \in Cmds /\ r.i \in DOMAIN r.command.ids
    BY DEF Asks
  <2>5. r \in Asks => IdOf(r) \in Ids
    BY <2>4, CommandFacts DEF IdOf
  <2>6. QED
    BY <2>2, <2>3, <2>4, <2>5
<1>8. QED
  BY <1>1, <1>3, <1>4, <1>5, <1>6, <1>7

\* A message that says that a turn has come.
LEMMA TurnClass ==
  ASSUME NEW r \in Turnings, NEW m, m.kind = "turn", m.req = r, m \in Turned, NEW id
  PROVE  /\ m \in CmdMsgs(id) <=> r \in CmdReqs(id)
         /\ m \in AddMsgs(id) <=> r \in AddReqs(id)
         /\ m \notin DoneOf(id) /\ m \notin Replies /\ m \notin Puts \cup Changes \cup Ups \cup Removals
<1>1. m \notin Replies /\ m \notin Ups /\ m \notin ClientMsgs
  BY DEF Replies, Ups, EngineUp, ClientMsgs
<1>2. /\ r \in CmdReqs(id) <=> IdOf(r) = id
      /\ r \in AddReqs(id) <=> IdOf(r) = id /\ r.command.op = "add"
  BY RequestClasses
<1>3. QED
  BY <1>1, <1>2 DEF CmdMsgs, AddMsgs, DoneOf, Puts, Changes, Removals

\* A message that answers a request.
LEMMA ReplyClass ==
  ASSUME NEW m \in Replies, NEW id
  PROVE  /\ m \in CmdMsgs(id) <=> m.req \in CmdReqs(id)
         /\ m \in DoneOf(id) <=> m.req \in AsksOf(id)
         /\ m \in AddMsgs(id) <=> m.req \in AddReqs(id)
         /\ m \notin Turned /\ m \notin Ups /\ m \notin Removals
         /\ m \in Puts <=> m.ok /\ m.req.call = "add"
         /\ m \in Changes <=> m.ok /\ m.req \in ByNumber
<1>1. m \notin Turned /\ m \notin Ups /\ m \notin ClientMsgs
  BY DEF Turned, Replies, Ups, EngineUp, ClientMsgs
<1>2. m.req \in Made /\ m.req.then = m.kind
  BY ReplyFacts
<1>3. CASE m.req \in Asks
  <2>1. m.kind = "done"
    BY <1>2, <1>3 DEF Asks
  <2>2. m.req.call = m.req.command.op
    BY <1>3 DEF Asks
  <2>3. QED
    BY <1>1, <1>3, <2>1, <2>2, RequestClasses DEF CmdMsgs, AddMsgs, DoneOf, Puts, Changes, Removals
<1>4. CASE m.req \in Restores
  <2>1. m.kind = "restored"
    BY <1>2, <1>4 DEF Restores
  <2>2. QED
    BY <1>1, <1>4, <2>1, RequestClasses DEF CmdMsgs, AddMsgs, DoneOf, Puts, Changes, Removals
<1>5. CASE m.req \in Stops \cup Pauses \cup Opens
  <2>1. m.kind \notin {"done", "restored"}
    BY <1>2, <1>5 DEF Stops, Pauses, Opens
  <2>2. m.req \notin CmdReqs(id) /\ m.req \notin AsksOf(id) /\ m.req \notin AddReqs(id)
    BY <1>5, RequestClasses
  <2>3. QED
    BY <1>1, <2>1, <2>2 DEF CmdMsgs, AddMsgs, DoneOf, Puts, Changes, Removals
<1>6. QED
  BY <1>2, <1>3, <1>4, <1>5 DEF Made

\* The other messages.
LEMMA OtherClass ==
  ASSUME NEW m \in ClientMsgs \cup {EngineUp}, NEW id
  PROVE  /\ m \notin CmdMsgs(id) /\ m \notin DoneOf(id) /\ m \notin AddMsgs(id)
         /\ m \notin Turned /\ m \notin Replies /\ m \notin Puts /\ m \notin Changes
         /\ \A h : m \notin StoppedOf(h)
         /\ m \in Ups <=> m = EngineUp
         /\ EngineUp \notin ClientMsgs
<1>1. m.kind \in {"addClient", "removeClient", "engineUp"} /\ EngineUp.kind = "engineUp"
  BY DEF ClientMsgs, EngineUp
<1>2. m \notin Turned /\ m \notin Replies /\ EngineUp \notin ClientMsgs
  BY <1>1 DEF Turned, Replies, ClientMsgs
<1>3. QED
  BY <1>2 DEF CmdMsgs, AddMsgs, DoneOf, Puts, Changes, StoppedOf, Ups

-----------------------------------------------------------------------------
(* What a message changes.                                                 *)

\* A fence but for being paused.
LEMMA PlainFacts ==
  ASSUME NEW f \in Fences \cup {NoFence}
  PROVE  /\ Plain(f) \in Fences \cup {NoFence}
         /\ Plain(f) = NoFence <=> f = NoFence
         /\ Plain(f).id = f.id
         /\ f \in Fences => Plain(f) \in Fences /\ Plain(f).options = f.options
<1>1. CASE f = NoFence
  BY <1>1, ConstantFacts DEF Plain
<1>2. CASE f \in Fences
  <2>1. f # NoFence /\ f.id \in Ids /\ f.options \in Options
    BY <1>2, ConstantFacts DEF Fences
  <2>2. Plain(f) = Fence(f.id, f.options, FALSE)
    BY <2>1 DEF Plain
  <2>3. Plain(f) \in Fences /\ Plain(f).id = f.id /\ Plain(f).options = f.options
    <3>1. /\ Fence(f.id, f.options, FALSE) \in Fences
          /\ Fence(f.id, f.options, FALSE).id = f.id
          /\ Fence(f.id, f.options, FALSE).options = f.options
      BY <2>1, FenceFacts
    <3>2. QED
      BY <2>2, <3>1
  <2>4. QED
    BY <2>1, <2>3, ConstantFacts
<1>3. QED
  BY <1>1, <1>2

\* The fences but for being paused.
LEMMA PlainlyFacts ==
  ASSUME NEW fences \in [HwIds -> Fences \cup {NoFence}]
  PROVE  /\ Plainly(fences) \in [HwIds -> Fences \cup {NoFence}]
         /\ \A h \in HwIds : /\ Plainly(fences)[h] = Plain(fences[h])
                             /\ Plainly(fences)[h] = NoFence <=> fences[h] = NoFence
                             /\ Plainly(fences)[h].id = fences[h].id
<1>1. \A h \in HwIds : /\ fences[h] \in Fences \cup {NoFence}
                       /\ Plainly(fences)[h] = Plain(fences[h])
  BY DEF Plainly
<1>2. \A h \in HwIds : /\ Plain(fences[h]) \in Fences \cup {NoFence}
                       /\ Plain(fences[h]) = NoFence <=> fences[h] = NoFence
                       /\ Plain(fences[h]).id = fences[h].id
  BY <1>1, PlainFacts
<1>3. Plainly(fences) \in [HwIds -> Fences \cup {NoFence}]
  BY <1>2 DEF Plainly
<1>4. QED
  BY <1>1, <1>2, <1>3

\* The entries that a message changes, in terms of what the adapter has.
Entries(w, f, n, m, g, k) ==
  \/ \E h \in HwIds, a \in Fences :
       /\ m \in Puts /\ m.hwId = h /\ m.req.fence.id = a.id /\ a = Plain(m.req.fence)
       /\ f[h] = NoFence /\ \A x \in HwIds : f[x].id # a.id
       /\ g = [f EXCEPT ![h] = a] /\ k = [n EXCEPT ![a.id] = h]
  \/ \E h \in HwIds :
       /\ m \in StoppedOf(h) /\ m.req.hwId = h
       /\ f[h] \in Fences /\ n[f[h].id] = NoHwId
       /\ g = [f EXCEPT ![h] = NoFence] /\ k = n
  \/ \E h \in HwIds, id \in Ids :
       /\ m \in Changes /\ m \in DoneOf(id) /\ m.req.hwId = h
       /\ f[h] \in Fences /\ f[h].id = id /\ n[id] = h
       /\ g = [f EXCEPT ![h] = NoFence] /\ k = [n EXCEPT ![id] = NoHwId]
  \/ \E h \in HwIds, a \in Fences :
       /\ m \in Changes /\ m.req.hwId = h /\ a = Plain(m.req.fence) /\ m.req.call = "modify"
       /\ f[h] \in Fences /\ f[h].id = a.id /\ g = [f EXCEPT ![h] = a] /\ k = n
  \/ /\ m = EngineUp
     /\ g = [h \in HwIds |-> NoFence] /\ k = [id \in Ids |-> NoHwId]
  \/ \E c \in Clients :
       /\ m \in RemovalsOf(c)
       /\ g = f /\ k = [id \in Ids |-> IF w[id] = c THEN NoHwId ELSE n[id]]
  \/ m \notin Puts \cup Changes \cup Ups \cup Removals /\ g = f /\ k = n

\* A message changes those entries.
LEMMA HandledCases ==
  ASSUME NEW w, NEW f \in [HwIds -> Fences \cup {NoFence}], NEW n \in [Ids -> HwIds \cup {NoHwId}],
         NEW m \in Msgs, NEW g, NEW k, Handled(w, f, n, m, g, k),
         m \in Changes => Ready(f, n, m.req)
  PROVE  Entries(w, f, n, m, g, k)
<1>1. CASE /\ m \in Puts
           /\ f[m.hwId] = NoFence /\ \A h \in HwIds : f[h].id # m.req.fence.id
           /\ g = [f EXCEPT ![m.hwId] = Plain(m.req.fence)]
           /\ k = [n EXCEPT ![m.req.fence.id] = m.hwId]
  <2>1. m \in Replies /\ m.ok /\ m.req.call = "add"
    BY <1>1 DEF Puts
  <2>2. m.hwId \in HwIds /\ m.req.fence \in Fences
    BY <2>1, ReplyFacts, MadeCases
  <2>3. Plain(m.req.fence) \in Fences /\ Plain(m.req.fence).id = m.req.fence.id
    BY <2>2, PlainFacts
  <2>4. QED
    BY <1>1, <2>2, <2>3 DEF Entries
<1>2. ASSUME m \in Changes
      PROVE  /\ m \in Replies /\ m.req \in ByNumber /\ m.req \in Made /\ m.req.hwId \in HwIds
             /\ Ready(f, n, m.req) /\ f[m.req.hwId] \in Fences
  <2>1. m \in Replies /\ m.req \in ByNumber /\ m.req \in Made
    BY <1>2 DEF Changes, ByNumber
  <2>2. m.req.hwId \in HwIds
    BY <2>1, RequestClasses
  <2>3. Ready(f, n, m.req)
    BY <1>2
  <2>4. f[m.req.hwId] # NoFence
    BY <2>3 DEF Ready
  <2>5. QED
    BY <2>1, <2>2, <2>3, <2>4
<1>3. CASE /\ m \in Changes /\ m.req \in Stops
           /\ g = [f EXCEPT ![m.req.hwId] = NoFence] /\ k = n
  <2>1. m \in StoppedOf(m.req.hwId)
    BY <1>3 DEF StoppedOf, StopsOf
  <2>2. n[f[m.req.hwId].id] = NoHwId
    BY <1>2, <1>3 DEF Ready
  <2>3. QED
    BY <1>2, <1>3, <2>1, <2>2 DEF Entries
<1>4. CASE /\ m \in Changes /\ m.req \in Asks /\ m.req.call = "remove"
           /\ g = [f EXCEPT ![m.req.hwId] = NoFence] /\ k = [n EXCEPT ![IdOf(m.req)] = NoHwId]
  <2>1. f[m.req.hwId].id = IdOf(m.req) /\ n[IdOf(m.req)] = m.req.hwId
    BY <1>2, <1>4 DEF Ready
  <2>2. IdOf(m.req) \in Ids
    BY <1>2, <1>4, RequestClasses
  <2>3. m \in DoneOf(IdOf(m.req))
    BY <1>2, <1>4, ReplyClass, RequestClasses
  <2>4. QED
    BY <1>2, <1>4, <2>1, <2>2, <2>3 DEF Entries
<1>5. CASE /\ m \in Changes /\ m.req.call = "modify"
           /\ g = [f EXCEPT ![m.req.hwId] = Plain(m.req.fence)] /\ k = n
  <2>1. m.req \in Asks
    <3>1. m.req \notin Stops
      BY <1>5 DEF Stops
    <3>2. QED
      BY <1>2, <1>5, <3>1, RequestClasses
  <2>2. f[m.req.hwId].id = IdOf(m.req)
    BY <1>2, <1>5, <2>1 DEF Ready
  <2>3. m.req.fence \in Fences /\ m.req.fence.id = IdOf(m.req)
    BY <1>5, <2>1 DEF Asks
  <2>4. Plain(m.req.fence) \in Fences /\ Plain(m.req.fence).id = m.req.fence.id
    BY <2>3, PlainFacts
  <2>5. QED
    BY <1>2, <1>5, <2>2, <2>3, <2>4 DEF Entries
<1>6. CASE /\ m = EngineUp
           /\ g = [h \in HwIds |-> NoFence] /\ k = [id \in Ids |-> NoHwId]
  BY <1>6 DEF Entries
<1>7. CASE /\ m \in Removals
           /\ g = f /\ k = [id \in Ids |-> IF w[id] = m.client THEN NoHwId ELSE n[id]]
  <2>1. m.client \in Clients /\ m \in RemovalsOf(m.client)
    BY <1>7 DEF Removals, RemovalsOf, ClientMsgs
  <2>2. QED
    BY <1>7, <2>1 DEF Entries
<1>8. CASE m \notin Puts \cup Changes \cup Ups \cup Removals /\ g = f /\ k = n
  BY <1>8 DEF Entries
<1>9. \/ /\ m \in Puts
         /\ f[m.hwId] = NoFence /\ \A h \in HwIds : f[h].id # m.req.fence.id
         /\ g = [f EXCEPT ![m.hwId] = Plain(m.req.fence)]
         /\ k = [n EXCEPT ![m.req.fence.id] = m.hwId]
      \/ /\ m \in Changes /\ m.req \in Stops
         /\ g = [f EXCEPT ![m.req.hwId] = NoFence] /\ k = n
      \/ /\ m \in Changes /\ m.req \in Asks /\ m.req.call = "remove"
         /\ g = [f EXCEPT ![m.req.hwId] = NoFence] /\ k = [n EXCEPT ![IdOf(m.req)] = NoHwId]
      \/ /\ m \in Changes /\ m.req.call = "modify"
         /\ g = [f EXCEPT ![m.req.hwId] = Plain(m.req.fence)] /\ k = n
      \/ /\ m = EngineUp
         /\ g = [h \in HwIds |-> NoFence] /\ k = [id \in Ids |-> NoHwId]
      \/ /\ m \in Removals
         /\ g = f /\ k = [id \in Ids |-> IF w[id] = m.client THEN NoHwId ELSE n[id]]
      \/ m \notin Puts \cup Changes \cup Ups \cup Removals /\ g = f /\ k = n
  BY DEF Handled
<1>10. QED
  BY <1>9, <1>1, <1>3, <1>4, <1>5, <1>6, <1>7, <1>8

\* What the adapter has is well typed afterwards, a number leads to its fence and a
\* fence has one number.
LEMMA HandledFits ==
  ASSUME NEW w, NEW f \in [HwIds -> Fences \cup {NoFence}], NEW n \in [Ids -> HwIds \cup {NoHwId}],
         NEW m \in Msgs, NEW g, NEW k, Handled(w, f, n, m, g, k),
         m \in Changes => Ready(f, n, m.req),
         HasNumbers(f, n), Unique(f)
  PROVE  HasNumbers(g, k) /\ Unique(g)
<1>0. NoHwId \notin HwIds /\ NoFence \notin Fences /\ NoFence.id \notin Ids
      /\ \A a \in Fences : a.id \in Ids
  BY ConstantFacts
<1>c. Entries(w, f, n, m, g, k)
  BY HandledCases
<1>1. ASSUME NEW h \in HwIds, NEW a \in Fences,
             f[h] = NoFence, \A x \in HwIds : f[x].id # a.id,
             g = [f EXCEPT ![h] = a], k = [n EXCEPT ![a.id] = h]
      PROVE  HasNumbers(g, k) /\ Unique(g)
  <2>1. g[h] = a /\ (\A x \in HwIds \ {h} : g[x] = f[x]) /\ a.id \in Ids
        /\ k[a.id] = h /\ \A id \in Ids \ {a.id} : k[id] = n[id]
    BY <1>0, <1>1
  <2>2. HasNumbers(g, k)
    <3>1. ASSUME NEW id \in Ids, k[id] # NoHwId PROVE g[k[id]].id = id
      <4>1. CASE id = a.id
        BY <2>1, <4>1
      <4>2. CASE id # a.id
        <5>1. n[id] \in HwIds /\ f[n[id]].id = id /\ k[id] = n[id]
          BY <2>1, <3>1, <4>2 DEF HasNumbers
        <5>2. n[id] # h
          BY <1>0, <1>1, <5>1
        <5>3. QED
          BY <2>1, <5>1, <5>2
      <4>3. QED
        BY <4>1, <4>2
    <3>2. QED
      BY <3>1 DEF HasNumbers
  <2>3. Unique(g)
    BY <1>1, <2>1 DEF Unique
  <2>4. QED
    BY <2>2, <2>3
<1>2. ASSUME NEW h \in HwIds, f[h] \in Fences, n[f[h].id] = NoHwId,
             g = [f EXCEPT ![h] = NoFence], k = n
      PROVE  HasNumbers(g, k) /\ Unique(g)
  <2>1. g[h] = NoFence /\ \A x \in HwIds \ {h} : g[x] = f[x]
    BY <1>2
  <2>2. HasNumbers(g, k)
    <3>1. ASSUME NEW id \in Ids, k[id] # NoHwId PROVE g[k[id]].id = id
      <4>1. n[id] \in HwIds /\ f[n[id]].id = id /\ k[id] = n[id]
        BY <1>2, <3>1 DEF HasNumbers
      <4>2. n[id] # h
        BY <1>2, <3>1, <4>1
      <4>3. QED
        BY <2>1, <4>1, <4>2
    <3>2. QED
      BY <3>1 DEF HasNumbers
  <2>3. Unique(g)
    BY <1>0, <2>1 DEF Unique
  <2>4. QED
    BY <2>2, <2>3
<1>3. ASSUME NEW h \in HwIds, NEW id \in Ids, f[h] \in Fences, f[h].id = id, n[id] = h,
             g = [f EXCEPT ![h] = NoFence], k = [n EXCEPT ![id] = NoHwId]
      PROVE  HasNumbers(g, k) /\ Unique(g)
  <2>1. g[h] = NoFence /\ (\A x \in HwIds \ {h} : g[x] = f[x])
        /\ k[id] = NoHwId /\ \A x \in Ids \ {id} : k[x] = n[x]
    BY <1>3
  <2>2. HasNumbers(g, k)
    <3>1. ASSUME NEW x \in Ids, k[x] # NoHwId PROVE g[k[x]].id = x
      <4>1. x # id
        BY <2>1, <3>1
      <4>2. n[x] \in HwIds /\ f[n[x]].id = x /\ k[x] = n[x]
        BY <2>1, <3>1, <4>1 DEF HasNumbers
      <4>3. n[x] # h
        BY <1>3, <4>1, <4>2
      <4>4. QED
        BY <2>1, <4>2, <4>3
    <3>2. QED
      BY <3>1 DEF HasNumbers
  <2>3. Unique(g)
    BY <1>0, <2>1 DEF Unique
  <2>4. QED
    BY <2>2, <2>3
<1>4. ASSUME NEW h \in HwIds, NEW a \in Fences, f[h] \in Fences, f[h].id = a.id,
             g = [f EXCEPT ![h] = a], k = n
      PROVE  HasNumbers(g, k) /\ Unique(g)
  <2>1. g \in [HwIds -> Fences \cup {NoFence}]
        /\ \A x \in HwIds : g[x].id = f[x].id /\ (g[x] = NoFence <=> f[x] = NoFence)
    BY <1>0, <1>4
  <2>2. HasNumbers(g, k)
    BY <1>4, <2>1 DEF HasNumbers
  <2>3. Unique(g)
    BY <2>1 DEF Unique
  <2>4. QED
    BY <2>2, <2>3
<1>5. CASE g = [h \in HwIds |-> NoFence] /\ k = [id \in Ids |-> NoHwId]
  BY <1>5 DEF HasNumbers, Unique
<1>6. ASSUME NEW c, g = f, k = [id \in Ids |-> IF w[id] = c THEN NoHwId ELSE n[id]]
      PROVE  HasNumbers(g, k) /\ Unique(g)
  BY <1>6 DEF HasNumbers
<1>7. CASE g = f /\ k = n
  BY <1>7
<1>8. QED
  BY <1>c, <1>1, <1>2, <1>3, <1>4, <1>5, <1>6, <1>7 DEF Entries

\* A fence is kept that has no number.
Nameless(f, n, h) == f[h] # NoFence /\ n[f[h].id] = NoHwId

\* It was without a number before, unless its client is removed.
LEMMA HandledForgets ==
  ASSUME NEW w, NEW f \in [HwIds -> Fences \cup {NoFence}], NEW n \in [Ids -> HwIds \cup {NoHwId}],
         NEW m \in Msgs, NEW g, NEW k, Handled(w, f, n, m, g, k),
         m \in Changes => Ready(f, n, m.req), Unique(f),
         NEW h \in HwIds, Nameless(g, k, h)
  PROVE  /\ f[h] # NoFence /\ f[h].id = g[h].id /\ m # EngineUp /\ m \notin StoppedOf(h)
         /\ Nameless(f, n, h) \/ m \in Removals
<1>n. g[h] # NoFence /\ k[g[h].id] = NoHwId
  BY DEF Nameless
<1> USE <1>n
<1>0. NoHwId \notin HwIds /\ NoFence \notin Fences /\ NoFence.id \notin Ids
      /\ \A a \in Fences : a.id \in Ids
  BY ConstantFacts
<1>a. \A x : x \in StoppedOf(h) => x \in Changes /\ x \in Replies /\ x.req.hwId = h
  BY DEF StoppedOf, StopsOf, Changes
<1>b. EngineUp \notin Replies /\ EngineUp \notin Removals
  BY OtherClass DEF Removals
<1>c. Entries(w, f, n, m, g, k)
  BY HandledCases
<1>1. ASSUME NEW x \in HwIds, NEW a \in Fences, m \in Puts,
             f[x] = NoFence, \A y \in HwIds : f[y].id # a.id,
             g = [f EXCEPT ![x] = a], k = [n EXCEPT ![a.id] = x]
      PROVE  f[h] # NoFence /\ f[h].id = g[h].id /\ m # EngineUp /\ m \notin StoppedOf(h)
             /\ n[f[h].id] = NoHwId
  <2>1. h # x
    BY <1>0, <1>1
  <2>2. g[h] = f[h] /\ f[h] \in Fences /\ f[h].id # a.id
    BY <1>1, <2>1
  <2>3. n[f[h].id] = NoHwId
    BY <1>0, <1>1, <2>2
  <2>4. m \in Replies /\ m \notin Changes
    <3>1. m \in Replies /\ m.req.call = "add"
      BY <1>1 DEF Puts
    <3>2. QED
      BY <3>1 DEF Changes, ByNumber
  <2>5. QED
    BY <1>a, <1>b, <2>2, <2>3, <2>4
<1>2. ASSUME NEW x \in HwIds, m \in StoppedOf(x), m.req.hwId = x, f[x] \in Fences,
             g = [f EXCEPT ![x] = NoFence], k = n
      PROVE  f[h] # NoFence /\ f[h].id = g[h].id /\ m # EngineUp /\ m \notin StoppedOf(h)
             /\ n[f[h].id] = NoHwId
  <2>1. h # x /\ g[h] = f[h]
    BY <1>2
  <2>2. m \in Replies
    BY <1>2 DEF StoppedOf, Changes
  <2>3. QED
    BY <1>2, <1>a, <1>b, <2>1, <2>2
<1>3. ASSUME NEW x \in HwIds, NEW id \in Ids, m \in Changes, m \in DoneOf(id), m.req.hwId = x,
             f[x] \in Fences, f[x].id = id, n[id] = x,
             g = [f EXCEPT ![x] = NoFence], k = [n EXCEPT ![id] = NoHwId]
      PROVE  f[h] # NoFence /\ f[h].id = g[h].id /\ m # EngineUp /\ m \notin StoppedOf(h)
             /\ n[f[h].id] = NoHwId
  <2>1. h # x /\ g[h] = f[h] /\ f[h] # NoFence /\ f[h] \in Fences /\ f[h].id \in Ids
    BY <1>0, <1>3
  <2>2. f[h].id # id
    BY <1>3, <2>1 DEF Unique
  <2>3. k[f[h].id] = n[f[h].id]
    BY <1>3, <2>1, <2>2
  <2>4. m \in Replies
    BY <1>3 DEF Changes
  <2>5. QED
    BY <1>3, <1>a, <1>b, <2>1, <2>3, <2>4
<1>4. ASSUME NEW x \in HwIds, NEW a \in Fences, m \in Changes, m.req.call = "modify",
             f[x] \in Fences, f[x].id = a.id, g = [f EXCEPT ![x] = a], k = n
      PROVE  f[h] # NoFence /\ f[h].id = g[h].id /\ m # EngineUp /\ m \notin StoppedOf(h)
             /\ n[f[h].id] = NoHwId
  <2>1. f[h] # NoFence /\ f[h].id = g[h].id
    BY <1>0, <1>4
  <2>2. m \notin StoppedOf(h)
    BY <1>4 DEF StoppedOf, StopsOf, Stops
  <2>3. m \in Replies
    BY <1>4 DEF Changes
  <2>4. QED
    BY <1>4, <1>b, <2>1, <2>2, <2>3
<1>5. ~(g = [x \in HwIds |-> NoFence])
  OBVIOUS
<1>6. ASSUME NEW c, m \in RemovalsOf(c), g = f
      PROVE  f[h] # NoFence /\ f[h].id = g[h].id /\ m # EngineUp /\ m \notin StoppedOf(h)
             /\ m \in Removals
  <2>1. m \in Removals /\ m \in ClientMsgs
    BY <1>6 DEF RemovalsOf, Removals
  <2>2. QED
    BY <1>6, <1>b, <2>1, OtherClass
<1>7. ASSUME m \notin Puts \cup Changes \cup Ups \cup Removals, g = f, k = n
      PROVE  f[h] # NoFence /\ f[h].id = g[h].id /\ m # EngineUp /\ m \notin StoppedOf(h)
             /\ n[f[h].id] = NoHwId
  BY <1>7, <1>a DEF Ups
<1>8. QED
  BY <1>c, <1>1, <1>2, <1>3, <1>4, <1>5, <1>6, <1>7 DEF Entries, Nameless

\* What holds at first and is kept by every message holds all along.
LEMMA Climb ==
  ASSUME NEW n \in Nat, NEW T \in SUBSET (0..n), 0 \in T, \A j \in 1..n : j - 1 \in T => j \in T
  PROVE  \A j \in 0..n : j \in T
<1> SUFFICES ASSUME ~(\A j \in 0..n : j \in T) PROVE FALSE
  OBVIOUS
<1> DEFINE U == {j \in 0..n : j \notin T}
<1>1. U \in SUBSET Nat /\ U # {}
  OBVIOUS
<1>2. PICK j \in U : \A i \in U : j <= i
  BY <1>1, Least
<1>3. j \in 1..n /\ j \notin T
  BY <1>2
<1>4. j - 1 \in 0..n /\ ~(j <= j - 1)
  BY <1>3
<1>5. j - 1 \in T
  BY <1>2, <1>4
<1>6. QED
  BY <1>3, <1>5

\* The i-th message changes those entries.
LEMMA WayStep ==
  ASSUME NEW q \in Seq(Msgs), NEW w, NEW F, NEW N, Leads(F, N, q, w), NEW i \in 1..Len(q)
  PROVE  /\ i \in DOMAIN q /\ q[i] \in Msgs /\ i - 1 \in 0..Len(q) /\ i \in 0..Len(q)
         /\ F[i - 1] \in [HwIds -> Fences \cup {NoFence}] /\ F[i] \in [HwIds -> Fences \cup {NoFence}]
         /\ N[i - 1] \in [Ids -> HwIds \cup {NoHwId}] /\ N[i] \in [Ids -> HwIds \cup {NoHwId}]
         /\ Handled(w, F[i - 1], N[i - 1], q[i], F[i], N[i])
         /\ q[i] \in Changes => Ready(F[i - 1], N[i - 1], q[i].req)
         /\ Entries(w, F[i - 1], N[i - 1], q[i], F[i], N[i])
<1>1. /\ Len(q) \in Nat /\ i \in DOMAIN q /\ q[i] \in Msgs
      /\ i - 1 \in 0..Len(q) /\ i \in 0..Len(q) /\ i - 1 \in 0..i - 1
  BY LenProperties, ElementOfSeq
<1>2. /\ F[i - 1] \in [HwIds -> Fences \cup {NoFence}] /\ F[i] \in [HwIds -> Fences \cup {NoFence}]
      /\ N[i - 1] \in [Ids -> HwIds \cup {NoHwId}] /\ N[i] \in [Ids -> HwIds \cup {NoHwId}]
  BY <1>1 DEF Leads
<1>3. Handled(w, F[i - 1], N[i - 1], q[i], F[i], N[i])
  BY DEF Leads
<1>4. q[i] \in Changes => Ready(F[i - 1], N[i - 1], q[i].req)
  BY <1>1 DEF Leads
<1>5. Entries(w, F[i - 1], N[i - 1], q[i], F[i], N[i])
  BY <1>1, <1>2, <1>3, <1>4, HandledCases
<1>6. QED
  BY <1>1, <1>2, <1>3, <1>4, <1>5

\* A fence keeps its number as long as no command for it is answered, its client is
\* not removed and the modem does not come back.
LEMMA KeepsNumber ==
  ASSUME NEW q \in Seq(Msgs), NEW w, NEW F, NEW N, Leads(F, N, q, w),
         NEW id \in Ids, NEW h \in HwIds, F[0][h].id = id, N[0][id] = h,
         ~Has(q, Ups), ~Has(q, DoneOf(id)), ~Has(q, RemovalsOf(w[id]))
  PROVE  \A j \in 0..Len(q) : F[j][h].id = id /\ N[j][id] = h
<1> DEFINE T == {j \in 0..Len(q) : F[j][h].id = id /\ N[j][id] = h}
<1>1. Len(q) \in Nat /\ T \in SUBSET (0..Len(q)) /\ 0 \in T
  BY LenProperties
<1>2. ASSUME NEW j \in 1..Len(q), j - 1 \in T PROVE j \in T
  <2> DEFINE f == F[j - 1]
             n == N[j - 1]
             g == F[j]
             k == N[j]
             m == q[j]
  <2>1. /\ j \in DOMAIN q /\ m \in Msgs /\ j \in 0..Len(q)
        /\ f \in [HwIds -> Fences \cup {NoFence}] /\ n \in [Ids -> HwIds \cup {NoHwId}]
        /\ m \in Changes => Ready(f, n, m.req)
        /\ Entries(w, f, n, m, g, k)
    BY WayStep
  <2>2. m \notin Ups /\ m \notin DoneOf(id) /\ m \notin RemovalsOf(w[id])
    BY <2>1, PlaceHas
  <2>3. f[h].id = id /\ n[id] = h
    BY <1>2
  <2> HIDE DEF f, n, g, k, m, T
  <2>4. f[h] # NoFence /\ NoHwId \notin HwIds
    BY <2>3, ConstantFacts
  <2>5. g[h].id = id /\ k[id] = h
    <3>1. ASSUME NEW x \in HwIds, NEW a \in Fences, f[x] = NoFence,
                 \A y \in HwIds : f[y].id # a.id, g = [f EXCEPT ![x] = a], k = [n EXCEPT ![a.id] = x]
          PROVE  g[h].id = id /\ k[id] = h
      BY <2>1, <2>3, <2>4, <3>1
    <3>2. ASSUME NEW x \in HwIds, f[x] \in Fences, n[f[x].id] = NoHwId,
                 g = [f EXCEPT ![x] = NoFence], k = n
          PROVE  g[h].id = id /\ k[id] = h
      <4>1. x # h
        BY <2>3, <2>4, <3>2
      <4>2. QED
        BY <2>1, <2>3, <3>2, <4>1
    <3>3. ASSUME NEW x \in HwIds, NEW d \in Ids, m \in DoneOf(d),
                 f[x] \in Fences, f[x].id = d, n[d] = x,
                 g = [f EXCEPT ![x] = NoFence], k = [n EXCEPT ![d] = NoHwId]
          PROVE  g[h].id = id /\ k[id] = h
      <4>1. d # id
        BY <2>2, <3>3
      <4>2. x # h
        BY <2>3, <3>3, <4>1
      <4>3. QED
        BY <2>1, <2>3, <3>3, <4>1, <4>2
    <3>4. ASSUME NEW x \in HwIds, NEW a \in Fences, f[x].id = a.id, g = [f EXCEPT ![x] = a], k = n
          PROVE  g[h].id = id /\ k[id] = h
      BY <2>1, <2>3, <3>4
    <3>5. m # EngineUp
      BY <2>2 DEF Ups
    <3>6. ASSUME NEW c \in Clients, m \in RemovalsOf(c), g = f,
                 k = [x \in Ids |-> IF w[x] = c THEN NoHwId ELSE n[x]]
          PROVE  g[h].id = id /\ k[id] = h
      <4>1. w[id] # c
        BY <2>2, <3>6
      <4>2. QED
        BY <2>3, <3>6, <4>1
    <3>7. QED
      BY <2>1, <2>3, <3>1, <3>2, <3>3, <3>4, <3>5, <3>6 DEF Entries
  <2>6. QED
    BY <2>1, <2>5 DEF T, g, k
<1> HIDE DEF T
<1>3. \A j \in 0..Len(q) : j \in T
  BY <1>1, <1>2, Climb
<1>4. QED
  BY <1>3 DEF T

\* A fence without a number is kept until it is removed or the modem comes back.
LEMMA KeepsForgotten ==
  ASSUME NEW q \in Seq(Msgs), NEW w, NEW F, NEW N, Leads(F, N, q, w),
         NEW id \in Ids, NEW h \in HwIds, F[0][h].id = id, N[0][id] = NoHwId,
         ~Has(q, Ups), ~Has(q, StoppedOf(h))
  PROVE  \A j \in 0..Len(q) : F[j][h].id = id /\ N[j][id] = NoHwId
<1> DEFINE T == {j \in 0..Len(q) : F[j][h].id = id /\ N[j][id] = NoHwId}
<1>1. Len(q) \in Nat /\ T \in SUBSET (0..Len(q)) /\ 0 \in T
  BY LenProperties
<1>2. ASSUME NEW j \in 1..Len(q), j - 1 \in T PROVE j \in T
  <2> DEFINE f == F[j - 1]
             n == N[j - 1]
             g == F[j]
             k == N[j]
             m == q[j]
  <2>1. /\ j \in DOMAIN q /\ m \in Msgs /\ j \in 0..Len(q)
        /\ f \in [HwIds -> Fences \cup {NoFence}] /\ n \in [Ids -> HwIds \cup {NoHwId}]
        /\ m \in Changes => Ready(f, n, m.req)
        /\ Entries(w, f, n, m, g, k)
    BY WayStep
  <2>2. m \notin Ups /\ m \notin StoppedOf(h)
    BY <2>1, PlaceHas
  <2>3. f[h].id = id /\ n[id] = NoHwId
    BY <1>2
  <2> HIDE DEF f, n, g, k, m, T
  <2>4. f[h] # NoFence /\ NoHwId \notin HwIds
    BY <2>3, ConstantFacts
  <2>5. g[h].id = id /\ k[id] = NoHwId
    <3>1. ASSUME NEW x \in HwIds, NEW a \in Fences, f[x] = NoFence,
                 \A y \in HwIds : f[y].id # a.id, g = [f EXCEPT ![x] = a], k = [n EXCEPT ![a.id] = x]
          PROVE  g[h].id = id /\ k[id] = NoHwId
      BY <2>1, <2>3, <2>4, <3>1
    <3>2. ASSUME NEW x \in HwIds, m \in StoppedOf(x), g = [f EXCEPT ![x] = NoFence], k = n
          PROVE  g[h].id = id /\ k[id] = NoHwId
      <4>1. x # h
        BY <2>2, <3>2
      <4>2. QED
        BY <2>1, <2>3, <3>2, <4>1
    <3>3. ASSUME NEW x \in HwIds, NEW d \in Ids, f[x] \in Fences, f[x].id = d, n[d] = x,
                 g = [f EXCEPT ![x] = NoFence], k = [n EXCEPT ![d] = NoHwId]
          PROVE  g[h].id = id /\ k[id] = NoHwId
      <4>1. d # id /\ x # h
        BY <2>3, <2>4, <3>3
      <4>2. QED
        BY <2>1, <2>3, <3>3, <4>1
    <3>4. ASSUME NEW x \in HwIds, NEW a \in Fences, f[x].id = a.id, g = [f EXCEPT ![x] = a], k = n
          PROVE  g[h].id = id /\ k[id] = NoHwId
      BY <2>1, <2>3, <3>4
    <3>5. m # EngineUp
      BY <2>2 DEF Ups
    <3>6. ASSUME NEW c \in Clients, g = f, k = [x \in Ids |-> IF w[x] = c THEN NoHwId ELSE n[x]]
          PROVE  g[h].id = id /\ k[id] = NoHwId
      BY <2>3, <3>6
    <3>7. QED
      BY <2>1, <2>3, <3>1, <3>2, <3>3, <3>4, <3>5, <3>6 DEF Entries
  <2>6. QED
    BY <2>1, <2>5 DEF T, g, k
<1> HIDE DEF T
<1>3. \A j \in 0..Len(q) : j \in T
  BY <1>1, <1>2, Climb
<1>4. QED
  BY <1>3 DEF T

\* A fence that the adapter does not have comes with its addition.
LEMMA HandledOut ==
  ASSUME NEW w, NEW f \in [HwIds -> Fences \cup {NoFence}], NEW n, NEW m \in Msgs, NEW g, NEW k,
         Entries(w, f, n, m, g, k),
         NEW id \in Ids, Lacks(f, id), m \notin AddMsgs(id)
  PROVE  Lacks(g, id)
<1>1. NoFence.id # id
  BY ConstantFacts
<1>2. ASSUME NEW x \in HwIds, NEW a \in Fences, m \in Puts, m.req.fence.id = a.id,
             g = [f EXCEPT ![x] = a]
      PROVE  Lacks(g, id)
  <2>1. a.id # id
    <3>1. m \in Replies /\ m.req \in Made /\ m.req.call = "add"
      BY <1>2, ReplyFacts DEF Puts
    <3>2. m.req \in AddReqs(a.id)
      <4>1. m.req \in Asks \/ m.req \in Restores
        BY <3>1, MadeCases
      <4>2. m.req \in Asks => m.req.fence.id = IdOf(m.req)
        BY <3>1 DEF Asks
      <4>3. QED
        BY <1>2, <3>1, <4>1, <4>2, RequestClasses
    <3>3. m \in AddMsgs(a.id)
      BY <3>1, <3>2, ReplyClass
    <3>4. QED
      BY <3>3
  <2>2. QED
    BY <1>2, <2>1 DEF Lacks
<1>3. ASSUME NEW x \in HwIds, g = [f EXCEPT ![x] = NoFence]
      PROVE  Lacks(g, id)
  BY <1>1, <1>3 DEF Lacks
<1>4. ASSUME NEW x \in HwIds, NEW a \in Fences, f[x].id = a.id, g = [f EXCEPT ![x] = a]
      PROVE  Lacks(g, id)
  BY <1>4 DEF Lacks
<1>5. ASSUME g = [x \in HwIds |-> NoFence] PROVE Lacks(g, id)
  BY <1>1, <1>5 DEF Lacks
<1>6. QED
  BY <1>2, <1>3, <1>4, <1>5 DEF Entries

\* It does not come on a way without its addition.
LEMMA KeepsOut ==
  ASSUME NEW q \in Seq(Msgs), NEW w, NEW F, NEW N, Leads(F, N, q, w),
         NEW id \in Ids, Lacks(F[0], id), ~Has(q, AddMsgs(id))
  PROVE  \A j \in 0..Len(q) : Lacks(F[j], id)
<1> DEFINE T == {j \in 0..Len(q) : Lacks(F[j], id)}
<1>1. Len(q) \in Nat /\ T \in SUBSET (0..Len(q)) /\ 0 \in T
  BY LenProperties
<1>2. ASSUME NEW j \in 1..Len(q), j - 1 \in T PROVE j \in T
  <2>1. /\ j \in DOMAIN q /\ q[j] \in Msgs /\ j \in 0..Len(q)
        /\ F[j - 1] \in [HwIds -> Fences \cup {NoFence}]
        /\ Entries(w, F[j - 1], N[j - 1], q[j], F[j], N[j])
    BY WayStep
  <2>2. q[j] \notin AddMsgs(id) /\ Lacks(F[j - 1], id)
    BY <1>2, <2>1, PlaceHas
  <2>3. Lacks(F[j], id)
    <3> DEFINE f == F[j - 1]
               n == N[j - 1]
               g == F[j]
               k == N[j]
               m == q[j]
    <3>1. /\ m \in Msgs /\ f \in [HwIds -> Fences \cup {NoFence}] /\ Entries(w, f, n, m, g, k)
          /\ m \notin AddMsgs(id) /\ Lacks(f, id)
      BY <2>1, <2>2
    <3> HIDE DEF f, n, g, k, m
    <3>2. Lacks(g, id)
      BY <3>1, HandledOut
    <3>3. QED
      BY <3>2 DEF g
  <2>4. QED
    BY <2>1, <2>3
<1> HIDE DEF T
<1>3. \A j \in 0..Len(q) : j \in T
  BY <1>1, <1>2, Climb
<1>4. QED
  BY <1>3 DEF T

-----------------------------------------------------------------------------
(* Other ways.                                                             *)

\* All along the way a number leads to its fence and a fence has one number.
LEMMA WayFits ==
  ASSUME NEW q \in Seq(Msgs), NEW w, NEW F, NEW N, Leads(F, N, q, w),
         HasNumbers(F[0], N[0]), Unique(F[0])
  PROVE  \A j \in 0..Len(q) : HasNumbers(F[j], N[j]) /\ Unique(F[j])
<1> DEFINE T == {j \in 0..Len(q) : HasNumbers(F[j], N[j]) /\ Unique(F[j])}
<1>1. Len(q) \in Nat /\ T \in SUBSET (0..Len(q)) /\ 0 \in T
  BY LenProperties
<1>2. ASSUME NEW j \in 1..Len(q), j - 1 \in T PROVE j \in T
  <2>1. /\ q[j] \in Msgs /\ j \in 0..Len(q)
        /\ F[j - 1] \in [HwIds -> Fences \cup {NoFence}] /\ N[j - 1] \in [Ids -> HwIds \cup {NoHwId}]
        /\ Handled(w, F[j - 1], N[j - 1], q[j], F[j], N[j])
        /\ q[j] \in Changes => Ready(F[j - 1], N[j - 1], q[j].req)
    BY WayStep
  <2>2. HasNumbers(F[j - 1], N[j - 1]) /\ Unique(F[j - 1])
    BY <1>2
  <2>3. HasNumbers(F[j], N[j]) /\ Unique(F[j])
    BY <2>1, <2>2, HandledFits
  <2>4. QED
    BY <2>1, <2>3
<1> HIDE DEF T
<1>3. \A j \in 0..Len(q) : j \in T
  BY <1>1, <1>2, Climb
<1>4. QED
  BY <1>3 DEF T

\* Whether a fence is paused does not matter to the numbers.
LEMMA PlainMaps ==
  ASSUME NEW f \in [HwIds -> Fences \cup {NoFence}], NEW n \in [Ids -> HwIds \cup {NoHwId}]
  PROVE  /\ Plainly(f) \in [HwIds -> Fences \cup {NoFence}]
         /\ HasNumbers(Plainly(f), n) <=> HasNumbers(f, n)
         /\ Unique(Plainly(f)) <=> Unique(f)
<1>1. /\ Plainly(f) \in [HwIds -> Fences \cup {NoFence}]
      /\ \A h \in HwIds : /\ Plainly(f)[h] = NoFence <=> f[h] = NoFence
                          /\ Plainly(f)[h].id = f[h].id
  BY PlainlyFacts
<1>2. \A id \in Ids : n[id] # NoHwId => n[id] \in HwIds
  OBVIOUS
<1>3. HasNumbers(Plainly(f), n) <=> HasNumbers(f, n)
  BY <1>1, <1>2 DEF HasNumbers
<1>4. Unique(Plainly(f)) <=> Unique(f)
  BY <1>1 DEF Unique
<1>5. QED
  BY <1>1, <1>3, <1>4

\* More is asked for.
LEMMA AwaitsMore ==
  ASSUME NEW S, NEW p \in Seq(S), NEW s \in Seq(S), NEW t, Joined(t, p, s),
         NEW F, NEW N, NEW q, Awaits(F, N, q, p),
         \A k \in DOMAIN s : s[k] \in ByNumber => \A j \in 0..Len(q) : Ready(F[j], N[j], s[k])
  PROVE  Awaits(F, N, q, t)
<1>1. ASSUME NEW i \in DOMAIN t, t[i] \in ByNumber, NEW j \in 0..Len(q)
      PROVE  Ready(F[j], N[j], t[i])
  <2>1. \/ i \in DOMAIN p /\ t[i] = p[i]
        \/ \E k \in DOMAIN s : t[i] = s[k]
    BY ConcatPlaces DEF Joined
  <2>2. CASE i \in DOMAIN p /\ t[i] = p[i]
    BY <1>1, <2>2 DEF Awaits
  <2>3. CASE \E k \in DOMAIN s : t[i] = s[k]
    BY <1>1, <2>3
  <2>4. QED
    BY <2>1, <2>2, <2>3
<1>2. QED
  BY <1>1 DEF Awaits

\* What is asked for but the first.
LEMMA AwaitsRest ==
  ASSUME NEW S, NEW p \in Seq(S), p # <<>>, NEW F, NEW N, NEW q, Awaits(F, N, q, p)
  PROVE  /\ Awaits(F, N, q, Tail(p))
         /\ Head(p) \in ByNumber => \A j \in 0..Len(q) : Ready(F[j], N[j], Head(p))
<1>1. /\ Len(p) \in Nat \ {0} /\ Tail(p) \in Seq(S) /\ Len(Tail(p)) = Len(p) - 1 /\ Head(p) = p[1]
      /\ \A i \in 1..Len(Tail(p)) : Tail(p)[i] = p[i + 1]
      /\ DOMAIN p = 1..Len(p) /\ DOMAIN Tail(p) = 1..Len(Tail(p))
  BY HeadTailProperties, EmptySeq, LenProperties
<1>2. 1 \in DOMAIN p /\ \A i \in DOMAIN Tail(p) : i + 1 \in DOMAIN p /\ Tail(p)[i] = p[i + 1]
  BY <1>1
<1>3. QED
  BY <1>1, <1>2 DEF Awaits

\* The owner of a fence matters only when it has a number.
LEMMA WayOwners ==
  ASSUME NEW q \in Seq(Msgs), NEW w, NEW F, NEW N, Leads(F, N, q, w),
         NEW v, \A id \in Ids : v[id] # w[id] => \A j \in 0..Len(q) : N[j][id] = NoHwId
  PROVE  Leads(F, N, q, v)
<1>1. ASSUME NEW i \in 1..Len(q) PROVE Handled(v, F[i - 1], N[i - 1], q[i], F[i], N[i])
  <2>1. i - 1 \in 0..Len(q) /\ Handled(w, F[i - 1], N[i - 1], q[i], F[i], N[i])
    BY WayStep
  <2>2. \A id \in Ids : v[id] # w[id] => N[i - 1][id] = NoHwId
    BY <2>1
  <2> DEFINE k(u) == [id \in Ids |-> IF u[id] = q[i].client THEN NoHwId ELSE N[i - 1][id]]
  <2>3. k(v) = k(w)
    BY <2>2
  <2>4. QED
    BY <2>1, <2>3 DEF Handled
<1>2. QED
  BY <1>1 DEF Leads

\* Messages come about client c: the fences are the same, and the numbers of its
\* fences are lost if it is removed.
LEMMA WayClient ==
  ASSUME NEW q \in Seq(Msgs), NEW p \in Seq(ClientMsgs), NEW t, Joined(t, q, p),
         NEW c, \A i \in DOMAIN p : p[i].client = c,
         NEW w, NEW F, NEW N, Leads(F, N, q, w), NEW s, Awaits(F, N, q, s),
         Has(p, RemovalsOf(c)) =>
           \A i \in DOMAIN s : s[i] \in ByNumber \cap Asks => w[IdOf(s[i])] # c
  PROVE  \E G, K : /\ Leads(G, K, t, w) /\ Awaits(G, K, t, s)
                   /\ G[0] = F[0] /\ K[0] = N[0] /\ G[Len(t)] = F[Len(q)]
<1> DEFINE n == Len(q)
           l == Len(p)
           cleared == [id \in Ids |-> IF w[id] = c THEN NoHwId ELSE N[n][id]]
           Gone(j) == \E i \in DOMAIN p : n + i <= j /\ p[i] \in RemovalsOf(c)
           G == [j \in 0..n + l |-> IF j <= n THEN F[j] ELSE F[n]]
           K == [j \in 0..n + l |-> IF j <= n THEN N[j] ELSE IF Gone(j) THEN cleared ELSE N[n]]
<1>1. /\ n \in Nat /\ l \in Nat /\ DOMAIN q = 1..n /\ DOMAIN p = 1..l
      /\ Len(t) = n + l /\ (\A i \in 1..n : t[i] = q[i]) /\ \A i \in 1..l : t[n + i] = p[i]
  <2>1. q \in Seq(Msgs) /\ p \in Seq(Msgs)
    BY DEF Msgs
  <2>2. /\ n \in Nat /\ l \in Nat /\ DOMAIN q = 1..n /\ DOMAIN p = 1..l
        /\ DOMAIN (q \o p) = 1..n + l
        /\ (\A i \in DOMAIN q : (q \o p)[i] = q[i]) /\ \A i \in DOMAIN p : (q \o p)[n + i] = p[i]
    BY <2>1, ConcatPlaces
  <2>3. Len(q \o p) = n + l
    BY <2>1, ConcatProperties
  <2>4. QED
    BY <2>2, <2>3 DEF Joined
<1>2. /\ F \in [0..n -> [HwIds -> Fences \cup {NoFence}]]
      /\ N \in [0..n -> [Ids -> HwIds \cup {NoHwId}]]
      /\ \A i \in 1..n : Handled(w, F[i - 1], N[i - 1], q[i], F[i], N[i])
      /\ \A i \in 1..n : q[i] \in Changes => \A j \in 0..i - 1 : Ready(F[j], N[j], q[i].req)
  BY DEF Leads
<1>3. \A i \in 1..l : p[i] \in ClientMsgs /\ p[i].client = c
  BY <1>1, ElementOfSeq
<1> HIDE DEF n, l
<1>4. cleared \in [Ids -> HwIds \cup {NoHwId}]
  BY <1>1, <1>2
<1>5. ~Gone(n)
  BY <1>1
<1>6. ASSUME NEW i \in 1..l PROVE Gone(n + i) <=> Gone(n + i - 1) \/ p[i] \in RemovalsOf(c)
  <2>1. \A x \in 1..l : n + x <= n + i <=> n + x <= n + i - 1 \/ x = i
    BY <1>1
  <2>2. QED
    BY <1>1, <2>1
<1> HIDE DEF cleared, Gone
<1>7. /\ \A j \in 0..n : G[j] = F[j] /\ K[j] = N[j]
      /\ \A i \in 0..l : /\ n + i \in 0..n + l /\ G[n + i] = F[n]
                         /\ K[n + i] = IF Gone(n + i) THEN cleared ELSE N[n]
  <2>1. \A j \in 0..n : j \in 0..n + l /\ j <= n
    BY <1>1
  <2>2. ASSUME NEW i \in 0..l
        PROVE  /\ n + i \in 0..n + l /\ G[n + i] = F[n]
               /\ K[n + i] = IF Gone(n + i) THEN cleared ELSE N[n]
    <3>1. n + i \in 0..n + l
      BY <1>1
    <3>2. CASE i = 0
      <4>1. n + i = n /\ n <= n
        BY <1>1, <3>2
      <4>2. ~Gone(n + i)
        BY <1>5, <4>1
      <4>3. QED
        BY <3>1, <4>1, <4>2
    <3>3. CASE i # 0
      <4>1. ~(n + i <= n)
        BY <1>1, <3>3
      <4>2. QED
        BY <3>1, <4>1
    <3>4. QED
      BY <3>2, <3>3
  <2>3. QED
    BY <2>1, <2>2
<1>8. /\ G \in [0..n + l -> [HwIds -> Fences \cup {NoFence}]]
      /\ K \in [0..n + l -> [Ids -> HwIds \cup {NoHwId}]]
  <2>1. \A j \in 0..n + l : j <= n => j \in 0..n
    BY <1>1
  <2>2. n \in 0..n
    BY <1>1
  <2>3. QED
    BY <1>2, <1>4, <2>1, <2>2
<1> HIDE DEF G, K
<1>9. ASSUME NEW i \in 1..n + l PROVE Handled(w, G[i - 1], K[i - 1], t[i], G[i], K[i])
  <2>1. CASE i <= n
    <3>1. i \in 1..n /\ i \in 0..n /\ i - 1 \in 0..n
      BY <1>1, <2>1
    <3>2. Handled(w, F[i - 1], N[i - 1], q[i], F[i], N[i])
      BY <1>2, <3>1
    <3>3. QED
      BY <1>1, <1>7, <3>1, <3>2
  <2>2. ASSUME NEW x \in 1..l, i = n + x PROVE Handled(w, G[i - 1], K[i - 1], t[i], G[i], K[i])
    <3>1. x - 1 \in 0..l /\ x \in 0..l /\ i - 1 = n + (x - 1) /\ n + x - 1 = i - 1
      BY <1>1, <2>2
    <3>2. /\ t[i] = p[x] /\ G[i - 1] = F[n] /\ G[i] = F[n]
          /\ K[i - 1] = IF Gone(i - 1) THEN cleared ELSE N[n]
          /\ K[i] = IF Gone(i) THEN cleared ELSE N[n]
          /\ Gone(i) <=> Gone(i - 1) \/ p[x] \in RemovalsOf(c)
      <4>1. t[i] = p[x]
        BY <1>1, <2>2
      <4>2. G[i] = F[n] /\ K[i] = IF Gone(i) THEN cleared ELSE N[n]
        BY <1>7, <2>2, <3>1
      <4>3. G[n + (x - 1)] = F[n] /\ K[n + (x - 1)] = IF Gone(n + (x - 1)) THEN cleared ELSE N[n]
        BY <1>7, <3>1
      <4>4. Gone(n + x) <=> Gone(n + x - 1) \/ p[x] \in RemovalsOf(c)
        BY <1>6
      <4>5. QED
        BY <2>2, <3>1, <4>1, <4>2, <4>3, <4>4
    <3>3. p[x] \in ClientMsgs /\ p[x].client = c
      BY <1>3
    <3>4. CASE p[x] \in RemovalsOf(c)
      <4>1. p[x] \in Removals
        BY <3>4 DEF RemovalsOf
      <4>2. K[i] = cleared
        BY <3>2, <3>4
      <4>3. cleared = [id \in Ids |-> IF w[id] = c THEN NoHwId ELSE N[n][id]]
            /\ cleared = [id \in Ids |-> IF w[id] = c THEN NoHwId ELSE cleared[id]]
        BY DEF cleared
      <4>4. K[i] = [id \in Ids |-> IF w[id] = c THEN NoHwId ELSE K[i - 1][id]]
        BY <3>2, <4>2, <4>3
      <4>5. QED
        BY <3>2, <3>3, <4>1, <4>4 DEF Handled
    <3>5. CASE p[x] \notin RemovalsOf(c)
      <4>1. p[x] \notin Removals
        BY <3>3, <3>5 DEF RemovalsOf
      <4>2. p[x] \notin Puts /\ p[x] \notin Changes /\ p[x] \notin Ups
        BY <3>3, OtherClass
      <4>3. G[i] = G[i - 1] /\ K[i] = K[i - 1]
        BY <3>2, <3>5
      <4>4. QED
        BY <3>2, <4>1, <4>2, <4>3 DEF Handled
    <3>6. QED
      BY <3>4, <3>5
  <2>3. i <= n \/ \E x \in 1..l : i = n + x
    <3>1. i > n => i - n \in 1..l /\ i = n + (i - n)
      BY <1>1
    <3>2. QED
      BY <1>1, <3>1
  <2>4. QED
    BY <2>1, <2>2, <2>3
<1>10. ASSUME NEW i \in 1..n + l, t[i] \in Changes, NEW j \in 0..i - 1
       PROVE  Ready(G[j], K[j], t[i].req)
  <2>1. i <= n
    <3> SUFFICES ASSUME i > n PROVE FALSE
      BY <1>1
    <3>1. i - n \in 1..l /\ i = n + (i - n)
      BY <1>1
    <3>2. t[i] \in ClientMsgs
      BY <1>1, <1>3, <3>1
    <3>3. QED
      BY <1>10, <3>2, OtherClass
  <2>2. i \in 1..n /\ j \in 0..n
    BY <1>1, <2>1
  <2>3. QED
    BY <1>1, <1>2, <1>7, <1>10, <2>2
<1>11. Leads(G, K, t, w)
  BY <1>1, <1>8, <1>9, <1>10 DEF Leads
<1>12. ASSUME NEW i \in DOMAIN s, s[i] \in ByNumber, NEW j \in 0..n + l PROVE Ready(G[j], K[j], s[i])
  <2>1. \A x \in 0..n : Ready(F[x], N[x], s[i])
    BY <1>12 DEF Awaits, n
  <2>2. CASE j <= n
    <3>1. j \in 0..n
      BY <1>1, <2>2
    <3>2. QED
      BY <1>7, <2>1, <3>1
  <2>3. CASE j > n
    <3>1. j - n \in 0..l /\ j = n + (j - n) /\ n \in 0..n
      BY <1>1, <2>3
    <3>2. G[j] = F[n] /\ K[j] \in {cleared, N[n]}
      BY <1>7, <3>1
    <3>3. Ready(F[n], N[n], s[i])
      BY <2>1, <3>1
    <3>4. CASE K[j] = N[n]
      BY <3>2, <3>3, <3>4
    <3>5. CASE K[j] = cleared /\ K[j] # N[n]
      <4>1. Has(p, RemovalsOf(c))
        <5>1. Gone(j)
          BY <1>7, <3>1, <3>5
        <5>2. QED
          BY <5>1 DEF Gone, Has
      <4>2. s[i] \in Asks => w[IdOf(s[i])] # c /\ IdOf(s[i]) \in Ids
        BY <1>12, <4>1, RequestClasses
      <4>3. s[i] \in Asks => cleared[IdOf(s[i])] = N[n][IdOf(s[i])]
        BY <4>2 DEF cleared
      <4>4. s[i] \in Stops => cleared[F[n][s[i].hwId].id] = NoHwId
        <5>1. ASSUME s[i] \in Stops PROVE cleared[F[n][s[i].hwId].id] = NoHwId
          <6>1. F[n][s[i].hwId] # NoFence /\ N[n][F[n][s[i].hwId].id] = NoHwId /\ s[i].hwId \in HwIds
            BY <1>12, <3>3, <5>1, RequestClasses DEF Ready
          <6>2. F[n] \in [HwIds -> Fences \cup {NoFence}]
            BY <1>2, <3>1
          <6>3. F[n][s[i].hwId].id \in Ids
            BY <6>1, <6>2, ConstantFacts
          <6>4. QED
            BY <6>1, <6>3 DEF cleared
        <5>2. QED
          BY <5>1
      <4>5. QED
        BY <3>2, <3>3, <3>5, <4>3, <4>4 DEF Ready
    <3>6. QED
      BY <3>2, <3>4, <3>5
  <2>4. QED
    BY <1>1, <2>2, <2>3
<1>13. Awaits(G, K, t, s)
  BY <1>1, <1>12 DEF Awaits
<1>14. G[0] = F[0] /\ K[0] = N[0] /\ G[Len(t)] = F[Len(q)]
  <2>1. 0 \in 0..n /\ l \in 0..l
    BY <1>1
  <2>2. QED
    BY <1>1, <1>7, <2>1 DEF n
<1>15. QED
  BY <1>11, <1>13, <1>14

-----------------------------------------------------------------------------
(* The steps that take a message.                                          *)

\* The first message is taken and handled.
Handles ==
  /\ msgs # <<>> /\ msgs' = Tail(msgs) /\ UNCHANGED <<owner, down, modem>>
  /\ Handled(owner, Plainly(mGeofences), mGeofenceIds, Head(msgs),
             Plainly(mGeofences'), mGeofenceIds')
  /\ Head(msgs) \in Changes => Ready(Plainly(mGeofences), mGeofenceIds, Head(msgs).req)

\* The way from what the adapter has when the first message has been handled.
Goes(G, K) ==
  /\ Leads(G, K, msgs', owner') /\ Awaits(G, K, msgs', reqs)
  /\ ~down => G[Len(msgs')] = Plainly(modem)
  /\ G[0] = Plainly(mGeofences') /\ K[0] = mGeofenceIds'

\* What the message that is taken stands for, and that it is done.
Effect(g, k) ==
  /\ g \in [HwIds -> Fences \cup {NoFence}] /\ k \in [Ids -> HwIds \cup {NoHwId}]
  /\ Handled(owner, Plainly(mGeofences), mGeofenceIds, Head(msgs), g, k)
  /\ Head(msgs) \in Changes => Ready(Plainly(mGeofences), mGeofenceIds, Head(msgs).req)
IsDone(g, k) == g = Plainly(mGeofences') /\ k = mGeofenceIds'

\* If a step does to the maps what its message stands for, the way goes on.
LEMMA TakeWay ==
  ASSUME Typed, Synced, msgs # <<>>, msgs' = Tail(msgs), UNCHANGED <<owner, down, modem>>,
         \A g, k : Effect(g, k) => IsDone(g, k)
  PROVE  Handles /\ \E G, K : Goes(G, K)
<1>1. PICK F, N : /\ Leads(F, N, msgs, owner) /\ Awaits(F, N, msgs, reqs)
                  /\ F[0] = Plainly(mGeofences) /\ N[0] = mGeofenceIds
                  /\ ~down => F[Len(msgs)] = Plainly(modem)
  BY DEF Synced
<1>2. msgs \in Seq(Msgs) /\ Tail(msgs) \in Seq(Msgs) /\ Len(msgs) \in Nat \ {0}
  BY TypesOf, HeadTailProperties, EmptySeq
<1>3. /\ Handled(owner, F[0], N[0], Head(msgs), F[1], N[1])
      /\ Head(msgs) \in Changes => Ready(F[0], N[0], Head(msgs).req)
      /\ \E G, K :
           /\ Leads(G, K, Tail(msgs), owner)
           /\ G[0] = F[1] /\ K[0] = N[1] /\ G[Len(Tail(msgs))] = F[Len(msgs)]
           /\ \A j \in 0..Len(Tail(msgs)) :
                j + 1 \in 0..Len(msgs) /\ G[j] = F[j + 1] /\ K[j] = N[j + 1]
  <2> DEFINE q == msgs
             w == owner
  <2>1. q \in Seq(Msgs) /\ q # <<>> /\ Leads(F, N, q, w)
    BY <1>1, <1>2
  <2> HIDE DEF q, w
  <2>2. /\ Handled(w, F[0], N[0], Head(q), F[1], N[1])
        /\ Head(q) \in Changes => Ready(F[0], N[0], Head(q).req)
        /\ \E G, K :
             /\ Leads(G, K, Tail(q), w)
             /\ G[0] = F[1] /\ K[0] = N[1] /\ G[Len(Tail(q))] = F[Len(q)]
             /\ \A j \in 0..Len(Tail(q)) :
                  j + 1 \in 0..Len(q) /\ G[j] = F[j + 1] /\ K[j] = N[j + 1]
    BY <2>1, WayOn
  <2>3. QED
    BY <2>2 DEF q, w
<1>4. PICK G, K :
        /\ Leads(G, K, Tail(msgs), owner)
        /\ G[0] = F[1] /\ K[0] = N[1] /\ G[Len(Tail(msgs))] = F[Len(msgs)]
        /\ \A j \in 0..Len(Tail(msgs)) :
             j + 1 \in 0..Len(msgs) /\ G[j] = F[j + 1] /\ K[j] = N[j + 1]
  BY <1>3
<1>5. F[1] \in [HwIds -> Fences \cup {NoFence}] /\ N[1] \in [Ids -> HwIds \cup {NoHwId}]
  BY <1>1, <1>2 DEF Leads
<1>6. F[1] = Plainly(mGeofences') /\ N[1] = mGeofenceIds'
  <2>1. Effect(F[1], N[1])
    BY <1>1, <1>3, <1>5 DEF Effect
  <2>2. IsDone(F[1], N[1])
    BY <2>1
  <2>3. QED
    BY <2>2 DEF IsDone
<1>7. Handles
  BY <1>1, <1>3, <1>6 DEF Handles
<1>8. Awaits(G, K, Tail(msgs), reqs)
  BY <1>1, <1>4 DEF Awaits
<1>9. Goes(G, K)
  BY <1>1, <1>4, <1>6, <1>8 DEF Goes
<1>10. QED
  BY <1>7, <1>9

\* The fence of a message that was lacking came with it.
LEMMA TakeLacks ==
  ASSUME Typed, Typed', Handles, NEW id \in Ids, Lacks(mGeofences, id), Head(msgs) \notin AddMsgs(id)
  PROVE  Lacks(mGeofences', id)
<1>1. /\ mGeofences \in [HwIds -> Fences \cup {NoFence}] /\ mGeofenceIds \in [Ids -> HwIds \cup {NoHwId}]
      /\ mGeofences' \in [HwIds -> Fences \cup {NoFence}]
      /\ msgs \in Seq(Msgs)
  BY TypesOf DEF Typed
<1>2. Head(msgs) \in Msgs
  BY <1>1, HeadFirst DEF Handles
<1>3. /\ Plainly(mGeofences) \in [HwIds -> Fences \cup {NoFence}]
      /\ \A h \in HwIds : Plainly(mGeofences)[h].id = mGeofences[h].id
      /\ \A h \in HwIds : Plainly(mGeofences')[h].id = mGeofences'[h].id
  BY <1>1, PlainlyFacts
<1>4. Entries(owner, Plainly(mGeofences), mGeofenceIds, Head(msgs), Plainly(mGeofences'), mGeofenceIds')
  BY <1>1, <1>2, <1>3, HandledCases DEF Handles
<1>5. Lacks(Plainly(mGeofences), id)
  BY <1>3 DEF Lacks
<1>6. Lacks(Plainly(mGeofences'), id)
  BY <1>2, <1>3, <1>4, <1>5, HandledOut
<1>7. QED
  BY <1>3, <1>6 DEF Lacks

\* The message makes way for the requests s, at most one of them for its fence.
LEMMA TakeOne ==
  ASSUME Typed, Typed', Handles, NEW s \in Seq(Turnings \cup Made), Joined(reqs', reqs, s),
         NEW id \in Ids, OneAtATime(id),
         Number(s, CmdReqs(id)) <= (IF Head(msgs) \in CmdMsgs(id) THEN 1 ELSE 0),
         Number(s, AddReqs(id)) <=
           (IF Head(msgs) \in AddMsgs(id) /\ mGeofences' = mGeofences THEN 1 ELSE 0)
  PROVE  OneAtATime(id)'
<1>1. msgs \in Seq(Msgs) /\ reqs \in Seq(Turnings \cup Made) /\ msgs # <<>> /\ msgs' = Tail(msgs)
      /\ owner' = owner
  BY TypesOf DEF Handles
<1> DEFINE a == Number(msgs, CmdMsgs(id))
           b == Number(msgs', CmdMsgs(id))
           c == Number(reqs, CmdReqs(id))
           d == Number(reqs', CmdReqs(id))
           e == Number(msgs, AddMsgs(id))
           f == Number(msgs', AddMsgs(id))
           g == Number(reqs, AddReqs(id))
           h == Number(reqs', AddReqs(id))
           x == Number(s, CmdReqs(id))
           y == Number(s, AddReqs(id))
<1>2. a \in Nat /\ b \in Nat /\ a = (IF Head(msgs) \in CmdMsgs(id) THEN 1 ELSE 0) + b
  BY <1>1, TakenNumber
<1>3. e \in Nat /\ f \in Nat /\ e = (IF Head(msgs) \in AddMsgs(id) THEN 1 ELSE 0) + f
  BY <1>1, TakenNumber
<1>4. c \in Nat /\ d \in Nat /\ x \in Nat /\ d = c + x
  BY <1>1, JoinedNumber
<1>5. g \in Nat /\ h \in Nat /\ y \in Nat /\ h = g + y
  BY <1>1, JoinedNumber
<1>6. Lacks(mGeofences, id) => Lacks(mGeofences', id) \/ Head(msgs) \in AddMsgs(id)
  BY TakeLacks
<1>7. /\ c + a <= 1
      /\ g + e <= (IF Lacks(mGeofences, id) THEN 1 ELSE 0)
      /\ owner[id] = NoClient => c + a = 0 /\ g + e = 0 /\ Lacks(mGeofences, id)
  BY DEF OneAtATime, Commands1, Additions
<1>8. x <= (IF Head(msgs) \in CmdMsgs(id) THEN 1 ELSE 0)
      /\ y <= (IF Head(msgs) \in AddMsgs(id) /\ mGeofences' = mGeofences THEN 1 ELSE 0)
  OBVIOUS
<1> HIDE DEF a, b, c, d, e, f, g, h, x, y
<1>9. d + b <= c + a
  BY <1>2, <1>4, <1>8
<1>10. h + f <= g + e
  BY <1>3, <1>5, <1>8
<1>11. ~Lacks(mGeofences', id) /\ Lacks(mGeofences, id) => h + f + 1 <= g + e
  <2>1. ASSUME ~Lacks(mGeofences', id), Lacks(mGeofences, id) PROVE h + f + 1 <= g + e
    <3>1. Head(msgs) \in AddMsgs(id) /\ mGeofences' # mGeofences
      BY <1>6, <2>1
    <3>2. y = 0
      BY <1>5, <1>8, <3>1
    <3>3. e = 1 + f
      BY <1>3, <3>1
    <3>4. QED
      BY <1>3, <1>5, <3>2, <3>3
  <2>2. QED
    BY <2>1
<1>12. /\ d + b <= 1
       /\ h + f <= (IF Lacks(mGeofences', id) THEN 1 ELSE 0)
       /\ owner'[id] = NoClient => d + b = 0 /\ h + f = 0 /\ Lacks(mGeofences', id)
  <2>1. d + b \in Nat /\ h + f \in Nat /\ c + a \in Nat /\ g + e \in Nat
    BY <1>2, <1>3, <1>4, <1>5
  <2>2. h + f + 1 = (h + f) + 1
    BY <2>1
  <2> DEFINE u == h + f
             v == g + e
             w == d + b
             z == c + a
  <2> HIDE DEF u, v, w, z
  <2>3. QED
    BY <1>1, <1>7, <1>9, <1>10, <1>11, <2>1, <2>2 DEF u, v, w, z
<1>13. QED
  BY <1>12 DEF OneAtATime, Commands1, Additions, b, d, f, h

\* No command overtakes the removal of its client.
LEMMA TakeLeaving ==
  ASSUME Typed, Handles, NEW s \in Seq(Turnings \cup Made), Joined(reqs', reqs, s),
         NEW id \in Ids, Leaving(id), Has(s, AsksOf(id)) => Head(msgs) \in CmdMsgs(id)
  PROVE  Leaving(id)'
<1>1. msgs \in Seq(Msgs) /\ reqs \in Seq(Turnings \cup Made) /\ msgs # <<>> /\ msgs' = Tail(msgs)
      /\ owner' = owner
  BY TypesOf DEF Handles
<1> DEFINE R == RemovalsOf(owner[id])
<1>2. /\ Has(msgs, R) <=> Head(msgs) \in R \/ Has(msgs', R)
      /\ Has(msgs, DoneOf(id)) <=> Head(msgs) \in DoneOf(id) \/ Has(msgs', DoneOf(id))
      /\ HasThen(msgs, CmdMsgs(id), R) <=>
           HasThen(msgs', CmdMsgs(id), R) \/ (Head(msgs) \in CmdMsgs(id) /\ Has(msgs', R))
  BY <1>1, TailHas
<1>3. Has(reqs', AsksOf(id)) <=> Has(reqs, AsksOf(id)) \/ Has(s, AsksOf(id))
  BY <1>1, JoinHas
<1>4. RemovalsOf(owner'[id]) = R
  BY <1>1
<1> HIDE DEF R
<1>5. /\ ~HasThen(msgs, CmdMsgs(id), R)
      /\ Has(msgs, R) => ~Has(msgs, DoneOf(id)) /\ ~Has(reqs, AsksOf(id))
  BY DEF Leaving, R
<1>6. /\ ~HasThen(msgs', CmdMsgs(id), R)
      /\ Has(msgs', R) => ~Has(msgs', DoneOf(id)) /\ ~Has(reqs', AsksOf(id))
  BY <1>2, <1>3, <1>5
<1>7. QED
  BY <1>4, <1>6 DEF Leaving

\* A fence without a number is still to be removed.
LEMMA TakeForgotten ==
  ASSUME Typed, Typed', Handles, MapsFit, NEW s \in Seq(Turnings \cup Made), Joined(reqs', reqs, s),
         NEW h \in HwIds, Forgotten(h),
         Head(msgs) \in Removals => Has(s, StopsOf(h)) \/ ~(
           mGeofences[h] # NoFence /\ mGeofenceIds[mGeofences[h].id] # NoHwId
             /\ mGeofenceIds'[mGeofences[h].id] = NoHwId)
  PROVE  Forgotten(h)'
<1>1. msgs \in Seq(Msgs) /\ reqs \in Seq(Turnings \cup Made) /\ msgs # <<>> /\ msgs' = Tail(msgs)
      /\ down' = down
  BY TypesOf DEF Handles
<1>2. /\ mGeofences \in [HwIds -> Fences \cup {NoFence}] /\ mGeofenceIds \in [Ids -> HwIds \cup {NoHwId}]
      /\ mGeofences' \in [HwIds -> Fences \cup {NoFence}]
      /\ Head(msgs) \in Msgs
  BY <1>1, TypesOf, HeadFirst DEF Typed
<1> SUFFICES ASSUME mGeofences'[h] # NoFence, mGeofenceIds'[mGeofences'[h].id] = NoHwId
             PROVE  down \/ Has(msgs', Ups) \/ Has(reqs', StopsOf(h)) \/ Has(msgs', StoppedOf(h))
  BY <1>1 DEF Forgotten
<1>3. /\ Plainly(mGeofences) \in [HwIds -> Fences \cup {NoFence}]
      /\ Plainly(mGeofences)[h].id = mGeofences[h].id
      /\ Plainly(mGeofences)[h] = NoFence <=> mGeofences[h] = NoFence
      /\ Plainly(mGeofences')[h].id = mGeofences'[h].id
      /\ Plainly(mGeofences')[h] = NoFence <=> mGeofences'[h] = NoFence
      /\ Unique(Plainly(mGeofences))
  BY <1>2, PlainlyFacts, PlainMaps DEF MapsFit
<1> DEFINE f == Plainly(mGeofences)
           g == Plainly(mGeofences')
<1>4. /\ Handled(owner, f, mGeofenceIds, Head(msgs), g, mGeofenceIds')
      /\ Head(msgs) \in Changes => Ready(f, mGeofenceIds, Head(msgs).req)
  BY DEF Handles
<1>5. Nameless(g, mGeofenceIds', h)
  BY <1>3 DEF Nameless
<1> HIDE DEF f, g
<1>6. /\ f[h] # NoFence /\ f[h].id = g[h].id /\ Head(msgs) # EngineUp /\ Head(msgs) \notin StoppedOf(h)
      /\ Nameless(f, mGeofenceIds, h) \/ Head(msgs) \in Removals
  <2>1. f \in [HwIds -> Fences \cup {NoFence}] /\ Unique(f)
    BY <1>3 DEF f
  <2>2. QED
    BY <1>2, <1>4, <1>5, <2>1, HandledForgets
<1>7. /\ mGeofences[h] # NoFence /\ mGeofences[h].id = mGeofences'[h].id
      /\ mGeofenceIds[mGeofences[h].id] = NoHwId \/ Head(msgs) \in Removals
  BY <1>3, <1>6 DEF f, g, Nameless
<1>8. mGeofenceIds[mGeofences[h].id] = NoHwId \/ Has(s, StopsOf(h))
  BY <1>7
<1>9. Has(reqs', StopsOf(h)) <=> Has(reqs, StopsOf(h)) \/ Has(s, StopsOf(h))
  BY <1>1, JoinHas
<1>10. /\ Has(msgs, Ups) <=> Head(msgs) \in Ups \/ Has(msgs', Ups)
       /\ Has(msgs, StoppedOf(h)) <=> Head(msgs) \in StoppedOf(h) \/ Has(msgs', StoppedOf(h))
  BY <1>1, TailHas
<1>11. Head(msgs) \notin Ups
  BY <1>6 DEF Ups
<1>12. QED
  BY <1>6, <1>7, <1>8, <1>9, <1>10, <1>11 DEF Forgotten

\* The numbers still lead to the fences.
LEMMA TakeFits ==
  ASSUME Typed, Typed', Handles, MapsFit
  PROVE  MapsFit'
<1>1. /\ mGeofences \in [HwIds -> Fences \cup {NoFence}] /\ mGeofenceIds \in [Ids -> HwIds \cup {NoHwId}]
      /\ mGeofences' \in [HwIds -> Fences \cup {NoFence}] /\ mGeofenceIds' \in [Ids -> HwIds \cup {NoHwId}]
      /\ msgs \in Seq(Msgs)
  BY TypesOf DEF Typed
<1>2. Head(msgs) \in Msgs
  BY <1>1, HeadFirst DEF Handles
<1>3. /\ Plainly(mGeofences) \in [HwIds -> Fences \cup {NoFence}]
      /\ HasNumbers(Plainly(mGeofences), mGeofenceIds) /\ Unique(Plainly(mGeofences))
  BY <1>1, PlainMaps DEF MapsFit
<1>4. HasNumbers(Plainly(mGeofences'), mGeofenceIds') /\ Unique(Plainly(mGeofences'))
  BY <1>1, <1>2, <1>3, HandledFits DEF Handles
<1>5. HasNumbers(mGeofences', mGeofenceIds') /\ Unique(mGeofences')
  BY <1>1, <1>4, PlainMaps
<1>6. QED
  BY <1>5 DEF MapsFit

\* The modem is still to be opened or not.
LEMMA TakeReopening ==
  ASSUME Typed, UNCHANGED down, Reopening, NEW s \in Seq(Turnings \cup Made), Joined(reqs', reqs, s),
         ~Has(s, Opens), Has(s, ByNumber) => ~down
  PROVE  Reopening'
<1>1. reqs \in Seq(Turnings \cup Made)
  BY TypesOf
<1>2. /\ Has(reqs', Opens) <=> Has(reqs, Opens) \/ Has(s, Opens)
      /\ HasThen(reqs', Opens, ByNumber) <=>
           HasThen(reqs, Opens, ByNumber) \/ HasThen(s, Opens, ByNumber)
             \/ (Has(reqs, Opens) /\ Has(s, ByNumber))
      /\ Number(reqs', Opens) = Number(reqs, Opens) + Number(s, Opens)
  BY <1>1, JoinHas
<1>3. Number(s, Opens) = 0 /\ Number(reqs, Opens) \in Nat
  BY <1>1, NumberFacts
<1>4. ~HasThen(s, Opens, ByNumber)
  BY ThenHas
<1>5. QED
  BY <1>2, <1>3, <1>4 DEF Reopening

\* The way goes on when what is asked for is ready.
LEMMA TakeSynced ==
  ASSUME Typed, Synced, Handles, NEW G, NEW K, Goes(G, K),
         NEW s \in Seq(Turnings \cup Made), Joined(reqs', reqs, s),
         \A k \in DOMAIN s : s[k] \in ByNumber => \A j \in 0..Len(msgs') : Ready(G[j], K[j], s[k])
  PROVE  Synced'
<1>1. reqs \in Seq(Turnings \cup Made)
  BY TypesOf
<1>2. Awaits(G, K, msgs', reqs')
  BY <1>1, AwaitsMore DEF Goes
<1>3. down' = down /\ modem' = modem /\ (down => modem = [h \in HwIds |-> NoFence])
  BY DEF Handles, Synced
<1>4. QED
  BY <1>2, <1>3 DEF Goes, Synced

-----------------------------------------------------------------------------
(* What the messages stand for is what is done.                            *)

\* One fence is changed.
LEMMA PlainlyUpdate ==
  ASSUME NEW fences \in [HwIds -> Fences \cup {NoFence}], NEW h \in HwIds, NEW a
  PROVE  Plainly([fences EXCEPT ![h] = a]) = [Plainly(fences) EXCEPT ![h] = Plain(a)]
BY DEF Plainly

\* What a message does by its class.
Does(w, f, n, m, g, k) ==
  /\ m \notin Puts \cup Changes \cup Ups \cup Removals => g = f /\ k = n
  /\ m \in Puts => /\ g = [f EXCEPT ![m.hwId] = Plain(m.req.fence)]
                   /\ k = [n EXCEPT ![m.req.fence.id] = m.hwId]
  /\ m \in Changes /\ m.req \in Stops => g = [f EXCEPT ![m.req.hwId] = NoFence] /\ k = n
  /\ m \in Changes /\ m.req \in Asks /\ m.req.call = "remove" =>
       g = [f EXCEPT ![m.req.hwId] = NoFence] /\ k = [n EXCEPT ![IdOf(m.req)] = NoHwId]
  /\ m \in Changes /\ m.req.call = "modify" =>
       g = [f EXCEPT ![m.req.hwId] = Plain(m.req.fence)] /\ k = n
  /\ m = EngineUp => g = [h \in HwIds |-> NoFence] /\ k = [id \in Ids |-> NoHwId]
  /\ m \in Removals =>
       g = f /\ k = [id \in Ids |-> IF w[id] = m.client THEN NoHwId ELSE n[id]]

\* A message that is handled does that.
LEMMA HandledBy ==
  ASSUME NEW w, NEW f, NEW n, NEW m \in Msgs, NEW g, NEW k, Handled(w, f, n, m, g, k)
  PROVE  Does(w, f, n, m, g, k)
<1> USE DEF Does
<1>1. EngineUp \notin Puts /\ EngineUp \notin Changes /\ EngineUp \notin Removals /\ EngineUp \in Ups
  BY OtherClass DEF Removals, Ups
<1>2. m \in Removals => m \notin Puts /\ m \notin Changes /\ m # EngineUp
  BY <1>1, OtherClass DEF Removals
<1>3. m \in Puts => m.req.call = "add" /\ m \notin Changes
  BY DEF Puts, Changes, ByNumber
<1>4. /\ m \in Changes => m.req \in ByNumber
      /\ m.req \in Stops => m.req \notin Asks /\ m.req.call = "remove"
  BY RequestClasses DEF Changes, Stops
<1>5. CASE /\ m \in Puts
           /\ g = [f EXCEPT ![m.hwId] = Plain(m.req.fence)]
           /\ k = [n EXCEPT ![m.req.fence.id] = m.hwId]
  BY <1>1, <1>2, <1>3, <1>5
<1>6. CASE m \in Changes /\ m.req \in Stops /\ g = [f EXCEPT ![m.req.hwId] = NoFence] /\ k = n
  BY <1>1, <1>2, <1>3, <1>4, <1>6
<1>7. CASE /\ m \in Changes /\ m.req \in Asks /\ m.req.call = "remove"
           /\ g = [f EXCEPT ![m.req.hwId] = NoFence] /\ k = [n EXCEPT ![IdOf(m.req)] = NoHwId]
  BY <1>1, <1>2, <1>3, <1>4, <1>7
<1>8. CASE /\ m \in Changes /\ m.req.call = "modify"
           /\ g = [f EXCEPT ![m.req.hwId] = Plain(m.req.fence)] /\ k = n
  BY <1>1, <1>2, <1>3, <1>4, <1>8
<1>9. CASE m = EngineUp /\ g = [h \in HwIds |-> NoFence] /\ k = [id \in Ids |-> NoHwId]
  BY <1>1, <1>9
<1>10. CASE /\ m \in Removals
            /\ g = f /\ k = [id \in Ids |-> IF w[id] = m.client THEN NoHwId ELSE n[id]]
  BY <1>2, <1>10
<1>11. CASE m \notin Puts \cup Changes \cup Ups \cup Removals /\ g = f /\ k = n
  BY <1>1, <1>11
<1>12. QED
  BY <1>5, <1>6, <1>7, <1>8, <1>9, <1>10, <1>11 DEF Handled

\* The message that is taken does that.
LEMMA EffectBy ==
  ASSUME Head(msgs) \in Msgs, NEW g, NEW k, Effect(g, k)
  PROVE  Does(owner, Plainly(mGeofences), mGeofenceIds, Head(msgs), g, k)
BY HandledBy DEF Effect

\* Pausing and resuming make no difference but that.
LEMMA PauseSame ==
  ASSUME Typed, NEW h \in HwIds, pauseGeofenceItem(h) \/ resumeGeofenceItem(h)
  PROVE  Plainly(mGeofences') = Plainly(mGeofences) /\ mGeofenceIds' = mGeofenceIds
<1>1. mGeofences \in [HwIds -> Fences \cup {NoFence}]
  BY TypesOf
<1>2. mGeofenceIds' = mGeofenceIds
  BY DEF pauseGeofenceItem, resumeGeofenceItem, UpdateItem
<1>3. CASE mGeofences[h] = NoFence
  BY <1>2, <1>3 DEF pauseGeofenceItem, resumeGeofenceItem, UpdateItem
<1>4. CASE mGeofences[h] # NoFence
  <2>1. mGeofences[h] \in Fences
    BY <1>1, <1>4
  <2>2. PICK p \in BOOLEAN : mGeofences' = [mGeofences EXCEPT ![h] = [mGeofences[h] EXCEPT !.paused = p]]
    BY <1>4 DEF pauseGeofenceItem, resumeGeofenceItem, UpdateItem
  <2> DEFINE a == [mGeofences[h] EXCEPT !.paused = p]
  <2>3. a \in Fences /\ a.id = mGeofences[h].id /\ a.options = mGeofences[h].options
    <3>1. mGeofences[h].options \in Options
      BY <2>1 DEF Fences
    <3>2. QED
      BY <2>1, <3>1, FenceUpdate
  <2>4. Plain(a) = Plain(mGeofences[h])
    <3> DEFINE x == mGeofences[h]
    <3>1. x # NoFence /\ a # NoFence /\ a.id = x.id /\ a.options = x.options
      BY <2>1, <2>3, ConstantFacts
    <3> HIDE DEF x, a
    <3>2. Plain(a) = Plain(x)
      BY <3>1 DEF Plain
    <3>3. QED
      BY <3>2 DEF x
  <2>5. Plainly(mGeofences') = [Plainly(mGeofences) EXCEPT ![h] = Plain(a)]
    BY <1>1, <2>2, PlainlyUpdate
  <2>6. Plainly(mGeofences)[h] = Plain(mGeofences[h])
        /\ Plainly(mGeofences) \in [HwIds -> Fences \cup {NoFence}]
    BY <1>1, PlainlyFacts
  <2> HIDE DEF a
  <2>7. QED
    BY <1>2, <2>4, <2>5, <2>6
<1>5. QED
  BY <1>3, <1>4

\* A client is added.
LEMMA AddClientEffect ==
  ASSUME Typed, MsgAddClient, NEW g, NEW k, Effect(g, k) PROVE IsDone(g, k)
<1>1. Head(msgs) \in Msgs /\ Head(msgs).kind = "addClient"
  BY Taken DEF MsgAddClient
<1>2. Head(msgs) \in ClientMsgs
  BY <1>1, MsgCases
<1>3. Head(msgs) \notin Puts \cup Changes \cup Ups \cup Removals
  BY <1>1, <1>2, OtherClass DEF Removals, Ups
<1>4. g = Plainly(mGeofences) /\ k = mGeofenceIds
  BY <1>1, <1>3, EffectBy DEF Does
<1>5. UNCHANGED <<mGeofences, mGeofenceIds>>
  BY DEF MsgAddClient, adapter
<1>6. QED
  BY <1>4, <1>5 DEF IsDone

\* A client is removed.
LEMMA RemoveClientEffect ==
  ASSUME Typed, MsgRemoveClient, NEW g, NEW k, Effect(g, k) PROVE IsDone(g, k)
<1>1. Head(msgs) \in Msgs /\ Head(msgs).kind = "removeClient"
  BY Taken DEF MsgRemoveClient
<1>2. Head(msgs) \in ClientMsgs
  BY <1>1, MsgCases
<1>3. Head(msgs) \notin Puts /\ Head(msgs) \notin Changes /\ Head(msgs) \notin Ups
  BY <1>1, <1>2, OtherClass
<1>4. mGeofences' = mGeofences
  BY DEF MsgRemoveClient
<1>5. CASE Head(msgs).interface # "geofence"
  <2>1. Head(msgs) \notin Removals
    BY <1>5 DEF Removals
  <2>2. g = Plainly(mGeofences) /\ k = mGeofenceIds
    BY <1>1, <1>3, <2>1, EffectBy DEF Does
  <2>3. mGeofenceIds' = mGeofenceIds
    BY <1>5 DEF MsgRemoveClient
  <2>4. QED
    BY <1>4, <2>2, <2>3 DEF IsDone
<1>6. CASE Head(msgs).interface = "geofence"
  <2>1. Head(msgs) \in Removals
    BY <1>1, <1>2, <1>6 DEF Removals
  <2>2. g = Plainly(mGeofences) /\
        k = [id \in Ids |-> IF owner[id] = Head(msgs).client THEN NoHwId ELSE mGeofenceIds[id]]
    BY <1>1, <2>1, EffectBy DEF Does
  <2>3. mGeofenceIds' =
          [id \in Ids |-> IF owner[id] = Head(msgs).client THEN NoHwId ELSE mGeofenceIds[id]]
    BY <1>6 DEF MsgRemoveClient, stopClientSessions
  <2>4. QED
    BY <1>4, <2>2, <2>3 DEF IsDone
<1>7. QED
  BY <1>5, <1>6

\* A fence has its turn.
LEMMA InTurnEffect ==
  ASSUME Typed, InTurn, NEW g, NEW k, Effect(g, k) PROVE IsDone(g, k)
<1>1. Head(msgs) \in Msgs /\ Head(msgs).kind = "turn"
  BY Taken DEF InTurn
<1>2. Head(msgs) \in Turned
  BY <1>1, MsgCases
<1>3. Head(msgs).req \in Turnings /\ Head(msgs).kind = "turn"
  BY <1>2 DEF Turned
<1>4. Head(msgs) \notin Puts \cup Changes \cup Ups \cup Removals
  BY <1>2, <1>3, TurnClass
<1>5. g = Plainly(mGeofences) /\ k = mGeofenceIds
  BY <1>1, <1>4, EffectBy DEF Does
<1>6. UNCHANGED <<mGeofences, mGeofenceIds>>
  BY DEF InTurn, adapter
<1>7. QED
  BY <1>5, <1>6 DEF IsDone

\* A fence is put into the maps.
LEMMA SaveEffect ==
  ASSUME Typed, NEW m, m = Head(msgs), m \in Msgs, m \in Puts,
         saveGeofenceItem(m.hwId, m.req.fence.id, m.req.fence.options),
         NEW g, NEW k, Effect(g, k)
  PROVE  IsDone(g, k)
<1>1. m \in Replies /\ m.ok /\ m.req.call = "add"
  BY DEF Puts
<1>2. m.hwId \in HwIds /\ m.req.fence \in Fences
  BY <1>1, ReplyFacts, MadeCases
<1>3. /\ g = [Plainly(mGeofences) EXCEPT ![m.hwId] = Plain(m.req.fence)]
      /\ k = [mGeofenceIds EXCEPT ![m.req.fence.id] = m.hwId]
  BY EffectBy DEF Does
<1>4. mGeofences \in [HwIds -> Fences \cup {NoFence}]
  BY TypesOf
<1> DEFINE a == m.req.fence
<1>5. a.id \in Ids /\ a.options \in Options /\ a # NoFence
  BY <1>2, ConstantFacts DEF Fences
<1>6. Plain(a) = Fence(a.id, a.options, FALSE)
  BY <1>5 DEF Plain
<1>7. Plain(Fence(a.id, a.options, FALSE)) = Fence(a.id, a.options, FALSE)
  <2>1. /\ Fence(a.id, a.options, FALSE) \in Fences
        /\ Fence(a.id, a.options, FALSE).id = a.id
        /\ Fence(a.id, a.options, FALSE).options = a.options
    <3> HIDE DEF a
    <3>1. QED
      BY <1>5, FenceFacts
  <2> DEFINE b == Fence(a.id, a.options, FALSE)
  <2>2. b # NoFence /\ b.id = a.id /\ b.options = a.options
    BY <2>1, ConstantFacts
  <2> HIDE DEF b
  <2>3. Plain(b) = Fence(a.id, a.options, FALSE)
    BY <2>2 DEF Plain
  <2>4. QED
    BY <2>3 DEF b
<1>8. mGeofences' = [mGeofences EXCEPT ![m.hwId] = Fence(a.id, a.options, FALSE)]
      /\ mGeofenceIds' = [mGeofenceIds EXCEPT ![a.id] = m.hwId]
  BY DEF saveGeofenceItem
<1>9. Plainly(mGeofences') = [Plainly(mGeofences) EXCEPT ![m.hwId] = Plain(Fence(a.id, a.options, FALSE))]
  <2> DEFINE b == Fence(a.id, a.options, FALSE)
             h == m.hwId
  <2>1. h \in HwIds /\ mGeofences' = [mGeofences EXCEPT ![h] = b]
    BY <1>2, <1>8
  <2> HIDE DEF b, h
  <2>2. Plainly(mGeofences') = [Plainly(mGeofences) EXCEPT ![h] = Plain(b)]
    BY <1>4, <2>1, PlainlyUpdate
  <2>3. QED
    BY <2>2 DEF b, h
<1>10. QED
  BY <1>3, <1>6, <1>7, <1>8, <1>9 DEF IsDone

\* The answer for a fence.
LEMMA DoneEffect ==
  ASSUME Typed, Done, NEW g, NEW k, Effect(g, k) PROVE IsDone(g, k)
<1> DEFINE m == Head(msgs)
           r == Head(msgs).req
<1>1. m \in Msgs /\ m.kind = "done"
  BY Taken DEF Done
<1>2. m \in Replies
  BY <1>1, MsgCases
<1>3. r \in Made /\ m.ok \in BOOLEAN /\ r.then = "done"
  BY <1>1, <1>2, ReplyFacts
<1>4. r \in Asks
  BY <1>3, MadeCases
<1>5. r.call = r.command.op /\ r.call \in Operations /\ r.command \in Cmds
  BY <1>4, CommandFacts DEF Asks
<1>6. mGeofences \in [HwIds -> Fences \cup {NoFence}] /\ mGeofenceIds \in [Ids -> HwIds \cup {NoHwId}]
  BY TypesOf
<1>7. /\ m \notin Ups /\ m \notin Removals
      /\ m \in Puts <=> m.ok /\ r.call = "add"
      /\ m \in Changes <=> m.ok /\ r \in ByNumber
  BY <1>2, ReplyClass
<1>8. r \in ByNumber <=> r.call \in {"remove", "modify"}
  BY <1>3 DEF ByNumber
<1>9. /\ m.ok /\ r.call = "add" => saveGeofenceItem(m.hwId, r.fence.id, r.fence.options)
      /\ m.ok /\ r.call = "remove" => removeGeofenceItem(r.hwId)
      /\ m.ok /\ r.call = "pause" => pauseGeofenceItem(r.hwId)
      /\ m.ok /\ r.call = "resume" => resumeGeofenceItem(r.hwId)
      /\ m.ok /\ r.call = "modify" => modifyGeofenceItem(r.hwId, r.fence.options)
      /\ ~m.ok => UNCHANGED <<mGeofences, mGeofenceIds>>
  BY <1>5 DEF Done, It, Ok, Operations
<1>10. m \in Changes => /\ Ready(Plainly(mGeofences), mGeofenceIds, r) /\ r.hwId \in HwIds
                        /\ mGeofences[r.hwId] \in Fences /\ mGeofences[r.hwId].id = IdOf(r)
                        /\ mGeofenceIds[IdOf(r)] = r.hwId
                        /\ Plainly(mGeofences)[r.hwId] = Plain(mGeofences[r.hwId])
  <2>1. ASSUME m \in Changes
        PROVE  Ready(Plainly(mGeofences), mGeofenceIds, r) /\ r.hwId \in HwIds
    BY <2>1, <1>7, RequestClasses DEF Effect
  <2>2. ASSUME m \in Changes
        PROVE  /\ mGeofences[r.hwId] \in Fences /\ mGeofences[r.hwId].id = IdOf(r)
               /\ mGeofenceIds[IdOf(r)] = r.hwId
               /\ Plainly(mGeofences)[r.hwId] = Plain(mGeofences[r.hwId])
    <3>1. /\ Plainly(mGeofences)[r.hwId] # NoFence
          /\ Plainly(mGeofences)[r.hwId].id = IdOf(r) /\ mGeofenceIds[IdOf(r)] = r.hwId
      BY <2>1, <2>2, <1>4 DEF Ready
    <3>2. /\ Plainly(mGeofences)[r.hwId] = NoFence <=> mGeofences[r.hwId] = NoFence
          /\ Plainly(mGeofences)[r.hwId].id = mGeofences[r.hwId].id
          /\ Plainly(mGeofences)[r.hwId] = Plain(mGeofences[r.hwId])
      BY <1>6, <2>1, <2>2, PlainlyFacts
    <3>3. QED
      BY <1>6, <2>1, <2>2, <3>1, <3>2
  <2>3. QED
    BY <2>1, <2>2
<1> HIDE DEF m, r
<1>11. CASE ~m.ok \/ (m.ok /\ r.call \in {"pause", "resume"})
  <2>1. m \notin Puts \cup Changes \cup Ups \cup Removals
    BY <1>7, <1>8, <1>11
  <2>2. g = Plainly(mGeofences) /\ k = mGeofenceIds
    BY <1>1, <2>1, EffectBy DEF Does, m
  <2>3. Plainly(mGeofences') = Plainly(mGeofences) /\ mGeofenceIds' = mGeofenceIds
    <3>1. CASE ~m.ok
      BY <1>9, <3>1
    <3>2. CASE m.ok /\ r.call \in {"pause", "resume"}
      <4>1. r.hwId \in HwIds
        BY <1>3, <3>2, MadeCases
      <4>2. QED
        BY <1>9, <3>2, <4>1, PauseSame
    <3>3. QED
      BY <1>11, <3>1, <3>2
  <2>4. QED
    BY <2>2, <2>3 DEF IsDone
<1>12. CASE m.ok /\ r.call = "add"
  <2>1. saveGeofenceItem(m.hwId, m.req.fence.id, m.req.fence.options) /\ m = Head(msgs) /\ m \in Puts
    BY <1>7, <1>9, <1>12 DEF m, r
  <2>2. QED
    BY <1>1, <2>1, SaveEffect
<1>13. CASE m.ok /\ r.call = "remove"
  <2>1. m \in Changes /\ removeGeofenceItem(r.hwId)
    BY <1>7, <1>8, <1>9, <1>13
  <2>2. g = [Plainly(mGeofences) EXCEPT ![r.hwId] = NoFence]
        /\ k = [mGeofenceIds EXCEPT ![IdOf(r)] = NoHwId]
    BY <1>1, <1>4, <1>13, <2>1, EffectBy DEF Does, m, r
  <2>3. /\ r.hwId \in HwIds /\ mGeofences[r.hwId] # NoFence /\ mGeofences[r.hwId].id = IdOf(r)
        /\ mGeofenceIds[IdOf(r)] # NoHwId
    BY <1>10, <2>1, ConstantFacts
  <2>4. mGeofences' = [mGeofences EXCEPT ![r.hwId] = NoFence]
        /\ mGeofenceIds' = [mGeofenceIds EXCEPT ![IdOf(r)] = NoHwId]
    BY <2>1, <2>3 DEF removeGeofenceItem
  <2>5. Plainly(mGeofences') = [Plainly(mGeofences) EXCEPT ![r.hwId] = Plain(NoFence)]
    BY <1>6, <2>3, <2>4, PlainlyUpdate
  <2>6. Plain(NoFence) = NoFence
    BY DEF Plain
  <2>7. QED
    BY <2>2, <2>4, <2>5, <2>6 DEF IsDone
<1>14. CASE m.ok /\ r.call = "modify"
  <2>1. m \in Changes /\ modifyGeofenceItem(r.hwId, r.fence.options)
    BY <1>7, <1>8, <1>9, <1>14
  <2>2. g = [Plainly(mGeofences) EXCEPT ![r.hwId] = Plain(r.fence)] /\ k = mGeofenceIds
    BY <1>1, <1>14, <2>1, EffectBy DEF Does, m, r
  <2>3. /\ r.hwId \in HwIds /\ mGeofences[r.hwId] \in Fences /\ mGeofences[r.hwId].id = IdOf(r)
        /\ mGeofences[r.hwId] # NoFence
    BY <1>10, <2>1, ConstantFacts
  <2>4. r.fence \in Fences /\ r.fence.id = IdOf(r)
    BY <1>4, <1>14 DEF Asks
  <2> DEFINE a == [mGeofences[r.hwId] EXCEPT !.options = r.fence.options]
  <2>5. mGeofences' = [mGeofences EXCEPT ![r.hwId] = a] /\ mGeofenceIds' = mGeofenceIds
    BY <2>1, <2>3 DEF modifyGeofenceItem, UpdateItem
  <2>6. a \in Fences /\ a.id = IdOf(r) /\ a.options = r.fence.options
    <3>1. r.fence.options \in Options
      BY <2>4 DEF Fences
    <3>2. QED
      BY <2>3, <3>1, FenceUpdate
  <2> HIDE DEF a
  <2>7. Plain(a) = Plain(r.fence)
    BY <2>4, <2>6, ConstantFacts DEF Plain
  <2>8. Plainly(mGeofences') = [Plainly(mGeofences) EXCEPT ![r.hwId] = Plain(a)]
    BY <1>6, <2>3, <2>5, PlainlyUpdate
  <2>9. QED
    BY <2>2, <2>5, <2>7, <2>8 DEF IsDone
<1>15. QED
  BY <1>3, <1>5, <1>11, <1>12, <1>13, <1>14 DEF Operations, m

\* The fence of a client that has left is removed.
LEMMA StoppedEffect ==
  ASSUME Typed, Stopped, NEW g, NEW k, Effect(g, k) PROVE IsDone(g, k)
<1> DEFINE m == Head(msgs)
           r == Head(msgs).req
<1>1. m \in Msgs /\ m.kind = "stopped"
  BY Taken DEF Stopped
<1>2. m \in Replies
  BY <1>1, MsgCases
<1>3. r \in Made /\ m.ok \in BOOLEAN /\ r.then = "stopped"
  BY <1>1, <1>2, ReplyFacts
<1>4. r \in Stops /\ r.call = "remove" /\ r.hwId \in HwIds /\ r \in ByNumber
  BY <1>3, MadeCases, RequestClasses DEF Stops
<1>5. mGeofences \in [HwIds -> Fences \cup {NoFence}] /\ mGeofenceIds' = mGeofenceIds
  BY TypesOf DEF Stopped
<1>6. /\ m \notin Ups /\ m \notin Removals
      /\ m \in Puts <=> m.ok /\ r.call = "add"
      /\ m \in Changes <=> m.ok /\ r \in ByNumber
  BY <1>2, ReplyClass
<1>7. CASE m.ok
  <2>1. g = [Plainly(mGeofences) EXCEPT ![r.hwId] = NoFence] /\ k = mGeofenceIds
    BY <1>1, <1>4, <1>6, <1>7, EffectBy DEF Does
  <2>2. mGeofences' = [mGeofences EXCEPT ![r.hwId] = NoFence]
    BY <1>7 DEF Stopped, Ok, It
  <2>3. Plainly(mGeofences') = [Plainly(mGeofences) EXCEPT ![r.hwId] = Plain(NoFence)]
    BY <1>4, <1>5, <2>2, PlainlyUpdate
  <2>4. Plain(NoFence) = NoFence
    BY DEF Plain
  <2>5. QED
    BY <1>5, <2>1, <2>3, <2>4 DEF IsDone
<1>8. CASE ~m.ok
  <2>1. m \notin Puts \cup Changes \cup Ups \cup Removals
    BY <1>6, <1>8
  <2>2. g = Plainly(mGeofences) /\ k = mGeofenceIds
    BY <1>1, <2>1, EffectBy DEF Does
  <2>3. mGeofences' = mGeofences
    BY <1>8 DEF Stopped, Ok
  <2>4. QED
    BY <1>5, <2>2, <2>3 DEF IsDone
<1>9. QED
  BY <1>3, <1>7, <1>8

\* A fence has been added again.
LEMMA RestoredEffect ==
  ASSUME Typed, Restored, NEW g, NEW k, Effect(g, k) PROVE IsDone(g, k)
<1> DEFINE m == Head(msgs)
           r == Head(msgs).req
<1>1. m \in Msgs /\ m.kind = "restored"
  BY Taken DEF Restored
<1>2. m \in Replies
  BY <1>1, MsgCases
<1>3. r \in Made /\ m.ok \in BOOLEAN /\ r.then = "restored"
  BY <1>1, <1>2, ReplyFacts
<1>4. r.call = "add" /\ r \notin ByNumber
  BY <1>3, MadeCases DEF Restores, ByNumber
<1>5. /\ m \notin Ups /\ m \notin Removals
      /\ m \in Puts <=> m.ok /\ r.call = "add"
      /\ m \in Changes <=> m.ok /\ r \in ByNumber
  BY <1>2, ReplyClass
<1>6. CASE m.ok
  <2>1. saveGeofenceItem(m.hwId, m.req.fence.id, m.req.fence.options) /\ m \in Puts
    BY <1>4, <1>5, <1>6 DEF Restored, Ok, It
  <2>2. QED
    BY <1>1, <2>1, SaveEffect
<1>7. CASE ~m.ok
  <2>1. m \notin Puts \cup Changes \cup Ups \cup Removals
    BY <1>4, <1>5, <1>7
  <2>2. g = Plainly(mGeofences) /\ k = mGeofenceIds
    BY <1>1, <2>1, EffectBy DEF Does
  <2>3. UNCHANGED <<mGeofences, mGeofenceIds>>
    BY <1>7 DEF Restored, Ok
  <2>4. QED
    BY <2>2, <2>3 DEF IsDone
<1>8. QED
  BY <1>3, <1>6, <1>7

\* A fence has been paused or resumed with the system.
LEMMA PausedEffect ==
  ASSUME Typed, PausedOrResumed, NEW g, NEW k, Effect(g, k) PROVE IsDone(g, k)
<1> DEFINE m == Head(msgs)
           r == Head(msgs).req
<1>1. m \in Msgs /\ m.kind = "paused"
  BY Taken DEF PausedOrResumed
<1>2. m \in Replies
  BY <1>1, MsgCases
<1>3. r \in Made /\ m.ok \in BOOLEAN /\ r.then = "paused"
  BY <1>1, <1>2, ReplyFacts
<1>4. r.call \in {"pause", "resume"} /\ r.hwId \in HwIds /\ r \notin ByNumber
  BY <1>3, MadeCases DEF Pauses, ByNumber
<1>5. m \notin Puts \cup Changes \cup Ups \cup Removals
  BY <1>2, <1>4, ReplyClass
<1>6. g = Plainly(mGeofences) /\ k = mGeofenceIds
  BY <1>1, <1>5, EffectBy DEF Does
<1>7. CASE ~m.ok
  <2>1. UNCHANGED <<mGeofences, mGeofenceIds>>
    BY <1>7 DEF PausedOrResumed, Ok
  <2>2. QED
    BY <1>6, <2>1 DEF IsDone
<1>8. CASE m.ok
  <2>1. pauseGeofenceItem(r.hwId) \/ resumeGeofenceItem(r.hwId)
    BY <1>8 DEF PausedOrResumed, Ok, It
  <2>2. Plainly(mGeofences') = Plainly(mGeofences) /\ mGeofenceIds' = mGeofenceIds
    BY <1>4, <2>1, PauseSame
  <2>3. QED
    BY <1>6, <2>2 DEF IsDone
<1>9. QED
  BY <1>3, <1>7, <1>8

\* The modem is back and the system is not suspended.
LEMMA SSREventEffect ==
  ASSUME Typed, MsgSSREvent, MapsFit, mSystemPowerState # "suspend", NEW g, NEW k, Effect(g, k)
  PROVE  IsDone(g, k)
<1>1. Head(msgs) \in Msgs /\ Head(msgs).kind = "engineUp"
  BY Taken DEF MsgSSREvent
<1>2. Head(msgs) = EngineUp
  BY <1>1, MsgCases
<1>3. g = [h \in HwIds |-> NoFence] /\ k = [id \in Ids |-> NoHwId]
  BY <1>1, <1>2, EffectBy DEF Does
<1>4. PICK order \in Orders(In(mGeofences)) : restartGeofences(order)
  BY DEF MsgSSREvent
<1>5. mGeofences' = [h \in HwIds |-> NoFence]
      /\ mGeofenceIds' = IF order = <<>> THEN mGeofenceIds ELSE [id \in Ids |-> NoHwId]
  BY <1>4 DEF restartGeofences
<1>6. Plainly(mGeofences') = [h \in HwIds |-> NoFence]
  BY <1>5 DEF Plainly, Plain
<1>7. order = <<>> => mGeofenceIds = [id \in Ids |-> NoHwId]
  <2>1. ASSUME order = <<>> PROVE In(mGeofences) = {}
    <3>1. IsFiniteSet(In(mGeofences))
      BY ConstantFacts, FS_Subset DEF In
    <3>2. DOMAIN order = 1..Cardinality(In(mGeofences)) /\ Cardinality(In(mGeofences)) \in Nat
      BY <3>1, FS_CardinalityType DEF Orders
    <3>3. DOMAIN order = {}
      BY <2>1
    <3>4. Cardinality(In(mGeofences)) = 0
      <4> SUFFICES ASSUME Cardinality(In(mGeofences)) # 0 PROVE FALSE
        OBVIOUS
      <4>1. 1 \in DOMAIN order
        BY <3>2
      <4>2. QED
        BY <3>3, <4>1
    <3>5. QED
      BY <3>1, <3>4, FS_EmptySet
  <2>2. ASSUME order = <<>>, NEW id \in Ids PROVE mGeofenceIds[id] = NoHwId
    <3> SUFFICES ASSUME mGeofenceIds[id] # NoHwId PROVE FALSE
      OBVIOUS
    <3>1. mGeofenceIds[id] \in HwIds /\ mGeofences[mGeofenceIds[id]].id = id
      BY TypesOf DEF MapsFit, HasNumbers
    <3>2. mGeofences[mGeofenceIds[id]] # NoFence
      BY <3>1, ConstantFacts
    <3>3. QED
      BY <2>1, <2>2, <3>1, <3>2 DEF In
  <2>3. QED
    BY <2>2, TypesOf
<1>8. QED
  BY <1>3, <1>5, <1>6, <1>7 DEF IsDone

-----------------------------------------------------------------------------
(* The messages that ask for nothing by a number.                          *)

\* What a sequence does not have.
LEMMA NoneNumber ==
  ASSUME NEW S, NEW s \in Seq(S), NEW A, \A x \in S : x \notin A
  PROVE  ~Has(s, A) /\ Number(s, A) = 0
<1>1. \A i \in DOMAIN s : s[i] \in S
  BY ElementOfSeq
<1>2. ~Has(s, A)
  BY <1>1 DEF Has
<1>3. QED
  BY <1>2, NumberFacts

\* Requests to pause or to resume are none of the others.
LEMMA PausesOnly ==
  ASSUME NEW s \in Seq(Pauses)
  PROVE  /\ s \in Seq(Turnings \cup Made)
         /\ \A id : Number(s, CmdReqs(id)) = 0 /\ Number(s, AddReqs(id)) = 0 /\ ~Has(s, AsksOf(id))
         /\ ~Has(s, Opens) /\ ~Has(s, ByNumber)
         /\ \A h : ~Has(s, StopsOf(h)) /\ Number(s, StopsOf(h)) = 0
         /\ \A k \in DOMAIN s : s[k] \notin ByNumber
<1>1. s \in Seq(Turnings \cup Made)
  BY SeqMonotonic DEF Made
<1>2. \A id : \A x \in Pauses : /\ x \notin CmdReqs(id) /\ x \notin AddReqs(id) /\ x \notin AsksOf(id)
                                /\ x \notin ByNumber
  BY RequestClasses
<1>3. \A x \in Pauses : x \notin Opens
  BY DEF Pauses, Opens
<1>4. \A h : \A x \in Pauses : x \notin StopsOf(h)
  BY DEF Pauses, StopsOf, Stops
<1>5. \A k \in DOMAIN s : s[k] \in Pauses
  BY ElementOfSeq
<1>6. ASSUME NEW id
      PROVE  Number(s, CmdReqs(id)) = 0 /\ Number(s, AddReqs(id)) = 0 /\ ~Has(s, AsksOf(id))
  BY <1>2, NoneNumber
<1>7. ASSUME NEW h PROVE ~Has(s, StopsOf(h)) /\ Number(s, StopsOf(h)) = 0
  BY <1>4, NoneNumber
<1>8. ~Has(s, Opens) /\ ~Has(s, ByNumber)
  BY <1>2, <1>3, NoneNumber
<1>9. QED
  BY <1>1, <1>2, <1>5, <1>6, <1>7, <1>8

\* A message is handled that asks at most for pauses, and is no removal.
LEMMA TakeKeeps ==
  ASSUME Typed, Typed', Together, Handles, NEW G, NEW K, Goes(G, K), Head(msgs) \notin Removals,
         NEW s \in Seq(Pauses), Joined(reqs', reqs, s)
  PROVE  Together'
<1>0. s \in Seq(Turnings \cup Made) /\ reqs \in Seq(Turnings \cup Made)
  BY PausesOnly, TypesOf
<1>1. ASSUME NEW id \in Ids PROVE OneAtATime(id)'
  <2>1. Number(s, CmdReqs(id)) = 0 /\ Number(s, AddReqs(id)) = 0 /\ OneAtATime(id)
    BY PausesOnly DEF Together
  <2>2. QED
    BY <1>0, <2>1, TakeOne
<1>2. ASSUME NEW id \in Ids PROVE Leaving(id)'
  <2>1. ~Has(s, AsksOf(id)) /\ Leaving(id)
    BY PausesOnly DEF Together
  <2>2. QED
    BY <1>0, <2>1, TakeLeaving
<1>3. ASSUME NEW h \in HwIds PROVE Forgotten(h)'
  <2>1. Forgotten(h) /\ MapsFit
    BY DEF Together
  <2>2. QED
    BY <1>0, <2>1, TakeForgotten
<1>4. ASSUME NEW h \in HwIds PROVE Number(reqs', StopsOf(h)) <= 1
  <2>1. Number(s, StopsOf(h)) = 0 /\ Number(reqs, StopsOf(h)) <= 1
    BY PausesOnly DEF Together
  <2>2. /\ Number(reqs, StopsOf(h)) \in Nat
        /\ Number(reqs', StopsOf(h)) = Number(reqs, StopsOf(h)) + Number(s, StopsOf(h))
    BY <1>0, JoinedNumber
  <2>3. QED
    BY <2>1, <2>2
<1>5. MapsFit'
  BY TakeFits DEF Together
<1>6. Reopening'
  <2>1. UNCHANGED down /\ Reopening
    BY DEF Handles, Together
  <2>2. ~Has(s, Opens) /\ ~Has(s, ByNumber)
    BY PausesOnly
  <2>3. QED
    BY <1>0, <2>1, <2>2, TakeReopening
<1>7. Synced'
  <2>1. Synced
    BY DEF Together
  <2>2. \A k \in DOMAIN s : s[k] \notin ByNumber
    BY PausesOnly
  <2>3. QED
    BY <1>0, <2>1, <2>2, TakeSynced
<1>8. QED
  BY <1>1, <1>2, <1>3, <1>4, <1>5, <1>6, <1>7 DEF Together

\* Nothing is asked for.
LEMMA AskedNothing ==
  ASSUME Typed, reqs' = reqs
  PROVE  <<>> \in Seq(Pauses) /\ Joined(reqs', reqs, <<>>)
<1>1. reqs \in Seq(Turnings \cup Made)
  BY TypesOf
<1>2. reqs \o <<>> = reqs
  BY <1>1, ConcatEmptySeq
<1>3. QED
  BY <1>2, EmptySeq DEF Joined

\* A client is added.
LEMMA AddClientTogether ==
  ASSUME Typed, Typed', Together, MsgAddClient PROVE Together'
<1>1. /\ msgs # <<>> /\ msgs' = Tail(msgs) /\ Head(msgs).kind = "addClient"
      /\ UNCHANGED <<owner, down, modem>> /\ reqs' = reqs
  BY DEF MsgAddClient, Take, clientBase, locApi
<1>2. Handles /\ \E G, K : Goes(G, K)
  <2>1. \A g, k : Effect(g, k) => IsDone(g, k)
    BY AddClientEffect
  <2>2. QED
    BY <1>1, <2>1, TakeWay DEF Together
<1>3. Head(msgs) \notin Removals
  BY <1>1 DEF Removals
<1>4. <<>> \in Seq(Pauses) /\ Joined(reqs', reqs, <<>>)
  BY <1>1, AskedNothing
<1>5. QED
  BY <1>2, <1>3, <1>4, TakeKeeps

\* The answer for a fence.
LEMMA DoneTogether ==
  ASSUME Typed, Typed', Together, Done PROVE Together'
<1>1. /\ msgs # <<>> /\ msgs' = Tail(msgs) /\ Head(msgs).kind = "done"
      /\ UNCHANGED <<down, modem>> /\ reqs' = reqs
  BY DEF Done, Take, locApi
<1>2. owner' = owner
  <2>1. reportResponse(It.command, It.i) \/ UNCHANGED clientBase
    BY DEF Done
  <2>2. QED
    BY <2>1, ResponseTyped
<1>3. Handles /\ \E G, K : Goes(G, K)
  <2>1. \A g, k : Effect(g, k) => IsDone(g, k)
    BY DoneEffect
  <2>2. QED
    BY <1>1, <1>2, <2>1, TakeWay DEF Together
<1>4. Head(msgs) \notin Removals
  BY <1>1 DEF Removals
<1>5. <<>> \in Seq(Pauses) /\ Joined(reqs', reqs, <<>>)
  BY <1>1, AskedNothing
<1>6. QED
  BY <1>3, <1>4, <1>5, TakeKeeps

\* The fence of a client that has left is removed.
LEMMA StoppedTogether ==
  ASSUME Typed, Typed', Together, Stopped PROVE Together'
<1>1. /\ msgs # <<>> /\ msgs' = Tail(msgs) /\ Head(msgs).kind = "stopped"
      /\ UNCHANGED <<owner, down, modem>> /\ reqs' = reqs
  BY DEF Stopped, Take, clientBase, locApi
<1>2. Handles /\ \E G, K : Goes(G, K)
  <2>1. \A g, k : Effect(g, k) => IsDone(g, k)
    BY StoppedEffect
  <2>2. QED
    BY <1>1, <2>1, TakeWay DEF Together
<1>3. Head(msgs) \notin Removals
  BY <1>1 DEF Removals
<1>4. <<>> \in Seq(Pauses) /\ Joined(reqs', reqs, <<>>)
  BY <1>1, AskedNothing
<1>5. QED
  BY <1>2, <1>3, <1>4, TakeKeeps

\* A fence has been paused or resumed with the system.
LEMMA PausedTogether ==
  ASSUME Typed, Typed', Together, PausedOrResumed PROVE Together'
<1>1. /\ msgs # <<>> /\ msgs' = Tail(msgs) /\ Head(msgs).kind = "paused"
      /\ UNCHANGED <<owner, down, modem>> /\ reqs' = reqs
  BY DEF PausedOrResumed, Take, clientBase, locApi
<1>2. Handles /\ \E G, K : Goes(G, K)
  <2>1. \A g, k : Effect(g, k) => IsDone(g, k)
    BY PausedEffect
  <2>2. QED
    BY <1>1, <2>1, TakeWay DEF Together
<1>3. Head(msgs) \notin Removals
  BY <1>1 DEF Removals
<1>4. <<>> \in Seq(Pauses) /\ Joined(reqs', reqs, <<>>)
  BY <1>1, AskedNothing
<1>5. QED
  BY <1>2, <1>3, <1>4, TakeKeeps

\* A fence has been added again, and is paused again if it was.
LEMMA RestoredTogether ==
  ASSUME Typed, Typed', Together, Restored PROVE Together'
<1>1. /\ msgs # <<>> /\ msgs' = Tail(msgs) /\ Head(msgs).kind = "restored"
      /\ UNCHANGED <<owner, down, modem>>
  BY DEF Restored, Take, clientBase
<1>2. Handles /\ \E G, K : Goes(G, K)
  <2>1. \A g, k : Effect(g, k) => IsDone(g, k)
    BY RestoredEffect
  <2>2. QED
    BY <1>1, <2>1, TakeWay DEF Together
<1>3. Head(msgs) \notin Removals
  BY <1>1 DEF Removals
<1>4. \E s \in Seq(Pauses) : Joined(reqs', reqs, s)
  <2>1. CASE reqs' = reqs
    BY <2>1, AskedNothing
  <2>2. CASE reqs' # reqs
    <3>1. Ok /\ reqs' = Append(reqs, Request("pause", Head(msgs).hwId, NoFence, "nothing"))
      BY <2>2 DEF Restored, PauseAgain
    <3>2. Head(msgs).hwId \in HwIds
      <4>1. Head(msgs) \in Msgs
        BY <1>1, TypesOf, HeadFirst
      <4>2. Head(msgs) \in Replies
        BY <1>1, <4>1, MsgCases
      <4>3. Head(msgs).ok /\ Head(msgs).req \in Made /\ Head(msgs).req.then = "restored"
        BY <1>1, <3>1, <4>2, ReplyFacts DEF Ok
      <4>4. Head(msgs).req.call = "add"
        BY <4>3, MadeCases DEF Restores
      <4>5. QED
        BY <4>2, <4>3, <4>4, ReplyFacts
    <3> DEFINE r == Request("pause", Head(msgs).hwId, NoFence, "nothing")
    <3>3. r \in Pauses
      BY <3>2, RequestsMade
    <3> HIDE DEF r
    <3>4. <<r>> \in Seq(Pauses) /\ reqs' = reqs \o <<r>>
      <4>1. reqs \in Seq(Turnings \cup Made) /\ r \in Turnings \cup Made
        BY <3>3, TypesOf DEF Made
      <4>2. Append(reqs, r) = reqs \o <<r>>
        BY <4>1, AppendIsConcat
      <4>3. QED
        BY <3>1, <3>3, <4>2 DEF r
    <3>5. QED
      BY <3>4 DEF Joined
  <2>3. QED
    BY <2>1, <2>2
<1>5. QED
  BY <1>2, <1>3, <1>4, TakeKeeps

-----------------------------------------------------------------------------
(* The messages that ask for more.                                         *)

\* An order of a finite set has every element once.
LEMMA OrderOnto ==
  ASSUME NEW S, IsFiniteSet(S), NEW order \in Orders(S)
  PROVE  /\ \A i, j \in DOMAIN order : order[i] = order[j] => i = j
         /\ \A x \in S : \E k \in DOMAIN order : order[k] = x
<1>1. Cardinality(S) \in Nat
  BY FS_CardinalityType
<1> DEFINE n == Cardinality(S)
<1>2. order \in [1..n -> S] /\ IsInjective(order)
  BY DEF Orders
<1>3. order \in Injection(1..n, S)
  BY <1>2 DEF Injection
<1>4. IsFiniteSet(1..n) /\ Cardinality(1..n) = n
  BY <1>1, FS_Interval
<1>5. order \in Surjection(1..n, S)
  BY <1>3, <1>4, FS_Injection
<1>6. \A x \in S : \E k \in 1..n : order[k] = x
  BY <1>5 DEF Surjection
<1>7. QED
  BY <1>2, <1>6 DEF IsInjective

\* What is asked for by a number, and what was, is ready now.
LEMMA ReadyNow ==
  ASSUME Typed, Synced
  PROVE  /\ \A i \in DOMAIN msgs :
              msgs[i] \in Changes => Ready(Plainly(mGeofences), mGeofenceIds, msgs[i].req)
         /\ \A i \in DOMAIN reqs :
              reqs[i] \in ByNumber => Ready(Plainly(mGeofences), mGeofenceIds, reqs[i])
<1>1. PICK F, N : /\ Leads(F, N, msgs, owner) /\ Awaits(F, N, msgs, reqs)
                  /\ F[0] = Plainly(mGeofences) /\ N[0] = mGeofenceIds
  BY DEF Synced
<1>2. Len(msgs) \in Nat /\ DOMAIN msgs = 1..Len(msgs)
  BY TypesOf, LenProperties
<1>3. 0 \in 0..Len(msgs) /\ \A i \in 1..Len(msgs) : 0 \in 0..i - 1
  BY <1>2
<1>4. \A i \in DOMAIN msgs : msgs[i] \in Changes => Ready(F[0], N[0], msgs[i].req)
  BY <1>1, <1>2, <1>3 DEF Leads
<1>5. \A i \in DOMAIN reqs : reqs[i] \in ByNumber => Ready(F[0], N[0], reqs[i])
  BY <1>1, <1>3 DEF Awaits
<1>6. QED
  BY <1>1, <1>4, <1>5

\* No fence with a number is being removed for a client that has left.
LEMMA NotStopped ==
  ASSUME Typed, Synced, MapsFit, NEW id \in Ids, NEW h \in HwIds, mGeofenceIds[id] = h
  PROVE  ~Has(msgs, StoppedOf(h)) /\ ~Has(reqs, StopsOf(h))
<1>1. mGeofences[h].id = id /\ mGeofences \in [HwIds -> Fences \cup {NoFence}] /\ h # NoHwId
  BY TypesOf, ConstantFacts DEF MapsFit, HasNumbers
<1>2. Plainly(mGeofences)[h].id = id
  BY <1>1, PlainlyFacts
<1>3. ASSUME NEW r \in StopsOf(h) PROVE ~Ready(Plainly(mGeofences), mGeofenceIds, r)
  <2>1. r \in Stops /\ r.hwId = h
    BY <1>3 DEF StopsOf
  <2>2. QED
    BY <1>1, <1>2, <2>1 DEF Ready
<1>4. ~Has(msgs, StoppedOf(h))
  <2> SUFFICES ASSUME NEW i \in DOMAIN msgs, msgs[i] \in StoppedOf(h) PROVE FALSE
    BY DEF Has
  <2>1. msgs[i] \in Changes /\ msgs[i].req \in StopsOf(h)
    BY DEF StoppedOf
  <2>2. QED
    BY <1>3, <2>1, ReadyNow
<1>5. ~Has(reqs, StopsOf(h))
  <2> SUFFICES ASSUME NEW i \in DOMAIN reqs, reqs[i] \in StopsOf(h) PROVE FALSE
    BY DEF Has
  <2>1. reqs[i] \in ByNumber
    BY RequestClasses DEF StopsOf
  <2>2. QED
    BY <1>3, <2>1, ReadyNow
<1>6. QED
  BY <1>4, <1>5

\* A request for a fence that is for no number of a modem that has crashed.
LEMMA AskTogether ==
  ASSUME Typed, Typed', Together, Handles, NEW G, NEW K, Goes(G, K), Head(msgs) \in Turned,
         UNCHANGED <<mGeofences, mGeofenceIds>>,
         NEW r \in Asks, Joined(reqs', reqs, <<r>>), IdOf(r) = IdOf(Head(msgs).req),
         r.call = Head(msgs).req.command.op,
         r.call # "add" => r.hwId = mGeofenceIds[IdOf(r)] /\ ~down /\ EngineUp \notin Range(msgs)
  PROVE  Together'
<1>0. <<r>> \in Seq(Turnings \cup Made) /\ reqs \in Seq(Turnings \cup Made) /\ msgs \in Seq(Msgs)
      /\ msgs # <<>> /\ msgs' = Tail(msgs) /\ msgs' \in Seq(Msgs) /\ owner' = owner /\ down' = down
  <2>1. r \in Turnings \cup Made
    BY DEF Made
  <2>2. <<r>> \in Seq(Turnings \cup Made)
    BY <2>1
  <2>3. QED
    BY <2>2, TypesOf, TailHas DEF Handles
<1>m. Head(msgs).req \in Turnings /\ Head(msgs).kind = "turn"
  BY DEF Turned
<1>r. r \in Made /\ r.call \in Operations /\ r.call # "open" /\ r.call = r.command.op
  <2>1. r.command \in Cmds /\ r.call = r.command.op
    BY DEF Asks
  <2>2. QED
    BY <2>1, CommandFacts DEF Made, Operations
<1>c. ASSUME NEW id
      PROVE  /\ r \in CmdReqs(id) <=> Head(msgs) \in CmdMsgs(id)
             /\ r \in AddReqs(id) <=> Head(msgs) \in AddMsgs(id)
             /\ r \in AsksOf(id) <=> Head(msgs) \in CmdMsgs(id)
             /\ r \notin Stops
  <2>1. /\ r \in CmdReqs(id) <=> IdOf(r) = id
        /\ r \in AsksOf(id) <=> IdOf(r) = id
        /\ r \in AddReqs(id) <=> IdOf(r) = id /\ r.call = "add"
        /\ r \notin Stops
    BY RequestClasses
  <2>2. /\ Head(msgs).req \in CmdReqs(id) <=> IdOf(r) = id
        /\ Head(msgs).req \in AddReqs(id) <=> IdOf(r) = id /\ r.call = "add"
    BY <1>m, RequestClasses
  <2>3. /\ Head(msgs) \in CmdMsgs(id) <=> Head(msgs).req \in CmdReqs(id)
        /\ Head(msgs) \in AddMsgs(id) <=> Head(msgs).req \in AddReqs(id)
    BY <1>m, TurnClass
  <2>4. QED
    BY <2>1, <2>2, <2>3
<1>h. Head(msgs) \notin Removals
  BY <1>m, TurnClass
<1>1. ASSUME NEW id \in Ids PROVE OneAtATime(id)'
  <2>1. /\ Number(<<r>>, CmdReqs(id)) <= (IF Head(msgs) \in CmdMsgs(id) THEN 1 ELSE 0)
        /\ Number(<<r>>, AddReqs(id)) <=
             (IF Head(msgs) \in AddMsgs(id) /\ mGeofences' = mGeofences THEN 1 ELSE 0)
    BY <1>c, ShortNumber
  <2>2. OneAtATime(id)
    BY DEF Together
  <2>3. QED
    BY <1>0, <2>1, <2>2, TakeOne
<1>2. ASSUME NEW id \in Ids PROVE Leaving(id)'
  <2>1. Has(<<r>>, AsksOf(id)) => Head(msgs) \in CmdMsgs(id)
    BY <1>c, ShortHas
  <2>2. Leaving(id)
    BY DEF Together
  <2>3. QED
    BY <1>0, <2>1, <2>2, TakeLeaving
<1>3. ASSUME NEW h \in HwIds PROVE Forgotten(h)'
  <2>1. Forgotten(h) /\ MapsFit
    BY DEF Together
  <2>2. QED
    BY <1>0, <1>h, <2>1, TakeForgotten
<1>4. ASSUME NEW h \in HwIds PROVE Number(reqs', StopsOf(h)) <= 1
  <2>1. Number(<<r>>, StopsOf(h)) = 0
    BY <1>c, ShortNumber DEF StopsOf
  <2>2. Number(reqs, StopsOf(h)) <= 1
    BY DEF Together
  <2>3. /\ Number(reqs, StopsOf(h)) \in Nat
        /\ Number(reqs', StopsOf(h)) = Number(reqs, StopsOf(h)) + Number(<<r>>, StopsOf(h))
    <3> DEFINE s == <<r>>
    <3>1. s \in Seq(Turnings \cup Made) /\ Joined(reqs', reqs, s) /\ reqs \in Seq(Turnings \cup Made)
      BY <1>0
    <3> HIDE DEF s
    <3>2. /\ Number(reqs, StopsOf(h)) \in Nat
          /\ Number(reqs', StopsOf(h)) = Number(reqs, StopsOf(h)) + Number(s, StopsOf(h))
      BY <3>1, JoinedNumber
    <3>3. QED
      BY <3>2 DEF s
  <2>4. QED
    BY <2>1, <2>2, <2>3
<1>5. MapsFit'
  BY TakeFits DEF Together
<1>b. r \in ByNumber => /\ r.hwId = mGeofenceIds[IdOf(r)] /\ ~down /\ EngineUp \notin Range(msgs)
                        /\ r.hwId \in HwIds /\ IdOf(r) \in Ids
  BY RequestClasses DEF ByNumber
<1>6. Reopening'
  <2>1. UNCHANGED down /\ Reopening
    BY <1>0 DEF Together
  <2>2. r \notin Opens
    BY <1>r DEF Opens
  <2>3. ~Has(<<r>>, Opens) /\ (Has(<<r>>, ByNumber) => ~down)
    BY <1>b, <2>2, ShortHas
  <2>4. QED
    BY <1>0, <2>1, <2>3, TakeReopening
<1>7. Synced'
  <2>1. Synced /\ MapsFit
    BY DEF Together
  <2>2. ASSUME r \in ByNumber, NEW j \in 0..Len(msgs') PROVE Ready(G[j], K[j], r)
    <3> DEFINE id == IdOf(r)
               h == r.hwId
    <3>1. h = mGeofenceIds[id] /\ h \in HwIds /\ id \in Ids /\ EngineUp \notin Range(msgs) /\ h # NoHwId
      BY <1>b, <2>2, ConstantFacts
    <3> HIDE DEF id, h
    <3>2. G[0] = Plainly(mGeofences) /\ K[0] = mGeofenceIds /\ Leads(G, K, msgs', owner)
      BY <1>0 DEF Goes
    <3>3. G[0][h].id = id /\ K[0][id] = h
      <4>1. mGeofences[h].id = id
        BY <2>1, <3>1 DEF MapsFit, HasNumbers
      <4>2. Plainly(mGeofences)[h].id = mGeofences[h].id
        BY <3>1, TypesOf, PlainlyFacts
      <4>3. QED
        BY <3>1, <3>2, <4>1, <4>2
    <3>4. ~Has(msgs', Ups)
      <4>1. Has(msgs', Ups) => Has(msgs, Ups)
        BY <1>0, TailHas
      <4>2. ~Has(msgs, Ups)
        BY <3>1 DEF Has, Ups, Range
      <4>3. QED
        BY <4>1, <4>2
    <3>5. Head(msgs) \in CmdMsgs(id)
      <4>1. r \in CmdReqs(id)
        BY RequestClasses DEF id
      <4>2. QED
        BY <1>c, <4>1
    <3>6. ~Has(msgs', DoneOf(id))
      <4>1. /\ Number(msgs, CmdMsgs(id)) \in Nat /\ Number(msgs', CmdMsgs(id)) \in Nat
            /\ Number(msgs, CmdMsgs(id)) = 1 + Number(msgs', CmdMsgs(id))
        BY <1>0, <3>5, TakenNumber
      <4>2. Number(reqs, CmdReqs(id)) + Number(msgs, CmdMsgs(id)) <= 1
        BY <3>1 DEF Together, OneAtATime, Commands1
      <4>3. Number(reqs, CmdReqs(id)) \in Nat
        BY <1>0, NumberFacts
      <4>4. Number(msgs', CmdMsgs(id)) = 0
        BY <4>1, <4>2, <4>3
      <4>5. ~Has(msgs', CmdMsgs(id))
        BY <1>0, <4>4, NumberFacts
      <4>6. QED
        BY <4>5 DEF Has, CmdMsgs
    <3>7. ~Has(msgs', RemovalsOf(owner[id]))
      <4>1. Leaving(id)
        BY <3>1 DEF Together
      <4>2. Has(msgs', RemovalsOf(owner[id])) => HasThen(msgs, CmdMsgs(id), RemovalsOf(owner[id]))
        BY <1>0, <3>5, TailHas
      <4>3. QED
        BY <4>1, <4>2 DEF Leaving
    <3>8. \A x \in 0..Len(msgs') : G[x][h].id = id /\ K[x][id] = h
      <4> DEFINE q == msgs'
                 w == owner
      <4>1. q \in Seq(Msgs) /\ Leads(G, K, q, w) /\ ~Has(q, Ups) /\ ~Has(q, DoneOf(id))
        BY <1>0, <3>2, <3>4, <3>6
      <4>2. ~Has(q, RemovalsOf(w[id]))
        BY <3>7
      <4>3. id \in Ids /\ h \in HwIds /\ G[0][h].id = id /\ K[0][id] = h
        BY <3>1, <3>3
      <4> HIDE DEF q, w
      <4>4. \A x \in 0..Len(q) : G[x][h].id = id /\ K[x][id] = h
        BY <4>1, <4>2, <4>3, KeepsNumber
      <4>5. QED
        BY <4>4 DEF q
    <3>9. G[j][h].id = id /\ K[j][id] = h /\ id # NoFence.id
      BY <3>1, <3>8, ConstantFacts
    <3>10. r \notin Stops
      BY <1>c
    <3>11. QED
      BY <3>9, <3>10 DEF Ready, id, h
  <2>3. \A k \in DOMAIN <<r>> :
          <<r>>[k] \in ByNumber => \A j \in 0..Len(msgs') : Ready(G[j], K[j], <<r>>[k])
    BY <2>2
  <2>4. QED
    BY <1>0, <2>1, <2>3, TakeSynced
<1>8. QED
  BY <1>1, <1>2, <1>3, <1>4, <1>5, <1>6, <1>7 DEF Together

\* A fence has its turn.
LEMMA InTurnTogether ==
  ASSUME Typed, Typed', Together, NumbersHold', InTurn PROVE Together'
<1> DEFINE m == It.command
           id == m.ids[It.i]
           hwId == mGeofenceIds[id]
<1>1. /\ msgs # <<>> /\ msgs' = Tail(msgs) /\ Head(msgs).kind = "turn"
      /\ UNCHANGED <<mGeofences, mGeofenceIds, down, modem>>
      /\ past' = IF m.op # "add" /\ hwId # NoHwId THEN past \cup Stale ELSE past
      /\ \/ /\ m.op \in {"add", "modify"} /\ (m.op # "add" => hwId # NoHwId)
            /\ reqs' = Append(reqs, Ask(m, It.i, hwId, Fence(id, m.options[It.i], FALSE)))
            /\ UNCHANGED clientBase
         \/ /\ m.op \in {"remove", "pause", "resume"} /\ hwId # NoHwId
            /\ reqs' = Append(reqs, Ask(m, It.i, hwId, NoFence))
            /\ UNCHANGED clientBase
         \/ m.op # "add" /\ hwId = NoHwId /\ reportResponse(m, It.i) /\ UNCHANGED reqs
  BY DEF InTurn, Take, adapter
<1>2. Head(msgs) \in Turned /\ Head(msgs).req \in Turnings /\ It = Head(msgs).req
  <2>1. Head(msgs) \in Msgs
    BY <1>1, TypesOf, HeadFirst
  <2>2. Head(msgs) \in Turned
    BY <1>1, <2>1, MsgCases
  <2>3. QED
    BY <2>2 DEF Turned, It
<1>3. /\ m \in Cmds /\ It.i \in DOMAIN m.ids /\ id \in Ids /\ id = IdOf(It)
      /\ m.op \in {"add", "modify"} => m.options[It.i] \in Options
  <2>1. m \in Cmds /\ It.i \in DOMAIN m.ids
    BY <1>2 DEF Turnings
  <2>2. QED
    BY <2>1, CommandFacts DEF IdOf
<1>4. hwId \in HwIds \cup {NoHwId}
  BY <1>3, TypesOf
<1> HIDE DEF m, id, hwId
<1>5. owner' = owner
  BY <1>1, ResponseTyped
<1>6. Handles /\ \E G, K : Goes(G, K)
  <2>1. \A g, k : Effect(g, k) => IsDone(g, k)
    BY InTurnEffect
  <2>2. QED
    BY <1>1, <1>5, <2>1, TakeWay DEF Together
<1>7. CASE reqs' = reqs
  <2>1. <<>> \in Seq(Pauses) /\ Joined(reqs', reqs, <<>>)
    BY <1>7, AskedNothing
  <2>2. Head(msgs) \notin Removals
    BY <1>1 DEF Removals
  <2>3. QED
    BY <1>6, <2>1, <2>2, TakeKeeps
<1>8. ASSUME NEW f \in Fences \cup {NoFence}, m.op # "add" => hwId # NoHwId,
             m.op \in {"add", "modify"} => f \in Fences /\ f.id = id,
             reqs' = Append(reqs, Ask(m, It.i, hwId, f))
      PROVE  Together'
  <2> DEFINE r == Ask(m, It.i, hwId, f)
  <2>1. /\ r \in Asks /\ IdOf(r) = id /\ r.call = m.op /\ r.hwId = hwId
    <3>1. m.op # "add" => hwId \in HwIds
      BY <1>4, <1>8
    <3>2. m.op \in {"add", "modify"} => f \in Fences /\ f.id = m.ids[It.i]
      BY <1>8 DEF id
    <3> HIDE DEF r
    <3>3. r = Ask(m, It.i, hwId, f)
      BY DEF r
    <3>4. r \in Asks /\ IdOf(r) = m.ids[It.i] /\ r.call = m.op /\ r.hwId = hwId
      BY <1>3, <1>4, <3>1, <3>2, <3>3, AskMade
    <3>5. QED
      BY <3>4 DEF id
  <2>2. reqs' = Append(reqs, r)
    BY <1>8
  <2> HIDE DEF r
  <2>3. Joined(reqs', reqs, <<r>>)
    <3>1. reqs \in Seq(Turnings \cup Made) /\ r \in Turnings \cup Made
      BY <2>1, TypesOf DEF Made
    <3>2. Append(reqs, r) = reqs \o <<r>>
      BY <3>1, AppendIsConcat
    <3>3. QED
      BY <2>2, <3>2 DEF Joined
  <2>4. r.call # "add" => r.hwId = mGeofenceIds[IdOf(r)] /\ ~down /\ EngineUp \notin Range(msgs)
    <3>1. ASSUME r.call # "add" PROVE ~down /\ EngineUp \notin Range(msgs)
      <4>1. past' = past \cup Stale
        BY <1>1, <1>8, <2>1, <3>1
      <4>2. "stale" \notin past'
        BY DEF NumbersHold, NoneOf
      <4>3. QED
        BY <4>1, <4>2 DEF Stale
    <3>2. r.hwId = mGeofenceIds[IdOf(r)]
      BY <2>1 DEF hwId
    <3>3. QED
      BY <3>1, <3>2
  <2>5. IdOf(r) = IdOf(Head(msgs).req) /\ r.call = Head(msgs).req.command.op
    BY <1>2, <1>3, <2>1 DEF m
  <2>6. PICK G, K : Goes(G, K)
    BY <1>6
  <2>7. QED
    BY <1>1, <1>2, <1>6, <2>1, <2>3, <2>4, <2>5, <2>6, AskTogether
<1>9. CASE /\ m.op \in {"add", "modify"} /\ (m.op # "add" => hwId # NoHwId)
           /\ reqs' = Append(reqs, Ask(m, It.i, hwId, Fence(id, m.options[It.i], FALSE)))
  <2>1. /\ Fence(id, m.options[It.i], FALSE) \in Fences
        /\ Fence(id, m.options[It.i], FALSE).id = id
    BY <1>3, <1>9, FenceFacts
  <2>2. QED
    BY <1>8, <1>9, <2>1
<1>10. CASE /\ m.op \in {"remove", "pause", "resume"} /\ hwId # NoHwId
            /\ reqs' = Append(reqs, Ask(m, It.i, hwId, NoFence))
  BY <1>8, <1>10
<1>11. QED
  BY <1>1, <1>7, <1>9, <1>10

\* Requests to remove the fences of a client that has left are none of the others.
LEMMA StopsOnly ==
  ASSUME NEW s \in Seq(Stops)
  PROVE  /\ s \in Seq(Turnings \cup Made)
         /\ \A id : Number(s, CmdReqs(id)) = 0 /\ Number(s, AddReqs(id)) = 0 /\ ~Has(s, AsksOf(id))
         /\ ~Has(s, Opens)
<1>1. s \in Seq(Turnings \cup Made)
  BY SeqMonotonic DEF Made
<1>2. \A id : \A x \in Stops : x \notin CmdReqs(id) /\ x \notin AddReqs(id) /\ x \notin AsksOf(id)
  BY RequestClasses
<1>3. \A x \in Stops : x \notin Opens
  BY DEF Stops, Opens
<1>4. ASSUME NEW id
      PROVE  Number(s, CmdReqs(id)) = 0 /\ Number(s, AddReqs(id)) = 0 /\ ~Has(s, AsksOf(id))
  BY <1>2, NoneNumber
<1>5. ~Has(s, Opens)
  BY <1>3, NoneNumber
<1>6. QED
  BY <1>1, <1>4, <1>5

\* The requests to remove the fences of client c, which is what the message that is
\* taken says: each of them once.
Leaves(c, s) ==
  /\ s \in Seq(Stops)
  /\ \A k \in DOMAIN s : /\ s[k].hwId \in HwIds
                         /\ \E id \in Ids : owner[id] = c /\ mGeofenceIds[id] = s[k].hwId
  /\ \A i, j \in DOMAIN s : s[i].hwId = s[j].hwId => i = j
  /\ \A id \in Ids : owner[id] = c /\ mGeofenceIds[id] # NoHwId =>
       \E k \in DOMAIN s : s[k].hwId = mGeofenceIds[id]

\* The sessions of a client are stopped so.
LEMMA LeavesMade ==
  ASSUME Typed, MapsFit, NEW c \in Clients, NEW s,
         NEW order \in Orders({id \in Of(c) : mGeofenceIds[id] # NoHwId}),
         s = [k \in DOMAIN order |-> Request("remove", mGeofenceIds[order[k]], NoFence, "stopped")]
  PROVE  Leaves(c, s)
<1> DEFINE S == {id \in Of(c) : mGeofenceIds[id] # NoHwId}
<1>1. IsFiniteSet(S)
  <2>1. IsFiniteSet(1..MaxFences) /\ Ids = 1..MaxFences
    BY FS_Interval, ConstantFacts
  <2>2. QED
    BY <2>1, FS_Subset DEF Of
<1>2. order \in Orders(S)
  OBVIOUS
<1>3. \A id \in S : id \in Ids /\ owner[id] = c /\ mGeofenceIds[id] \in HwIds
  BY TypesOf DEF Of
<1>4. \A id \in Ids : owner[id] = c /\ mGeofenceIds[id] # NoHwId => id \in S
  BY DEF Of
<1> HIDE DEF S
<1>5. /\ order \in Seq(S) /\ Len(order) \in Nat /\ DOMAIN order = 1..Len(order)
      /\ \A k \in DOMAIN order : order[k] \in S
  BY <1>1, <1>2, OrderFacts
<1>6. /\ \A i, j \in DOMAIN order : order[i] = order[j] => i = j
      /\ \A x \in S : \E k \in DOMAIN order : order[k] = x
  BY <1>1, <1>2, OrderOnto
<1>7. \A k \in DOMAIN order : mGeofenceIds[order[k]] \in HwIds
  BY <1>3, <1>5
<1>8. \A h \in HwIds : Request("remove", h, NoFence, "stopped") \in Stops
                       /\ Request("remove", h, NoFence, "stopped").hwId = h
  BY RequestsMade DEF Request
<1>9. s \in [1..Len(order) -> Stops] /\ DOMAIN s = DOMAIN order
  BY <1>5, <1>7, <1>8
<1>10. s \in Seq(Stops)
  BY <1>5, <1>9, FunctionIsSeq
<1>11. \A k \in DOMAIN s : s[k].hwId = mGeofenceIds[order[k]]
  BY <1>7, <1>8, <1>9
<1>12. \A k \in DOMAIN s : /\ s[k].hwId \in HwIds
                          /\ \E id \in Ids : owner[id] = c /\ mGeofenceIds[id] = s[k].hwId
  BY <1>3, <1>5, <1>9, <1>11
<1>13. ASSUME NEW i \in DOMAIN s, NEW j \in DOMAIN s, s[i].hwId = s[j].hwId PROVE i = j
  <2>1. mGeofenceIds[order[i]] = mGeofenceIds[order[j]]
    BY <1>11, <1>13
  <2>2. order[i] \in Ids /\ order[j] \in Ids /\ mGeofenceIds[order[i]] # NoHwId
    BY <1>3, <1>5, <1>7, <1>9, ConstantFacts
  <2>3. order[i] = order[j]
    BY <2>1, <2>2 DEF MapsFit, HasNumbers
  <2>4. QED
    BY <1>6, <1>9, <2>3
<1>14. \A id \in Ids : owner[id] = c /\ mGeofenceIds[id] # NoHwId =>
         \E k \in DOMAIN s : s[k].hwId = mGeofenceIds[id]
  BY <1>4, <1>6, <1>9, <1>11
<1>15. QED
  BY <1>10, <1>12, <1>13, <1>14 DEF Leaves

\* The numbers of the fences of a client are forgotten and they are to be removed,
\* unless the modem has crashed.
LEMMA LeaveTogether ==
  ASSUME Typed, Typed', Together, Handles, NEW G, NEW K, Goes(G, K), UNCHANGED mGeofences,
         NEW c \in Clients, \A id \in Ids : mGeofenceIds'[id] = IF owner[id] = c THEN NoHwId ELSE mGeofenceIds[id],
         NEW s, Leaves(c, s), Joined(reqs', reqs, s),
         s # <<>> => ~down /\ EngineUp \notin Range(msgs)
  PROVE  Together'
<1>0. /\ s \in Seq(Stops) /\ s \in Seq(Turnings \cup Made) /\ reqs \in Seq(Turnings \cup Made)
      /\ msgs \in Seq(Msgs) /\ msgs # <<>> /\ msgs' = Tail(msgs) /\ msgs' \in Seq(Msgs)
      /\ owner' = owner /\ down' = down
  BY StopsOnly, TypesOf, TailHas DEF Handles, Leaves
<1>a. Synced /\ MapsFit
  BY DEF Together
<1>b. \A k \in DOMAIN s : s[k] \in Stops /\ s[k].hwId \in HwIds
  BY <1>0, ElementOfSeq DEF Leaves
<1>1. ASSUME NEW id \in Ids PROVE OneAtATime(id)'
  <2>1. Number(s, CmdReqs(id)) = 0 /\ Number(s, AddReqs(id)) = 0 /\ OneAtATime(id)
    BY <1>0, StopsOnly DEF Together
  <2>2. /\ Number(s, CmdReqs(id)) <= (IF Head(msgs) \in CmdMsgs(id) THEN 1 ELSE 0)
        /\ Number(s, AddReqs(id)) <=
             (IF Head(msgs) \in AddMsgs(id) /\ mGeofences' = mGeofences THEN 1 ELSE 0)
    BY <2>1
  <2>3. s \in Seq(Turnings \cup Made)
    BY <1>0
  <2>4. QED
    BY <2>1, <2>2, <2>3, TakeOne
<1>2. ASSUME NEW id \in Ids PROVE Leaving(id)'
  <2>1. ~Has(s, AsksOf(id)) /\ Leaving(id)
    BY <1>0, StopsOnly DEF Together
  <2>2. QED
    BY <1>0, <2>1, TakeLeaving
<1>3. ASSUME NEW h \in HwIds PROVE Forgotten(h)'
  <2>1. Forgotten(h)
    BY DEF Together
  <2>2. ASSUME mGeofences[h] # NoFence, mGeofenceIds[mGeofences[h].id] # NoHwId,
               mGeofenceIds'[mGeofences[h].id] = NoHwId
        PROVE  Has(s, StopsOf(h))
    <3> DEFINE id == mGeofences[h].id
    <3>1. id \in Ids
      BY <2>2, TypesOf, ConstantFacts
    <3>2. owner[id] = c
      BY <2>2, <3>1
    <3>3. mGeofenceIds[id] \in HwIds /\ mGeofences[mGeofenceIds[id]].id = id
      BY <1>a, <2>2, <3>1, TypesOf DEF MapsFit, HasNumbers
    <3>4. mGeofenceIds[id] = h
      BY <1>a, <2>2, <3>3 DEF MapsFit, Unique
    <3> HIDE DEF id
    <3>5. PICK k \in DOMAIN s : s[k].hwId = h
      BY <3>1, <3>2, <3>4, ConstantFacts DEF Leaves
    <3>6. s[k] \in StopsOf(h)
      BY <1>b, <3>5 DEF StopsOf
    <3>7. QED
      BY <3>6 DEF Has
  <2>3. QED
    BY <1>0, <1>a, <2>1, <2>2, TakeForgotten
<1>4. ASSUME NEW h \in HwIds PROVE Number(reqs', StopsOf(h)) <= 1
  <2>1. Number(s, StopsOf(h)) \in {0, 1}
    <3>1. \A i, j \in DOMAIN s : s[i] \in StopsOf(h) /\ s[j] \in StopsOf(h) => i = j
      BY DEF Leaves, StopsOf
    <3>2. QED
      BY <1>0, <3>1, OneNumber
  <2>2. /\ Number(reqs, StopsOf(h)) \in Nat
        /\ Number(reqs', StopsOf(h)) = Number(reqs, StopsOf(h)) + Number(s, StopsOf(h))
    BY <1>0, JoinedNumber
  <2>3. Number(reqs, StopsOf(h)) <= 1
    BY DEF Together
  <2>4. CASE Number(s, StopsOf(h)) = 0
    BY <2>2, <2>3, <2>4
  <2>5. CASE Has(s, StopsOf(h))
    <3>1. PICK k \in DOMAIN s : s[k] \in StopsOf(h)
      BY <2>5 DEF Has
    <3>2. PICK id \in Ids : mGeofenceIds[id] = s[k].hwId
      BY DEF Leaves
    <3>3. mGeofenceIds[id] = h
      BY <3>1, <3>2 DEF StopsOf
    <3>4. ~Has(reqs, StopsOf(h))
      BY <1>a, <3>3, NotStopped
    <3>5. Number(reqs, StopsOf(h)) = 0
      BY <1>0, <3>4, NumberFacts
    <3>6. QED
      BY <2>1, <2>2, <3>5
  <2>6. QED
    BY <1>0, <2>4, <2>5, NumberFacts
<1>5. MapsFit'
  BY <1>a, TakeFits
<1>6. Reopening'
  <2>1. UNCHANGED down /\ Reopening
    BY <1>0 DEF Together
  <2>2. Has(s, ByNumber) => ~down
    BY DEF Has
  <2>3. QED
    BY <1>0, <2>1, <2>2, StopsOnly, TakeReopening
<1>7. Synced'
  <2>1. ASSUME NEW k \in DOMAIN s, NEW j \in 0..Len(msgs') PROVE Ready(G[j], K[j], s[k])
    <3> DEFINE h == s[k].hwId
    <3>1. PICK id \in Ids : owner[id] = c /\ mGeofenceIds[id] = h
      BY DEF Leaves
    <3>2. h \in HwIds /\ s[k] \in Stops /\ h # NoHwId /\ ~down /\ EngineUp \notin Range(msgs)
      BY <1>b, ConstantFacts
    <3> HIDE DEF h
    <3>3. G[0] = Plainly(mGeofences) /\ K[0] = mGeofenceIds' /\ Leads(G, K, msgs', owner)
      BY <1>0 DEF Goes
    <3>4. G[0][h].id = id /\ K[0][id] = NoHwId
      <4>1. mGeofences[h].id = id
        BY <1>a, <3>1, <3>2 DEF MapsFit, HasNumbers
      <4>2. Plainly(mGeofences)[h].id = mGeofences[h].id
        BY <3>2, TypesOf, PlainlyFacts
      <4>3. QED
        BY <3>1, <3>3, <4>1, <4>2
    <3>5. ~Has(msgs', Ups)
      <4>1. Has(msgs', Ups) => Has(msgs, Ups)
        BY <1>0, TailHas
      <4>2. ~Has(msgs, Ups)
        BY <3>2 DEF Has, Ups, Range
      <4>3. QED
        BY <4>1, <4>2
    <3>6. ~Has(msgs', StoppedOf(h))
      <4>1. Has(msgs', StoppedOf(h)) => Has(msgs, StoppedOf(h))
        BY <1>0, TailHas
      <4>2. ~Has(msgs, StoppedOf(h))
        BY <1>a, <3>1, <3>2, NotStopped
      <4>3. QED
        BY <4>1, <4>2
    <3>7. G[j][h].id = id /\ K[j][id] = NoHwId
      <4> DEFINE q == msgs'
                 w == owner
      <4>1. q \in Seq(Msgs) /\ Leads(G, K, q, w) /\ ~Has(q, Ups) /\ ~Has(q, StoppedOf(h))
            /\ j \in 0..Len(q)
        BY <1>0, <3>3, <3>5, <3>6
      <4> HIDE DEF q, w
      <4>2. \A x \in 0..Len(q) : G[x][h].id = id /\ K[x][id] = NoHwId
        BY <3>1, <3>2, <3>4, <4>1, KeepsForgotten
      <4>3. QED
        BY <4>1, <4>2
    <3>8. s[k] \notin Asks
      BY <3>2, RequestClasses
    <3>9. G[j][h] # NoFence
      BY <3>7, ConstantFacts
    <3>10. QED
      BY <3>7, <3>8, <3>9 DEF Ready, h
  <2>2. QED
    BY <1>0, <1>a, <2>1, TakeSynced
<1>8. QED
  BY <1>1, <1>2, <1>3, <1>4, <1>5, <1>6, <1>7 DEF Together

\* A client is removed.
LEMMA RemoveClientTogether ==
  ASSUME Typed, Typed', Together, NumbersHold', MsgRemoveClient PROVE Together'
<1> DEFINE m == Head(msgs)
<1>1. /\ msgs # <<>> /\ msgs' = Tail(msgs) /\ m.kind = "removeClient"
      /\ UNCHANGED <<owner, down, modem, mGeofences>>
      /\ IF m.interface # "geofence" THEN UNCHANGED <<mGeofenceIds, reqs, past>>
         ELSE \E order \in Orders({id \in Of(m.client) : mGeofenceIds[id] # NoHwId}) :
                /\ stopClientSessions(m.client, order)
                /\ past' = IF order = <<>> THEN past ELSE past \cup Stale
  BY DEF MsgRemoveClient, Take, clientBase
<1>2. m \in ClientMsgs /\ m.client \in Clients
  <2>1. m \in Msgs
    BY <1>1, TypesOf, HeadFirst
  <2>2. m \in ClientMsgs
    BY <1>1, <2>1, MsgCases
  <2>3. QED
    BY <2>2 DEF ClientMsgs
<1>3. Handles /\ \E G, K : Goes(G, K)
  <2>1. \A g, k : Effect(g, k) => IsDone(g, k)
    BY RemoveClientEffect
  <2>2. QED
    BY <1>1, <2>1, TakeWay DEF Together
<1>4. PICK G, K : Goes(G, K)
  BY <1>3
<1> HIDE DEF m
<1>5. CASE m.interface # "geofence"
  <2>1. reqs' = reqs
    BY <1>1, <1>5
  <2>2. <<>> \in Seq(Pauses) /\ Joined(reqs', reqs, <<>>)
    BY <2>1, AskedNothing
  <2>3. Head(msgs) \notin Removals
    BY <1>5 DEF Removals, m
  <2>4. QED
    BY <1>3, <1>4, <2>2, <2>3, TakeKeeps
<1>6. CASE m.interface = "geofence"
  <2> DEFINE c == m.client
  <2>1. PICK order \in Orders({id \in Of(c) : mGeofenceIds[id] # NoHwId}) :
          /\ stopClientSessions(c, order)
          /\ past' = IF order = <<>> THEN past ELSE past \cup Stale
    BY <1>1, <1>6
  <2> DEFINE s == [k \in DOMAIN order |->
                     Request("remove", mGeofenceIds[order[k]], NoFence, "stopped")]
  <2>2. c \in Clients /\ MapsFit
    BY <1>2 DEF Together
  <2>3. /\ mGeofenceIds' = [id \in Ids |-> IF owner[id] = c THEN NoHwId ELSE mGeofenceIds[id]]
        /\ Joined(reqs', reqs, s)
    BY <2>1 DEF stopClientSessions, Joined
  <2>4. DOMAIN s = DOMAIN order
    OBVIOUS
  <2>5. s = [k \in DOMAIN order |-> Request("remove", mGeofenceIds[order[k]], NoFence, "stopped")]
    OBVIOUS
  <2> HIDE DEF c, s
  <2>6. Leaves(c, s)
    BY <2>2, <2>5, LeavesMade
  <2>7. s # <<>> => ~down /\ EngineUp \notin Range(msgs)
    <3> SUFFICES ASSUME s # <<>> PROVE ~down /\ EngineUp \notin Range(msgs)
      OBVIOUS
    <3>1. order # <<>>
      <4>1. CASE order = <<>>
        <5>1. s \in Seq(Stops)
          BY <2>6 DEF Leaves
        <5>2. DOMAIN s = {} /\ DOMAIN s = 1..Len(s) /\ Len(s) \in Nat
          BY <2>4, <4>1, <5>1, LenProperties
        <5>3. Len(s) = 0
          BY <5>2
        <5>4. QED
          BY <5>1, <5>3, EmptySeq
      <4>2. QED
        BY <4>1
    <3>2. past' = past \cup Stale
      BY <2>1, <3>1
    <3>3. "stale" \notin past'
      BY DEF NumbersHold, NoneOf
    <3>4. QED
      BY <3>2, <3>3 DEF Stale
  <2>8. \A id \in Ids : mGeofenceIds'[id] = IF owner[id] = c THEN NoHwId ELSE mGeofenceIds[id]
    BY <2>3
  <2>9. UNCHANGED mGeofences
    BY <1>1
  <2>10. QED
    BY <1>3, <1>4, <2>2, <2>3, <2>6, <2>7, <2>8, <2>9, LeaveTogether
<1>7. QED
  BY <1>5, <1>6

\* Requests to add a fence again are none of the others.
LEMMA RestoresOnly ==
  ASSUME NEW s \in Seq(Restores)
  PROVE  /\ s \in Seq(Turnings \cup Made)
         /\ \A id : Number(s, CmdReqs(id)) = 0 /\ ~Has(s, AsksOf(id))
         /\ ~Has(s, Opens) /\ ~Has(s, ByNumber)
         /\ \A h : Number(s, StopsOf(h)) = 0
         /\ \A k \in DOMAIN s : s[k] \notin ByNumber
<1>1. s \in Seq(Turnings \cup Made)
  BY SeqMonotonic DEF Made
<1>2. \A id : \A x \in Restores : x \notin CmdReqs(id) /\ x \notin AsksOf(id) /\ x \notin ByNumber
  BY RequestClasses
<1>3. \A x \in Restores : x \notin Opens
  BY DEF Restores, Opens
<1>4. \A h : \A x \in Restores : x \notin StopsOf(h)
  BY DEF Restores, StopsOf, Stops
<1>5. \A k \in DOMAIN s : s[k] \in Restores
  BY ElementOfSeq
<1>6. ASSUME NEW id PROVE Number(s, CmdReqs(id)) = 0 /\ ~Has(s, AsksOf(id))
  BY <1>2, NoneNumber
<1>7. ASSUME NEW h PROVE Number(s, StopsOf(h)) = 0
  BY <1>4, NoneNumber
<1>8. ~Has(s, Opens) /\ ~Has(s, ByNumber)
  BY <1>2, <1>3, NoneNumber
<1>9. QED
  BY <1>1, <1>2, <1>5, <1>6, <1>7, <1>8

\* The requests to add again what the adapter has, each fence once.
Restarts(s) ==
  /\ s \in Seq(Restores)
  /\ \A k \in DOMAIN s : ~Lacks(mGeofences, s[k].fence.id)
  /\ \A i, j \in DOMAIN s : s[i].fence.id = s[j].fence.id => i = j

\* The fences are added again so.
LEMMA RestartsMade ==
  ASSUME Typed, MapsFit, NEW s, NEW order \in Orders(In(mGeofences)),
         s = [k \in DOMAIN order |-> Request("add", NoHwId, mGeofences[order[k]], "restored")]
  PROVE  Restarts(s)
<1> DEFINE S == In(mGeofences)
<1>1. IsFiniteSet(S) /\ order \in Orders(S)
  BY ConstantFacts, FS_Subset DEF In
<1>2. \A h \in S : h \in HwIds /\ mGeofences[h] \in Fences /\ mGeofences[h] # NoFence
  BY TypesOf DEF In
<1> HIDE DEF S
<1>3. /\ order \in Seq(S) /\ Len(order) \in Nat /\ DOMAIN order = 1..Len(order)
      /\ \A k \in DOMAIN order : order[k] \in S
  BY <1>1, OrderFacts
<1>4. \A i, j \in DOMAIN order : order[i] = order[j] => i = j
  BY <1>1, OrderOnto
<1>5. \A f \in Fences : Request("add", NoHwId, f, "restored") \in Restores
                        /\ Request("add", NoHwId, f, "restored").fence = f
  BY RequestsMade DEF Request
<1>6. s \in [1..Len(order) -> Restores] /\ DOMAIN s = DOMAIN order
  BY <1>2, <1>3, <1>5
<1>7. s \in Seq(Restores)
  BY <1>3, <1>6, FunctionIsSeq
<1>8. \A k \in DOMAIN s : s[k].fence = mGeofences[order[k]]
  BY <1>2, <1>3, <1>5, <1>6
<1>9. \A k \in DOMAIN s : ~Lacks(mGeofences, s[k].fence.id)
  BY <1>2, <1>3, <1>6, <1>8 DEF Lacks
<1>10. ASSUME NEW i \in DOMAIN s, NEW j \in DOMAIN s, s[i].fence.id = s[j].fence.id PROVE i = j
  <2>1. mGeofences[order[i]].id = mGeofences[order[j]].id
    BY <1>8, <1>10
  <2>2. order[i] \in HwIds /\ order[j] \in HwIds /\ mGeofences[order[i]] # NoFence
    BY <1>2, <1>3, <1>6
  <2>3. order[i] = order[j]
    BY <2>1, <2>2 DEF MapsFit, Unique
  <2>4. QED
    BY <1>4, <1>6, <2>3
<1>11. QED
  BY <1>7, <1>9, <1>10 DEF Restarts

\* What the adapter had is to be added again.
LEMMA RestartTogether ==
  ASSUME Typed, Typed', Together, Handles, NEW G, NEW K, Goes(G, K), Head(msgs) = EngineUp,
         \A h \in HwIds : mGeofences'[h] = NoFence,
         NEW s, Restarts(s), Joined(reqs', reqs, s)
  PROVE  Together'
<1>0. /\ s \in Seq(Restores) /\ s \in Seq(Turnings \cup Made) /\ reqs \in Seq(Turnings \cup Made)
      /\ msgs \in Seq(Msgs) /\ msgs # <<>> /\ msgs' = Tail(msgs) /\ owner' = owner
  BY RestoresOnly, TypesOf DEF Handles, Restarts
<1>h. \A id : Head(msgs) \notin CmdMsgs(id) /\ Head(msgs) \notin AddMsgs(id) /\ Head(msgs) \notin Removals
  BY OtherClass DEF Removals
<1>1. ASSUME NEW id \in Ids PROVE OneAtATime(id)'
  <2>1. /\ Number(reqs, CmdReqs(id)) \in Nat /\ Number(s, CmdReqs(id)) = 0
        /\ Number(reqs', CmdReqs(id)) = Number(reqs, CmdReqs(id)) + Number(s, CmdReqs(id))
    BY <1>0, JoinedNumber, RestoresOnly
  <2>2. /\ Number(msgs, CmdMsgs(id)) \in Nat
        /\ Number(msgs', CmdMsgs(id)) <= Number(msgs, CmdMsgs(id)) /\ Number(msgs', CmdMsgs(id)) \in Nat
    BY <1>0, TakenNumber
  <2>3. /\ Number(reqs, AddReqs(id)) \in Nat /\ Number(s, AddReqs(id)) \in Nat
        /\ Number(reqs', AddReqs(id)) = Number(reqs, AddReqs(id)) + Number(s, AddReqs(id))
    BY <1>0, JoinedNumber
  <2>4. /\ Number(msgs, AddMsgs(id)) \in Nat
        /\ Number(msgs', AddMsgs(id)) <= Number(msgs, AddMsgs(id)) /\ Number(msgs', AddMsgs(id)) \in Nat
    BY <1>0, TakenNumber
  <2>a. \A k \in DOMAIN s : s[k] \in AddReqs(id) <=> s[k].fence.id = id
    BY <1>0, RequestClasses, ElementOfSeq
  <2>5. Number(s, AddReqs(id)) \in {0, 1}
    <3>1. \A i, j \in DOMAIN s : s[i] \in AddReqs(id) /\ s[j] \in AddReqs(id) => i = j
      BY <2>a DEF Restarts
    <3>2. QED
      BY <1>0, <3>1, OneNumber
  <2>6. Lacks(mGeofences, id) => Number(s, AddReqs(id)) = 0
    <3>1. Lacks(mGeofences, id) => ~Has(s, AddReqs(id))
      BY <2>a DEF Restarts, Has
    <3>2. QED
      BY <1>0, <3>1, NumberFacts
  <2>7. Lacks(mGeofences', id)
    BY ConstantFacts DEF Lacks
  <2>8. OneAtATime(id)
    BY DEF Together
  <2>9. Commands1(id)' <= Commands1(id) /\ Commands1(id)' \in Nat /\ Commands1(id) \in Nat
    BY <2>1, <2>2 DEF Commands1
  <2>10. /\ Additions(id) \in Nat /\ Additions(id)' \in Nat
         /\ Additions(id)' <= Additions(id) + Number(s, AddReqs(id))
    BY <2>3, <2>4 DEF Additions
  <2>11. Additions(id) <= (IF Lacks(mGeofences, id) THEN 1 ELSE 0) /\ Commands1(id) <= 1
    BY <2>8 DEF OneAtATime
  <2>12. Additions(id)' <= 1
    BY <2>5, <2>6, <2>10, <2>11
  <2>13. owner[id] = NoClient => Commands1(id) = 0 /\ Additions(id) = 0 /\ Lacks(mGeofences, id)
    BY <2>8 DEF OneAtATime
  <2>14. owner[id] = NoClient => Commands1(id)' = 0 /\ Additions(id)' = 0
    BY <2>6, <2>9, <2>10, <2>13
  <2>15. Commands1(id)' <= 1
    BY <2>9, <2>11
  <2>16. Additions(id)' <= (IF Lacks(mGeofences', id) THEN 1 ELSE 0)
    BY <2>7, <2>12
  <2>17. owner'[id] = NoClient => Commands1(id)' = 0 /\ Additions(id)' = 0 /\ Lacks(mGeofences', id)
    BY <1>0, <2>7, <2>14
  <2>18. QED
    BY <2>15, <2>16, <2>17 DEF OneAtATime
<1>2. ASSUME NEW id \in Ids PROVE Leaving(id)'
  <2>1. ~Has(s, AsksOf(id)) /\ Leaving(id)
    BY <1>0, RestoresOnly DEF Together
  <2>2. QED
    BY <1>0, <2>1, TakeLeaving
<1>3. ASSUME NEW h \in HwIds PROVE Forgotten(h)'
  BY DEF Forgotten
<1>4. ASSUME NEW h \in HwIds PROVE Number(reqs', StopsOf(h)) <= 1
  <2>1. Number(s, StopsOf(h)) = 0 /\ Number(reqs, StopsOf(h)) <= 1
    BY <1>0, RestoresOnly DEF Together
  <2>2. /\ Number(reqs, StopsOf(h)) \in Nat
        /\ Number(reqs', StopsOf(h)) = Number(reqs, StopsOf(h)) + Number(s, StopsOf(h))
    BY <1>0, JoinedNumber
  <2>3. QED
    BY <2>1, <2>2
<1>5. MapsFit'
  BY TakeFits DEF Together
<1>6. Reopening'
  <2>1. UNCHANGED down /\ Reopening
    BY DEF Handles, Together
  <2>2. ~Has(s, Opens) /\ ~Has(s, ByNumber)
    BY <1>0, RestoresOnly
  <2>3. QED
    BY <1>0, <2>1, <2>2, TakeReopening
<1>7. Synced'
  <2>1. Synced
    BY DEF Together
  <2>2. \A k \in DOMAIN s : s[k] \notin ByNumber
    BY <1>0, RestoresOnly
  <2>3. QED
    BY <1>0, <2>1, <2>2, TakeSynced
<1>8. QED
  BY <1>1, <1>2, <1>3, <1>4, <1>5, <1>6, <1>7 DEF Together

\* The modem is back.
LEMMA SSREventTogether ==
  ASSUME Typed, Typed', Told, Together, NumbersHold', MsgSSREvent PROVE Together'
<1>1. /\ msgs # <<>> /\ msgs' = Tail(msgs) /\ Head(msgs).kind = "engineUp"
      /\ UNCHANGED <<owner, down, modem, past>>
  BY DEF MsgSSREvent, Take, clientBase, history
<1>2. Head(msgs) = EngineUp
  <2>1. Head(msgs) \in Msgs
    BY <1>1, TypesOf, HeadFirst
  <2>2. QED
    BY <1>1, <2>1, MsgCases
<1>3. mSystemPowerState # "suspend"
  <2>1. Has(msgs, Ups)
    BY <1>1, <1>2, TypesOf, TailHas DEF Ups
  <2>2. "crashed" \in past
    BY <2>1 DEF Told
  <2>3. "suspended" \notin past
    BY <1>1, <2>2 DEF NumbersHold
  <2>4. QED
    BY <2>3 DEF Told
<1>4. PICK order \in Orders(In(mGeofences)) : restartGeofences(order)
  BY <1>3 DEF MsgSSREvent
<1>5. MapsFit /\ Synced
  BY DEF Together
<1>6. Handles /\ \E G, K : Goes(G, K)
  <2>1. \A g, k : Effect(g, k) => IsDone(g, k)
    BY <1>3, <1>5, SSREventEffect
  <2>2. QED
    BY <1>1, <1>5, <2>1, TakeWay
<1>7. PICK G, K : Goes(G, K)
  BY <1>6
<1> DEFINE s == [k \in DOMAIN order |-> Request("add", NoHwId, mGeofences[order[k]], "restored")]
<1>8. /\ \A h \in HwIds : mGeofences'[h] = NoFence
      /\ Joined(reqs', reqs, s)
  BY <1>4 DEF restartGeofences, Joined
<1>9. s = [k \in DOMAIN order |-> Request("add", NoHwId, mGeofences[order[k]], "restored")]
  OBVIOUS
<1> HIDE DEF s
<1>10. Restarts(s)
  BY <1>5, <1>9, RestartsMade
<1>11. QED
  BY <1>2, <1>6, <1>7, <1>8, <1>10, RestartTogether

\* Pauses are asked for and nothing else is done.
LEMMA AskPauses ==
  ASSUME Typed, Typed', Together, UNCHANGED <<msgs, mGeofences, mGeofenceIds, owner, down, modem>>,
         NEW s \in Seq(Pauses), Joined(reqs', reqs, s)
  PROVE  Together'
<1>0. s \in Seq(Turnings \cup Made) /\ reqs \in Seq(Turnings \cup Made)
  BY PausesOnly, TypesOf
<1>1. ASSUME NEW id \in Ids PROVE OneAtATime(id)'
  <2>1. Number(s, CmdReqs(id)) = 0 /\ Number(s, AddReqs(id)) = 0 /\ OneAtATime(id)
    BY PausesOnly DEF Together
  <2>2. /\ Number(reqs, CmdReqs(id)) \in Nat
        /\ Number(reqs', CmdReqs(id)) = Number(reqs, CmdReqs(id)) + Number(s, CmdReqs(id))
    BY <1>0, JoinedNumber
  <2>3. /\ Number(reqs, AddReqs(id)) \in Nat
        /\ Number(reqs', AddReqs(id)) = Number(reqs, AddReqs(id)) + Number(s, AddReqs(id))
    BY <1>0, JoinedNumber
  <2>4. Number(reqs', CmdReqs(id)) = Number(reqs, CmdReqs(id))
        /\ Number(reqs', AddReqs(id)) = Number(reqs, AddReqs(id))
    BY <2>1, <2>2, <2>3
  <2>5. Commands1(id)' = Commands1(id) /\ Additions(id)' = Additions(id)
    BY <2>4 DEF Commands1, Additions
  <2>6. QED
    BY <2>1, <2>5 DEF OneAtATime
<1>2. ASSUME NEW id \in Ids PROVE Leaving(id)'
  <2>1. ~Has(s, AsksOf(id)) /\ Leaving(id)
    BY PausesOnly DEF Together
  <2>2. Has(reqs', AsksOf(id)) => Has(reqs, AsksOf(id))
    BY <1>0, <2>1, JoinHas
  <2>3. QED
    BY <2>1, <2>2 DEF Leaving
<1>3. ASSUME NEW h \in HwIds PROVE Forgotten(h)'
  <2>1. Forgotten(h)
    BY DEF Together
  <2>2. Has(reqs, StopsOf(h)) => Has(reqs', StopsOf(h))
    BY <1>0, JoinHas
  <2>3. QED
    BY <2>1, <2>2 DEF Forgotten
<1>4. ASSUME NEW h \in HwIds PROVE Number(reqs', StopsOf(h)) <= 1
  <2>1. Number(s, StopsOf(h)) = 0 /\ Number(reqs, StopsOf(h)) <= 1
    BY PausesOnly DEF Together
  <2>2. /\ Number(reqs, StopsOf(h)) \in Nat
        /\ Number(reqs', StopsOf(h)) = Number(reqs, StopsOf(h)) + Number(s, StopsOf(h))
    BY <1>0, JoinedNumber
  <2>3. QED
    BY <2>1, <2>2
<1>5. MapsFit'
  BY DEF Together, MapsFit
<1>6. Reopening'
  <2>1. UNCHANGED down /\ Reopening
    BY DEF Together
  <2>2. ~Has(s, Opens) /\ ~Has(s, ByNumber)
    BY PausesOnly
  <2>3. QED
    BY <1>0, <2>1, <2>2, TakeReopening
<1>7. Synced'
  <2>1. PICK F, N : /\ Leads(F, N, msgs, owner) /\ Awaits(F, N, msgs, reqs)
                    /\ F[0] = Plainly(mGeofences) /\ N[0] = mGeofenceIds
                    /\ ~down => F[Len(msgs)] = Plainly(modem)
    BY DEF Together, Synced
  <2>2. \A k \in DOMAIN s : s[k] \notin ByNumber
    BY PausesOnly
  <2>3. Awaits(F, N, msgs, reqs')
    BY <1>0, <2>1, <2>2, AwaitsMore
  <2>4. down => modem = [h \in HwIds |-> NoFence]
    BY DEF Together, Synced
  <2>5. QED
    BY <2>1, <2>3, <2>4 DEF Synced
<1>8. QED
  BY <1>1, <1>2, <1>3, <1>4, <1>5, <1>6, <1>7 DEF Together

\* The system suspends or resumes.
LEMMA PowerTogether ==
  ASSUME Typed, Typed', Together, NEW state \in {"suspend", "resume"}, updateSystemPowerState(state)
  PROVE  Together'
<1> DEFINE S == {id \in Ids : mGeofenceIds[id] # NoHwId}
           call == IF state = "suspend" THEN "pause" ELSE "resume"
<1>1. PICK order \in Orders(S) : pauseOrResumeGeofences(call, order)
  BY DEF updateSystemPowerState
<1>2. UNCHANGED <<msgs, mGeofences, mGeofenceIds, owner, down, modem>>
  BY DEF updateSystemPowerState, clientBase
<1>3. IsFiniteSet(S)
  <2>1. IsFiniteSet(1..MaxFences) /\ Ids = 1..MaxFences
    BY FS_Interval, ConstantFacts
  <2>2. QED
    BY <2>1, FS_Subset
<1>4. \A id \in S : mGeofenceIds[id] \in HwIds
  BY TypesOf
<1>5. call \in {"pause", "resume"}
  OBVIOUS
<1> DEFINE s == [k \in DOMAIN order |-> Request(call, mGeofenceIds[order[k]], NoFence, "paused")]
<1>6. Joined(reqs', reqs, s)
  BY <1>1 DEF pauseOrResumeGeofences, Joined
<1>7. s = [k \in DOMAIN order |-> Request(call, mGeofenceIds[order[k]], NoFence, "paused")]
  OBVIOUS
<1> HIDE DEF S, call, s
<1>8. /\ Len(order) \in Nat /\ DOMAIN order = 1..Len(order)
      /\ \A k \in DOMAIN order : order[k] \in S
  BY <1>3, OrderFacts
<1>9. \A h \in HwIds : Request(call, h, NoFence, "paused") \in Pauses
  BY <1>5, RequestsMade
<1>10. s \in [1..Len(order) -> Pauses]
  BY <1>4, <1>7, <1>8, <1>9
<1>11. s \in Seq(Pauses)
  BY <1>8, <1>10, FunctionIsSeq
<1>12. QED
  BY <1>2, <1>6, <1>11, AskPauses

\* The modem crashes.
LEMMA EngineDownTogether ==
  ASSUME Typed, Typed', Together, handleEngineDownEvent PROVE Together'
<1> DEFINE r == Request("open", NoHwId, NoFence, "nothing")
<1>1. /\ ~down /\ down' = TRUE /\ modem' = [h \in HwIds |-> NoFence]
      /\ UNCHANGED <<msgs, mGeofences, mGeofenceIds, owner>> /\ Extended(reqs', reqs, r)
  BY DEF handleEngineDownEvent, adapter, clientBase, Extended
<1>2. r \in Opens
  BY RequestsMade
<1> HIDE DEF r
<1>3. r \in Turnings \cup Made /\ reqs \in Seq(Turnings \cup Made)
  BY <1>2, TypesOf DEF Made
<1>4. \A id : r \notin CmdReqs(id) /\ r \notin AddReqs(id) /\ r \notin AsksOf(id) /\ r \notin ByNumber
              /\ r \notin Stops
  BY <1>2, RequestClasses
<1>4a. /\ \A A : /\ Number(reqs, A) \in Nat
                 /\ Number(reqs', A) = Number(reqs, A) + (IF r \in A THEN 1 ELSE 0)
       /\ \A A : Has(reqs', A) <=> Has(reqs, A) \/ r \in A
       /\ \A A, B : HasThen(reqs', A, B) <=> HasThen(reqs, A, B) \/ (Has(reqs, A) /\ r \in B)
  <2> DEFINE q == reqs
             t == reqs'
             S == Turnings \cup Made
  <2>1. q \in Seq(S) /\ r \in S /\ Extended(t, q, r)
    BY <1>1, <1>3
  <2> HIDE DEF q, t, S
  <2>2. \A A : Number(q, A) \in Nat /\ Number(t, A) = Number(q, A) + (IF r \in A THEN 1 ELSE 0)
    BY <2>1, ExtendedNumber
  <2>3. \A A : Has(t, A) <=> Has(q, A) \/ r \in A
    BY <2>1, AppendHas
  <2>4. \A A, B : HasThen(t, A, B) <=> HasThen(q, A, B) \/ (Has(q, A) /\ r \in B)
    BY <2>1, AppendHas
  <2>5. QED
    BY <2>2, <2>3, <2>4 DEF q, t
<1>5. ASSUME NEW id \in Ids PROVE OneAtATime(id)'
  <2>1. OneAtATime(id)
    BY DEF Together
  <2>2. /\ Number(reqs, CmdReqs(id)) \in Nat /\ Number(reqs', CmdReqs(id)) = Number(reqs, CmdReqs(id)) + 0
    BY <1>4, <1>4a
  <2>3. /\ Number(reqs, AddReqs(id)) \in Nat /\ Number(reqs', AddReqs(id)) = Number(reqs, AddReqs(id)) + 0
    BY <1>4, <1>4a
  <2>4. Number(reqs', CmdReqs(id)) = Number(reqs, CmdReqs(id))
        /\ Number(reqs', AddReqs(id)) = Number(reqs, AddReqs(id))
    BY <2>2, <2>3
  <2>5. Commands1(id)' = Commands1(id) /\ Additions(id)' = Additions(id)
    BY <1>1, <2>4 DEF Commands1, Additions
  <2>6. QED
    BY <1>1, <2>1, <2>5 DEF OneAtATime
<1>6. ASSUME NEW id \in Ids PROVE Leaving(id)'
  <2>1. Leaving(id)
    BY DEF Together
  <2>2. Has(reqs', AsksOf(id)) => Has(reqs, AsksOf(id))
    BY <1>4, <1>4a
  <2>3. QED
    BY <1>1, <2>1, <2>2 DEF Leaving
<1>7. ASSUME NEW h \in HwIds PROVE Forgotten(h)'
  BY <1>1 DEF Forgotten
<1>8. ASSUME NEW h \in HwIds PROVE Number(reqs', StopsOf(h)) <= 1
  <2>1. Number(reqs, StopsOf(h)) <= 1 /\ r \notin StopsOf(h)
    BY <1>4 DEF Together, StopsOf
  <2>2. /\ Number(reqs, StopsOf(h)) \in Nat /\ Number(reqs', StopsOf(h)) = Number(reqs, StopsOf(h)) + 0
    BY <2>1, <1>4a
  <2>3. QED
    BY <2>1, <2>2
<1>9. MapsFit'
  BY <1>1 DEF Together, MapsFit
<1>10. Reopening'
  <2>1. ~Has(reqs, Opens) /\ ~HasThen(reqs, Opens, ByNumber)
    BY <1>1 DEF Together, Reopening
  <2>2. Number(reqs, Opens) = 0
    BY <1>3, <2>1, NumberFacts
  <2>3. Number(reqs', Opens) = Number(reqs, Opens) + 1
    BY <1>2, <1>4a
  <2>4. Has(reqs', Opens)
    BY <1>2, <1>4a
  <2>5. ~HasThen(reqs', Opens, ByNumber)
    BY <1>2, <2>1, <1>4a, RequestClasses
  <2>6. QED
    BY <1>1, <2>2, <2>3, <2>4, <2>5 DEF Reopening
<1>11. Synced'
  <2>1. PICK F, N : /\ Leads(F, N, msgs, owner) /\ Awaits(F, N, msgs, reqs)
                    /\ F[0] = Plainly(mGeofences) /\ N[0] = mGeofenceIds
    BY DEF Together, Synced
  <2> DEFINE s == <<r>>
  <2>2. s \in Seq(Turnings \cup Made) /\ \A k \in DOMAIN s : s[k] \notin ByNumber
    BY <1>3, <1>4
  <2>3. Joined(reqs', reqs, s)
    BY <1>1, <1>3, AppendIsConcat DEF Joined, Extended
  <2> HIDE DEF s
  <2>4. Awaits(F, N, msgs, reqs')
    BY <1>3, <2>1, <2>2, <2>3, AwaitsMore
  <2>5. QED
    BY <1>1, <2>1, <2>4 DEF Synced
<1>12. QED
  BY <1>5, <1>6, <1>7, <1>8, <1>9, <1>10, <1>11 DEF Together

-----------------------------------------------------------------------------
(* The requests are carried out.                                           *)

\* LocApi takes the first request, and message x comes of it or none.
Serves(x) ==
  /\ reqs # <<>> /\ reqs' = Tail(reqs) /\ x \in Msgs \ ClientMsgs
  /\ msgs' = msgs \/ Extended(msgs', msgs, x)
  /\ UNCHANGED <<mGeofences, mGeofenceIds, owner>>

\* What was counted among the requests is counted among the messages, if it still
\* counts.
LEMMA ServedNumber ==
  ASSUME Typed, NEW x, Serves(x), NEW A, NEW B, x \in B => Head(reqs) \in A
  PROVE  /\ Number(reqs, A) \in Nat /\ Number(msgs, B) \in Nat
         /\ Number(reqs', A) \in Nat /\ Number(msgs', B) \in Nat
         /\ Number(reqs', A) + Number(msgs', B) <= Number(reqs, A) + Number(msgs, B)
<1>1. /\ reqs \in Seq(Turnings \cup Made) /\ reqs # <<>> /\ reqs' = Tail(reqs)
      /\ msgs \in Seq(Msgs) /\ x \in Msgs /\ (msgs' = msgs \/ Extended(msgs', msgs, x))
  BY TypesOf DEF Serves
<1>2. /\ Number(reqs, A) \in Nat /\ Number(reqs', A) \in Nat /\ Number(reqs', A) <= Number(reqs, A)
  BY <1>1, TakenNumber
<1>3. Number(msgs, B) \in Nat
  BY <1>1, NumberFacts
<1>4. CASE msgs' = msgs
  BY <1>2, <1>3, <1>4
<1>5. CASE Extended(msgs', msgs, x)
  <2>1. Number(msgs', B) \in Nat
    BY <1>1, <1>5, ExtendedNumber
  <2>2. Number(Tail(reqs), A) + Number(msgs', B) <= Number(reqs, A) + Number(msgs, B)
    BY <1>1, <1>5, PassedNumber
  <2>3. QED
    BY <1>1, <1>2, <1>3, <2>1, <2>2
<1>6. QED
  BY <1>1, <1>4, <1>5

\* The commands for a fence.
LEMMA ServeOne ==
  ASSUME Typed, NEW x, Serves(x), NEW id \in Ids, OneAtATime(id),
         x \in CmdMsgs(id) => Head(reqs) \in CmdReqs(id),
         x \in AddMsgs(id) => Head(reqs) \in AddReqs(id)
  PROVE  OneAtATime(id)'
<1>1. Commands1(id)' <= Commands1(id) /\ Commands1(id)' \in Nat /\ Commands1(id) \in Nat
  BY ServedNumber DEF Commands1
<1>2. Additions(id)' <= Additions(id) /\ Additions(id)' \in Nat /\ Additions(id) \in Nat
  BY ServedNumber DEF Additions
<1>3. UNCHANGED <<mGeofences, owner>>
  BY DEF Serves
<1>4. /\ Commands1(id) <= 1
      /\ Additions(id) <= (IF Lacks(mGeofences, id) THEN 1 ELSE 0)
      /\ owner[id] = NoClient => Commands1(id) = 0 /\ Additions(id) = 0 /\ Lacks(mGeofences, id)
  BY DEF OneAtATime
<1>5. Commands1(id)' <= 1
  BY <1>1, <1>4
<1>6. Additions(id)' <= (IF Lacks(mGeofences, id) THEN 1 ELSE 0)
  BY <1>2, <1>4
<1>7. owner[id] = NoClient => Commands1(id)' = 0 /\ Additions(id)' = 0 /\ Lacks(mGeofences, id)
  BY <1>1, <1>2, <1>4
<1>8. QED
  BY <1>3, <1>5, <1>6, <1>7 DEF OneAtATime

\* The command of a client that leaves.
LEMMA ServeLeaving ==
  ASSUME Typed, NEW x, Serves(x), NEW id \in Ids, Leaving(id),
         x \in DoneOf(id) => Head(reqs) \in AsksOf(id)
  PROVE  Leaving(id)'
<1>1. /\ reqs \in Seq(Turnings \cup Made) /\ reqs # <<>> /\ reqs' = Tail(reqs) /\ owner' = owner
      /\ msgs \in Seq(Msgs) /\ x \in Msgs /\ (msgs' = msgs \/ Extended(msgs', msgs, x))
  BY TypesOf DEF Serves
<1>2. x \notin RemovalsOf(owner[id])
  BY DEF Serves, RemovalsOf, Removals
<1>3. Has(reqs, AsksOf(id)) <=> Head(reqs) \in AsksOf(id) \/ Has(reqs', AsksOf(id))
  BY <1>1, TailHas
<1>4. CASE msgs' = msgs
  BY <1>1, <1>3, <1>4 DEF Leaving
<1>5. CASE Extended(msgs', msgs, x)
  <2>1. /\ Has(msgs', RemovalsOf(owner[id])) <=> Has(msgs, RemovalsOf(owner[id]))
        /\ Has(msgs', DoneOf(id)) <=> Has(msgs, DoneOf(id)) \/ x \in DoneOf(id)
        /\ HasThen(msgs', CmdMsgs(id), RemovalsOf(owner[id])) <=>
             HasThen(msgs, CmdMsgs(id), RemovalsOf(owner[id]))
    BY <1>1, <1>2, <1>5, AppendHas
  <2>2. QED
    BY <1>1, <1>3, <2>1 DEF Leaving
<1>6. QED
  BY <1>1, <1>4, <1>5

\* The request to remove a fence without a number.
LEMMA ServeForgotten ==
  ASSUME Typed, NEW x, Serves(x), UNCHANGED down, NEW h \in HwIds, Forgotten(h),
         Head(reqs) \in StopsOf(h) => down \/ (Extended(msgs', msgs, x) /\ x \in StoppedOf(h))
  PROVE  Forgotten(h)'
<1>1. /\ reqs \in Seq(Turnings \cup Made) /\ reqs # <<>> /\ reqs' = Tail(reqs)
      /\ msgs \in Seq(Msgs) /\ x \in Msgs /\ (msgs' = msgs \/ Extended(msgs', msgs, x))
      /\ UNCHANGED <<mGeofences, mGeofenceIds>>
  BY TypesOf DEF Serves
<1>2. Has(reqs, StopsOf(h)) <=> Head(reqs) \in StopsOf(h) \/ Has(reqs', StopsOf(h))
  BY <1>1, TailHas
<1>3. /\ Has(msgs, Ups) => Has(msgs', Ups)
      /\ Has(msgs, StoppedOf(h)) => Has(msgs', StoppedOf(h))
      /\ Extended(msgs', msgs, x) /\ x \in StoppedOf(h) => Has(msgs', StoppedOf(h))
  <2>1. CASE msgs' = msgs /\ ~Extended(msgs', msgs, x)
    BY <2>1
  <2>2. CASE Extended(msgs', msgs, x)
    BY <1>1, <2>2, AppendHas
  <2>3. QED
    BY <1>1, <2>1, <2>2
<1>4. QED
  BY <1>1, <1>2, <1>3 DEF Forgotten

\* The requests that remain.
LEMMA ServeReopening ==
  ASSUME Typed, NEW x, Serves(x), UNCHANGED down, Head(reqs) \notin Opens, Reopening
  PROVE  Reopening'
<1>1. reqs \in Seq(Turnings \cup Made) /\ reqs # <<>> /\ reqs' = Tail(reqs)
  BY TypesOf DEF Serves
<1>2. /\ Has(reqs', Opens) <=> Has(reqs, Opens)
      /\ HasThen(reqs', Opens, ByNumber) => HasThen(reqs, Opens, ByNumber)
  BY <1>1, TailHas
<1>3. Number(reqs', Opens) <= Number(reqs, Opens) /\ Number(reqs', Opens) \in Nat
      /\ Number(reqs, Opens) \in Nat
  BY <1>1, TakenNumber
<1>4. Reopening' <=> /\ down <=> Has(reqs', Opens)
                     /\ Number(reqs', Opens) <= 1
                     /\ ~HasThen(reqs', Opens, ByNumber)
  BY DEF Reopening
<1>5. QED
  BY <1>2, <1>3, <1>4 DEF Reopening

\* The removals of fences without numbers.
LEMMA ServeStops ==
  ASSUME Typed, NEW x, Serves(x), NEW h \in HwIds, Number(reqs, StopsOf(h)) <= 1
  PROVE  Number(reqs', StopsOf(h)) <= 1
<1>1. reqs \in Seq(Turnings \cup Made) /\ reqs # <<>> /\ reqs' = Tail(reqs)
  BY TypesOf DEF Serves
<1>2. Number(reqs', StopsOf(h)) <= Number(reqs, StopsOf(h)) /\ Number(reqs', StopsOf(h)) \in Nat
      /\ Number(reqs, StopsOf(h)) \in Nat
  BY <1>1, TakenNumber
<1>3. QED
  BY <1>2

\* The way is longer by what the modem has then.
LEMMA ServeSynced ==
  ASSUME Typed, NEW x, Serves(x), Extended(msgs', msgs, x),
         NEW F, NEW N, Leads(F, N, msgs, owner), Awaits(F, N, msgs, reqs),
         F[0] = Plainly(mGeofences), N[0] = mGeofenceIds,
         NEW g \in [HwIds -> Fences \cup {NoFence}], NEW k \in [Ids -> HwIds \cup {NoHwId}],
         Handled(owner, F[Len(msgs)], N[Len(msgs)], x, g, k),
         x \in Changes => x.req = Head(reqs) /\ Head(reqs) \in ByNumber,
         \A i \in DOMAIN Tail(reqs) : Tail(reqs)[i] \in ByNumber => Ready(g, k, Tail(reqs)[i]),
         ~down' => g = Plainly(modem'), down' => modem' = [h \in HwIds |-> NoFence]
  PROVE  Synced'
<1>1. /\ reqs \in Seq(Turnings \cup Made) /\ reqs # <<>> /\ reqs' = Tail(reqs)
      /\ msgs \in Seq(Msgs) /\ Len(msgs) \in Nat /\ x \in Msgs
      /\ UNCHANGED <<mGeofences, mGeofenceIds, owner>>
  BY TypesOf, LenProperties DEF Serves
<1>2. /\ Awaits(F, N, msgs, reqs')
      /\ Head(reqs) \in ByNumber => \A j \in 0..Len(msgs) : Ready(F[j], N[j], Head(reqs))
  BY <1>1, AwaitsRest
<1>3. x \in Changes => \A j \in 0..Len(msgs) : Ready(F[j], N[j], x.req)
  BY <1>2
<1> DEFINE q == msgs
           t == msgs'
           w == owner
<1>4. /\ q \in Seq(Msgs) /\ x \in Msgs /\ Extended(t, q, x) /\ Leads(F, N, q, w)
      /\ Handled(w, F[Len(q)], N[Len(q)], x, g, k)
      /\ x \in Changes => \A j \in 0..Len(q) : Ready(F[j], N[j], x.req)
  BY <1>1, <1>3
<1> HIDE DEF q, t, w
<1>5. \E G, K :
        /\ Leads(G, K, t, w)
        /\ G[0] = F[0] /\ K[0] = N[0] /\ Len(t) = Len(q) + 1
        /\ G[Len(t)] = g /\ K[Len(t)] = k
        /\ \A j \in 0..Len(q) : G[j] = F[j] /\ K[j] = N[j]
  BY <1>4, WayLonger, SMTT(20)
<1>5a. PICK G, K :
        /\ Leads(G, K, t, w)
        /\ G[0] = F[0] /\ K[0] = N[0] /\ Len(t) = Len(msgs) + 1
        /\ G[Len(t)] = g /\ K[Len(t)] = k
        /\ \A j \in 0..Len(msgs) : G[j] = F[j] /\ K[j] = N[j]
  BY <1>5 DEF q
<1>6. Awaits(G, K, t, reqs')
  <2> SUFFICES ASSUME NEW i \in DOMAIN reqs', reqs'[i] \in ByNumber, NEW j \in 0..Len(t)
               PROVE  Ready(G[j], K[j], reqs'[i])
    BY DEF Awaits
  <2>1. CASE j \in 0..Len(msgs)
    <3>1. Ready(F[j], N[j], reqs'[i])
      BY <1>2, <2>1 DEF Awaits
    <3>2. QED
      BY <1>5a, <2>1, <3>1
  <2>2. CASE j = Len(t)
    <3>1. Ready(g, k, reqs'[i])
      BY <1>1
    <3>2. QED
      BY <1>5a, <2>2, <3>1
  <2>3. j \in 0..Len(msgs) \/ j = Len(t)
    BY <1>1, <1>5a
  <2>4. QED
    BY <2>1, <2>2, <2>3
<1>7. /\ Leads(G, K, msgs', owner') /\ Awaits(G, K, msgs', reqs')
      /\ G[0] = Plainly(mGeofences') /\ K[0] = mGeofenceIds'
      /\ ~down' => G[Len(msgs')] = Plainly(modem')
  BY <1>1, <1>5a, <1>6 DEF t, w
<1>8. QED
  BY <1>7 DEF Synced

\* LocApi opens the modem that is back.
LEMMA OpenTogether ==
  ASSUME Typed, Typed', Together, Open PROVE Together'
<1>1. /\ reqs # <<>> /\ Head(reqs).call = "open" /\ reqs' = Tail(reqs) /\ down' = FALSE
      /\ Extended(msgs', msgs, EngineUp) /\ UNCHANGED <<mGeofences, mGeofenceIds, owner, modem>>
  BY DEF Open, adapter, clientBase, Extended
<1>2. /\ reqs \in Seq(Turnings \cup Made) /\ msgs \in Seq(Msgs) /\ EngineUp \in Msgs \ ClientMsgs
  BY TypesOf, OtherClass DEF Msgs
<1>3. Serves(EngineUp)
  BY <1>1, <1>2 DEF Serves
<1>4. Head(reqs) \in Opens
  <2>1. Head(reqs) \in Turnings \cup Made
    BY <1>1, Served
  <2>2. Head(reqs) \notin Turnings
    BY <1>1, <2>1, RequestCases
  <2>3. QED
    BY <1>1, <2>1, <2>2, MadeCases
<1>5. \A id : EngineUp \notin CmdMsgs(id) /\ EngineUp \notin AddMsgs(id) /\ EngineUp \notin DoneOf(id)
  BY OtherClass
<1>6. /\ Has(reqs, Opens) /\ down /\ ~Has(reqs', ByNumber) /\ ~HasThen(reqs', Opens, ByNumber)
  <2>1. Has(reqs, Opens) /\ ~HasThen(reqs, Opens, ByNumber)
    BY <1>1, <1>2, <1>4, TailHas DEF Together, Reopening
  <2>2. down
    BY <2>1 DEF Together, Reopening
  <2>3. QED
    BY <1>1, <1>2, <1>4, <2>1, <2>2, TailHas
<1>7. ASSUME NEW id \in Ids PROVE OneAtATime(id)'
  <2>1. OneAtATime(id)
    BY DEF Together
  <2>2. QED
    BY <1>3, <1>5, <2>1, ServeOne
<1>8. ASSUME NEW id \in Ids PROVE Leaving(id)'
  <2>1. Leaving(id)
    BY DEF Together
  <2>2. QED
    BY <1>3, <1>5, <2>1, ServeLeaving
<1>9. ASSUME NEW h \in HwIds PROVE Forgotten(h)'
  <2>1. Has(msgs', Ups)
    BY <1>1, <1>2, AppendHas DEF Ups
  <2>2. QED
    BY <2>1 DEF Forgotten
<1>10. ASSUME NEW h \in HwIds PROVE Number(reqs', StopsOf(h)) <= 1
  BY <1>3, ServeStops DEF Together
<1>11. MapsFit'
  BY <1>1 DEF Together, MapsFit
<1>12. Reopening'
  <2>1. Number(reqs, Opens) <= 1
    BY DEF Together, Reopening
  <2>2. /\ Number(Tail(reqs), Opens) \in Nat
        /\ Number(reqs, Opens) = 1 + Number(Tail(reqs), Opens)
    BY <1>1, <1>2, <1>4, TakenNumber
  <2>3. Number(reqs', Opens) = 0
    BY <1>1, <2>1, <2>2
  <2>4. reqs' \in Seq(Turnings \cup Made)
    BY <1>1, <1>2, TailHas
  <2>5. ~Has(reqs', Opens)
    BY <2>3, <2>4, NumberFacts
  <2>6. QED
    BY <1>1, <1>6, <2>3, <2>5 DEF Reopening
<1>13. Synced'
  <2>1. PICK F, N : /\ Leads(F, N, msgs, owner) /\ Awaits(F, N, msgs, reqs)
                    /\ F[0] = Plainly(mGeofences) /\ N[0] = mGeofenceIds
    BY DEF Together, Synced
  <2>2. modem = [h \in HwIds |-> NoFence]
    BY <1>6 DEF Together, Synced
  <2> DEFINE g == [h \in HwIds |-> NoFence]
             k == [id \in Ids |-> NoHwId]
  <2>3. g \in [HwIds -> Fences \cup {NoFence}] /\ k \in [Ids -> HwIds \cup {NoHwId}]
    OBVIOUS
  <2>4. g = Plainly(modem')
    BY <1>1, <2>2 DEF Plainly, Plain
  <2>5. Handled(owner, F[Len(msgs)], N[Len(msgs)], EngineUp, g, k)
    BY DEF Handled
  <2>6. EngineUp \notin Changes
    BY OtherClass
  <2>7. \A i \in DOMAIN Tail(reqs) : Tail(reqs)[i] \notin ByNumber
    BY <1>1, <1>6 DEF Has
  <2> HIDE DEF g, k
  <2>8. QED
    BY <1>1, <1>3, <2>1, <2>3, <2>4, <2>5, <2>6, <2>7, ServeSynced
<1>14. QED
  BY <1>7, <1>8, <1>9, <1>10, <1>11, <1>12, <1>13 DEF Together

\* LocApi comes to a turn.
LEMMA TakeTurnTogether ==
  ASSUME Typed, Typed', Together, TakeTurn PROVE Together'
<1> DEFINE r == Head(reqs)
           x == [kind |-> "turn", req |-> r]
<1>1. /\ reqs # <<>> /\ r.call = "turn" /\ reqs' = Tail(reqs)
      /\ Extended(msgs', msgs, x) /\ UNCHANGED <<mGeofences, mGeofenceIds, owner, modem, down>>
  BY DEF TakeTurn, adapter, clientBase, Extended
<1>2. r \in Turnings
  <2>1. r \in Turnings \cup Made
    BY <1>1, Served
  <2>2. QED
    BY <1>1, <2>1, RequestCases
<1>3. x \in Turned /\ x.kind = "turn" /\ x.req = r
  BY <1>2 DEF Turned
<1> HIDE DEF r, x
<1>4. x \in Msgs \ ClientMsgs
  <2>1. x \in Msgs
    BY <1>3 DEF Msgs
  <2>2. QED
    BY <1>3, <2>1, MsgCases
<1>5. Serves(x) /\ Head(reqs) = r
  BY <1>1, <1>4 DEF Serves, r
<1>6. ASSUME NEW id
      PROVE  /\ x \in CmdMsgs(id) <=> r \in CmdReqs(id)
             /\ x \in AddMsgs(id) <=> r \in AddReqs(id)
             /\ x \notin DoneOf(id) /\ x \notin Puts \cup Changes \cup Ups \cup Removals
  BY <1>2, <1>3, TurnClass
<1>7. r \notin Stops /\ r \notin Opens
  <2>1. r \notin Stops
    BY <1>2, RequestClasses
  <2>2. QED
    BY <1>1, <2>1 DEF Opens
<1>8. ASSUME NEW id \in Ids PROVE OneAtATime(id)' /\ Leaving(id)'
  <2>1. OneAtATime(id) /\ Leaving(id)
    BY DEF Together
  <2>2. OneAtATime(id)'
    BY <1>5, <1>6, <2>1, ServeOne
  <2>3. QED
    BY <1>5, <1>6, <2>1, <2>2, ServeLeaving
<1>9. ASSUME NEW h \in HwIds PROVE Forgotten(h)'
  <2>1. Forgotten(h) /\ r \notin StopsOf(h) /\ UNCHANGED down
    BY <1>1, <1>7 DEF Together, StopsOf
  <2>2. QED
    BY <1>5, <2>1, ServeForgotten
<1>10. ASSUME NEW h \in HwIds PROVE Number(reqs', StopsOf(h)) <= 1
  BY <1>5, ServeStops DEF Together
<1>11. MapsFit'
  BY <1>1 DEF Together, MapsFit
<1>12. Reopening'
  BY <1>1, <1>5, <1>7, ServeReopening DEF Together
<1>13. Synced'
  <2>1. PICK F, N : /\ Leads(F, N, msgs, owner) /\ Awaits(F, N, msgs, reqs)
                    /\ F[0] = Plainly(mGeofences) /\ N[0] = mGeofenceIds
                    /\ ~down => F[Len(msgs)] = Plainly(modem)
    BY DEF Together, Synced
  <2>2. down => modem = [h \in HwIds |-> NoFence]
    BY DEF Together, Synced
  <2> DEFINE g == F[Len(msgs)]
             k == N[Len(msgs)]
  <2>3. Len(msgs) \in 0..Len(msgs)
    BY TypesOf, LenProperties
  <2>4. g \in [HwIds -> Fences \cup {NoFence}] /\ k \in [Ids -> HwIds \cup {NoHwId}]
    BY <2>1, <2>3 DEF Leads
  <2>5. x \notin Puts \cup Changes \cup Ups \cup Removals
    BY <1>6
  <2>6. Handled(owner, F[Len(msgs)], N[Len(msgs)], x, g, k)
    BY <2>5 DEF Handled
  <2>7. Awaits(F, N, msgs, Tail(reqs))
    BY <1>1, <2>1, TypesOf, AwaitsRest
  <2>8. \A i \in DOMAIN Tail(reqs) : Tail(reqs)[i] \in ByNumber => Ready(g, k, Tail(reqs)[i])
    BY <2>3, <2>7 DEF Awaits
  <2>9. (~down' => g = Plainly(modem')) /\ (down' => modem' = [h \in HwIds |-> NoFence])
    BY <1>1, <2>1, <2>2
  <2> HIDE DEF g, k
  <2>10. QED
    BY <1>1, <1>5, <2>1, <2>4, <2>5, <2>6, <2>8, <2>9, ServeSynced
<1>14. QED
  BY <1>8, <1>9, <1>10, <1>11, <1>12, <1>13 DEF Together

\* How a request turns out, but for what is paused.
Outcome(q, r) ==
  \/ /\ ~r.ok /\ r.modem = modem
     /\ q.call = "remove" /\ ~down => modem[q.hwId] = NoFence
  \/ /\ r.ok /\ ~down /\ q.call = "add" /\ r.hwId \in HwIds /\ modem[r.hwId] = NoFence
     /\ Plainly(r.modem) = [Plainly(modem) EXCEPT ![r.hwId] = Plain(q.fence)]
  \/ /\ r.ok /\ ~down /\ q.call = "remove"
     /\ Plainly(r.modem) = [Plainly(modem) EXCEPT ![q.hwId] = NoFence]
  \/ /\ r.ok /\ ~down /\ q.call \in {"pause", "resume"}
     /\ Plainly(r.modem) = Plainly(modem)
  \/ /\ r.ok /\ ~down /\ q.call = "modify" /\ modem[q.hwId] # NoFence
     /\ Plainly(r.modem) =
          [Plainly(modem) EXCEPT ![q.hwId] = Fence(modem[q.hwId].id, q.fence.options, FALSE)]

\* Two fences that differ in whether they are paused.
LEMMA PlainSame ==
  ASSUME NEW a \in Fences, NEW b \in Fences, a.id = b.id, a.options = b.options
  PROVE  Plain(a) = Plain(b)
<1>1. a # NoFence /\ b # NoFence
  BY ConstantFacts
<1>2. QED
  BY <1>1 DEF Plain

\* A request turns out so.
LEMMA OutcomeCases ==
  ASSUME Typed, NEW q \in Made, NEW r \in Outcomes(q), q.call \in Operations
  PROVE  Outcome(q, r)
<1> DEFINE f == IF q.hwId \in HwIds THEN modem[q.hwId] ELSE NoFence
           failed == [ok |-> FALSE, hwId |-> NoHwId, modem |-> modem]
           done(g) == [ok |-> TRUE, hwId |-> NoHwId, modem |-> [modem EXCEPT ![q.hwId] = g]]
<1>1. modem \in [HwIds -> Fences \cup {NoFence}]
  BY TypesOf
<1>2. /\ q.call = "add" => q.fence \in Fences
      /\ q.call \in {"remove", "modify", "pause", "resume"} => q.hwId \in HwIds
      /\ q.call = "modify" => q.fence \in Fences
  BY MadeCases
<1>3. CASE r = failed
  <2>1. ~r.ok /\ r.modem = modem
    BY <1>3
  <2>2. CASE q.call = "remove" /\ ~down /\ modem[q.hwId] # NoFence
    <3>1. Outcomes(q) = {done(NoFence)}
      BY <1>2, <2>2 DEF Outcomes
    <3>2. r.ok
      BY <3>1
    <3>3. QED
      BY <2>1, <3>2
  <2>3. QED
    BY <2>1, <2>2 DEF Outcome
<1>4. CASE q.call = "add" /\ r # failed
  <2>1. PICK h \in HwIds \ In(modem) :
          r = [ok |-> TRUE, hwId |-> h,
               modem |-> [modem EXCEPT ![h] = [q.fence EXCEPT !.paused = FALSE]]]
    BY <1>4 DEF Outcomes
  <2>2. ~down
    BY <1>4 DEF Outcomes
  <2> DEFINE a == [q.fence EXCEPT !.paused = FALSE]
  <2>3. a \in Fences /\ a.id = q.fence.id /\ a.options = q.fence.options
    BY <1>2, <1>4, FenceUpdate DEF Fences
  <2>5. r.modem = [modem EXCEPT ![h] = a] /\ r.ok /\ r.hwId = h
    BY <2>1
  <2> HIDE DEF a
  <2>4. Plain(a) = Plain(q.fence)
    BY <1>2, <1>4, <2>3, PlainSame
  <2>6. Plainly(r.modem) = [Plainly(modem) EXCEPT ![h] = Plain(q.fence)]
    <3>1. Plainly([modem EXCEPT ![h] = a]) = [Plainly(modem) EXCEPT ![h] = Plain(a)]
      BY <1>1, PlainlyUpdate
    <3>2. QED
      BY <2>4, <2>5, <3>1
  <2>7. modem[h] = NoFence
    BY DEF In
  <2>8. QED
    BY <1>4, <2>2, <2>5, <2>6, <2>7 DEF Outcome
<1>5. CASE q.call # "add" /\ r # failed
  <2>1. q.call \in {"remove", "pause", "resume", "modify"} /\ f # NoFence /\ ~down
    <3>1. f # NoFence /\ ~down
      BY <1>5 DEF Outcomes
    <3>2. q.call \in {"remove", "pause", "resume", "modify"}
      BY <1>5 DEF Operations
    <3>3. QED
      BY <3>1, <3>2
  <2>2. \/ q.call = "remove" /\ r = done(NoFence)
        \/ q.call = "pause" /\ r = done([f EXCEPT !.paused = TRUE])
        \/ q.call = "resume" /\ r = done([f EXCEPT !.paused = FALSE])
        \/ q.call = "modify" /\ r = done([f EXCEPT !.options = q.fence.options])
    BY <1>5, <2>1 DEF Outcomes
  <2>3. q.hwId \in HwIds /\ f = modem[q.hwId] /\ f \in Fences
    BY <1>1, <1>2, <2>1
  <2>4. ASSUME NEW g, r = done(g)
        PROVE  r.ok /\ Plainly(r.modem) = [Plainly(modem) EXCEPT ![q.hwId] = Plain(g)]
    <3>1. r.ok /\ r.modem = [modem EXCEPT ![q.hwId] = g]
      BY <2>4
    <3>2. Plainly([modem EXCEPT ![q.hwId] = g]) = [Plainly(modem) EXCEPT ![q.hwId] = Plain(g)]
      BY <1>1, <2>3, PlainlyUpdate
    <3>3. QED
      BY <3>1, <3>2
  <2> HIDE DEF f, done
  <2>5. CASE q.call = "remove" /\ r = done(NoFence)
    <3>1. Plain(NoFence) = NoFence
      BY DEF Plain
    <3>2. r.ok /\ Plainly(r.modem) = [Plainly(modem) EXCEPT ![q.hwId] = NoFence]
      BY <2>4, <2>5, <3>1
    <3>3. QED
      BY <2>1, <2>5, <3>2 DEF Outcome
  <2>6. ASSUME NEW p \in BOOLEAN, r = done([f EXCEPT !.paused = p]), q.call \in {"pause", "resume"}
        PROVE  Outcome(q, r)
    <3> DEFINE g == [f EXCEPT !.paused = p]
    <3>1. r.ok /\ Plainly(r.modem) = [Plainly(modem) EXCEPT ![q.hwId] = Plain(g)]
      BY <2>4, <2>6
    <3>2. g \in Fences /\ g.id = f.id /\ g.options = f.options
      BY <2>3 DEF Fences
    <3> HIDE DEF g
    <3>3. Plain(g) = Plain(f)
      BY <2>3, <3>2, PlainSame
    <3>4. Plainly(modem)[q.hwId] = Plain(f) /\ Plainly(modem) \in [HwIds -> Fences \cup {NoFence}]
      BY <1>1, <2>3, PlainlyFacts
    <3>5. Plainly(r.modem) = Plainly(modem)
      BY <2>3, <3>1, <3>3, <3>4
    <3>6. QED
      BY <2>1, <2>6, <3>1, <3>5 DEF Outcome
  <2>7. CASE q.call = "modify" /\ r = done([f EXCEPT !.options = q.fence.options])
    <3> DEFINE g == [f EXCEPT !.options = q.fence.options]
    <3>1. r.ok /\ Plainly(r.modem) = [Plainly(modem) EXCEPT ![q.hwId] = Plain(g)]
      BY <2>4, <2>7
    <3>2. g \in Fences /\ g.id = f.id /\ g.options = q.fence.options
      BY <1>2, <2>3, <2>7 DEF Fences
    <3>3. Plain(g) = Fence(modem[q.hwId].id, q.fence.options, FALSE)
      BY <2>3, <3>2, ConstantFacts DEF Plain
    <3> HIDE DEF g
    <3>4. modem[q.hwId] # NoFence
      BY <2>1, <2>3
    <3>5. QED
      BY <2>1, <2>7, <3>1, <3>3, <3>4 DEF Outcome
  <2>8. QED
    BY <2>2, <2>5, <2>6, <2>7
<1>6. QED
  BY <1>3, <1>4, <1>5

\* The way that Synced says and its end.
Ends(F, N, f, n) ==
  /\ Leads(F, N, msgs, owner) /\ Awaits(F, N, msgs, reqs)
  /\ F[0] = Plainly(mGeofences) /\ N[0] = mGeofenceIds
  /\ f = F[Len(msgs)] /\ n = N[Len(msgs)]
  /\ f \in [HwIds -> Fences \cup {NoFence}] /\ n \in [Ids -> HwIds \cup {NoHwId}]
  /\ \A i \in DOMAIN reqs : reqs[i] \in ByNumber => Ready(f, n, reqs[i])
  /\ ~down => f = Plainly(modem)

\* There is one.
LEMMA WayEnds ==
  ASSUME Typed, Synced
  PROVE  \E F, N, f, n : Ends(F, N, f, n)
<1>1. PICK F, N : /\ Leads(F, N, msgs, owner) /\ Awaits(F, N, msgs, reqs)
                  /\ F[0] = Plainly(mGeofences) /\ N[0] = mGeofenceIds
                  /\ ~down => F[Len(msgs)] = Plainly(modem)
  BY DEF Synced
<1> DEFINE f == F[Len(msgs)]
           n == N[Len(msgs)]
<1>2. Len(msgs) \in 0..Len(msgs)
  BY TypesOf, LenProperties
<1>3. f \in [HwIds -> Fences \cup {NoFence}] /\ n \in [Ids -> HwIds \cup {NoHwId}]
  BY <1>1, <1>2 DEF Leads
<1>4. \A i \in DOMAIN reqs : reqs[i] \in ByNumber => Ready(f, n, reqs[i])
  BY <1>1, <1>2 DEF Awaits
<1>5. Ends(F, N, f, n)
  BY <1>1, <1>3, <1>4 DEF Ends
<1>6. QED
  BY <1>5

\* The requests after the first are requests.
LEMMA RestOf ==
  ASSUME Typed, reqs # <<>>
  PROVE  /\ 1 \in DOMAIN reqs /\ reqs[1] = Head(reqs)
         /\ \A i \in DOMAIN Tail(reqs) : i + 1 \in DOMAIN reqs /\ i + 1 # 1 /\ Tail(reqs)[i] = reqs[i + 1]
<1>1. reqs \in Seq(Turnings \cup Made)
  BY TypesOf
<1>2. /\ Len(reqs) \in Nat \ {0} /\ DOMAIN reqs = 1..Len(reqs) /\ Head(reqs) = reqs[1]
      /\ Len(Tail(reqs)) = Len(reqs) - 1 /\ DOMAIN Tail(reqs) = 1..Len(Tail(reqs))
      /\ \A i \in 1..Len(Tail(reqs)) : Tail(reqs)[i] = reqs[i + 1]
  BY <1>1, EmptySeq, HeadTailProperties, LenProperties
<1>3. QED
  BY <1>2

\* No other request is by the number of the first one.
LEMMA RestApart ==
  ASSUME Typed, Together, reqs # <<>>, NEW F, NEW N, NEW f, NEW n, Ends(F, N, f, n),
         Head(reqs) \in ByNumber, NEW i \in DOMAIN Tail(reqs), Tail(reqs)[i] \in ByNumber
  PROVE  Tail(reqs)[i].hwId # Head(reqs).hwId
<1> SUFFICES ASSUME Tail(reqs)[i].hwId = Head(reqs).hwId PROVE FALSE
  OBVIOUS
<1>1. PICK j \in DOMAIN reqs : j # 1 /\ Tail(reqs)[i] = reqs[j] /\ 1 \in DOMAIN reqs /\ reqs[1] = Head(reqs)
  BY RestOf
<1> DEFINE q == reqs[1]
           r == reqs[j]
           h == q.hwId
<1>2. q \in ByNumber /\ r \in ByNumber /\ r.hwId = h /\ h \in HwIds /\ h # NoHwId
      /\ reqs \in Seq(Turnings \cup Made)
  <2>1. q \in ByNumber /\ r \in ByNumber /\ r.hwId = h
    BY <1>1
  <2>2. h \in HwIds
    BY <2>1, RequestClasses
  <2>3. QED
    BY <2>1, <2>2, ConstantFacts, TypesOf
<1>3. Ready(f, n, q) /\ Ready(f, n, r)
  BY <1>1, <1>2 DEF Ends
<1>4. (q \in Asks \/ q \in Stops) /\ (r \in Asks \/ r \in Stops)
  BY <1>2, RequestClasses
<1> HIDE DEF h
<1>5. CASE q \in Stops /\ r \in Stops
  <2>1. q \in StopsOf(h) /\ r \in StopsOf(h)
    BY <1>2, <1>5 DEF StopsOf, h
  <2>2. Number(reqs, StopsOf(h)) >= 2
    BY <1>1, <1>2, <2>1, TwoNumber
  <2>3. Number(reqs, StopsOf(h)) <= 1 /\ Number(reqs, StopsOf(h)) \in Nat
    BY <1>2, NumberFacts DEF Together
  <2>4. QED
    BY <2>2, <2>3
<1>6. CASE q \in Asks /\ r \in Asks
  <2>1. f[h].id = IdOf(q) /\ f[h].id = IdOf(r)
    BY <1>2, <1>3, <1>6 DEF Ready, h
  <2> DEFINE id == IdOf(q)
  <2>2. id \in Ids
    BY <1>2, <1>6, RequestClasses
  <2>3. q \in CmdReqs(id) /\ r \in CmdReqs(id)
    <3>1. q \in Asks /\ r \in Asks /\ IdOf(q) = id /\ IdOf(r) = id
      BY <1>6, <2>1
    <3> HIDE DEF q, r, id
    <3>2. QED
      BY <3>1, RequestClasses
  <2> HIDE DEF id
  <2>4. Number(reqs, CmdReqs(id)) >= 2
    BY <1>1, <1>2, <2>3, TwoNumber
  <2>5. Number(reqs, CmdReqs(id)) \in Nat /\ Number(msgs, CmdMsgs(id)) \in Nat
    BY TypesOf, NumberFacts
  <2>6. Number(reqs, CmdReqs(id)) + Number(msgs, CmdMsgs(id)) <= 1
    BY <2>2 DEF Together, OneAtATime, Commands1
  <2>7. QED
    BY <2>4, <2>5, <2>6
<1>7. ASSUME NEW a, NEW s, a \in Asks, s \in Stops, a.hwId = h, s.hwId = h, Ready(f, n, a), Ready(f, n, s)
      PROVE  FALSE
  <2>1. f[h].id = IdOf(a) /\ n[IdOf(a)] = h
    BY <1>7 DEF Ready
  <2>2. n[f[h].id] = NoHwId
    BY <1>7 DEF Ready
  <2>3. QED
    BY <1>2, <2>1, <2>2
<1>8. q.hwId = h
  BY DEF h
<1>9. QED
  BY <1>2, <1>3, <1>4, <1>5, <1>6, <1>7, <1>8

\* The way is longer by what the first request makes of its end.
LEMMA EndsOn ==
  ASSUME Typed, NEW x, Serves(x), Extended(msgs', msgs, x), UNCHANGED down,
         NEW F, NEW N, NEW f, NEW n, Ends(F, N, f, n),
         NEW g \in [HwIds -> Fences \cup {NoFence}], NEW k \in [Ids -> HwIds \cup {NoHwId}],
         Handled(owner, f, n, x, g, k),
         x \in Changes => x.req = Head(reqs) /\ Head(reqs) \in ByNumber,
         \A i \in DOMAIN Tail(reqs) : Tail(reqs)[i] \in ByNumber => Ready(g, k, Tail(reqs)[i]),
         ~down => g = Plainly(modem'), down => modem' = [h \in HwIds |-> NoFence]
  PROVE  Synced'
<1>1. /\ Leads(F, N, msgs, owner) /\ Awaits(F, N, msgs, reqs)
      /\ F[0] = Plainly(mGeofences) /\ N[0] = mGeofenceIds
      /\ Handled(owner, F[Len(msgs)], N[Len(msgs)], x, g, k)
  BY DEF Ends
<1>2. (~down' => g = Plainly(modem')) /\ (down' => modem' = [h \in HwIds |-> NoFence])
  OBVIOUS
<1>3. QED
  BY <1>1, <1>2, ServeSynced

\* Those that remain are ready as they were.
LEMMA RestReady ==
  ASSUME Typed, reqs # <<>>, NEW F, NEW N, NEW f, NEW n, Ends(F, N, f, n)
  PROVE  \A i \in DOMAIN Tail(reqs) : Tail(reqs)[i] \in ByNumber => Ready(f, n, Tail(reqs)[i])
BY RestOf DEF Ends

\* The first request is answered with x.
Answers1(x) ==
  /\ Serves(x) /\ Extended(msgs', msgs, x) /\ UNCHANGED down
  /\ x \in Replies /\ x.req = Head(reqs) /\ Head(reqs) \in Made

\* A request is answered that changes nothing.
LEMMA SameSynced ==
  ASSUME Typed, Together, NEW x, Answers1(x), x \notin Puts, x \notin Changes,
         ~down => Plainly(modem') = Plainly(modem), down => modem' = modem
  PROVE  Synced'
<1>1. PICK F, N, f, n : Ends(F, N, f, n)
  BY WayEnds DEF Together
<1>2. x \notin Puts \cup Changes \cup Ups \cup Removals
  BY ReplyClass DEF Answers1
<1>3. Handled(owner, f, n, x, f, n)
  BY <1>2 DEF Handled
<1>4. \A i \in DOMAIN Tail(reqs) : Tail(reqs)[i] \in ByNumber => Ready(f, n, Tail(reqs)[i])
  BY <1>1, RestReady DEF Answers1, Serves
<1>5. f \in [HwIds -> Fences \cup {NoFence}] /\ n \in [Ids -> HwIds \cup {NoHwId}]
      /\ (~down => f = Plainly(modem'))
  BY <1>1 DEF Ends
<1>6. down => modem' = [h \in HwIds |-> NoFence]
  BY DEF Together, Synced
<1>7. Serves(x) /\ Extended(msgs', msgs, x) /\ UNCHANGED down
  BY DEF Answers1
<1>8. QED
  BY <1>1, <1>2, <1>3, <1>4, <1>5, <1>6, <1>7, EndsOn

\* A fence is added.
LEMMA AddSynced ==
  ASSUME Typed, Together, NEW x, Answers1(x), x \in Puts, ~down, x.hwId \in HwIds,
         modem[x.hwId] = NoFence,
         Plainly(modem') = [Plainly(modem) EXCEPT ![x.hwId] = Plain(Head(reqs).fence)]
  PROVE  Synced'
<1> DEFINE q == Head(reqs)
           h == x.hwId
           id == q.fence.id
<1>1. PICK F, N, f, n : Ends(F, N, f, n)
  BY WayEnds DEF Together
<1>2. /\ f \in [HwIds -> Fences \cup {NoFence}] /\ n \in [Ids -> HwIds \cup {NoHwId}]
      /\ f = Plainly(modem) /\ f[h] = NoFence
      /\ Leads(F, N, msgs, owner) /\ F[0] = Plainly(mGeofences) /\ f = F[Len(msgs)]
  <2>1. /\ f \in [HwIds -> Fences \cup {NoFence}] /\ n \in [Ids -> HwIds \cup {NoHwId}]
        /\ f = Plainly(modem)
        /\ Leads(F, N, msgs, owner) /\ F[0] = Plainly(mGeofences) /\ f = F[Len(msgs)]
    BY <1>1 DEF Ends
  <2>2. modem \in [HwIds -> Fences \cup {NoFence}]
    BY TypesOf
  <2>3. f[h] = NoFence
    <3>1. \A y \in HwIds : Plainly(modem)[y] = NoFence <=> modem[y] = NoFence
      BY <2>2, PlainlyFacts
    <3>2. QED
      BY <2>1, <3>1
  <2>4. QED
    BY <2>1, <2>3
<1>3. /\ q \in Made /\ q.call = "add" /\ q.fence \in Fences /\ id \in Ids /\ q \in AddReqs(id)
      /\ x.req = q /\ reqs # <<>>
  <2>1. q \in Made /\ x.req = q /\ x \in Replies /\ reqs # <<>>
    BY DEF Answers1, Serves
  <2>2. q.call = "add"
    BY <2>1 DEF Puts
  <2>3. q.fence \in Fences /\ q \in Asks \cup Restores
    BY <2>1, <2>2, MadeCases
  <2>4. id \in Ids
    BY <2>3, ConstantFacts
  <2>5. q \in Asks => IdOf(q) = id
    BY <2>2 DEF Asks
  <2>6. q \in AddReqs(id)
    BY <2>2, <2>3, <2>5, RequestClasses
  <2>7. QED
    BY <2>1, <2>2, <2>3, <2>4, <2>6
<1> HIDE DEF id
<1>4. Lacks(mGeofences, id) /\ ~Has(msgs, AddMsgs(id))
  <2>1. /\ Number(reqs, AddReqs(id)) \in Nat /\ Number(Tail(reqs), AddReqs(id)) \in Nat
        /\ Number(reqs, AddReqs(id)) = 1 + Number(Tail(reqs), AddReqs(id))
    BY <1>3, TypesOf, TakenNumber
  <2>2. /\ Number(msgs, AddMsgs(id)) \in Nat
        /\ Number(msgs, AddMsgs(id)) = 0 <=> ~Has(msgs, AddMsgs(id))
    BY TypesOf, NumberFacts
  <2>3. Number(reqs, AddReqs(id)) + Number(msgs, AddMsgs(id)) <= (IF Lacks(mGeofences, id) THEN 1 ELSE 0)
    BY <1>3 DEF Together, OneAtATime, Additions
  <2>4. Lacks(mGeofences, id)
    BY <2>1, <2>2, <2>3
  <2>5. Number(reqs, AddReqs(id)) + Number(msgs, AddMsgs(id)) <= 1
    BY <2>3, <2>4
  <2>6. QED
    BY <2>1, <2>2, <2>4, <2>5
<1>5. Lacks(f, id)
  <2>1. Lacks(F[0], id)
    <3>1. \A y \in HwIds : Plainly(mGeofences)[y].id = mGeofences[y].id
      BY TypesOf, PlainlyFacts
    <3>2. QED
      BY <1>2, <1>4, <3>1 DEF Lacks
  <2> DEFINE s == msgs
             w == owner
  <2>2. s \in Seq(Msgs) /\ Leads(F, N, s, w) /\ ~Has(s, AddMsgs(id)) /\ f = F[Len(s)]
        /\ Len(s) \in 0..Len(s)
    BY <1>2, <1>4, TypesOf, LenProperties
  <2> HIDE DEF s, w
  <2>3. \A j \in 0..Len(s) : Lacks(F[j], id)
    BY <1>3, <2>1, <2>2, KeepsOut
  <2>4. QED
    BY <2>2, <2>3
<1> DEFINE g == [f EXCEPT ![h] = Plain(q.fence)]
           k == [n EXCEPT ![id] = h]
<1>6. Plain(q.fence) \in Fences /\ Plain(q.fence).id = id
  BY <1>3, PlainFacts DEF id
<1>7. g \in [HwIds -> Fences \cup {NoFence}] /\ k \in [Ids -> HwIds \cup {NoHwId}]
  BY <1>2, <1>3, <1>6
<1>8. Handled(owner, f, n, x, g, k)
  <2>1. \A y \in HwIds : f[y].id # x.req.fence.id
    BY <1>3, <1>5 DEF Lacks, id
  <2>2. g = [f EXCEPT ![x.hwId] = Plain(x.req.fence)] /\ k = [n EXCEPT ![x.req.fence.id] = x.hwId]
    BY <1>3 DEF id
  <2> HIDE DEF g, k, q, h
  <2>3. f[x.hwId] = NoFence
    BY <1>2 DEF h
  <2>4. QED
    BY <2>1, <2>2, <2>3 DEF Handled
<1>9. ASSUME NEW i \in DOMAIN Tail(reqs), Tail(reqs)[i] \in ByNumber
      PROVE  Ready(g, k, Tail(reqs)[i])
  <2> DEFINE r == Tail(reqs)[i]
  <2>1. Ready(f, n, r) /\ r.hwId \in HwIds /\ (r \in Asks => IdOf(r) \in Ids)
    BY <1>1, <1>3, <1>9, RestReady, RequestClasses
  <2> HIDE DEF r
  <2>2. r.hwId # h /\ f[r.hwId] # NoFence
    BY <1>2, <2>1 DEF Ready
  <2>3. f[r.hwId].id # id /\ f[r.hwId].id \in Ids
    BY <1>2, <1>5, <2>1, <2>2, ConstantFacts DEF Lacks
  <2>4. g[r.hwId] = f[r.hwId] /\ k[f[r.hwId].id] = n[f[r.hwId].id]
    BY <1>2, <1>3, <2>1, <2>2, <2>3
  <2> HIDE DEF g, k
  <2>5. Ready(g, k, r)
    BY <2>1, <2>2, <2>4 DEF Ready
  <2>6. QED
    BY <2>5 DEF r
<1>10. g = Plainly(modem')
  BY <1>2
<1>11. x \notin Changes
  BY <1>3 DEF Changes, ByNumber
<1>12. Serves(x) /\ Extended(msgs', msgs, x) /\ UNCHANGED down
  BY DEF Answers1
<1> HIDE DEF g, k, q, h
<1>13. QED
  BY <1>1, <1>7, <1>8, <1>9, <1>10, <1>11, <1>12, EndsOn

\* A fence is removed.
LEMMA RemoveSynced ==
  ASSUME Typed, Together, NEW x, Answers1(x), x \in Changes, Head(reqs).call = "remove", ~down,
         Plainly(modem') = [Plainly(modem) EXCEPT ![Head(reqs).hwId] = NoFence]
  PROVE  Synced'
<1> DEFINE q == Head(reqs)
           h == q.hwId
<1>1. PICK F, N, f, n : Ends(F, N, f, n)
  BY WayEnds DEF Together
<1>2. /\ f \in [HwIds -> Fences \cup {NoFence}] /\ n \in [Ids -> HwIds \cup {NoHwId}]
      /\ f = Plainly(modem)
  BY <1>1 DEF Ends
<1>3. /\ q \in ByNumber /\ h \in HwIds /\ x.req = q /\ reqs # <<>> /\ (q \in Asks \/ q \in Stops)
      /\ (q \in Asks => IdOf(q) \in Ids) /\ (q \in Asks => q \notin Stops)
  <2>1. x.req = q /\ reqs # <<>>
    BY DEF Answers1, Serves
  <2>2. q \in ByNumber
    BY <2>1 DEF Changes
  <2>3. QED
    BY <2>1, <2>2, RequestClasses
<1>4. Ready(f, n, q)
  BY <1>1, <1>3, RestOf DEF Ends
<1>12. Serves(x) /\ Extended(msgs', msgs, x) /\ UNCHANGED down
  BY DEF Answers1
<1> DEFINE g == [f EXCEPT ![h] = NoFence]
<1>5. g \in [HwIds -> Fences \cup {NoFence}] /\ g = Plainly(modem')
  BY <1>2
<1>6. ASSUME NEW i \in DOMAIN Tail(reqs), Tail(reqs)[i] \in ByNumber
      PROVE  /\ Ready(f, n, Tail(reqs)[i]) /\ Tail(reqs)[i].hwId \in HwIds
             /\ Tail(reqs)[i] \in Asks => IdOf(Tail(reqs)[i]) \in Ids
             /\ g[Tail(reqs)[i].hwId] = f[Tail(reqs)[i].hwId] /\ Tail(reqs)[i].hwId # h
  <2>1. /\ Ready(f, n, Tail(reqs)[i]) /\ Tail(reqs)[i].hwId \in HwIds
        /\ Tail(reqs)[i] \in Asks => IdOf(Tail(reqs)[i]) \in Ids
    BY <1>1, <1>3, <1>6, RestReady, RequestClasses
  <2>2. Tail(reqs)[i].hwId # h
    BY <1>1, <1>3, <1>6, RestApart
  <2>3. QED
    BY <1>2, <1>3, <2>1, <2>2
<1>7. CASE q \in Stops
  <2>1. g = [f EXCEPT ![x.req.hwId] = NoFence]
    BY <1>3
  <2> HIDE DEF g
  <2>2. Handled(owner, f, n, x, g, n)
    BY <1>3, <1>7, <2>1 DEF Handled
  <2>3. \A i \in DOMAIN Tail(reqs) : Tail(reqs)[i] \in ByNumber => Ready(g, n, Tail(reqs)[i])
    BY <1>6 DEF Ready
  <2> HIDE DEF q, h
  <2>4. x \in Changes => x.req = Head(reqs) /\ Head(reqs) \in ByNumber
    BY <1>3 DEF q
  <2>5. QED
    BY <1>1, <1>2, <1>5, <1>12, <2>2, <2>3, <2>4, EndsOn
<1>8. CASE q \in Asks
  <2> DEFINE id == IdOf(q)
             k == [n EXCEPT ![id] = NoHwId]
  <2>1. g = [f EXCEPT ![x.req.hwId] = NoFence] /\ k = [n EXCEPT ![IdOf(x.req)] = NoHwId]
    BY <1>3
  <2>2. k \in [Ids -> HwIds \cup {NoHwId}] /\ n[id] = h /\ id \in Ids
    BY <1>2, <1>3, <1>4, <1>8 DEF Ready
  <2>3. x.req.call = "remove" /\ x.req \in Asks
    BY <1>3, <1>8
  <2>4. \A y \in Ids : k[y] = IF y = id THEN NoHwId ELSE n[y]
    BY <1>2
  <2> HIDE DEF g, k, id
  <2>5. Handled(owner, f, n, x, g, k)
    BY <2>1, <2>3 DEF Handled
  <2>6. ASSUME NEW i \in DOMAIN Tail(reqs), Tail(reqs)[i] \in ByNumber
        PROVE  Ready(g, k, Tail(reqs)[i])
    <3> DEFINE r == Tail(reqs)[i]
    <3>1. /\ Ready(f, n, r) /\ r.hwId \in HwIds /\ (r \in Asks => IdOf(r) \in Ids)
          /\ g[r.hwId] = f[r.hwId] /\ r.hwId # h
      BY <1>6, <2>6
    <3> HIDE DEF r, h, q
    <3>2. g[r.hwId] # NoFence /\ g[r.hwId].id \in Ids
      BY <1>2, <3>1, ConstantFacts DEF Ready
    <3>3. r \in Stops => k[g[r.hwId].id] = NoHwId
      BY <2>4, <3>1, <3>2 DEF Ready
    <3>4. r \in Asks => g[r.hwId].id = IdOf(r) /\ k[IdOf(r)] = r.hwId
      BY <2>2, <2>4, <3>1 DEF Ready
    <3>5. Ready(g, k, r)
      BY <3>2, <3>3, <3>4 DEF Ready
    <3>6. QED
      BY <3>5 DEF r
  <2> HIDE DEF q, h
  <2>7. x \in Changes => x.req = Head(reqs) /\ Head(reqs) \in ByNumber
    BY <1>3 DEF q
  <2>8. QED
    BY <1>1, <1>5, <1>12, <2>2, <2>5, <2>6, <2>7, EndsOn
<1>9. QED
  BY <1>3, <1>7, <1>8

\* A fence gets other options.
LEMMA ModifySynced ==
  ASSUME Typed, Together, NEW x, Answers1(x), x \in Changes, Head(reqs).call = "modify", ~down,
         Plainly(modem') = [Plainly(modem) EXCEPT ![Head(reqs).hwId] =
                              Fence(modem[Head(reqs).hwId].id, Head(reqs).fence.options, FALSE)]
  PROVE  Synced'
<1> DEFINE q == Head(reqs)
           h == q.hwId
<1>1. PICK F, N, f, n : Ends(F, N, f, n)
  BY WayEnds DEF Together
<1>2. /\ f \in [HwIds -> Fences \cup {NoFence}] /\ n \in [Ids -> HwIds \cup {NoHwId}]
      /\ f = Plainly(modem)
  BY <1>1 DEF Ends
<1>3. /\ q \in ByNumber /\ h \in HwIds /\ x.req = q /\ reqs # <<>> /\ q \in Asks
      /\ IdOf(q) \in Ids /\ q.fence \in Fences /\ q.fence.id = IdOf(q)
  <2>1. x.req = q /\ reqs # <<>>
    BY DEF Answers1, Serves
  <2>2. q \in ByNumber
    BY <2>1 DEF Changes
  <2>3. q \in Asks
    <3>1. q \in Asks \/ q \in Stops
      BY <2>2, RequestClasses
    <3>2. q \notin Stops
      BY DEF Stops
    <3>3. QED
      BY <3>1, <3>2
  <2>4. q.fence \in Fences /\ q.fence.id = IdOf(q)
    BY <2>3 DEF Asks
  <2>5. QED
    BY <2>1, <2>2, <2>3, <2>4, RequestClasses
<1>4. Ready(f, n, q)
  BY <1>1, <1>3, RestOf DEF Ends
<1> DEFINE a == Plain(q.fence)
           g == [f EXCEPT ![h] = a]
<1>5. a = Fence(modem[h].id, q.fence.options, FALSE) /\ a.id = f[h].id /\ a \in Fences
  <2>1. modem[h].id = f[h].id /\ f[h].id = q.fence.id
    <3>1. modem \in [HwIds -> Fences \cup {NoFence}]
      BY TypesOf
    <3>2. Plainly(modem)[h].id = modem[h].id
      BY <1>3, <3>1, PlainlyFacts
    <3>3. f[h].id = q.fence.id
      BY <1>3, <1>4 DEF Ready
    <3>4. QED
      BY <1>2, <3>2, <3>3
  <2>2. a \in Fences /\ a.id = q.fence.id
    BY <1>3, PlainFacts
  <2>3. a = Fence(q.fence.id, q.fence.options, FALSE)
    BY <1>3, ConstantFacts DEF Plain
  <2> HIDE DEF a
  <2>4. QED
    BY <2>1, <2>2, <2>3
<1>6. g \in [HwIds -> Fences \cup {NoFence}] /\ g = Plainly(modem')
  <2> HIDE DEF a
  <2>1. Plainly(modem') = [f EXCEPT ![h] = a]
    BY <1>2, <1>5
  <2>2. QED
    BY <1>2, <1>5, <2>1
<1>7. \A y \in HwIds : g[y].id = f[y].id /\ (f[y] # NoFence => g[y] # NoFence)
  <2> HIDE DEF a
  <2>1. a # NoFence
    BY <1>5, ConstantFacts
  <2>2. QED
    BY <1>2, <1>3, <1>5, <2>1
<1>8. g = [f EXCEPT ![x.req.hwId] = Plain(x.req.fence)] /\ x.req.call = "modify"
  BY <1>3
<1> HIDE DEF g, a
<1>9. Handled(owner, f, n, x, g, n)
  BY <1>8 DEF Handled
<1>10. ASSUME NEW i \in DOMAIN Tail(reqs), Tail(reqs)[i] \in ByNumber
       PROVE  Ready(g, n, Tail(reqs)[i])
  <2>1. Ready(f, n, Tail(reqs)[i]) /\ Tail(reqs)[i].hwId \in HwIds
    BY <1>1, <1>3, <1>10, RestReady, RequestClasses
  <2>2. QED
    BY <1>7, <2>1 DEF Ready
<1>11. Serves(x) /\ Extended(msgs', msgs, x) /\ UNCHANGED down
  BY DEF Answers1
<1> HIDE DEF q, h
<1>12. x \in Changes => x.req = Head(reqs) /\ Head(reqs) \in ByNumber
  BY <1>3 DEF q
<1>13. QED
  BY <1>1, <1>2, <1>6, <1>9, <1>10, <1>11, <1>12, EndsOn

\* The first request is carried out and the rest is as it was.
LEMMA ServeTogether ==
  ASSUME Typed, Together, NEW x, Serves(x), UNCHANGED down, Head(reqs) \notin Opens, Synced',
         \A id : /\ x \in CmdMsgs(id) => Head(reqs) \in CmdReqs(id)
                 /\ x \in AddMsgs(id) => Head(reqs) \in AddReqs(id)
                 /\ x \in DoneOf(id) => Head(reqs) \in AsksOf(id),
         \A h : Head(reqs) \in StopsOf(h) =>
                  down \/ (Extended(msgs', msgs, x) /\ x \in StoppedOf(h))
  PROVE  Together'
<1>1. ASSUME NEW id \in Ids PROVE OneAtATime(id)' /\ Leaving(id)'
  <2>1. OneAtATime(id) /\ Leaving(id)
    BY DEF Together
  <2>2. OneAtATime(id)'
    BY <2>1, ServeOne
  <2>3. QED
    BY <2>1, <2>2, ServeLeaving
<1>2. ASSUME NEW h \in HwIds PROVE Forgotten(h)'
  <2>1. Forgotten(h)
    BY DEF Together
  <2>2. QED
    BY <2>1, ServeForgotten
<1>3. ASSUME NEW h \in HwIds PROVE Number(reqs', StopsOf(h)) <= 1
  BY ServeStops DEF Together
<1>4. MapsFit'
  BY DEF Together, MapsFit, Serves
<1>5. Reopening'
  BY ServeReopening DEF Together
<1>6. QED
  BY <1>1, <1>2, <1>3, <1>4, <1>5 DEF Together

\* The removal of the fence of a client that has left finds the fence when the modem is up.
LEMMA StopServed ==
  ASSUME Typed, Together, reqs # <<>>, Head(reqs) \in Stops, ~down
  PROVE  modem[Head(reqs).hwId] # NoFence
<1> DEFINE q == Head(reqs)
<1>1. PICK F, N, f, n : Ends(F, N, f, n)
  BY WayEnds DEF Together
<1>2. q \in ByNumber /\ q.hwId \in HwIds
  BY RequestClasses
<1>3. Ready(f, n, q)
  BY <1>1, <1>2, RestOf DEF Ends
<1>4. \A y \in HwIds : Plainly(modem)[y] = NoFence <=> modem[y] = NoFence
  BY TypesOf, PlainlyFacts
<1>5. f = Plainly(modem)
  BY <1>1 DEF Ends
<1> HIDE DEF q
<1>6. modem[q.hwId] # NoFence
  BY <1>2, <1>3, <1>4, <1>5 DEF Ready
<1>7. QED
  BY <1>6 DEF q

\* LocApi carries out a request.
LEMMA CarryOutTogether ==
  ASSUME Typed, Typed', Together, CarryOut PROVE Together'
<1> DEFINE q == Head(reqs)
<1>1. /\ reqs # <<>> /\ q.call \in Operations /\ reqs' = Tail(reqs)
      /\ UNCHANGED <<mGeofences, mGeofenceIds, owner, down>>
  BY DEF CarryOut, adapter, clientBase
<1>2. PICK r \in Outcomes(q) :
        /\ modem' = r.modem
        /\ msgs' = IF q.then = "nothing" THEN msgs
                   ELSE Append(msgs, [kind |-> q.then, req |-> q, ok |-> r.ok, hwId |-> r.hwId])
  BY DEF CarryOut
<1>3. q \in Turnings \cup Made
  BY <1>1, Served
<1> HIDE DEF q
<1>4. q \in Made /\ q \notin Opens
  <2>1. q.call # "turn" /\ q.call # "open"
    BY <1>1 DEF Operations
  <2>2. QED
    BY <1>3, <2>1, RequestCases, MadeCases
<1>5. /\ r.ok \in BOOLEAN /\ r.hwId \in HwIds \cup {NoHwId}
      /\ r.ok /\ q.call = "add" => r.hwId \in HwIds
  BY <1>1, <1>2, <1>4, OutcomeFacts
<1>6. Outcome(q, r)
  BY <1>1, <1>2, <1>4, OutcomeCases
<1>7. CASE q.then = "nothing"
  <2>1. msgs' = msgs
    BY <1>2, <1>7
  <2>2. q \in Pauses
    <3>1. q \notin Asks /\ q \notin Restores /\ q \notin Stops
      BY <1>7 DEF Asks, Restores, Stops
    <3>2. QED
      BY <1>4, <3>1 DEF Made
  <2>3. Plainly(modem') = Plainly(modem) /\ (down => modem' = modem)
    <3>1. q.call \in {"pause", "resume"}
      BY <2>2 DEF Pauses
    <3>2. \/ ~r.ok /\ r.modem = modem
          \/ ~down /\ Plainly(r.modem) = Plainly(modem)
      BY <1>6, <3>1 DEF Outcome
    <3>3. QED
      BY <1>2, <3>2
  <2>4. EngineUp \in Msgs \ ClientMsgs
    BY OtherClass DEF Msgs
  <2>5. Serves(EngineUp)
    BY <1>1, <2>1, <2>4 DEF Serves
  <2>6. \A id : /\ EngineUp \notin CmdMsgs(id) /\ EngineUp \notin AddMsgs(id)
                /\ EngineUp \notin DoneOf(id)
    BY OtherClass
  <2>7. \A h : q \notin StopsOf(h)
    BY <2>2, RequestClasses DEF StopsOf
  <2>8. Synced'
    <3>1. PICK F, N : /\ Leads(F, N, msgs, owner) /\ Awaits(F, N, msgs, reqs)
                      /\ F[0] = Plainly(mGeofences) /\ N[0] = mGeofenceIds
                      /\ ~down => F[Len(msgs)] = Plainly(modem)
      BY DEF Together, Synced
    <3>2. Awaits(F, N, msgs, reqs')
      BY <1>1, <3>1, TypesOf, AwaitsRest
    <3>3. down => modem = [h \in HwIds |-> NoFence]
      BY DEF Together, Synced
    <3>4. /\ Leads(F, N, msgs', owner') /\ Awaits(F, N, msgs', reqs')
          /\ F[0] = Plainly(mGeofences') /\ N[0] = mGeofenceIds'
          /\ ~down' => F[Len(msgs')] = Plainly(modem')
          /\ down' => modem' = [h \in HwIds |-> NoFence]
      BY <1>1, <2>1, <2>3, <3>1, <3>2, <3>3
    <3>5. QED
      BY <3>4 DEF Synced
  <2>9. Head(reqs) \notin Opens /\ \A h : Head(reqs) \notin StopsOf(h)
    BY <1>4, <2>7 DEF q
  <2>10. UNCHANGED down
    BY <1>1
  <2>11. QED
    BY <2>5, <2>6, <2>8, <2>9, <2>10, ServeTogether
<1>8. CASE q.then # "nothing"
  <2> DEFINE x == [kind |-> q.then, req |-> q, ok |-> r.ok, hwId |-> r.hwId]
  <2>1. msgs' = Append(msgs, x)
    BY <1>2, <1>8
  <2>2. x.kind = q.then /\ x.req = q /\ x.ok = r.ok /\ x.hwId = r.hwId
    OBVIOUS
  <2>3. q.then \in {"done", "restored", "paused", "stopped"}
    BY <1>4, <1>8, MadeCases
  <2>4. x \in Replies
    BY <1>4, <1>5, <2>3 DEF Replies
  <2> HIDE DEF x
  <2>5. x \in Msgs \ ClientMsgs
    <3>1. x \in Msgs
      BY <2>4 DEF Msgs
    <3>2. QED
      BY <2>2, <2>3, <3>1, MsgCases
  <2>6. Extended(msgs', msgs, x)
    BY <2>1 DEF Extended
  <2>7. Serves(x)
    BY <1>1, <2>5, <2>6 DEF Serves
  <2>8. q = Head(reqs)
    BY DEF q
  <2>9. Answers1(x)
    BY <1>1, <1>4, <2>2, <2>4, <2>6, <2>7, <2>8 DEF Answers1
  <2>10. ASSUME NEW id
         PROVE  /\ x \in CmdMsgs(id) <=> q \in CmdReqs(id)
                /\ x \in AddMsgs(id) <=> q \in AddReqs(id)
                /\ x \in DoneOf(id) <=> q \in AsksOf(id)
    BY <2>2, <2>4, ReplyClass
  <2>11. /\ x \in Puts <=> r.ok /\ q.call = "add"
         /\ x \in Changes <=> r.ok /\ q \in ByNumber
    BY <2>2, <2>4, ReplyClass
  <2>12. q \in ByNumber <=> q.call \in {"remove", "modify"}
    BY <1>4 DEF ByNumber
  <2>13. ASSUME NEW h, q \in StopsOf(h) PROVE down \/ x \in StoppedOf(h)
    <3> SUFFICES ASSUME ~down PROVE x \in StoppedOf(h)
      OBVIOUS
    <3>1. q \in Stops
      BY <2>13 DEF StopsOf
    <3>2. q.call = "remove"
      BY <3>1 DEF Stops
    <3>3. modem[q.hwId] # NoFence
      BY <1>1, <2>8, <3>1, StopServed
    <3>4. r.ok
      BY <1>6, <3>2, <3>3 DEF Outcome
    <3>5. x \in Changes
      BY <2>11, <2>12, <3>2, <3>4
    <3>6. QED
      BY <2>2, <2>13, <3>5 DEF StoppedOf
  <2>14. Synced'
    <3>1. CASE /\ ~r.ok /\ r.modem = modem
               /\ q.call = "remove" /\ ~down => modem[q.hwId] = NoFence
      <4>1. x \notin Puts /\ x \notin Changes /\ modem' = modem
        BY <1>2, <2>11, <3>1
      <4>2. Plainly(modem') = Plainly(modem)
        BY <4>1
      <4>3. QED
        BY <2>9, <4>1, <4>2, SameSynced
    <3>2. CASE /\ r.ok /\ ~down /\ q.call = "add" /\ r.hwId \in HwIds /\ modem[r.hwId] = NoFence
               /\ Plainly(r.modem) = [Plainly(modem) EXCEPT ![r.hwId] = Plain(q.fence)]
      <4>1. x \in Puts /\ x.hwId \in HwIds /\ modem[x.hwId] = NoFence /\ ~down
        BY <2>2, <2>11, <3>2
      <4>2. Plainly(modem') = [Plainly(modem) EXCEPT ![x.hwId] = Plain(Head(reqs).fence)]
        BY <1>2, <2>2, <2>8, <3>2
      <4>3. QED
        BY <2>9, <4>1, <4>2, AddSynced
    <3>3. CASE /\ r.ok /\ ~down /\ q.call = "remove"
               /\ Plainly(r.modem) = [Plainly(modem) EXCEPT ![q.hwId] = NoFence]
      <4>1. x \in Changes /\ Head(reqs).call = "remove" /\ ~down
        BY <2>8, <2>11, <2>12, <3>3
      <4>2. Plainly(modem') = [Plainly(modem) EXCEPT ![Head(reqs).hwId] = NoFence]
        BY <1>2, <2>8, <3>3
      <4>3. QED
        BY <2>9, <4>1, <4>2, RemoveSynced
    <3>4. CASE /\ r.ok /\ ~down /\ q.call \in {"pause", "resume"}
               /\ Plainly(r.modem) = Plainly(modem)
      <4>1. x \notin Puts /\ x \notin Changes /\ Plainly(modem') = Plainly(modem) /\ ~down
        BY <1>2, <2>11, <2>12, <3>4
      <4>2. QED
        BY <2>9, <4>1, SameSynced
    <3>5. CASE /\ r.ok /\ ~down /\ q.call = "modify" /\ modem[q.hwId] # NoFence
               /\ Plainly(r.modem) =
                    [Plainly(modem) EXCEPT ![q.hwId] = Fence(modem[q.hwId].id, q.fence.options, FALSE)]
      <4>1. x \in Changes /\ Head(reqs).call = "modify" /\ ~down
        BY <2>8, <2>11, <2>12, <3>5
      <4>2. Plainly(modem') = [Plainly(modem) EXCEPT ![Head(reqs).hwId] =
                              Fence(modem[Head(reqs).hwId].id, Head(reqs).fence.options, FALSE)]
        BY <1>2, <2>8, <3>5
      <4>3. QED
        BY <2>9, <4>1, <4>2, ModifySynced
    <3>6. QED
      BY <1>6, <3>1, <3>2, <3>3, <3>4, <3>5 DEF Outcome
  <2>15. /\ Head(reqs) \notin Opens /\ UNCHANGED down
         /\ \A id : /\ x \in CmdMsgs(id) => Head(reqs) \in CmdReqs(id)
                    /\ x \in AddMsgs(id) => Head(reqs) \in AddReqs(id)
                    /\ x \in DoneOf(id) => Head(reqs) \in AsksOf(id)
         /\ \A h : Head(reqs) \in StopsOf(h) =>
                     down \/ (Extended(msgs', msgs, x) /\ x \in StoppedOf(h))
    BY <1>1, <1>4, <2>6, <2>8, <2>10, <2>13
  <2>16. QED
    BY <2>7, <2>14, <2>15, ServeTogether
<1>9. QED
  BY <1>7, <1>8

-----------------------------------------------------------------------------
(* The calls of clients.                                                   *)

\* For a fence that is not under way there is no command.
LEMMA NotUnderWay ==
  ASSUME Typed, NEW id \in Ids, id \notin UnderWay
  PROVE  ~Has(reqs, CmdReqs(id)) /\ ~Has(msgs, CmdMsgs(id))
<1>1. ASSUME NEW m \in Cmds, m \in CommandsUnderWay, NEW i \in DOMAIN m.ids, m.ids[i] = id PROVE FALSE
  <2>1. m.op \in Operations
    BY CommandFacts
  <2>2. m # NoCommand
    BY <2>1 DEF NoCommand, Operations
  <2>3. id \in Range(m.ids)
    BY <1>1 DEF Range
  <2>4. QED
    BY <1>1, <2>2, <2>3 DEF UnderWay
<1>2. ASSUME NEW r \in CmdReqs(id) PROVE r.command \in Cmds /\ r.i \in DOMAIN r.command.ids
                                        /\ r.command.ids[r.i] = id
  BY <1>2 DEF CmdReqs, AsksOf, Turnings, Asks, IdOf
<1>3. ~Has(reqs, CmdReqs(id))
  <2> SUFFICES ASSUME NEW i \in DOMAIN reqs, reqs[i] \in CmdReqs(id) PROVE FALSE
    BY DEF Has
  <2>1. reqs[i].command \in CommandsUnderWay
    BY DEF CommandsUnderWay, Range
  <2>2. QED
    BY <1>1, <1>2, <2>1
<1>4. ~Has(msgs, CmdMsgs(id))
  <2> SUFFICES ASSUME NEW i \in DOMAIN msgs, msgs[i] \in CmdMsgs(id) PROVE FALSE
    BY DEF Has
  <2>1. /\ msgs[i].kind \in {"turn", "done"}
        /\ msgs[i].req.command \in Cmds /\ msgs[i].req.i \in DOMAIN msgs[i].req.command.ids
        /\ msgs[i].req.command.ids[msgs[i].req.i] = id
    <3>1. CASE msgs[i] \in Turned
      <4>1. msgs[i].kind = "turn" /\ msgs[i].req \in Turnings /\ IdOf(msgs[i].req) = id
        BY <3>1, TurnClass, RequestClasses DEF Turned
      <4>2. msgs[i].req \in CmdReqs(id)
        BY <4>1, RequestClasses
      <4>3. QED
        BY <1>2, <4>1, <4>2
    <3>2. CASE msgs[i] \in DoneOf(id)
      <4>1. msgs[i] \in Replies /\ msgs[i].kind = "done"
        BY <3>2 DEF DoneOf
      <4>2. msgs[i].req \in CmdReqs(id)
        BY <4>1, ReplyClass
      <4>3. QED
        BY <1>2, <4>1, <4>2
    <3>3. QED
      BY <3>1, <3>2 DEF CmdMsgs
  <2>2. msgs[i].req.command \in CommandsUnderWay
    BY <2>1 DEF CommandsUnderWay, Range
  <2>3. QED
    BY <1>1, <2>1, <2>2
<1>5. QED
  BY <1>3, <1>4

\* Messages p about client c come.
About(p, c) ==
  /\ p \in Seq(ClientMsgs) /\ Joined(msgs', msgs, p) /\ \A i \in DOMAIN p : p[i].client = c

\* The messages for some interfaces are about that client.
LEMMA AboutMade ==
  ASSUME NEW c \in Clients, NEW m, DOMAIN m \subseteq Interfaces, NEW p, p = InOrder(m),
         \A i \in DOMAIN m : m[i] \in ClientMsgs /\ m[i].client = c, msgs' = msgs \o p
  PROVE  About(p, c) /\ \A W : Has(p, W) <=> \E i \in DOMAIN m : m[i] \in W
<1>1. p \in Seq(ClientMsgs) /\ \A W : Has(p, W) <=> \E i \in DOMAIN m : m[i] \in W
  BY InOrderHas
<1>2. ~Has(p, {x \in ClientMsgs : x.client # c})
  BY <1>1
<1>3. \A i \in DOMAIN p : p[i].client = c
  BY <1>1, <1>2, ElementOfSeq DEF Has
<1>4. QED
  BY <1>1, <1>3 DEF About, Joined

\* A new client is removed from nowhere.
LEMMA CreateAbout ==
  ASSUME NEW c \in Clients, NEW kinds \in Callbacks, createInstance(c, kinds)
  PROVE  \E p : About(p, c) /\ ~Has(p, RemovalsOf(c))
<1> DEFINE served == IF kinds \cap Installed # {} THEN kinds \cap Installed
                     ELSE {"gnss"} \cap Installed
           m == [i \in served |-> ClientMsg("addClient", i, c, FALSE)]
           p == InOrder(m)
<1>1. served \subseteq Interfaces
  BY ConstantFacts
<1>2. msgs' = msgs \o p
  BY DEF createInstance
<1>3. DOMAIN m = served /\ \A i \in served : m[i] = ClientMsg("addClient", i, c, FALSE)
  OBVIOUS
<1>4. p = InOrder(m)
  OBVIOUS
<1> HIDE DEF served, m, p
<1>5. \A i \in DOMAIN m : m[i] \in ClientMsgs /\ m[i].client = c /\ m[i].kind = "addClient"
  <2> TAKE i \in DOMAIN m
  <2>1. i \in Interfaces /\ m[i] = ClientMsg("addClient", i, c, FALSE)
    BY <1>1, <1>3
  <2>2. ClientMsg("addClient", i, c, FALSE) \in ClientMsgs
    BY <2>1, ClientMsgFacts
  <2>3. QED
    BY <2>1, <2>2 DEF ClientMsg
<1>6. About(p, c) /\ \A W : Has(p, W) <=> \E i \in DOMAIN m : m[i] \in W
  BY <1>1, <1>2, <1>3, <1>4, <1>5, AboutMade
<1>7. ~Has(p, RemovalsOf(c))
  BY <1>5, <1>6 DEF RemovalsOf, Removals
<1>8. QED
  BY <1>6, <1>7

\* A client with other callbacks is removed from where it has none any more.
LEMMA UpdateAbout ==
  ASSUME LocationApiTypeOK, NEW c \in DOMAIN clientData, NEW kinds \in Callbacks,
         updateCallbacks(c, kinds)
  PROVE  \E p : About(p, c) /\ (Has(p, RemovalsOf(c)) => "geofence" \in clientData[c] \ kinds)
<1> DEFINE dropped == (loaded \cap clientData[c]) \ kinds
           both == dropped \cup (kinds \cap Installed)
           m == [i \in both |-> IF i \in dropped THEN ClientMsg("removeClient", i, c, FALSE)
                                ELSE ClientMsg("addClient", i, c, FALSE)]
           p == InOrder(m)
<1>1. /\ kinds \subseteq Interfaces /\ c \in Clients
      /\ loaded \in SUBSET Installed /\ Installed \subseteq Interfaces
  BY ConstantFacts DEF LocationApiTypeOK
<1>2. both \subseteq Interfaces /\ dropped \subseteq clientData[c] \ kinds
  BY <1>1
<1>3. msgs' = msgs \o p
  BY DEF updateCallbacks
<1>4. DOMAIN m = both /\ \A i \in both : m[i] = IF i \in dropped
                                                THEN ClientMsg("removeClient", i, c, FALSE)
                                                ELSE ClientMsg("addClient", i, c, FALSE)
  OBVIOUS
<1>5. p = InOrder(m)
  OBVIOUS
<1> HIDE DEF dropped, both, m, p
<1>6. ASSUME NEW i \in DOMAIN m
      PROVE  /\ m[i] \in ClientMsgs /\ m[i].client = c /\ m[i].interface = i
             /\ m[i].kind = "removeClient" => i \in dropped
  <2>1. i \in Interfaces /\ m[i] = IF i \in dropped THEN ClientMsg("removeClient", i, c, FALSE)
                                   ELSE ClientMsg("addClient", i, c, FALSE)
    BY <1>2, <1>4
  <2>2. ClientMsg("addClient", i, c, FALSE) \in ClientMsgs
        /\ ClientMsg("removeClient", i, c, FALSE) \in ClientMsgs
    BY <1>1, <2>1, ClientMsgFacts
  <2>3. QED
    BY <2>1, <2>2 DEF ClientMsg
<1>7. About(p, c) /\ \A W : Has(p, W) <=> \E i \in DOMAIN m : m[i] \in W
  <2>1. c \in Clients /\ DOMAIN m \subseteq Interfaces /\ p = InOrder(m) /\ msgs' = msgs \o p
    BY <1>1, <1>2, <1>3, <1>4, <1>5
  <2>2. \A i \in DOMAIN m : m[i] \in ClientMsgs /\ m[i].client = c
    BY <1>6
  <2>3. QED
    BY <2>1, <2>2, AboutMade
<1>8. Has(p, RemovalsOf(c)) => "geofence" \in clientData[c] \ kinds
  BY <1>2, <1>6, <1>7 DEF RemovalsOf, Removals
<1>9. QED
  BY <1>7, <1>8

\* A client that goes is removed.
LEMMA DestroyAbout ==
  ASSUME LocationApiTypeOK, NEW c \in Clients, destroy(c)
  PROVE  \E p : About(p, c)
<1> DEFINE m == [i \in loaded |-> ClientMsg("removeClient", i, c, TRUE)]
           p == InOrder(m)
<1>1. loaded \subseteq Interfaces
  BY ConstantFacts DEF LocationApiTypeOK
<1>2. msgs' = msgs \o p
  BY DEF destroy
<1>3. DOMAIN m = loaded /\ \A i \in loaded : m[i] = ClientMsg("removeClient", i, c, TRUE)
  OBVIOUS
<1>4. p = InOrder(m)
  OBVIOUS
<1> HIDE DEF m, p
<1>5. \A i \in DOMAIN m : m[i] \in ClientMsgs /\ m[i].client = c
  <2> TAKE i \in DOMAIN m
  <2>1. i \in Interfaces /\ m[i] = ClientMsg("removeClient", i, c, TRUE)
    BY <1>1, <1>3
  <2>2. ClientMsg("removeClient", i, c, TRUE) \in ClientMsgs
    BY <2>1, ClientMsgFacts
  <2>3. QED
    BY <2>1, <2>2 DEF ClientMsg
<1>6. About(p, c)
  BY <1>1, <1>2, <1>3, <1>4, <1>5, AboutMade
<1>7. QED
  BY <1>6

\* The adapter hears of a client; nothing is under way for its fences when it leaves.
LEMMA AboutTogether ==
  ASSUME Typed, Typed', Together,
         UNCHANGED <<mGeofences, mGeofenceIds, owner, down, modem, reqs>>,
         NEW c \in Clients, NEW p, About(p, c),
         Has(p, RemovalsOf(c)) => Of(c) \cap UnderWay = {}
  PROVE  Together'
<1>0. p \in Seq(ClientMsgs) /\ p \in Seq(Msgs) /\ msgs \in Seq(Msgs) /\ Joined(msgs', msgs, p)
      /\ \A i \in DOMAIN p : p[i].client = c
  BY ListTyped, TypesOf DEF About
<1>1. ASSUME NEW id
      PROVE  /\ ~Has(p, CmdMsgs(id)) /\ Number(p, CmdMsgs(id)) = 0
             /\ ~Has(p, DoneOf(id)) /\ ~Has(p, AddMsgs(id)) /\ Number(p, AddMsgs(id)) = 0
  BY <1>0, OtherClass, NoneNumber
<1>2. ASSUME NEW id \in Ids, Has(p, RemovalsOf(owner[id]))
      PROVE  /\ Has(p, RemovalsOf(c)) /\ owner[id] = c
             /\ ~Has(reqs, CmdReqs(id)) /\ ~Has(msgs, CmdMsgs(id))
  <2>1. owner[id] = c
    BY <1>0, <1>2 DEF Has, RemovalsOf
  <2>2. Has(p, RemovalsOf(c))
    BY <1>2, <2>1
  <2>3. id \notin UnderWay
    BY <2>1, <2>2 DEF Of
  <2>4. QED
    BY <2>1, <2>2, <2>3, NotUnderWay
<1>3. ASSUME NEW id \in Ids PROVE OneAtATime(id)'
  <2>1. OneAtATime(id)
    BY DEF Together
  <2>2. /\ Number(msgs, CmdMsgs(id)) \in Nat
        /\ Number(msgs', CmdMsgs(id)) = Number(msgs, CmdMsgs(id)) + Number(p, CmdMsgs(id))
    BY <1>0, JoinedNumber
  <2>3. /\ Number(msgs, AddMsgs(id)) \in Nat
        /\ Number(msgs', AddMsgs(id)) = Number(msgs, AddMsgs(id)) + Number(p, AddMsgs(id))
    BY <1>0, JoinedNumber
  <2>4. Number(msgs', CmdMsgs(id)) = Number(msgs, CmdMsgs(id))
        /\ Number(msgs', AddMsgs(id)) = Number(msgs, AddMsgs(id))
    BY <1>1, <2>2, <2>3
  <2>5. Commands1(id)' = Commands1(id) /\ Additions(id)' = Additions(id)
    BY <2>4 DEF Commands1, Additions
  <2>6. QED
    BY <2>1, <2>5 DEF OneAtATime
<1>4. ASSUME NEW id \in Ids PROVE Leaving(id)'
  <2> DEFINE R == RemovalsOf(owner[id])
  <2>1. /\ ~HasThen(msgs, CmdMsgs(id), R)
        /\ Has(msgs, R) => ~Has(msgs, DoneOf(id)) /\ ~Has(reqs, AsksOf(id))
    BY DEF Together, Leaving
  <2>2. Has(p, R) => ~Has(reqs, CmdReqs(id)) /\ ~Has(msgs, CmdMsgs(id))
    BY <1>2
  <2> HIDE DEF R
  <2>3. /\ Has(msgs', R) <=> Has(msgs, R) \/ Has(p, R)
        /\ Has(msgs', DoneOf(id)) <=> Has(msgs, DoneOf(id)) \/ Has(p, DoneOf(id))
        /\ HasThen(msgs', CmdMsgs(id), R) <=>
             HasThen(msgs, CmdMsgs(id), R) \/ HasThen(p, CmdMsgs(id), R)
               \/ (Has(msgs, CmdMsgs(id)) /\ Has(p, R))
    BY <1>0, JoinHas
  <2>4. HasThen(p, CmdMsgs(id), R) => Has(p, CmdMsgs(id))
    BY ThenHas
  <2>5. ~HasThen(msgs', CmdMsgs(id), R)
    BY <1>1, <2>1, <2>2, <2>3, <2>4
  <2>6. /\ Has(msgs, DoneOf(id)) => Has(msgs, CmdMsgs(id))
        /\ Has(reqs, AsksOf(id)) => Has(reqs, CmdReqs(id))
    BY DEF Has, CmdMsgs, CmdReqs
  <2>7. Has(msgs', R) => ~Has(msgs', DoneOf(id)) /\ ~Has(reqs', AsksOf(id))
    BY <1>1, <2>1, <2>2, <2>3, <2>6
  <2>8. R = RemovalsOf(owner[id]) /\ owner' = owner
    BY DEF R
  <2>9. QED
    BY <2>5, <2>7, <2>8 DEF Leaving
<1>5. ASSUME NEW h \in HwIds PROVE Forgotten(h)'
  <2>1. Forgotten(h)
    BY DEF Together
  <2>2. (Has(msgs, Ups) => Has(msgs', Ups)) /\ (Has(msgs, StoppedOf(h)) => Has(msgs', StoppedOf(h)))
    BY <1>0, JoinHas
  <2>3. QED
    BY <2>1, <2>2 DEF Forgotten
<1>6. ASSUME NEW h \in HwIds PROVE Number(reqs', StopsOf(h)) <= 1
  BY DEF Together
<1>7. MapsFit' /\ Reopening'
  BY DEF Together, MapsFit, Reopening
<1>8. Synced'
  <2>1. PICK F, N : /\ Leads(F, N, msgs, owner) /\ Awaits(F, N, msgs, reqs)
                    /\ F[0] = Plainly(mGeofences) /\ N[0] = mGeofenceIds
                    /\ ~down => F[Len(msgs)] = Plainly(modem)
    BY DEF Together, Synced
  <2>2. Has(p, RemovalsOf(c)) =>
          \A i \in DOMAIN reqs : reqs[i] \in ByNumber \cap Asks => owner[IdOf(reqs[i])] # c
    <3> SUFFICES ASSUME Has(p, RemovalsOf(c)), NEW i \in DOMAIN reqs, reqs[i] \in ByNumber,
                        reqs[i] \in Asks, owner[IdOf(reqs[i])] = c
                 PROVE  FALSE
      OBVIOUS
    <3>1. IdOf(reqs[i]) \in Ids /\ reqs[i] \in CmdReqs(IdOf(reqs[i]))
      BY RequestClasses
    <3>2. ~Has(reqs, CmdReqs(IdOf(reqs[i])))
      BY <1>2, <3>1
    <3>3. QED
      BY <3>1, <3>2 DEF Has
  <2> DEFINE q == msgs
             t == msgs'
             w == owner
             s == reqs
  <2>3. /\ q \in Seq(Msgs) /\ Joined(t, q, p) /\ Leads(F, N, q, w) /\ Awaits(F, N, q, s)
        /\ Has(p, RemovalsOf(c)) =>
             \A i \in DOMAIN s : s[i] \in ByNumber \cap Asks => w[IdOf(s[i])] # c
    BY <1>0, <2>1, <2>2
  <2> HIDE DEF q, t, w, s
  <2>4. PICK G, K : /\ Leads(G, K, t, w) /\ Awaits(G, K, t, s)
                    /\ G[0] = F[0] /\ K[0] = N[0] /\ G[Len(t)] = F[Len(q)]
    BY <1>0, <2>3, WayClient
  <2>5. /\ Leads(G, K, msgs', owner') /\ Awaits(G, K, msgs', reqs')
        /\ G[0] = Plainly(mGeofences') /\ K[0] = mGeofenceIds'
        /\ ~down' => G[Len(msgs')] = Plainly(modem')
    BY <2>1, <2>4 DEF q, t, w, s
  <2>6. down' => modem' = [h \in HwIds |-> NoFence]
    BY DEF Together, Synced
  <2>7. QED
    BY <2>5, <2>6 DEF Synced
<1>9. QED
  BY <1>3, <1>4, <1>5, <1>6, <1>7, <1>8 DEF Together

\* Turns are none of the requests that are made.
LEMMA TurningsOnly ==
  ASSUME NEW s \in Seq(Turnings)
  PROVE  /\ s \in Seq(Turnings \cup Made)
         /\ \A id : ~Has(s, AsksOf(id))
         /\ ~Has(s, Opens) /\ ~Has(s, ByNumber)
         /\ \A h : Number(s, StopsOf(h)) = 0
         /\ \A k \in DOMAIN s : s[k] \in Turnings /\ s[k] \notin ByNumber
<1>1. s \in Seq(Turnings \cup Made)
  BY SeqMonotonic
<1>2. \A id : \A x \in Turnings : x \notin AsksOf(id) /\ x \notin ByNumber /\ x \notin Stops
  BY RequestClasses
<1>3. \A x \in Turnings : x \notin Opens
  BY DEF Turnings, Turns, Opens
<1>4. \A h : \A x \in Turnings : x \notin StopsOf(h)
  BY <1>2 DEF StopsOf
<1>5. \A k \in DOMAIN s : s[k] \in Turnings
  BY ElementOfSeq
<1>6. ASSUME NEW id PROVE ~Has(s, AsksOf(id))
  BY <1>2, NoneNumber
<1>7. ASSUME NEW h PROVE Number(s, StopsOf(h)) = 0
  BY <1>4, NoneNumber
<1>8. ~Has(s, Opens) /\ ~Has(s, ByNumber)
  BY <1>2, <1>3, NoneNumber
<1>9. QED
  BY <1>1, <1>2, <1>5, <1>6, <1>7, <1>8

\* A client calls for its fences ids, none of which is under way; they are new in an
\* addition.
Wants(p, op, c, ids) ==
  /\ Called(p, op, c, ids) /\ ids \in IdSeqs /\ c \in Clients
  /\ \A id \in Range(ids) :
       /\ ~Has(reqs, CmdReqs(id)) /\ ~Has(msgs, CmdMsgs(id))
       /\ owner'[id] = c
       /\ owner[id] = IF op = "add" THEN NoClient ELSE c
  /\ \A id \in Ids \ Range(ids) : owner'[id] = owner[id]

\* How many turns there are for a fence.
LEMMA WantedNumber ==
  ASSUME NEW p, NEW op, NEW c, NEW ids, Wants(p, op, c, ids), NEW id
  PROVE  /\ Number(p, CmdReqs(id)) \in {0, 1} /\ Number(p, AddReqs(id)) \in {0, 1}
         /\ id \notin Range(ids) => Number(p, CmdReqs(id)) = 0 /\ Number(p, AddReqs(id)) = 0
         /\ op # "add" => Number(p, AddReqs(id)) = 0
<1>1. /\ p \in Seq(Turnings) /\ DOMAIN p = DOMAIN ids
      /\ \A k \in DOMAIN p : p[k] \in Turnings /\ IdOf(p[k]) = ids[k] /\ p[k].command.op = op
  BY ElementOfSeq DEF Wants, Called
<1>2. \A i, j \in DOMAIN ids : ids[i] = ids[j] => i = j
  BY DEF Wants, IdSeqs, IsInjective
<1>3. \A k \in DOMAIN p : /\ p[k] \in CmdReqs(id) <=> ids[k] = id
                          /\ p[k] \in AddReqs(id) <=> ids[k] = id /\ op = "add"
  BY <1>1, RequestClasses
<1>4. Number(p, CmdReqs(id)) \in {0, 1}
  BY <1>1, <1>2, <1>3, OneNumber
<1>5. Number(p, AddReqs(id)) \in {0, 1}
  BY <1>1, <1>2, <1>3, OneNumber
<1>6. id \notin Range(ids) => ~Has(p, CmdReqs(id)) /\ ~Has(p, AddReqs(id))
  BY <1>1, <1>3 DEF Has, Range
<1>7. op # "add" => ~Has(p, AddReqs(id))
  BY <1>3 DEF Has
<1>8. QED
  BY <1>1, <1>4, <1>5, <1>6, <1>7, NumberFacts

\* No fence of a call is in a command already, and one that is added is nowhere.
LEMMA WantedNone ==
  ASSUME Typed, Together, NEW p, NEW op, NEW c, NEW ids, Wants(p, op, c, ids),
         NEW id \in Ids, id \in Range(ids)
  PROVE  /\ Commands1(id) = 0
         /\ op = "add" => Additions(id) = 0 /\ Lacks(mGeofences, id) /\ ~Has(msgs, AddMsgs(id))
<1>1. ~Has(reqs, CmdReqs(id)) /\ ~Has(msgs, CmdMsgs(id))
  BY DEF Wants
<1>2. Number(reqs, CmdReqs(id)) = 0 /\ Number(msgs, CmdMsgs(id)) = 0
  BY <1>1, TypesOf, NumberFacts
<1>3. Commands1(id) = 0
  BY <1>2 DEF Commands1
<1>4. ASSUME op = "add" PROVE Additions(id) = 0 /\ Lacks(mGeofences, id) /\ ~Has(msgs, AddMsgs(id))
  <2>1. owner[id] = NoClient
    BY <1>4 DEF Wants
  <2>2. Additions(id) = 0 /\ Lacks(mGeofences, id)
    BY <2>1 DEF Together, OneAtATime
  <2>3. /\ Number(reqs, AddReqs(id)) \in Nat /\ Number(msgs, AddMsgs(id)) \in Nat
        /\ Number(msgs, AddMsgs(id)) = 0 <=> ~Has(msgs, AddMsgs(id))
    BY TypesOf, NumberFacts
  <2>4. Number(reqs, AddReqs(id)) + Number(msgs, AddMsgs(id)) = 0
    BY <2>2 DEF Additions
  <2>5. QED
    BY <2>2, <2>3, <2>4
<1>5. QED
  BY <1>3, <1>4

\* A client calls for its fences.
LEMMA WantsTogether ==
  ASSUME Typed, Typed', Together, UNCHANGED <<msgs, mGeofences, mGeofenceIds, down, modem>>,
         NEW p, NEW op, NEW c, NEW ids, Wants(p, op, c, ids)
  PROVE  Together'
<1>0. /\ p \in Seq(Turnings) /\ p \in Seq(Turnings \cup Made) /\ Joined(reqs', reqs, p)
      /\ reqs \in Seq(Turnings \cup Made) /\ msgs \in Seq(Msgs) /\ c \in Clients
  <2>1. p \in Seq(Turnings) /\ Joined(reqs', reqs, p) /\ c \in Clients
    BY DEF Wants, Called
  <2>2. QED
    BY <2>1, TurningsOnly, TypesOf
<1>1. ASSUME NEW id \in Ids PROVE OneAtATime(id)'
  <2>1. OneAtATime(id)
    BY DEF Together
  <2>2. /\ Number(reqs, CmdReqs(id)) \in Nat
        /\ Number(reqs', CmdReqs(id)) = Number(reqs, CmdReqs(id)) + Number(p, CmdReqs(id))
    BY <1>0, JoinedNumber
  <2>3. /\ Number(reqs, AddReqs(id)) \in Nat
        /\ Number(reqs', AddReqs(id)) = Number(reqs, AddReqs(id)) + Number(p, AddReqs(id))
    BY <1>0, JoinedNumber
  <2>4. /\ Number(p, CmdReqs(id)) \in {0, 1} /\ Number(p, AddReqs(id)) \in {0, 1}
        /\ id \notin Range(ids) => Number(p, CmdReqs(id)) = 0 /\ Number(p, AddReqs(id)) = 0
        /\ op # "add" => Number(p, AddReqs(id)) = 0
    BY WantedNumber
  <2>5. Number(msgs, CmdMsgs(id)) \in Nat /\ Number(msgs, AddMsgs(id)) \in Nat
    BY <1>0, NumberFacts
  <2>6. /\ Commands1(id) \in Nat /\ Commands1(id)' = Commands1(id) + Number(p, CmdReqs(id))
        /\ Additions(id) \in Nat /\ Additions(id)' = Additions(id) + Number(p, AddReqs(id))
    BY <2>2, <2>3, <2>4, <2>5 DEF Commands1, Additions
  <2>7. CASE id \notin Range(ids)
    <3>1. Commands1(id)' = Commands1(id) /\ Additions(id)' = Additions(id)
      BY <2>4, <2>6, <2>7
    <3>2. owner'[id] = owner[id]
      BY <2>7 DEF Wants
    <3>3. QED
      BY <2>1, <3>1, <3>2 DEF OneAtATime
  <2>8. CASE id \in Range(ids)
    <3>1. /\ Commands1(id) = 0
          /\ op = "add" => Additions(id) = 0 /\ Lacks(mGeofences, id)
      BY <2>8, WantedNone
    <3>2. owner'[id] # NoClient
      BY <1>0, <2>8, ConstantFacts DEF Wants
    <3>3. Commands1(id)' <= 1
      BY <2>4, <2>6, <3>1
    <3>4. Additions(id) <= (IF Lacks(mGeofences, id) THEN 1 ELSE 0)
      BY <2>1 DEF OneAtATime
    <3>5. Additions(id)' <= (IF Lacks(mGeofences, id) THEN 1 ELSE 0)
      <4>1. CASE op = "add"
        BY <2>4, <2>6, <3>1, <4>1
      <4>2. CASE op # "add"
        <5>1. Additions(id)' = Additions(id)
          BY <2>4, <2>6, <4>2
        <5>2. QED
          BY <3>4, <5>1
      <4>3. QED
        BY <4>1, <4>2
    <3>6. QED
      BY <3>2, <3>3, <3>5 DEF OneAtATime
  <2>9. QED
    BY <2>7, <2>8
<1>2. ASSUME NEW id \in Ids PROVE Leaving(id)'
  <2>1. Leaving(id)
    BY DEF Together
  <2>2. Has(reqs', AsksOf(id)) <=> Has(reqs, AsksOf(id))
    BY <1>0, TurningsOnly, JoinHas
  <2>3. CASE owner'[id] = owner[id]
    BY <2>1, <2>2, <2>3 DEF Leaving
  <2>4. CASE id \in Range(ids)
    <3>1. ~Has(reqs, CmdReqs(id)) /\ ~Has(msgs, CmdMsgs(id))
      BY <2>4 DEF Wants
    <3>2. ~Has(reqs, AsksOf(id)) /\ ~Has(msgs, DoneOf(id))
      BY <3>1 DEF Has, CmdReqs, CmdMsgs
    <3>3. \A W : ~HasThen(msgs, CmdMsgs(id), W)
      BY <3>1, ThenHas
    <3>4. QED
      BY <2>2, <3>2, <3>3 DEF Leaving
  <2>5. QED
    BY <2>3, <2>4 DEF Wants
<1>3. ASSUME NEW h \in HwIds PROVE Forgotten(h)'
  <2>1. Forgotten(h)
    BY DEF Together
  <2>2. Has(reqs, StopsOf(h)) => Has(reqs', StopsOf(h))
    BY <1>0, JoinHas
  <2>3. QED
    BY <2>1, <2>2 DEF Forgotten
<1>4. ASSUME NEW h \in HwIds PROVE Number(reqs', StopsOf(h)) <= 1
  <2>1. Number(p, StopsOf(h)) = 0 /\ Number(reqs, StopsOf(h)) <= 1
    BY <1>0, TurningsOnly DEF Together
  <2>2. /\ Number(reqs, StopsOf(h)) \in Nat
        /\ Number(reqs', StopsOf(h)) = Number(reqs, StopsOf(h)) + Number(p, StopsOf(h))
    BY <1>0, JoinedNumber
  <2>3. QED
    BY <2>1, <2>2
<1>5. MapsFit'
  BY DEF Together, MapsFit
<1>6. Reopening'
  <2>1. Reopening /\ ~Has(p, Opens) /\ ~Has(p, ByNumber)
    BY <1>0, TurningsOnly DEF Together
  <2>2. QED
    BY <1>0, <2>1, TakeReopening
<1>7. Synced'
  <2> DEFINE q == msgs
             w == owner
             v == owner'
  <2>1. PICK F, N : /\ Leads(F, N, q, w) /\ Awaits(F, N, q, reqs)
                    /\ F[0] = Plainly(mGeofences) /\ N[0] = mGeofenceIds
                    /\ ~down => F[Len(q)] = Plainly(modem)
    BY DEF Together, Synced
  <2>2. \A k \in DOMAIN p : p[k] \notin ByNumber
    BY <1>0, TurningsOnly
  <2>3. q \in Seq(Msgs)
    BY <1>0
  <2>4. ASSUME NEW id \in Ids, v[id] # w[id] PROVE Lacks(mGeofences, id) /\ ~Has(q, AddMsgs(id))
    <3>1. id \in Range(ids) /\ op = "add"
      BY <2>4 DEF Wants
    <3>2. QED
      BY <3>1, WantedNone
  <2>5. HasNumbers(F[0], N[0]) /\ Unique(F[0])
    BY <2>1, TypesOf, PlainMaps DEF Together, MapsFit
  <2>6. \A h \in HwIds : Plainly(mGeofences)[h].id = mGeofences[h].id
    BY TypesOf, PlainlyFacts
  <2> HIDE DEF q, w, v
  <2>7. Awaits(F, N, q, reqs')
    BY <1>0, <2>1, <2>2, AwaitsMore
  <2>8. ASSUME NEW id \in Ids, v[id] # w[id], NEW j \in 0..Len(q) PROVE N[j][id] = NoHwId
    <3>1. Lacks(F[0], id)
      BY <2>1, <2>4, <2>6, <2>8 DEF Lacks
    <3>2. ~Has(q, AddMsgs(id))
      BY <2>4, <2>8
    <3>3. Lacks(F[j], id)
      BY <2>1, <2>3, <3>1, <3>2, KeepsOut
    <3>4. HasNumbers(F[j], N[j])
      BY <2>1, <2>3, <2>5, WayFits
    <3>5. N[j][id] \in HwIds \cup {NoHwId}
      BY <2>1 DEF Leads
    <3>6. QED
      BY <3>3, <3>4, <3>5 DEF HasNumbers, Lacks
  <2>9. Leads(F, N, q, v)
    BY <2>1, <2>3, <2>8, WayOwners
  <2>10. /\ Leads(F, N, msgs', owner') /\ Awaits(F, N, msgs', reqs')
         /\ F[0] = Plainly(mGeofences') /\ N[0] = mGeofenceIds'
         /\ ~down' => F[Len(msgs')] = Plainly(modem')
    BY <2>1, <2>7, <2>9 DEF q, v
  <2>11. down' => modem' = [h \in HwIds |-> NoFence]
    BY DEF Together, Synced
  <2>12. QED
    BY <2>10, <2>11 DEF Synced
<1>8. QED
  BY <1>1, <1>2, <1>3, <1>4, <1>5, <1>6, <1>7 DEF Together

\* When nothing of it changes all is as before.
LEMMA SameTogether ==
  ASSUME Together, UNCHANGED <<msgs, reqs, mGeofences, mGeofenceIds, owner, down, modem>>
  PROVE  Together'
<1>1. \A id \in Ids : OneAtATime(id)' /\ Leaving(id)'
  <2>1. ASSUME NEW id \in Ids PROVE OneAtATime(id)'
    <3>1. Commands1(id)' = Commands1(id) /\ Additions(id)' = Additions(id)
      BY DEF Commands1, Additions
    <3>2. OneAtATime(id)
      BY DEF Together
    <3>3. QED
      BY <3>1, <3>2 DEF OneAtATime
  <2>2. ASSUME NEW id \in Ids PROVE Leaving(id)'
    <3>1. Leaving(id)
      BY DEF Together
    <3>2. QED
      BY <3>1 DEF Leaving
  <2>3. QED
    BY <2>1, <2>2
<1>2. ASSUME NEW h \in HwIds PROVE Forgotten(h)' /\ Number(reqs', StopsOf(h)) <= 1
  <2>1. Forgotten(h) /\ Number(reqs, StopsOf(h)) <= 1
    BY DEF Together
  <2>2. QED
    BY <2>1 DEF Forgotten
<1>3. MapsFit' /\ Reopening' /\ Synced'
  BY DEF Together, MapsFit, Reopening, Synced
<1>4. QED
  BY <1>1, <1>2, <1>3 DEF Together

\* A fence that is to be added is in no command.
LEMMA FreeFences ==
  ASSUME Typed, Told, NEW k \in 1..MaxFences, k <= Cardinality(Free)
  PROVE  \E n \in 0..MaxFences :
           /\ n + k \in 0..MaxFences /\ MaxFences - Cardinality(Free) = n
           /\ \A id \in Ids : owner[id] = NoClient <=> id > n
<1>1. PICK n \in 0..MaxFences : \A id \in Ids : owner[id] = NoClient <=> id > n
  BY DEF Told
<1>2. MaxFences \in Nat /\ n \in Nat /\ n <= MaxFences /\ k \in Nat /\ Ids = 1..MaxFences
  BY ConstantFacts
<1>3. Free = (n + 1)..MaxFences
  BY <1>1, <1>2 DEF Free
<1>4. Cardinality((n + 1)..MaxFences) = MaxFences - n
  <2>1. n + 1 \in Int /\ MaxFences \in Int
    BY <1>2
  <2>2. Cardinality((n + 1)..MaxFences) = IF n + 1 > MaxFences THEN 0 ELSE MaxFences - (n + 1) + 1
    BY <2>1, FS_Interval
  <2>3. QED
    BY <1>2, <2>2
<1>5. QED
  BY <1>1, <1>2, <1>3, <1>4

\* A client adds fences.
LEMMA AddWants ==
  ASSUME Typed, Told, Together, NEW c \in Clients, NEW k \in 1..MaxFences, k <= Cardinality(Free),
         NEW ids \in IdSeqs, ids = [i \in 1..k |-> MaxFences - Cardinality(Free) + i],
         NEW p, Called(p, "add", c, ids),
         owner' = [id \in Ids |-> IF id \in Range(ids) THEN c ELSE owner[id]]
  PROVE  Wants(p, "add", c, ids)
<1>1. PICK n \in 0..MaxFences : /\ n + k \in 0..MaxFences /\ MaxFences - Cardinality(Free) = n
                                /\ \A id \in Ids : owner[id] = NoClient <=> id > n
  BY FreeFences
<1>2. MaxFences \in Nat /\ n \in Nat /\ k \in Nat /\ Ids = 1..MaxFences
  BY ConstantFacts
<1>3. ASSUME NEW id \in Range(ids)
      PROVE  /\ id \in Ids /\ owner[id] = NoClient /\ owner'[id] = c
             /\ ~Has(reqs, CmdReqs(id)) /\ ~Has(msgs, CmdMsgs(id))
  <2>1. PICK i \in 1..k : id = n + i
    BY <1>1, <1>3 DEF Range
  <2>2. id \in Ids /\ id > n
    BY <1>1, <1>2, <2>1
  <2>3. owner[id] = NoClient /\ owner'[id] = c
    BY <1>1, <1>3, <2>2
  <2>4. Commands1(id) = 0
    BY <2>2, <2>3 DEF Together, OneAtATime
  <2>5. /\ Number(reqs, CmdReqs(id)) \in Nat /\ Number(msgs, CmdMsgs(id)) \in Nat
        /\ Number(reqs, CmdReqs(id)) = 0 <=> ~Has(reqs, CmdReqs(id))
        /\ Number(msgs, CmdMsgs(id)) = 0 <=> ~Has(msgs, CmdMsgs(id))
    BY TypesOf, NumberFacts
  <2>6. Number(reqs, CmdReqs(id)) + Number(msgs, CmdMsgs(id)) = 0
    BY <2>4 DEF Commands1
  <2>7. QED
    BY <2>2, <2>3, <2>5, <2>6
<1>4. \A id \in Ids \ Range(ids) : owner'[id] = owner[id]
  OBVIOUS
<1>5. QED
  BY <1>3, <1>4 DEF Wants

\* A client that waits calls for fences of its own.
LEMMA CallWants ==
  ASSUME Typed, Told, NEW c \in Clients, NEW op \in Operations \ {"add"}, NEW ids \in IdSeqs,
         Range(ids) \cap UnderWay = {}, Range(ids) \subseteq mGeofenceBiDict[c],
         NEW p, Called(p, op, c, ids), owner' = owner
  PROVE  Wants(p, op, c, ids)
<1>1. ASSUME NEW id \in Range(ids)
      PROVE  /\ owner[id] = c /\ owner'[id] = c
             /\ ~Has(reqs, CmdReqs(id)) /\ ~Has(msgs, CmdMsgs(id))
  <2>1. id \in mGeofenceBiDict[c] /\ mGeofenceBiDict[c] \subseteq Ids
    BY DEF Typed, ClientBaseTypeOK
  <2>2. owner[id] = c
    BY <2>1 DEF Told
  <2>3. id \in Ids /\ id \notin UnderWay
    BY <2>1
  <2>4. QED
    BY <2>2, <2>3, NotUnderWay
<1>2. op # "add"
  OBVIOUS
<1>3. \A id \in Ids \ Range(ids) : owner'[id] = owner[id]
  OBVIOUS
<1>4. QED
  BY <1>1, <1>2, <1>3 DEF Wants

\* The calls of clients that wait.
LEMMA ClientTogether ==
  ASSUME Inv, Inv', Told, Together, NumbersHold', Client
  PROVE  Together'
<1>1. Typed /\ Typed' /\ UNCHANGED Elsewhere
  BY DEF Inv, Client, adapter, Elsewhere
<1>2. UNCHANGED <<mGeofences, mGeofenceIds, down, modem>>
  BY <1>1 DEF Elsewhere
<1>3. \A S : Impatient(S) \subseteq {"impatient"}
  BY DEF Impatient
<1>4. "impatient" \notin past'
  BY DEF NumbersHold, NoneOf
<1>5. \A S : Impatient(S) \subseteq past' => S \cap UnderWay = {}
  BY <1>4 DEF Impatient
<1>6. ASSUME NEW c \in Clients, NEW kinds \in Callbacks,
             locAPISetCallbacks(c, kinds, Impatient(Of(c)))
      PROVE  Together'
  <2> DEFINE what == IF "geofence" \in clientData[c] \ kinds
                     THEN Impatient(Of(c)) \cup {"unserved"} ELSE {}
  <2>1. CASE mLocationAPI[c] = "none"
    <3>1. createInstance(c, kinds) /\ UNCHANGED <<owner, reqs>>
      BY <1>6, <2>1 DEF locAPISetCallbacks
    <3>2. \E p : About(p, c) /\ ~Has(p, RemovalsOf(c))
      BY <3>1, CreateAbout
    <3>3. PICK p : About(p, c) /\ ~Has(p, RemovalsOf(c))
      BY <3>2
    <3>4. QED
      BY <1>1, <1>2, <3>1, <3>3, AboutTogether
  <2>2. CASE mLocationAPI[c] # "none"
    <3>1. /\ mLocationAPI[c] = "made" /\ Count(what) /\ updateCallbacks(c, kinds)
          /\ UNCHANGED <<clientBase, reqs>>
      BY <1>6, <2>2 DEF locAPISetCallbacks
    <3>2. c \in DOMAIN clientData /\ LocationApiTypeOK
      BY <1>1, <3>1 DEF Typed
    <3>3. \E p : About(p, c) /\ (Has(p, RemovalsOf(c)) => "geofence" \in clientData[c] \ kinds)
      BY <3>1, <3>2, UpdateAbout
    <3>4. PICK p : About(p, c) /\ (Has(p, RemovalsOf(c)) => "geofence" \in clientData[c] \ kinds)
      BY <3>3
    <3>5. what \subseteq past'
      <4> HIDE DEF what
      <4>1. QED
        BY <3>1 DEF Count
    <3>6. Has(p, RemovalsOf(c)) => Impatient(Of(c)) \subseteq past'
      BY <3>4, <3>5
    <3>7. Has(p, RemovalsOf(c)) => Of(c) \cap UnderWay = {}
      BY <1>5, <3>6
    <3>8. UNCHANGED <<owner, reqs>>
      BY <3>1 DEF clientBase
    <3>9. QED
      BY <1>1, <1>2, <3>4, <3>7, <3>8, AboutTogether
  <2>3. QED
    BY <2>1, <2>2
<1>7. ASSUME NEW c \in Clients, clientDestroy(c, Impatient(Of(c)))
      PROVE  Together'
  <2>1. Count(Impatient(Of(c))) /\ destroy(c) /\ UNCHANGED <<owner, reqs>>
    BY <1>7 DEF clientDestroy
  <2>2. Of(c) \cap UnderWay = {}
    <3>1. Impatient(Of(c)) \subseteq past'
      BY <2>1 DEF Count
    <3>2. QED
      BY <1>5, <3>1
  <2>3. \E p : About(p, c)
    BY <1>1, <2>1, DestroyAbout DEF Typed
  <2>4. PICK p : About(p, c)
    BY <2>3
  <2>5. QED
    BY <1>1, <1>2, <2>1, <2>2, <2>4, AboutTogether
<1>8. ASSUME NEW c \in Clients, NEW k \in 1..MaxFences, NEW o \in Options,
             locAPIAddGeofences(c, [i \in 1..k |-> o])
      PROVE  Together'
  <2>1. /\ UNCHANGED <<gData, msgs, mLocationAPI>>
        /\ UNCHANGED <<reqs, mGeofenceBiDict, owner>> \/ \E ids \in IdSeqs : Adds(c, k, ids)
    BY <1>1, <1>8, AddFacts
  <2>2. CASE UNCHANGED <<reqs, owner>>
    BY <1>2, <2>1, <2>2, SameTogether
  <2>3. ASSUME NEW ids \in IdSeqs, Adds(c, k, ids) PROVE Together'
    <3>1. PICK p : Called(p, "add", c, ids)
      BY <2>3 DEF Adds
    <3>2. Wants(p, "add", c, ids)
      BY <1>1, <2>3, <3>1, AddWants DEF Adds
    <3>3. QED
      BY <1>1, <1>2, <2>1, <3>2, WantsTogether
  <2>4. QED
    BY <2>1, <2>2, <2>3
<1>9. ASSUME NEW c \in Clients, NEW op \in Operations \ {"add"}, NEW ids \in IdSeqs,
             NEW options \in Seq(Options), op = "modify" => Len(options) = Len(ids),
             CallFor(op, c, ids, options, Impatient(Range(ids))),
             mGeofenceBiDict' \in [Clients -> SUBSET Ids]
      PROVE  Together'
  <2>1. /\ \E sessions \in IdSeqs :
             /\ Range(sessions) \subseteq Range(ids) \cap mGeofenceBiDict[c]
             /\ \E p : Called(p, op, c, sessions)
        /\ past' = past \cup Impatient(Range(ids)) \cup Unserved(c)
    BY <1>1, <1>3, <1>9, CallForFacts
  <2>2. PICK sessions \in IdSeqs : /\ Range(sessions) \subseteq Range(ids) \cap mGeofenceBiDict[c]
                                   /\ \E p : Called(p, op, c, sessions)
    BY <2>1
  <2>3. PICK p : Called(p, op, c, sessions)
    BY <2>2
  <2>4. Range(sessions) \cap UnderWay = {}
    <3>1. Range(ids) \cap UnderWay = {}
      BY <1>5, <2>1
    <3>2. QED
      BY <2>2, <3>1
  <2>5. UNCHANGED <<msgs, owner>>
    BY <1>9 DEF CallFor
  <2>6. Range(sessions) \subseteq mGeofenceBiDict[c]
    BY <2>2
  <2>7. Wants(p, op, c, sessions)
    BY <1>1, <2>3, <2>4, <2>5, <2>6, CallWants
  <2>8. QED
    BY <1>1, <1>2, <2>5, <2>7, WantsTogether
<1>10. mGeofenceBiDict \in [Clients -> SUBSET Ids] /\ <<>> \in Seq(Options)
       /\ {"remove", "pause", "resume", "modify"} \subseteq Operations \ {"add"}
  BY <1>1, EmptySeq DEF Typed, ClientBaseTypeOK, Operations
<1>11. ASSUME NEW c \in Clients, NEW ids \in IdSeqs,
              \/ locAPIRemoveGeofences(c, ids, Impatient(Range(ids)))
              \/ locAPIPauseGeofences(c, ids, Impatient(Range(ids)))
              \/ locAPIResumeGeofences(c, ids, Impatient(Range(ids)))
       PROVE  Together'
  <2>1. ASSUME NEW op \in {"remove", "pause", "resume"},
               CallFor(op, c, ids, <<>>, Impatient(Range(ids))),
               mGeofenceBiDict' \in [Clients -> SUBSET Ids]
        PROVE  Together'
    BY <1>9, <1>10, <2>1
  <2>2. CASE locAPIRemoveGeofences(c, ids, Impatient(Range(ids)))
    <3>1. CallFor("remove", c, ids, <<>>, Impatient(Range(ids)))
          /\ mGeofenceBiDict' \in [Clients -> SUBSET Ids]
      BY <1>10, <2>2 DEF locAPIRemoveGeofences
    <3>2. QED
      BY <2>1, <3>1
  <2>3. CASE locAPIPauseGeofences(c, ids, Impatient(Range(ids)))
    <3>1. CallFor("pause", c, ids, <<>>, Impatient(Range(ids)))
          /\ mGeofenceBiDict' \in [Clients -> SUBSET Ids]
      BY <1>10, <2>3 DEF locAPIPauseGeofences
    <3>2. QED
      BY <2>1, <3>1
  <2>4. CASE locAPIResumeGeofences(c, ids, Impatient(Range(ids)))
    <3>1. CallFor("resume", c, ids, <<>>, Impatient(Range(ids)))
          /\ mGeofenceBiDict' \in [Clients -> SUBSET Ids]
      BY <1>10, <2>4 DEF locAPIResumeGeofences
    <3>2. QED
      BY <2>1, <3>1
  <2>5. QED
    BY <1>11, <2>2, <2>3, <2>4
<1>12. ASSUME NEW c \in Clients, NEW ids \in IdSeqs, NEW o \in Options,
              locAPIModifyGeofences(c, ids, [i \in DOMAIN ids |-> o], Impatient(Range(ids)))
       PROVE  Together'
  <2> DEFINE options == [i \in DOMAIN ids |-> o]
  <2>1. CallFor("modify", c, ids, options, Impatient(Range(ids)))
        /\ mGeofenceBiDict' \in [Clients -> SUBSET Ids]
    BY <1>10, <1>12 DEF locAPIModifyGeofences
  <2>2. options \in Seq(Options) /\ Len(options) = Len(ids)
    <3>1. Len(ids) \in 1..MaxFences /\ DOMAIN ids = 1..Len(ids)
      BY SelectedFacts
    <3>2. Len(ids) \in Nat /\ options \in [1..Len(ids) -> Options]
      BY <3>1, ConstantFacts
    <3> HIDE DEF options
    <3>3. QED
      BY <3>2, FunctionIsSeq
  <2> HIDE DEF options
  <2>3. QED
    BY <1>9, <1>10, <2>1, <2>2
<1>13. QED
  BY <1>6, <1>7, <1>8, <1>11, <1>12 DEF Client

-----------------------------------------------------------------------------
(* The history.                                                            *)

\* What is told of clients is not that the modem is up.
LEMMA AboutNoUps ==
  ASSUME Typed, NEW c \in Clients, NEW p, About(p, c)
  PROVE  Has(msgs', Ups) => Has(msgs, Ups)
<1>1. p \in Seq(ClientMsgs) /\ Joined(msgs', msgs, p)
  BY DEF About
<1>2. Has(msgs', Ups) <=> Has(msgs, Ups) \/ Has(p, Ups)
  BY <1>1, ListTyped
<1>3. ~Has(p, Ups)
  <2>1. \A x \in ClientMsgs : x \notin Ups
    BY DEF ClientMsgs, Ups, EngineUp
  <2>2. QED
    BY <1>1, <2>1, NoneNumber
<1>4. QED
  BY <1>2, <1>3

\* What a client forgets.
Forgets(c, S) == mGeofenceBiDict' = [mGeofenceBiDict EXCEPT ![c] = @ \ S]

\* What the calls of clients do to the history and to the fences of clients.
LEMMA ClientCalls ==
  ASSUME Inv, Client
  PROVE  /\ past \subseteq past' /\ (Has(msgs', Ups) => Has(msgs, Ups))
         /\ UNCHANGED <<down, mSystemPowerState>>
         /\ \/ UNCHANGED <<owner, mGeofenceBiDict>>
            \/ UNCHANGED owner /\ \E c \in Clients : \E S : Forgets(c, S)
            \/ \E c \in Clients, k \in 1..MaxFences, ids \in IdSeqs : Adds(c, k, ids)
<1>1. Typed /\ UNCHANGED Elsewhere
  BY DEF Inv, Client, adapter, Elsewhere
<1>2. UNCHANGED <<down, mSystemPowerState>>
  BY <1>1 DEF Elsewhere
<1> DEFINE Result == /\ past \subseteq past' /\ (Has(msgs', Ups) => Has(msgs, Ups))
                     /\ \/ UNCHANGED <<owner, mGeofenceBiDict>>
                        \/ UNCHANGED owner /\ \E c \in Clients : \E S : Forgets(c, S)
                        \/ \E c \in Clients, k \in 1..MaxFences, ids \in IdSeqs : Adds(c, k, ids)
<1>3. ASSUME NEW c \in Clients, NEW kinds \in Callbacks,
             locAPISetCallbacks(c, kinds, Impatient(Of(c)))
      PROVE  Result
  <2>1. CASE mLocationAPI[c] = "none"
    <3>1. createInstance(c, kinds) /\ UNCHANGED <<owner, mGeofenceBiDict, past>>
      BY <1>3, <2>1 DEF locAPISetCallbacks
    <3>2. Has(msgs', Ups) => Has(msgs, Ups)
      BY <1>1, <3>1, CreateAbout, AboutNoUps
    <3>3. QED
      BY <3>1, <3>2
  <2>2. CASE mLocationAPI[c] # "none"
    <3>1. /\ mLocationAPI[c] = "made" /\ (\E what : Count(what)) /\ updateCallbacks(c, kinds)
          /\ UNCHANGED <<owner, mGeofenceBiDict>>
      BY <1>3, <2>2 DEF locAPISetCallbacks, clientBase
    <3>2. c \in DOMAIN clientData /\ LocationApiTypeOK
      BY <1>1, <3>1 DEF Typed
    <3>3. Has(msgs', Ups) => Has(msgs, Ups)
      BY <1>1, <3>1, <3>2, UpdateAbout, AboutNoUps
    <3>4. past \subseteq past'
      BY <3>1 DEF Count
    <3>5. QED
      BY <3>1, <3>3, <3>4
  <2>3. QED
    BY <2>1, <2>2
<1>4. ASSUME NEW c \in Clients, clientDestroy(c, Impatient(Of(c)))
      PROVE  Result
  <2>1. Count(Impatient(Of(c))) /\ destroy(c) /\ UNCHANGED <<owner, mGeofenceBiDict>>
    BY <1>4 DEF clientDestroy
  <2>2. Has(msgs', Ups) => Has(msgs, Ups)
    BY <1>1, <2>1, DestroyAbout, AboutNoUps DEF Typed
  <2>3. past \subseteq past'
    BY <2>1 DEF Count
  <2>4. QED
    BY <2>1, <2>2, <2>3
<1>5. ASSUME NEW c \in Clients, NEW k \in 1..MaxFences, NEW o \in Options,
             locAPIAddGeofences(c, [i \in 1..k |-> o])
      PROVE  Result
  <2>1. /\ UNCHANGED <<gData, msgs, mLocationAPI>> /\ past' = past \cup Unserved(c)
        /\ UNCHANGED <<reqs, mGeofenceBiDict, owner>> \/ \E ids \in IdSeqs : Adds(c, k, ids)
    BY <1>1, <1>5, AddFacts
  <2>2. QED
    BY <2>1
<1>6. ASSUME NEW c \in Clients, NEW op, NEW ids, NEW options, NEW what,
             CallFor(op, c, ids, options, what),
             UNCHANGED mGeofenceBiDict \/ Forgets(c, Range(ids))
      PROVE  Result
  <2>1. msgs' = msgs /\ owner' = owner /\ past \subseteq past'
    BY <1>6 DEF CallFor, Count
  <2>2. Has(msgs', Ups) => Has(msgs, Ups)
    BY <2>1
  <2>3. CASE UNCHANGED mGeofenceBiDict
    BY <2>1, <2>2, <2>3
  <2>4. CASE Forgets(c, Range(ids))
    <3>1. \E d \in Clients : \E S : Forgets(d, S)
      BY <2>4
    <3>2. QED
      BY <2>1, <2>2, <3>1
  <2>5. QED
    BY <1>6, <2>3, <2>4
<1>7. ASSUME NEW c \in Clients, NEW ids \in IdSeqs,
             \/ locAPIRemoveGeofences(c, ids, Impatient(Range(ids)))
             \/ locAPIPauseGeofences(c, ids, Impatient(Range(ids)))
             \/ locAPIResumeGeofences(c, ids, Impatient(Range(ids)))
             \/ \E o \in Options :
                  locAPIModifyGeofences(c, ids, [i \in DOMAIN ids |-> o], Impatient(Range(ids)))
      PROVE  Result
  <2>1. \E op, options : CallFor(op, c, ids, options, Impatient(Range(ids)))
    BY <1>7 DEF locAPIRemoveGeofences, locAPIPauseGeofences, locAPIResumeGeofences,
                locAPIModifyGeofences
  <2>2. UNCHANGED mGeofenceBiDict \/ Forgets(c, Range(ids))
    BY <1>7 DEF locAPIRemoveGeofences, locAPIPauseGeofences, locAPIResumeGeofences,
                locAPIModifyGeofences, Forgets
  <2> HIDE DEF Result
  <2>3. QED
    BY <1>6, <2>1, <2>2
<1>8. Result
  <2> HIDE DEF Result
  <2>1. QED
    BY <1>3, <1>4, <1>5, <1>7 DEF Client
<1>9. QED
  BY <1>2, <1>8

\* So the fences are those of the clients that added them, and given in order.
LEMMA ClientTold ==
  ASSUME Inv, Told, Client
  PROVE  Told'
<1>1. /\ past \subseteq past' /\ (Has(msgs', Ups) => Has(msgs, Ups))
      /\ UNCHANGED <<down, mSystemPowerState>>
      /\ \/ UNCHANGED <<owner, mGeofenceBiDict>>
         \/ UNCHANGED owner /\ \E c \in Clients : \E S : Forgets(c, S)
         \/ \E c \in Clients, k \in 1..MaxFences, ids \in IdSeqs : Adds(c, k, ids)
  BY ClientCalls
<1>2. (down' \/ Has(msgs', Ups) => "crashed" \in past')
      /\ (mSystemPowerState' = "suspend" => "suspended" \in past')
  BY <1>1 DEF Told
<1>3. /\ Typed /\ mGeofenceBiDict \in [Clients -> SUBSET Ids]
      /\ owner \in [Ids -> Clients \cup {NoClient}] /\ NoClient \notin Clients
  BY ConstantFacts, ClientBaseAssumption DEF Inv, Typed, ClientBaseTypeOK
<1> DEFINE InLine(w)  == \E n \in 0..MaxFences : \A id \in Ids : w[id] = NoClient <=> id > n
           Own(b, w)  == \A c \in Clients : \A id \in b[c] : w[id] = c
<1>4. InLine(owner) /\ Own(mGeofenceBiDict, owner)
  BY DEF Told
<1>5. CASE UNCHANGED <<owner, mGeofenceBiDict>>
  BY <1>2, <1>4, <1>5 DEF Told
<1>6. ASSUME UNCHANGED owner, NEW c \in Clients, NEW S, Forgets(c, S)
      PROVE  Told'
  <2>1. \A d \in Clients : mGeofenceBiDict'[d] \subseteq mGeofenceBiDict[d]
    BY <1>3, <1>6 DEF Forgets
  <2>2. Own(mGeofenceBiDict', owner')
    BY <1>4, <1>6, <2>1
  <2>3. InLine(owner')
    BY <1>4, <1>6
  <2>4. QED
    BY <1>2, <2>2, <2>3 DEF Told
<1>7. ASSUME NEW c \in Clients, NEW k \in 1..MaxFences, NEW ids \in IdSeqs, Adds(c, k, ids)
      PROVE  Told'
  <2>1. /\ k <= Cardinality(Free)
        /\ ids = [i \in 1..k |-> MaxFences - Cardinality(Free) + i]
        /\ mGeofenceBiDict' = [mGeofenceBiDict EXCEPT ![c] = @ \cup Range(ids)]
        /\ owner' = [id \in Ids |-> IF id \in Range(ids) THEN c ELSE owner[id]]
    BY <1>7 DEF Adds
  <2>2. PICK n \in 0..MaxFences : /\ n + k \in 0..MaxFences /\ MaxFences - Cardinality(Free) = n
                                  /\ \A id \in Ids : owner[id] = NoClient <=> id > n
    BY <1>3, <2>1, FreeFences
  <2>3. MaxFences \in Nat /\ n \in Nat /\ k \in Nat /\ Ids = 1..MaxFences
    BY ConstantFacts
  <2>4. ids = [i \in 1..k |-> n + i]
    BY <2>1, <2>2
  <2>5. ASSUME NEW id \in Ids PROVE id \in Range(ids) <=> id > n /\ id <= n + k
    <3>1. id \in Range(ids) <=> \E i \in 1..k : id = n + i
      BY <2>4 DEF Range
    <3>2. id > n /\ id <= n + k => id - n \in 1..k /\ id = n + (id - n)
      BY <2>3
    <3>3. (\E i \in 1..k : id = n + i) => id > n /\ id <= n + k
      BY <2>3
    <3>4. QED
      BY <3>1, <3>2, <3>3
  <2>6. \A id \in Ids : owner'[id] = IF id \in Range(ids) THEN c ELSE owner[id]
    BY <2>1
  <2>7. ASSUME NEW id \in Ids PROVE owner'[id] = NoClient <=> id > n + k
    <3>1. id > n + k => id > n
      BY <2>3
    <3>2. id \notin Range(ids) /\ id > n => id > n + k
      BY <2>3, <2>5
    <3>3. c # NoClient
      BY <1>3
    <3>4. id \in Range(ids) => ~(id > n + k)
      BY <2>3, <2>5
    <3>5. CASE id \in Range(ids)
      BY <2>6, <3>3, <3>4, <3>5
    <3>6. CASE id \notin Range(ids)
      BY <2>2, <2>6, <3>1, <3>2, <3>6
    <3>7. QED
      BY <3>5, <3>6
  <2>8. InLine(owner')
    BY <2>2, <2>7
  <2>9. \A d \in Clients : mGeofenceBiDict'[d] \subseteq mGeofenceBiDict[d] \cup
                              (IF d = c THEN Range(ids) ELSE {})
    BY <1>3, <2>1
  <2>10. ASSUME NEW d \in Clients, NEW id \in mGeofenceBiDict'[d] PROVE owner'[id] = d
    <3>1. CASE id \in mGeofenceBiDict[d]
      <4>1. id \in Ids /\ owner[id] = d /\ d # NoClient
        BY <1>3, <1>4, <3>1
      <4>2. ~(id > n)
        BY <2>2, <4>1
      <4>3. id \notin Range(ids)
        BY <2>5, <4>1, <4>2
      <4>4. QED
        BY <2>6, <4>1, <4>3
    <3>2. CASE id \notin mGeofenceBiDict[d]
      <4>1. d = c /\ id \in Range(ids)
        BY <2>9, <2>10, <3>2
      <4>2. Range(ids) \subseteq Ids
        BY SelectedFacts, ElementOfSeq DEF Range
      <4>3. QED
        BY <2>6, <4>1, <4>2
    <3>3. QED
      BY <3>1, <3>2
  <2>11. Own(mGeofenceBiDict', owner')
    BY <2>10
  <2>12. QED
    BY <1>2, <2>8, <2>11 DEF Told
<1>8. QED
  BY <1>1, <1>5, <1>6, <1>7

\* What a step of the adapter, of LocApi or of the modem does to the history.
Tells ==
  /\ UNCHANGED <<owner, mGeofenceBiDict>> /\ past \subseteq past'
  /\ down' \/ Has(msgs', Ups) => down \/ Has(msgs, Ups) \/ "crashed" \in past'
  /\ mSystemPowerState' = "suspend" => mSystemPowerState = "suspend" \/ "suspended" \in past'

\* After it the history says what it is to say.
LEMMA TellsTold ==
  ASSUME Told, Tells
  PROVE  Told'
<1>1. /\ down' \/ Has(msgs', Ups) => "crashed" \in past'
      /\ mSystemPowerState' = "suspend" => "suspended" \in past'
  BY DEF Told, Tells
<1>2. UNCHANGED <<owner, mGeofenceBiDict>>
  BY DEF Tells
<1>3. QED
  BY <1>1, <1>2 DEF Told

\* A message that is handled is gone.
LEMMA HandledTells ==
  ASSUME Typed, HandleMsg
  PROVE  Tells
<1>1. /\ msgs # <<>> /\ msgs' = Tail(msgs)
      /\ UNCHANGED <<down, mSystemPowerState>> /\ past \subseteq past'
  <2>1. msgs # <<>> /\ msgs' = Tail(msgs)
    BY DEF HandleMsg, MsgAddClient, MsgRemoveClient, InTurn, Done, Stopped, Restored,
           PausedOrResumed, MsgSSREvent, Take
  <2>2. UNCHANGED <<down, mSystemPowerState>>
    BY DEF HandleMsg, MsgAddClient, MsgRemoveClient, InTurn, Done, Stopped, Restored,
           PausedOrResumed, MsgSSREvent, adapter, locApi
  <2>3. past \subseteq past'
    BY DEF HandleMsg, MsgAddClient, MsgRemoveClient, InTurn, Done, Stopped, Restored,
           PausedOrResumed, MsgSSREvent, history
  <2>4. QED
    BY <2>1, <2>2, <2>3
<1>2. Has(msgs', Ups) => Has(msgs, Ups)
  BY <1>1, TypesOf, TailHas
<1>3. UNCHANGED <<owner, mGeofenceBiDict>>
  <2>1. \/ UNCHANGED clientBase
        \/ \E m, i : reportResponse(m, i)
    BY DEF HandleMsg, MsgAddClient, MsgRemoveClient, InTurn, Done, Stopped, Restored,
           PausedOrResumed, MsgSSREvent
  <2>2. QED
    BY <2>1 DEF clientBase, reportResponse
<1>4. QED
  BY <1>1, <1>2, <1>3 DEF Tells

\* What else is appended to the messages is not that the modem is up.
LEMMA UpsAppended ==
  ASSUME Typed, NEW m, m \notin Ups, msgs' = Append(msgs, m)
  PROVE  Has(msgs', Ups) => Has(msgs, Ups)
<1> DEFINE S == Msgs \cup {m}
<1>1. msgs \in Seq(Msgs) /\ Msgs \subseteq S /\ m \in S
  BY TypesOf
<1> HIDE DEF S
<1>2. msgs \in Seq(S) /\ Extended(msgs', msgs, m)
  BY <1>1, SeqMonotonic DEF Extended
<1>3. QED
  BY <1>1, <1>2, AppendHas

\* Only a modem that was down comes up.
LEMMA LocApiTells ==
  ASSUME Typed, Told, Reopening, TakeTurn \/ CarryOut \/ Open \/ handleEngineDownEvent
  PROVE  Tells
<1>0. Typed
  OBVIOUS
<1>1. UNCHANGED <<owner, mGeofenceBiDict, mSystemPowerState>>
  BY DEF TakeTurn, CarryOut, Open, handleEngineDownEvent, clientBase, adapter
<1>2. CASE TakeTurn
  <2>1. /\ msgs' = Append(msgs, [kind |-> "turn", req |-> Head(reqs)])
        /\ UNCHANGED <<down, past>>
    BY <1>2 DEF TakeTurn, history
  <2>2. [kind |-> "turn", req |-> Head(reqs)] \notin Ups
    BY DEF Ups, EngineUp
  <2>3. Has(msgs', Ups) => Has(msgs, Ups)
    BY <1>0, <2>1, <2>2, UpsAppended
  <2>4. QED
    BY <1>1, <2>1, <2>3 DEF Tells
<1>3. CASE CarryOut
  <2>1. past \subseteq past' /\ down' = down
    BY <1>3 DEF CarryOut
  <2>2. msgs' = msgs \/ \E m : msgs' = Append(msgs, m) /\ m \notin Ups
    <3>1. PICK r : msgs' = IF Head(reqs).then = "nothing" THEN msgs
                           ELSE Append(msgs, [kind |-> Head(reqs).then, req |-> Head(reqs),
                                              ok |-> r.ok, hwId |-> r.hwId])
      BY <1>3 DEF CarryOut
    <3>2. [kind |-> Head(reqs).then, req |-> Head(reqs), ok |-> r.ok, hwId |-> r.hwId] \notin Ups
      BY DEF Ups, EngineUp
    <3>3. QED
      BY <3>1, <3>2
  <2>3. Has(msgs', Ups) => Has(msgs, Ups)
    BY <1>0, <2>2, UpsAppended
  <2>4. QED
    BY <1>1, <2>1, <2>3 DEF Tells
<1>4. CASE Open
  <2>1. past' = past /\ reqs # <<>> /\ Head(reqs).call = "open"
    BY <1>4 DEF Open, history
  <2>2. Head(reqs) \in Opens /\ Has(reqs, Opens)
    <3>1. Head(reqs) \in Turnings \cup Made
      BY <2>1, TypesOf, HeadFirst
    <3>2. Head(reqs) \in Opens
      BY <2>1, <3>1, MadeCases DEF Turnings, Turns
    <3>3. QED
      BY <2>1, <3>2, TypesOf, TailHas
  <2>3. down
    BY <2>2 DEF Reopening
  <2>4. QED
    BY <1>1, <2>1, <2>3 DEF Tells
<1>5. CASE handleEngineDownEvent
  <2>1. "crashed" \in past' /\ past \subseteq past'
    BY <1>5 DEF handleEngineDownEvent, Count
  <2>2. QED
    BY <1>1, <2>1 DEF Tells
<1>6. QED
  BY <1>2, <1>3, <1>4, <1>5

\* Nothing that has happened is forgotten.
LEMMA PastGrows ==
  ASSUME Inv, [Next]_vars
  PROVE  past \subseteq past'
<1>1. CASE Client
  BY <1>1, ClientCalls
<1>2. CASE HandleMsg
  BY <1>2, HandledTells DEF Inv, Tells
<1>3. CASE TakeTurn \/ CarryOut \/ Open \/ handleEngineDownEvent
  BY <1>3 DEF TakeTurn, CarryOut, Open, handleEngineDownEvent, Count, history
<1>4. CASE \E state \in {"suspend", "resume"} : updateSystemPowerState(state)
  BY <1>4 DEF updateSystemPowerState, Count
<1>5. CASE UNCHANGED vars
  BY <1>5 DEF vars, history
<1>6. QED
  BY <1>1, <1>2, <1>3, <1>4, <1>5 DEF Next

\* What the history says is kept.
LEMMA NextTold ==
  ASSUME Inv, Told, Together, [Next]_vars
  PROVE  Told'
<1>1. Typed /\ Reopening
  BY DEF Inv, Together
<1>2. CASE Client
  BY <1>2, ClientTold
<1>3. CASE HandleMsg
  BY <1>1, <1>3, HandledTells, TellsTold
<1>4. CASE TakeTurn \/ CarryOut \/ Open \/ handleEngineDownEvent
  BY <1>1, <1>4, LocApiTells, TellsTold
<1>5. ASSUME NEW state \in {"suspend", "resume"}, updateSystemPowerState(state)
      PROVE  Told'
  <2>1. /\ UNCHANGED <<msgs, down, owner, mGeofenceBiDict>>
        /\ past \subseteq past' /\ "suspended" \in past'
    BY <1>5 DEF updateSystemPowerState, Count, clientBase
  <2>2. Tells
    BY <2>1 DEF Tells
  <2>3. QED
    BY <2>2, TellsTold
<1>6. CASE UNCHANGED vars
  <2>1. UNCHANGED <<msgs, down, owner, mGeofenceBiDict, past, mSystemPowerState>>
    BY <1>6 DEF vars, clientBase, adapter, locApi, history
  <2>2. Tells
    BY <2>1 DEF Tells
  <2>3. QED
    BY <2>2, TellsTold
<1>7. QED
  BY <1>2, <1>3, <1>4, <1>5, <1>6 DEF Next

\* Every step that a careful environment takes keeps the adapter and the modem together.
LEMMA NextTogether ==
  ASSUME Inv, Inv', Told, Together, NumbersHold', [Next]_vars
  PROVE  Together'
<1>1. Typed /\ Typed'
  BY DEF Inv
<1>2. CASE Client
  BY <1>2, ClientTogether
<1>3. CASE MsgAddClient
  BY <1>1, <1>3, AddClientTogether
<1>4. CASE MsgRemoveClient
  BY <1>1, <1>4, RemoveClientTogether
<1>5. CASE InTurn
  BY <1>1, <1>5, InTurnTogether
<1>6. CASE Done
  BY <1>1, <1>6, DoneTogether
<1>7. CASE Stopped
  BY <1>1, <1>7, StoppedTogether
<1>8. CASE Restored
  BY <1>1, <1>8, RestoredTogether
<1>9. CASE PausedOrResumed
  BY <1>1, <1>9, PausedTogether
<1>10. CASE MsgSSREvent
  BY <1>1, <1>10, SSREventTogether
<1>11. CASE TakeTurn
  BY <1>1, <1>11, TakeTurnTogether
<1>12. CASE CarryOut
  BY <1>1, <1>12, CarryOutTogether
<1>13. CASE Open
  BY <1>1, <1>13, OpenTogether
<1>14. CASE handleEngineDownEvent
  BY <1>1, <1>14, EngineDownTogether
<1>15. ASSUME NEW state \in {"suspend", "resume"}, updateSystemPowerState(state)
       PROVE  Together'
  BY <1>1, <1>15, PowerTogether
<1>16. CASE UNCHANGED vars
  <2>1. UNCHANGED <<msgs, reqs, mGeofences, mGeofenceIds, owner, down, modem>>
    BY <1>16 DEF vars, clientBase, adapter, locApi
  <2>2. QED
    BY <2>1, SameTogether
<1>17. QED
  BY <1>2, <1>3, <1>4, <1>5, <1>6, <1>7, <1>8, <1>9, <1>10, <1>11, <1>12, <1>13, <1>14, <1>15, <1>16
     DEF Next, HandleMsg

\* At first neither has a fence.
LEMMA InitTogether ==
  ASSUME Init
  PROVE  Told /\ Together
<1>1. /\ msgs = <<>> /\ reqs = <<>> /\ down = FALSE /\ mSystemPowerState = "unknown"
      /\ mGeofences = [h \in HwIds |-> NoFence] /\ modem = [h \in HwIds |-> NoFence]
      /\ mGeofenceIds = [id \in Ids |-> NoHwId]
      /\ owner = [id \in Ids |-> NoClient] /\ mGeofenceBiDict = [c \in Clients |-> {}]
  BY DEF Init, LocationApiInit, ClientBaseInit
<1>2. \A V, W : /\ ~Has(<<>>, V) /\ ~HasThen(<<>>, V, W) /\ Number(<<>>, V) = 0
  BY ShortHas, ShortNumber
<1>3. /\ \A h \in HwIds : mGeofences[h] = NoFence /\ mGeofences[h].id = 0
      /\ \A id \in Ids : /\ mGeofenceIds[id] = NoHwId /\ owner[id] = NoClient
                         /\ id \in Nat /\ id > 0
      /\ MaxFences \in Nat /\ NoFence.id = 0
  BY <1>1, ConstantFacts DEF NoFence
<1>4. Told
  <2>1. \E n \in 0..MaxFences : \A id \in Ids : owner[id] = NoClient <=> id > n
    <3>1. 0 \in 0..MaxFences
      BY <1>3
    <3>2. \A id \in Ids : owner[id] = NoClient <=> id > 0
      BY <1>3
    <3>3. QED
      BY <3>1, <3>2
  <2>2. \A c \in Clients : \A id \in mGeofenceBiDict[c] : owner[id] = c
    BY <1>1
  <2>3. ~(down \/ Has(msgs, Ups)) /\ mSystemPowerState # "suspend"
    BY <1>1, <1>2
  <2>4. QED
    BY <2>1, <2>2, <2>3 DEF Told
<1>5. ASSUME NEW id \in Ids PROVE OneAtATime(id) /\ Leaving(id)
  <2>1. Commands1(id) = 0 /\ Additions(id) = 0
    BY <1>1, <1>2 DEF Commands1, Additions
  <2>2. Lacks(mGeofences, id)
    BY <1>3 DEF Lacks
  <2>3. OneAtATime(id)
    BY <2>1, <2>2 DEF OneAtATime
  <2>4. Leaving(id)
    BY <1>1, <1>2 DEF Leaving
  <2>5. QED
    BY <2>3, <2>4
<1>6. ASSUME NEW h \in HwIds PROVE Forgotten(h) /\ Number(reqs, StopsOf(h)) <= 1
  BY <1>1, <1>2, <1>3 DEF Forgotten
<1>7. MapsFit
  BY <1>3 DEF MapsFit, HasNumbers, Unique
<1>8. Reopening
  <2>1. ~Has(reqs, Opens) /\ Number(reqs, Opens) <= 1 /\ ~HasThen(reqs, Opens, ByNumber) /\ ~down
    BY <1>1, <1>2
  <2>2. QED
    BY <2>1 DEF Reopening
<1>9. Synced
  <2> DEFINE F == [j \in 0..0 |-> mGeofences]
             N == [j \in 0..0 |-> mGeofenceIds]
  <2>1. Len(msgs) = 0 /\ DOMAIN reqs = {} /\ 1..0 = {}
    BY <1>1
  <2>2. /\ mGeofences \in [HwIds -> Fences \cup {NoFence}]
        /\ mGeofenceIds \in [Ids -> HwIds \cup {NoHwId}]
    BY <1>1
  <2>3. /\ F \in [0..Len(msgs) -> [HwIds -> Fences \cup {NoFence}]]
        /\ N \in [0..Len(msgs) -> [Ids -> HwIds \cup {NoHwId}]]
        /\ F[0] = mGeofences /\ N[0] = mGeofenceIds /\ F[Len(msgs)] = mGeofences
    BY <2>1, <2>2
  <2>4. Plainly(mGeofences) = mGeofences /\ Plainly(modem) = mGeofences
    <3>1. Plainly([h \in HwIds |-> NoFence]) = [h \in HwIds |-> NoFence]
      BY DEF Plainly, Plain
    <3>2. QED
      BY <1>1, <3>1
  <2> HIDE DEF F, N
  <2>5. Leads(F, N, msgs, owner) /\ Awaits(F, N, msgs, reqs)
    BY <2>1, <2>3 DEF Leads, Awaits
  <2>6. \E G, K : /\ Leads(G, K, msgs, owner) /\ Awaits(G, K, msgs, reqs)
                  /\ G[0] = Plainly(mGeofences) /\ K[0] = mGeofenceIds
                  /\ ~down => G[Len(msgs)] = Plainly(modem)
    BY <2>3, <2>4, <2>5
  <2>7. QED
    BY <1>1, <2>6 DEF Synced
<1>10. QED
  BY <1>4, <1>5, <1>6, <1>7, <1>8, <1>9 DEF Together

\* When nothing is on its way the adapter has the fences of the modem.
LEMMA SettledTogether ==
  ASSUME Typed, Together, Settled
  PROVE  /\ \A h \in HwIds :
              /\ modem[h] = NoFence <=> mGeofences[h] = NoFence
              /\ modem[h] # NoFence => /\ modem[h].id = mGeofences[h].id
                                       /\ modem[h].options = mGeofences[h].options
              /\ mGeofences[h] # NoFence => mGeofenceIds[mGeofences[h].id] = h
         /\ \A id \in Ids : mGeofenceIds[id] # NoHwId => mGeofences[mGeofenceIds[id]].id = id
<1>1. reqs = <<>> /\ msgs = <<>> /\ ~down /\ Len(msgs) = 0
  BY DEF Settled
<1>2. Plainly(mGeofences) = Plainly(modem)
  BY <1>1 DEF Together, Synced
<1>3. /\ mGeofences \in [HwIds -> Fences \cup {NoFence}]
      /\ modem \in [HwIds -> Fences \cup {NoFence}]
      /\ mGeofenceIds \in [Ids -> HwIds \cup {NoHwId}]
  BY TypesOf
<1>4. ASSUME NEW h \in HwIds
      PROVE  /\ modem[h] = NoFence <=> mGeofences[h] = NoFence
             /\ modem[h] # NoFence => /\ modem[h].id = mGeofences[h].id
                                      /\ modem[h].options = mGeofences[h].options
  <2> DEFINE f == mGeofences[h]
             g == modem[h]
  <2>1. f \in Fences \cup {NoFence} /\ g \in Fences \cup {NoFence}
    BY <1>3
  <2>2. Plain(f) = Plain(g)
    <3>1. Plainly(mGeofences)[h] = Plain(mGeofences[h]) /\ Plainly(modem)[h] = Plain(modem[h])
      BY DEF Plainly
    <3>2. QED
      BY <1>2, <3>1
  <2> HIDE DEF f, g
  <2>3. /\ Plain(f) = NoFence <=> f = NoFence
        /\ Plain(f).id = f.id
        /\ f \in Fences => Plain(f).options = f.options
    BY <2>1, PlainFacts
  <2>4. /\ Plain(g) = NoFence <=> g = NoFence
        /\ Plain(g).id = g.id
        /\ g \in Fences => Plain(g).options = g.options
    BY <2>1, PlainFacts
  <2>5. g = NoFence <=> f = NoFence
    BY <2>2, <2>3, <2>4
  <2>6. g # NoFence => g.id = f.id /\ g.options = f.options
    BY <2>1, <2>2, <2>3, <2>4, <2>5
  <2>7. QED
    BY <2>5, <2>6 DEF f, g
<1>5. HasNumbers(mGeofences, mGeofenceIds) /\ Unique(mGeofences)
  BY DEF Together, MapsFit
<1>6. ASSUME NEW h \in HwIds, mGeofences[h] # NoFence
      PROVE  mGeofenceIds[mGeofences[h].id] = h
  <2>1. mGeofences[h] \in Fences /\ mGeofences[h].id \in Ids
    BY <1>3, <1>6 DEF Fences
  <2>2. mGeofenceIds[mGeofences[h].id] # NoHwId
    BY <1>1, <1>6, ShortHas DEF Together, Forgotten
  <2>3. PICK x \in HwIds : mGeofenceIds[mGeofences[h].id] = x
    BY <1>3, <2>1, <2>2
  <2>4. mGeofences[x].id = mGeofences[h].id
    BY <1>5, <2>1, <2>2, <2>3 DEF HasNumbers
  <2>5. h = x
    BY <1>5, <1>6, <2>4 DEF Unique
  <2>6. QED
    BY <2>3, <2>5
<1>7. \A id \in Ids : mGeofenceIds[id] # NoHwId => mGeofences[mGeofenceIds[id]].id = id
  BY <1>5 DEF HasNumbers
<1>8. QED
  BY <1>4, <1>6, <1>7

\* Clients that wait, and a system that either crashes or suspends, keep the two together.
Kept == NumbersHold => Told /\ Together

\* The invariant always holds.
LEMMA FencesInvariant == Spec => [](Inv /\ Kept)
<1>1. Init => Inv /\ Kept
  BY InitKeeps, InitTogether DEF Kept
<1>2. Inv /\ Kept /\ [Next]_vars => (Inv /\ Kept)'
  <2> SUFFICES ASSUME Inv, Kept, [Next]_vars PROVE (Inv /\ Kept)'
    OBVIOUS
  <2>1. Inv'
    BY NextKeeps
  <2>2. NumbersHold' => NumbersHold
    <3>1. past \subseteq past'
      BY PastGrows
    <3>2. QED
      BY <3>1 DEF NumbersHold, NoneOf
  <2>3. ASSUME NumbersHold' PROVE Told' /\ Together'
    <3>1. Told /\ Together
      BY <2>2, <2>3 DEF Kept
    <3>2. QED
      BY <2>1, <2>3, <3>1, NextTold, NextTogether
  <2>4. Kept'
    BY <2>3 DEF Kept
  <2>5. QED
    BY <2>1, <2>4
<1>3. QED
  BY <1>1, <1>2, PTL DEF Spec

\* When nothing is on its way the adapter has exactly the fences of the modem, with
\* their options, and its maps are inverse to each other: so it is after requests that
\* fail, clients that leave (GeofenceAdapter.cpp:87-116) and any number of crashes
\* (183-218), when clients wait for the answers for a fence before they name it again,
\* no crash is beside a suspension and no request is by a number of a crashed modem.
THEOREM ModemCorrect == Spec => []ModemHasFences
<1>1. Inv /\ Kept => ModemHasFences
  <2> SUFFICES ASSUME Inv, Kept, Settled, NumbersHold PROVE ModemHasFences
    BY DEF ModemHasFences
  <2>1. Typed /\ Together
    BY DEF Inv, Kept
  <2>2. QED
    BY <2>1, SettledTogether DEF ModemHasFences
<1>2. QED
  BY <1>1, FencesInvariant, PTL
=============================================================================
