------------------------- MODULE GnssTrackingProofs -------------------------
(***************************************************************************)
(* For any number of clients, sessions, calls and events, and any options: *)
(* the types of GnssTracking are kept and no call is answered twice; and,  *)
(* for clients that wait for responses and a modem with distance-based     *)
(* tracking, the modem serves the sessions of the maps when all is quiet,  *)
(* and without events it serves no other.                                  *)
(***************************************************************************)
EXTENDS GnssTracking, SequenceTheorems, FiniteSetTheorems, WellFoundedInduction, TLAPS

-----------------------------------------------------------------------------
(* What the queues hold, in terms of the sets of their elements.           *)

Has(q, W)        == \E i \in DOMAIN q : q[i] \in W
HasThen(q, V, W) == \E i, j \in DOMAIN q : i < j /\ q[i] \in V /\ q[j] \in W
EndsIn(q, V, W)  == \E i \in DOMAIN q : q[i] \in V /\ \A j \in DOMAIN q : i < j => q[j] \notin W
Count(q, W)      == Cardinality({i \in DOMAIN q : q[i] \in W})

\* Options of a client, and those of distance-based sessions.
Given    == [interval : Nat \ {0}, power : Nat, quality : Nat, distance : BOOLEAN]
Distance == {o \in Given : o.distance}
SessionMaps == [Sessions -> Given \cup {NoOptions}]

\* The requests that are made, and what can be in the adapter's queues.
Made ==
  {r \in Requests :
     \/ r.call = "open" /\ r.then = "nothing"
     \/ /\ r.call = "start" /\ r.options \in Given
        /\ \/ r.then = "nothing"
           \/ r.then = "started" /\ r.session \in Sessions
           \/ /\ r.then = "updated" /\ r.session \in Sessions /\ r.old \in Given
              /\ DbtSupported => ~r.old.distance
     \/ /\ r.call = "stop" /\ r.options = NoOptions
        /\ r.then = "nothing" \/ (r.then = "respond" /\ r.session \in Sessions)
     \/ /\ r.call = "dstart" /\ r.session \in Sessions /\ r.options \in Given
        /\ r.then \in {"nothing", "started"} \/ (r.then = "dupdated" /\ r.options.distance)
     \/ /\ r.call = "dstop" /\ r.session \in Sessions
        /\ \/ r.then \in {"stopped", "removed"}
           \/ r.then = "switched" /\ r.options \in Given /\ ~r.options.distance
           \/ r.then = "dstopped" /\ r.options \in Distance}
Waiting == [kind : {"start", "update"}, session : Sessions, options : Distance]
Replies == [kind : {"answer"}, req : {r \in Made : r.then # "nothing"}, ok : BOOLEAN]
Msgs    == Waiting \cup Replies \cup {EngineUp}

\* What a client is told of; what it alone causes and what changes the maps.
ClientThens == Thens \ {"nothing", "removed"}
ActiveThens == ClientThens \ {"started", "respond"}

\* What of them is about session s: parked messages, and requests and replies
\* with one of the closures K.
Pk(s)    == {m \in Waiting : m.session = s}
Rq(s, K) == {r \in Made : r.session = s /\ r.then \in K}
An(s, K) == {a \in Replies : a.req \in Rq(s, K)}

Opens      == {r \in Made : r.call = "open"}
Timed      == {r \in Made : r.call \in {"start", "stop"}}
TimedTo(o) == {r \in Timed : r.options = o}
Dstarts(s) == {r \in Made : r.call = "dstart" /\ r.session = s}
Dstops(s)  == {r \in Made : r.call = "dstop" /\ r.session = s}
Failed     == {a \in Replies : ~a.ok}
DoneOf(s)  == {a \in An(s, {"dupdated"}) : a.ok}
Starts(s)  == {m \in Pk(s) : m.kind = "start"}

-----------------------------------------------------------------------------
(* The inductive invariant.                                                *)

\* The types, as narrow as the code makes them.
Typed ==
  /\ mClientData \subseteq Clients /\ removed \subseteq Clients /\ mClientData \cap removed = {}
  /\ owner \in [Sessions -> Clients \cup {NoClient}]
  /\ TBS \in SessionMaps /\ DBS \in SessionMaps
  /\ DbtSupported => \A s \in In(TBS) : ~TBS[s].distance
  /\ mIsEngineCapabilitiesKnown \in BOOLEAN
  /\ mPendingMsgs \in Seq(Waiting) /\ msgs \in Seq(Msgs) /\ reqs \in Seq(Made)
  /\ mSystemPowerState \in {"unknown", "suspend", "resume"}
  /\ down \in BOOLEAN
  /\ tbt \in Given \cup {NoOptions} /\ dbt \subseteq Sessions
  /\ commands \in 0..MaxCommands /\ events \in 0..MaxEvents
  /\ owed \in [Sessions -> Nat]
  /\ starting \subseteq Sessions /\ stopped \subseteq Sessions

\* How many messages about a session are parked (p), answered or posted again (m),
\* or asked of LocApi (r), of those with one of the closures K.
Amount(p, m, r, s, K) == Count(p, Pk(s)) + Count(m, Pk(s) \cup An(s, K)) + Count(r, Rq(s, K))

\* A client that is there is owed a response for each of them.
Counted == \A s \in Sessions :
  /\ owner[s] \notin removed => Amount(mPendingMsgs, msgs, reqs, s, ClientThens) <= owed[s]
  /\ ClientsWait => Amount(mPendingMsgs, msgs, reqs, s, ActiveThens) <= 1
  /\ owner[s] = NoClient => owed[s] = 0

\* Does the adapter still have to restart the sessions after a crash?
Recovering == down \/ Has(msgs, {EngineUp})
Steady     == ~Recovering /\ mSystemPowerState # "suspend"

\* The modem is down as long as it is to be opened, and what failed while it was
\* down is handled before the message that it is up again.
Opening ==
  /\ down <=> Has(reqs, Opens)
  /\ Count(reqs, Opens) <= 1
  /\ EndsIn(msgs, Failed, {EngineUp}) => down
  /\ events = 0 =>
       /\ ~Has(msgs, Failed)
       /\ down => reqs # <<>> /\ Head(reqs) \in Opens /\ ~Has(msgs, {EngineUp})
       /\ Count(msgs, {EngineUp}) <= 1
       /\ Recovering => ~mIsEngineCapabilitiesKnown
       /\ mSystemPowerState = "unknown"

\* What the modem will run for the time-based sessions when it has carried out
\* its requests.
Final(q, t, o) == IF Has(q, Timed) THEN EndsIn(q, TimedTo(o), Timed) ELSE o = t
Serves(o, m)   == \A s \in In(m) : o # NoOptions /\ o.interval <= m[s].interval

TimeServed == \E o \in Given \cup {NoOptions} :
  /\ Final(reqs, tbt, o)
  /\ Steady => Serves(o, TBS)
  /\ events = 0 /\ In(TBS) = {} => o = NoOptions

\* Is a request of session s with one of the closures K made and not yet handled?
InFlight(m, r, s, K) == Has(m, An(s, K)) \/ Has(r, Rq(s, K))
IsParked(p, m, s)    == Has(p, Pk(s)) \/ Has(m, Pk(s))

\* Where a session may be while something of it is in flight.  Before the modem is
\* up for the first time there are no distance-based sessions.
Placed(s) ==
  /\ s \in In(TBS) => s \notin In(DBS)
  /\ owner[s] = NoClient => s \notin In(TBS) \cup In(DBS)
  /\ InFlight(msgs, reqs, s, {"updated", "switched"}) => s \notin In(DBS)
  /\ InFlight(msgs, reqs, s, {"switched", "stopped", "dstopped", "dupdated", "removed"})
       => s \notin In(TBS)
  /\ IsParked(mPendingMsgs, msgs, s) => s \notin In(DBS)
  /\ Has(mPendingMsgs, Starts(s)) \/ Has(msgs, Starts(s)) => s \notin In(TBS)
  /\ InFlight(msgs, reqs, s, {"removed"}) =>
       /\ owner[s] \in removed
       /\ ~InFlight(msgs, reqs, s, {"switched", "updated"}) /\ ~IsParked(mPendingMsgs, msgs, s)
  /\ ~mIsEngineCapabilitiesKnown =>
       s \notin In(DBS) /\ ~InFlight(msgs, reqs, s, {"dstopped", "dupdated"})

\* Will the modem run the distance-based session s, when it has carried out the
\* requests r and runs d?
Runs(r, d, s) == EndsIn(r, Dstarts(s), Dstops(s)) \/ (s \in d /\ ~Has(r, Dstops(s)))

\* Is the end of an update followed by the removal of its client?
RemovedAfter(m, r, s) ==
  \/ HasThen(m, An(s, {"dupdated"}), An(s, {"removed"}))
  \/ Has(m, An(s, {"dupdated"})) /\ Has(r, Rq(s, {"removed"}))
  \/ HasThen(r, Rq(s, {"dupdated"}), Rq(s, {"removed"}))

\* A distance-based session is run, or about to be erased or started; an update
\* that the modem has carried out since it came up is run or about to be erased.
DistanceServed(s) ==
  /\ Steady /\ s \in In(DBS) =>
       Runs(reqs, dbt, s) \/ InFlight(msgs, reqs, s, {"stopped", "removed", "dstopped"})
  /\ ~down /\ EndsIn(msgs, DoneOf(s), {EngineUp}) =>
       Runs(reqs, dbt, s) \/ RemovedAfter(msgs, reqs, s)

\* Without events the modem runs no session that is not in the map, but for the
\* end of an update, and none that is being stopped.
NotRun(s) == events = 0 /\ Runs(reqs, dbt, s) =>
  /\ s \in In(DBS) \/ InFlight(msgs, reqs, s, {"dupdated"})
  /\ ~InFlight(msgs, reqs, s, {"stopped", "switched", "dstopped"})
  /\ InFlight(msgs, reqs, s, {"removed"}) =>
       InFlight(msgs, reqs, s, {"dupdated"}) /\ ~RemovedAfter(msgs, reqs, s)

Followed(s) == Placed(s) /\ DistanceServed(s) /\ NotRun(s)

Sound   == Typed /\ Counted
Serving == Opening /\ TimeServed /\ \A s \in Sessions : Followed(s)
-----------------------------------------------------------------------------
(* The queues.                                                             *)

\* Where the elements of a concatenation come from.
LEMMA ConcatPlaces ==
  ASSUME NEW S, NEW q \in Seq(S), NEW p \in Seq(S)
  PROVE  /\ Len(q) \in Nat /\ Len(p) \in Nat
         /\ DOMAIN q = 1..Len(q) /\ DOMAIN p = 1..Len(p)
         /\ DOMAIN (q \o p) = 1..Len(q) + Len(p)
         /\ \A i \in DOMAIN q : i \in DOMAIN (q \o p) /\ i <= Len(q) /\ (q \o p)[i] = q[i]
         /\ \A k \in DOMAIN p : Len(q) + k \in DOMAIN (q \o p) /\ Len(q) < Len(q) + k
                                /\ (q \o p)[Len(q) + k] = p[k]
         /\ \A i \in DOMAIN (q \o p) :
              \/ i \in DOMAIN q
              \/ Len(q) < i /\ \E k \in DOMAIN p : i = Len(q) + k
<1>1. /\ q \o p \in Seq(S) /\ Len(q \o p) = Len(q) + Len(p)
      /\ \A i \in 1..Len(q) + Len(p) :
           (q \o p)[i] = IF i <= Len(q) THEN q[i] ELSE p[i - Len(q)]
  BY ConcatProperties
<1>2. /\ Len(q) \in Nat /\ Len(p) \in Nat
      /\ DOMAIN q = 1..Len(q) /\ DOMAIN p = 1..Len(p)
      /\ DOMAIN (q \o p) = 1..Len(q) + Len(p)
  BY <1>1, LenProperties
<1>3. \A i \in DOMAIN q : i \in DOMAIN (q \o p) /\ i <= Len(q) /\ (q \o p)[i] = q[i]
  BY <1>1, <1>2
<1>4. ASSUME NEW k \in DOMAIN p
      PROVE  Len(q) + k \in DOMAIN (q \o p) /\ Len(q) < Len(q) + k /\ (q \o p)[Len(q) + k] = p[k]
  <2>1. k \in 1..Len(p) /\ Len(q) + k \in 1..Len(q) + Len(p) /\ Len(q) < Len(q) + k
        /\ ~(Len(q) + k <= Len(q)) /\ Len(q) + k - Len(q) = k
    BY <1>2
  <2>2. QED
    BY <1>1, <1>2, <2>1
<1>5. ASSUME NEW i \in DOMAIN (q \o p), i \notin DOMAIN q
      PROVE  Len(q) < i /\ \E k \in DOMAIN p : i = Len(q) + k
  <2>1. Len(q) < i /\ i - Len(q) \in DOMAIN p /\ i = Len(q) + (i - Len(q))
    BY <1>2, <1>5
  <2>2. QED
    BY <2>1
<1>6. QED
  BY <1>2, <1>3, <1>4, <1>5

\* What is in a concatenation.
LEMMA ConcatHas ==
  ASSUME NEW S, NEW q \in Seq(S), NEW p \in Seq(S), NEW V, NEW W
  PROVE  /\ Has(q \o p, V) <=> Has(q, V) \/ Has(p, V)
         /\ HasThen(q \o p, V, W) <=>
              HasThen(q, V, W) \/ HasThen(p, V, W) \/ (Has(q, V) /\ Has(p, W))
         /\ EndsIn(q \o p, V, W) <=> EndsIn(p, V, W) \/ (EndsIn(q, V, W) /\ ~Has(p, W))
<1> DEFINE t == q \o p
           n == Len(q)
<1>1. /\ n \in Nat /\ DOMAIN q \subseteq Nat /\ DOMAIN p \subseteq Nat /\ DOMAIN t \subseteq Nat
      /\ \A i \in DOMAIN q : i \in DOMAIN t /\ i <= n /\ t[i] = q[i]
      /\ \A k \in DOMAIN p : n + k \in DOMAIN t /\ n < n + k /\ t[n + k] = p[k]
      /\ \A i \in DOMAIN t : i \in DOMAIN q \/ (n < i /\ \E k \in DOMAIN p : i = n + k)
  BY ConcatPlaces
<1> HIDE DEF t, n
<1>2. Has(t, V) <=> Has(q, V) \/ Has(p, V)
  BY <1>1 DEF Has
<1>3. HasThen(t, V, W) <=> HasThen(q, V, W) \/ HasThen(p, V, W) \/ (Has(q, V) /\ Has(p, W))
  <2>1. ASSUME HasThen(t, V, W)
        PROVE  HasThen(q, V, W) \/ HasThen(p, V, W) \/ (Has(q, V) /\ Has(p, W))
    <3>1. PICK i \in DOMAIN t, j \in DOMAIN t : i < j /\ t[i] \in V /\ t[j] \in W
      BY <2>1 DEF HasThen
    <3>2. CASE j \in DOMAIN q
      <4>1. i \in DOMAIN q
        BY <1>1, <3>1, <3>2
      <4>2. QED
        BY <1>1, <3>1, <3>2, <4>1 DEF HasThen
    <3>3. CASE j \notin DOMAIN q
      <4>1. PICK l \in DOMAIN p : j = n + l
        BY <1>1, <3>3
      <4>2. CASE i \in DOMAIN q
        BY <1>1, <3>1, <4>1, <4>2 DEF Has
      <4>3. CASE i \notin DOMAIN q
        <5>1. PICK k \in DOMAIN p : i = n + k
          BY <1>1, <4>3
        <5>2. k < l
          BY <1>1, <3>1, <4>1, <5>1
        <5>3. QED
          BY <1>1, <3>1, <4>1, <5>1, <5>2 DEF HasThen
      <4>4. QED
        BY <4>2, <4>3
    <3>4. QED
      BY <3>2, <3>3
  <2>2. ASSUME HasThen(q, V, W) PROVE HasThen(t, V, W)
    BY <1>1, <2>2 DEF HasThen
  <2>3. ASSUME HasThen(p, V, W) PROVE HasThen(t, V, W)
    <3>1. PICK k \in DOMAIN p, l \in DOMAIN p : k < l /\ p[k] \in V /\ p[l] \in W
      BY <2>3 DEF HasThen
    <3>2. n + k < n + l /\ t[n + k] \in V /\ t[n + l] \in W
      BY <1>1, <3>1
    <3>3. QED
      BY <1>1, <3>2 DEF HasThen
  <2>4. ASSUME Has(q, V), Has(p, W) PROVE HasThen(t, V, W)
    <3>1. PICK i \in DOMAIN q : q[i] \in V
      BY <2>4 DEF Has
    <3>2. PICK k \in DOMAIN p : p[k] \in W
      BY <2>4 DEF Has
    <3>3. i < n + k /\ t[i] \in V /\ t[n + k] \in W
      BY <1>1, <3>1, <3>2
    <3>4. QED
      BY <1>1, <3>3 DEF HasThen
  <2>5. QED
    BY <2>1, <2>2, <2>3, <2>4
<1>4. EndsIn(t, V, W) <=> EndsIn(p, V, W) \/ (EndsIn(q, V, W) /\ ~Has(p, W))
  <2>1. ASSUME EndsIn(t, V, W)
        PROVE  EndsIn(p, V, W) \/ (EndsIn(q, V, W) /\ ~Has(p, W))
    <3>1. PICK i \in DOMAIN t : t[i] \in V /\ \A j \in DOMAIN t : i < j => t[j] \notin W
      BY <2>1 DEF EndsIn
    <3>2. CASE i \in DOMAIN q
      <4>1. EndsIn(q, V, W)
        BY <1>1, <3>1, <3>2 DEF EndsIn
      <4>2. ASSUME NEW k \in DOMAIN p PROVE p[k] \notin W
        <5>1. i < n + k
          BY <1>1, <3>2
        <5>2. QED
          BY <1>1, <3>1, <5>1
      <4>3. QED
        BY <4>1, <4>2 DEF Has
    <3>3. CASE i \notin DOMAIN q
      <4>1. PICK k \in DOMAIN p : i = n + k
        BY <1>1, <3>3
      <4>2. ASSUME NEW l \in DOMAIN p, k < l PROVE p[l] \notin W
        <5>1. i < n + l
          BY <1>1, <4>1, <4>2
        <5>2. QED
          BY <1>1, <3>1, <5>1
      <4>3. QED
        BY <1>1, <3>1, <4>1, <4>2 DEF EndsIn
    <3>4. QED
      BY <3>2, <3>3
  <2>2. ASSUME EndsIn(p, V, W) PROVE EndsIn(t, V, W)
    <3>1. PICK k \in DOMAIN p : p[k] \in V /\ \A l \in DOMAIN p : k < l => p[l] \notin W
      BY <2>2 DEF EndsIn
    <3>2. ASSUME NEW j \in DOMAIN t, n + k < j PROVE t[j] \notin W
      <4>1. j \notin DOMAIN q
        BY <1>1, <3>2
      <4>2. PICK l \in DOMAIN p : j = n + l
        BY <1>1, <4>1
      <4>3. k < l
        BY <1>1, <3>2, <4>2
      <4>4. QED
        BY <1>1, <3>1, <4>2, <4>3
    <3>3. QED
      BY <1>1, <3>1, <3>2 DEF EndsIn
  <2>3. ASSUME EndsIn(q, V, W), ~Has(p, W) PROVE EndsIn(t, V, W)
    <3>1. PICK i \in DOMAIN q : q[i] \in V /\ \A j \in DOMAIN q : i < j => q[j] \notin W
      BY <2>3 DEF EndsIn
    <3>2. ASSUME NEW j \in DOMAIN t, i < j PROVE t[j] \notin W
      BY <1>1, <2>3, <3>1, <3>2 DEF Has
    <3>3. QED
      BY <1>1, <3>1, <3>2 DEF EndsIn
  <2>4. QED
    BY <2>1, <2>2, <2>3
<1>5. QED
  BY <1>2, <1>3, <1>4 DEF t

\* What is in a sequence of one element, and in none.
LEMMA ShortHas ==
  ASSUME NEW x, NEW V, NEW W
  PROVE  /\ Has(<<x>>, V) <=> x \in V
         /\ ~HasThen(<<x>>, V, W)
         /\ EndsIn(<<x>>, V, W) <=> x \in V
         /\ ~Has(<<>>, V) /\ ~HasThen(<<>>, V, W) /\ ~EndsIn(<<>>, V, W)
<1>1. DOMAIN <<x>> = {1} /\ <<x>>[1] = x
  OBVIOUS
<1>2. DOMAIN <<>> = {}
  OBVIOUS
<1>3. QED
  BY <1>1, <1>2 DEF Has, HasThen, EndsIn

\* How many elements of a set a sequence has.
LEMMA CountFacts ==
  ASSUME NEW S, NEW q \in Seq(S), NEW W
  PROVE  /\ Count(q, W) \in Nat
         /\ IsFiniteSet({i \in DOMAIN q : q[i] \in W})
         /\ Count(q, W) = 0 <=> ~Has(q, W)
<1>1. DOMAIN q = 1..Len(q) /\ Len(q) \in Nat
  BY LenProperties
<1>2. IsFiniteSet(DOMAIN q)
  BY <1>1, FS_Interval
<1>3. IsFiniteSet({i \in DOMAIN q : q[i] \in W})
  BY <1>2, FS_Subset
<1>4. QED
  BY <1>3, FS_CardinalityType, FS_EmptySet DEF Count, Has

\* What is counted in a concatenation.
LEMMA ConcatCount ==
  ASSUME NEW S, NEW q \in Seq(S), NEW p \in Seq(S), NEW W
  PROVE  Count(q \o p, W) = Count(q, W) + Count(p, W)
<1> DEFINE t == q \o p
           n == Len(q)
           A == {i \in DOMAIN q : q[i] \in W}
           B == {k \in DOMAIN p : p[k] \in W}
           T == {i \in DOMAIN t : t[i] \in W}
           f == [k \in B |-> n + k]
<1>1. /\ n \in Nat /\ DOMAIN q \subseteq Nat /\ DOMAIN p \subseteq Nat /\ DOMAIN t \subseteq Nat
      /\ \A i \in DOMAIN q : i \in DOMAIN t /\ i <= n /\ t[i] = q[i]
      /\ \A k \in DOMAIN p : n + k \in DOMAIN t /\ n < n + k /\ t[n + k] = p[k]
      /\ \A i \in DOMAIN t : i \in DOMAIN q \/ (n < i /\ \E k \in DOMAIN p : i = n + k)
  BY ConcatPlaces
<1>2. IsFiniteSet(A) /\ IsFiniteSet(B)
  BY CountFacts
<1> HIDE DEF t, n
<1>3. A \subseteq T /\ \A i \in T \ A : \E k \in B : i = n + k
  BY <1>1
<1>4. \A k \in B : n + k \in T \ A
  <2> SUFFICES ASSUME NEW k \in B PROVE n + k \in T /\ n + k \notin A
    OBVIOUS
  <2>1. n + k \in DOMAIN t /\ n < n + k /\ t[n + k] = p[k]
    BY <1>1
  <2>2. n + k \notin DOMAIN q
    BY <1>1, <2>1
  <2>3. QED
    BY <2>1, <2>2
<1>5. f \in Bijection(B, T \ A)
  <2>1. f \in [B -> T \ A]
    BY <1>4
  <2>2. \A k, l \in B : f[k] = f[l] => k = l
    BY <1>1
  <2>3. \A i \in T \ A : \E k \in B : f[k] = i
    BY <1>3
  <2>4. QED
    BY <2>1, <2>2, <2>3 DEF Bijection, Injection, Surjection, IsInjective
<1>6. IsFiniteSet(T \ A) /\ Cardinality(T \ A) = Cardinality(B)
  BY <1>2, <1>5, FS_Bijection DEF ExistsBijection
<1>7. T = A \cup (T \ A) /\ A \cap (T \ A) = {}
  BY <1>3
<1>8. Cardinality(T) = Cardinality(A) + Cardinality(T \ A) - Cardinality(A \cap (T \ A))
  BY <1>2, <1>6, <1>7, FS_Union
<1>9. Cardinality(A) \in Nat /\ Cardinality(B) \in Nat /\ Cardinality(A \cap (T \ A)) = 0
  BY <1>2, <1>7, FS_CardinalityType, FS_EmptySet
<1>10. Cardinality(T) = Cardinality(A) + Cardinality(B)
  BY <1>6, <1>8, <1>9
<1>11. QED
  BY <1>10 DEF Count, t

\* A sequence of one element, and none.
LEMMA ShortCount ==
  ASSUME NEW x, NEW W
  PROVE  Count(<<x>>, W) = (IF x \in W THEN 1 ELSE 0) /\ Count(<<>>, W) = 0
<1>1. DOMAIN <<x>> = {1} /\ <<x>>[1] = x /\ DOMAIN <<>> = {}
  OBVIOUS
<1>2. {i \in DOMAIN <<x>> : <<x>>[i] \in W} = IF x \in W THEN {1} ELSE {}
  BY <1>1
<1>3. {i \in DOMAIN <<>> : <<>>[i] \in W} = {}
  BY <1>1
<1>4. QED
  BY <1>2, <1>3, FS_Singleton, FS_EmptySet DEF Count

\* A sequence begins with its head, and the rest of it follows.
LEMMA HeadFirst ==
  ASSUME NEW S, NEW q \in Seq(S), q # <<>>
  PROVE  /\ Head(q) \in S /\ Tail(q) \in Seq(S) /\ <<Head(q)>> \in Seq(S)
         /\ q = <<Head(q)>> \o Tail(q)
<1>1. Head(q) \in S /\ Tail(q) \in Seq(S) /\ Len(Tail(q)) = Len(q) - 1
      /\ \A i \in 1..Len(Tail(q)) : Tail(q)[i] = q[i + 1]
  BY HeadTailProperties
<1>2. Len(q) \in Nat \ {0} /\ Head(q) = q[1]
  BY EmptySeq
<1>3. <<Head(q)>> \in Seq(S) /\ Len(<<Head(q)>>) = 1 /\ <<Head(q)>>[1] = Head(q)
  BY <1>1
<1> DEFINE t == <<Head(q)>> \o Tail(q)
<1>4. /\ t \in Seq(S) /\ Len(t) = Len(q)
      /\ \A i \in 1..Len(q) : t[i] = IF i <= 1 THEN Head(q) ELSE Tail(q)[i - 1]
  BY <1>1, <1>2, <1>3, ConcatProperties
<1>5. \A i \in 1..Len(q) : t[i] = q[i]
  <2> HIDE DEF t
  <2> TAKE i \in 1..Len(q)
  <2>1. CASE i = 1
    BY <1>2, <1>4, <2>1
  <2>2. CASE i # 1
    <3>1. i - 1 \in 1..Len(Tail(q)) /\ (i - 1) + 1 = i /\ ~(i <= 1)
      BY <1>1, <1>2, <2>2
    <3>2. QED
      BY <1>1, <1>4, <3>1
  <2>3. QED
    BY <2>1, <2>2
<1>6. t = q
  BY <1>4, <1>5, SeqEqual
<1>7. QED
  BY <1>1, <1>3, <1>6

\* What is in a sequence and in the rest of it.
LEMMA TailHas ==
  ASSUME NEW S, NEW q \in Seq(S), q # <<>>
  PROVE  /\ Tail(q) \in Seq(S)
         /\ \A V : Has(q, V) <=> Head(q) \in V \/ Has(Tail(q), V)
         /\ \A V, W : HasThen(q, V, W) <=> HasThen(Tail(q), V, W) \/ (Head(q) \in V /\ Has(Tail(q), W))
         /\ \A V, W : EndsIn(q, V, W) <=> EndsIn(Tail(q), V, W) \/ (Head(q) \in V /\ ~Has(Tail(q), W))
         /\ \A W : Count(q, W) = (IF Head(q) \in W THEN 1 ELSE 0) + Count(Tail(q), W)
<1> SUFFICES ASSUME NEW V, NEW W
             PROVE  /\ Tail(q) \in Seq(S)
                    /\ Has(q, V) <=> Head(q) \in V \/ Has(Tail(q), V)
                    /\ HasThen(q, V, W) <=> HasThen(Tail(q), V, W) \/ (Head(q) \in V /\ Has(Tail(q), W))
                    /\ EndsIn(q, V, W) <=> EndsIn(Tail(q), V, W) \/ (Head(q) \in V /\ ~Has(Tail(q), W))
                    /\ Count(q, W) = (IF Head(q) \in W THEN 1 ELSE 0) + Count(Tail(q), W)
  BY Zenon
<1> DEFINE h == <<Head(q)>>
           r == Tail(q)
           t == h \o r
<1>1. r \in Seq(S) /\ h \in Seq(S) /\ q = t
  BY HeadFirst
<1>2. /\ Has(t, V) <=> Has(h, V) \/ Has(r, V)
      /\ HasThen(t, V, W) <=> HasThen(h, V, W) \/ HasThen(r, V, W) \/ (Has(h, V) /\ Has(r, W))
      /\ EndsIn(t, V, W) <=> EndsIn(r, V, W) \/ (EndsIn(h, V, W) /\ ~Has(r, W))
  <2> HIDE DEF h, r
  <2>1. QED
    BY <1>1, ConcatHas
<1>3. Count(t, W) = Count(h, W) + Count(r, W)
  <2> HIDE DEF h, r
  <2>1. QED
    BY <1>1, ConcatCount
<1>4. Has(h, V) <=> Head(q) \in V
  BY ShortHas
<1>5. ~HasThen(h, V, W) /\ (EndsIn(h, V, W) <=> Head(q) \in V)
  BY ShortHas
<1>6. Count(h, W) = IF Head(q) \in W THEN 1 ELSE 0
  BY ShortCount
<1> HIDE DEF t, h
<1>7. QED
  BY <1>1, <1>2, <1>3, <1>4, <1>5, <1>6

\* t is q with x at its end; t is q followed by p.
Extended(t, q, x) == t = Append(q, x)
Joined(t, q, p)   == t = q \o p

\* What an element at the end adds.
LEMMA AppendHas ==
  ASSUME NEW S, NEW q \in Seq(S), NEW x \in S, NEW t, Extended(t, q, x)
  PROVE  /\ t \in Seq(S)
         /\ \A V : Has(t, V) <=> Has(q, V) \/ x \in V
         /\ \A V, W : HasThen(t, V, W) <=> HasThen(q, V, W) \/ (Has(q, V) /\ x \in W)
         /\ \A V, W : EndsIn(t, V, W) <=> x \in V \/ (EndsIn(q, V, W) /\ x \notin W)
         /\ \A W : Count(t, W) = Count(q, W) + (IF x \in W THEN 1 ELSE 0)
<1> SUFFICES ASSUME NEW V, NEW W
             PROVE  /\ t \in Seq(S)
                    /\ Has(t, V) <=> Has(q, V) \/ x \in V
                    /\ HasThen(t, V, W) <=> HasThen(q, V, W) \/ (Has(q, V) /\ x \in W)
                    /\ EndsIn(t, V, W) <=> x \in V \/ (EndsIn(q, V, W) /\ x \notin W)
                    /\ Count(t, W) = Count(q, W) + (IF x \in W THEN 1 ELSE 0)
  BY Zenon
<1> DEFINE h == <<x>>
<1>1. h \in Seq(S) /\ t = q \o h /\ t \in Seq(S)
  BY AppendIsConcat DEF Extended
<1>2. /\ Has(q \o h, V) <=> Has(q, V) \/ Has(h, V)
      /\ HasThen(q \o h, V, W) <=> HasThen(q, V, W) \/ HasThen(h, V, W) \/ (Has(q, V) /\ Has(h, W))
      /\ EndsIn(q \o h, V, W) <=> EndsIn(h, V, W) \/ (EndsIn(q, V, W) /\ ~Has(h, W))
  <2> HIDE DEF h
  <2>1. QED
    BY <1>1, ConcatHas
<1>3. Count(q \o h, W) = Count(q, W) + Count(h, W)
  <2> HIDE DEF h
  <2>1. QED
    BY <1>1, ConcatCount
<1>4. Has(h, V) <=> x \in V
  BY ShortHas
<1>5. ~HasThen(h, V, W) /\ (EndsIn(h, V, W) <=> x \in V) /\ (Has(h, W) <=> x \in W)
  BY ShortHas
<1>6. Count(h, W) = IF x \in W THEN 1 ELSE 0
  BY ShortCount
<1> HIDE DEF h
<1>7. QED
  BY <1>1, <1>2, <1>3, <1>4, <1>5, <1>6

\* What two sequences have together.
LEMMA JoinHas ==
  ASSUME NEW S, NEW q \in Seq(S), NEW p \in Seq(S), NEW t, Joined(t, q, p)
  PROVE  /\ t \in Seq(S)
         /\ \A V : Has(t, V) <=> Has(q, V) \/ Has(p, V)
         /\ \A V, W : HasThen(t, V, W) <=>
                       HasThen(q, V, W) \/ HasThen(p, V, W) \/ (Has(q, V) /\ Has(p, W))
         /\ \A V, W : EndsIn(t, V, W) <=> EndsIn(p, V, W) \/ (EndsIn(q, V, W) /\ ~Has(p, W))
         /\ \A W : Count(t, W) = Count(q, W) + Count(p, W)
<1> SUFFICES ASSUME NEW V, NEW W
             PROVE  /\ t \in Seq(S)
                    /\ Has(t, V) <=> Has(q, V) \/ Has(p, V)
                    /\ HasThen(t, V, W) <=>
                         HasThen(q, V, W) \/ HasThen(p, V, W) \/ (Has(q, V) /\ Has(p, W))
                    /\ EndsIn(t, V, W) <=> EndsIn(p, V, W) \/ (EndsIn(q, V, W) /\ ~Has(p, W))
                    /\ Count(t, W) = Count(q, W) + Count(p, W)
  BY Zenon
<1>1. t \in Seq(S)
  BY ConcatProperties DEF Joined
<1>2. Count(q \o p, W) = Count(q, W) + Count(p, W)
  BY ConcatCount
<1>3. /\ Has(q \o p, V) <=> Has(q, V) \/ Has(p, V)
      /\ HasThen(q \o p, V, W) <=> HasThen(q, V, W) \/ HasThen(p, V, W) \/ (Has(q, V) /\ Has(p, W))
      /\ EndsIn(q \o p, V, W) <=> EndsIn(p, V, W) \/ (EndsIn(q, V, W) /\ ~Has(p, W))
  BY ConcatHas
<1>4. QED
  BY <1>1, <1>2, <1>3, Zenon DEF Joined
-----------------------------------------------------------------------------
(* Least, most and in order.                                               *)

\* The options of clients are proper, and no client is NoClient.
LEMMA ConstantFacts ==
  /\ Options \subseteq Given /\ NoOptions \notin Given
  /\ NoClient \notin Clients /\ DbtSupported \in BOOLEAN
  /\ MaxStarts \in Nat /\ Sessions = 1..MaxStarts /\ Sessions \subseteq Nat
  /\ Given \subseteq OptionRecords /\ NoOptions \in OptionRecords
BY TrackingAssumption DEF Given, NoOptions, Sessions, OptionRecords

\* Every set of numbers that is not empty has a least one.
LEMMA Least == ASSUME NEW T \in SUBSET Nat, T # {} PROVE \E x \in T : \A y \in T : x <= y
<1>1. PICK x \in T : \A y \in T : ~(<<y, x>> \in OpToRel(<, Nat))
  BY NatLessThanWellFounded, WFMin, Zenon
<1>2. \A y \in T : y < x => <<y, x>> \in OpToRel(<, Nat)
  BY DEF OpToRel
<1>3. \A y \in T : ~(y < x)
  BY <1>1, <1>2, Zenon
<1>4. \A y \in T : x <= y
  <2> TAKE y \in T
  <2>1. ~(y < x) /\ x \in Nat /\ y \in Nat
    BY <1>3
  <2>2. QED
    BY <2>1
<1>5. QED
  BY <1>4

\* LeastOf is what it says.
LEMMA LeastOfIsLeast ==
  ASSUME NEW V \in SUBSET Nat, V # {}
  PROVE  LeastOf(V) \in V /\ \A w \in V : LeastOf(V) <= w
BY Least DEF LeastOf

\* Of a set of numbers 1..n that is not empty one has the most of any measure.
LEMMA Most ==
  ASSUME NEW N \in Nat, NEW f, \A x \in 1..N : f[x] \in Nat, NEW T \in SUBSET (1..N), T # {}
  PROVE  \E k \in T : \A j \in T : f[j] <= f[k]
<1> DEFINE Bad == {n \in 0..N : \E U \in SUBSET (1..n) :
                     U # {} /\ \A k \in U : \E j \in U : ~(f[j] <= f[k])}
<1>1. SUFFICES ASSUME Bad # {} PROVE FALSE
  <2>1. N \in 0..N
    OBVIOUS
  <2>2. QED
    BY <2>1
<1>2. PICK n \in Bad : \A i \in Bad : n <= i
  <2>1. Bad \in SUBSET Nat
    OBVIOUS
  <2> HIDE DEF Bad
  <2>2. QED
    BY <1>1, <2>1, Least
<1>3. PICK U \in SUBSET (1..n) : U # {} /\ \A k \in U : \E j \in U : ~(f[j] <= f[k])
  OBVIOUS
<1>4. n \in 1..N /\ n - 1 \in 0..N /\ n - 1 \notin Bad
  <2>1. n \in 0..N /\ n # 0
    <3>1. n \in 0..N
      OBVIOUS
    <3>2. 1..0 = {}
      OBVIOUS
    <3> HIDE DEF Bad
    <3>3. QED
      BY <1>3, <3>1, <3>2
  <2>2. n - 1 \notin Bad
    <3> HIDE DEF Bad
    <3>1. QED
      BY <1>2, <2>1
  <2>3. QED
    BY <2>1, <2>2
<1>5. CASE n \notin U
  <2>1. U \in SUBSET (1..n - 1)
    BY <1>4, <1>5
  <2>2. QED
    BY <1>3, <1>4, <2>1
<1>6. CASE n \in U
  <2> DEFINE R == U \ {n}
  <2>1. R \in SUBSET (1..n - 1)
    BY <1>4
  <2>2. CASE R = {}
    <3>1. U = {n} /\ f[n] \in Nat
      <4>1. f[n] \in Nat
        BY <1>4
      <4>2. U = {n}
        BY <1>6, <2>2
      <4> HIDE DEF Bad
      <4>3. QED
        BY <4>1, <4>2
    <3>2. f[n] <= f[n]
      BY <3>1
    <3>3. \A k \in U : \A j \in U : f[j] <= f[k]
      BY <3>1, <3>2
    <3>4. QED
      BY <1>3, <3>3
  <2>3. CASE R # {}
    <3>1. PICK k \in R : \A j \in R : f[j] <= f[k]
      BY <1>4, <2>1, <2>3
    <3>2. f[k] \in Nat /\ f[n] \in Nat /\ k \in U /\ \A j \in U : f[j] \in Nat
      BY <1>3, <1>4
    <3>3. CASE f[n] <= f[k]
      BY <1>3, <3>1, <3>2, <3>3
    <3>4. CASE ~(f[n] <= f[k])
      <4>1. \A j \in U : f[j] <= f[n]
        BY <3>1, <3>2, <3>4
      <4>2. QED
        BY <1>3, <1>6, <4>1
    <3>5. QED
      BY <3>3, <3>4
  <2>4. QED
    BY <2>2, <2>3
<1>7. QED
  BY <1>5, <1>6

\* A set of sessions in order: each once, in the order of their ids.
LEMMA Ordered ==
  ASSUME NEW T \in SUBSET Sessions
  PROVE  /\ InOrder(T) \in Seq(T)
         /\ \A i, j \in DOMAIN InOrder(T) : i < j => InOrder(T)[i] < InOrder(T)[j]
         /\ \A s \in T : \E i \in DOMAIN InOrder(T) : InOrder(T)[i] = s
<1> DEFINE Ord(q, U) == /\ q \in [1..Cardinality(U) -> U]
                        /\ \A i, j \in DOMAIN q : i < j => q[i] < q[j]
           Bad == {n \in Nat : \E U \in SUBSET (1..n) : \A q : ~Ord(q, U)}
<1>1. ASSUME NEW n \in Nat, NEW U \in SUBSET (1..n)
      PROVE  IsFiniteSet(U) /\ Cardinality(U) \in Nat /\ U \subseteq Nat
  <2>1. IsFiniteSet(1..n)
    BY FS_Interval
  <2>2. IsFiniteSet(U)
    BY <2>1, FS_Subset
  <2>3. QED
    BY <2>2, FS_CardinalityType
<1>2. \E q : Ord(q, T)
  <2>1. SUFFICES ASSUME Bad # {} PROVE FALSE
    BY ConstantFacts
  <2>2. PICK n \in Bad : \A i \in Bad : n <= i
    <3>1. Bad \in SUBSET Nat
      OBVIOUS
    <3> HIDE DEF Bad
    <3>2. QED
      BY <2>1, <3>1, Least
  <2>3. PICK U \in SUBSET (1..n) : \A q : ~Ord(q, U)
    OBVIOUS
  <2>4. n \in Nat
    OBVIOUS
  <2>5. CASE U = {}
    <3>1. Cardinality(U) = 0
      BY <2>5, FS_EmptySet
    <3>2. [i \in 1..0 |-> 0] \in [1..0 -> U] /\ DOMAIN [i \in 1..0 |-> 0] = {}
      OBVIOUS
    <3>3. Ord([i \in 1..0 |-> 0], U)
      BY <3>1, <3>2
    <3>4. QED
      BY <2>3, <3>3
  <2>6. CASE U # {}
    <3>1. n - 1 \in Nat /\ n - 1 \notin Bad
      <4> HIDE DEF Bad
      <4>0. 1..0 = {}
        OBVIOUS
      <4>1. n # 0
        BY <2>6, <4>0
      <4>2. QED
        BY <2>2, <2>4, <4>1
    <3>2. CASE n \notin U
      <4>1. U \in SUBSET (1..n - 1)
        BY <2>4, <3>2
      <4>2. QED
        BY <2>3, <3>1, <4>1
    <3>3. CASE n \in U
      <4> DEFINE R == U \ {n}
                 c == Cardinality(R)
      <4>1. R \in SUBSET (1..n - 1)
        BY <2>4
      <4>2. PICK q : Ord(q, R)
        BY <3>1, <4>1
      <4>3. c \in Nat /\ Cardinality(U) = c + 1
        <5>1. IsFiniteSet(R) /\ c \in Nat /\ U = R \cup {n} /\ n \notin R
          BY <1>1, <3>1, <3>3, <4>1
        <5>2. QED
          BY <5>1, FS_AddElement
      <4> DEFINE p == [i \in 1..c + 1 |-> IF i = c + 1 THEN n ELSE q[i]]
      <4> HIDE DEF Bad
      <4>4. \A i \in 1..c : q[i] \in R /\ q[i] < n
        <5>1. \A r \in R : r < n
          BY <2>4, <4>1
        <5>2. \A i \in 1..c : q[i] \in R
          BY <4>2
        <5>3. QED
          BY <5>1, <5>2
      <4>5. p \in [1..c + 1 -> U]
        <5>1. \A i \in 1..c + 1 : i = c + 1 \/ i \in 1..c
          BY <4>3
        <5>2. QED
          BY <3>3, <4>4, <5>1
      <4>6. ASSUME NEW i \in 1..c + 1, NEW j \in 1..c + 1, i < j PROVE p[i] < p[j]
        <5>1. i \in 1..c /\ i # c + 1 /\ (j # c + 1 => j \in 1..c)
          BY <4>3, <4>6
        <5>2. p[i] = q[i] /\ p[j] = IF j = c + 1 THEN n ELSE q[j]
          BY <5>1
        <5>3. j \in 1..c => q[i] < q[j]
          BY <4>2, <4>6, <5>1
        <5>4. q[i] < n
          BY <4>4, <5>1
        <5> HIDE DEF p
        <5>5. QED
          BY <5>1, <5>2, <5>3, <5>4
      <4>7. Ord(p, U)
        BY <4>3, <4>5, <4>6
      <4>8. QED
        BY <2>3, <4>7
    <3>4. QED
      BY <3>2, <3>3
  <2>7. QED
    BY <2>5, <2>6
<1>3. Ord(InOrder(T), T)
  BY <1>2 DEF InOrder
<1> DEFINE q == InOrder(T)
           c == Cardinality(T)
<1>4. c \in Nat /\ IsFiniteSet(T) /\ T \subseteq Nat
  BY <1>1, ConstantFacts
<1>5. DOMAIN q = 1..c /\ \A i \in 1..c : q[i] \in T
  BY <1>3
<1>6. q \in Seq(T)
  BY <1>3, <1>4
<1>7. q \in Surjection(1..c, T)
  <2>1. \A i, j \in 1..c : q[i] = q[j] => i = j
    <3> SUFFICES ASSUME NEW i \in 1..c, NEW j \in 1..c, q[i] = q[j], i < j PROVE FALSE
      BY <1>4
    <3>1. q[i] < q[j] /\ q[i] \in Nat
      BY <1>3, <1>4, <1>5
    <3>2. QED
      BY <3>1
  <2>2. q \in Injection(1..c, T)
    BY <1>3, <2>1 DEF Injection, IsInjective
  <2>3. Cardinality(1..c) = c
    BY <1>4, FS_Interval
  <2>4. QED
    BY <1>4, <2>2, <2>3, FS_Injection
<1>8. \A s \in T : \E i \in 1..c : q[i] = s
  BY <1>7 DEF Surjection
<1>9. QED
  BY <1>3, <1>5, <1>6, <1>8

-----------------------------------------------------------------------------
(* Multiplexing.                                                           *)

\* What is in a map.
LEMMA MapFacts ==
  ASSUME NEW m \in SessionMaps
  PROVE  /\ In(m) \subseteq Sessions /\ \A s \in In(m) : m[s] \in Given
         /\ \A s \in Sessions : s \notin In(m) => m[s] = NoOptions
         /\ \A s \in Sessions, o \in Given :
              [m EXCEPT ![s] = o] \in SessionMaps /\ In([m EXCEPT ![s] = o]) = In(m) \cup {s}
         /\ \A s \in Sessions :
              [m EXCEPT ![s] = NoOptions] \in SessionMaps
              /\ In([m EXCEPT ![s] = NoOptions]) = In(m) \ {s}
BY ConstantFacts DEF SessionMaps, In

\* The session with the smallest interval is one of them, and no other wants
\* the modem to run more often.
LEMMA SmallestIsOne ==
  ASSUME NEW m \in SessionMaps, NEW T \in SUBSET In(m), T # {}
  PROVE  /\ SmallestInterval(m, T) \in T /\ m[SmallestInterval(m, T)] \in Given
         /\ \A s \in T : m[SmallestInterval(m, T)].interval <= m[s].interval
<1>1. T \subseteq Nat /\ \A s \in T : m[s] \in Given /\ m[s].interval \in Nat
  BY MapFacts, ConstantFacts DEF Given
<1> DEFINE V == {m[s].interval : s \in T}
<1>2. PICK v \in V : \A w \in V : v <= w
  <2>1. V \in SUBSET Nat /\ V # {}
    BY <1>1
  <2> HIDE DEF V
  <2>2. QED
    BY <2>1, Least
<1> DEFINE L == {s \in T : m[s].interval = v}
<1>3. PICK k \in L : \A s \in L : k <= s
  <2>1. L \in SUBSET Nat /\ L # {}
    BY <1>1, <1>2
  <2> HIDE DEF L
  <2>2. QED
    BY <2>1, Least
<1>4. \A s \in T : m[k].interval < m[s].interval
                   \/ (m[k].interval = m[s].interval /\ k <= s)
  <2> TAKE s \in T
  <2>1. v <= m[s].interval /\ m[k].interval = v /\ m[s].interval \in Nat /\ v \in Nat
    BY <1>1, <1>2, <1>3
  <2>2. QED
    BY <1>3, <2>1
<1>5. \E j \in T : \A s \in T : m[j].interval < m[s].interval
                                \/ (m[j].interval = m[s].interval /\ j <= s)
  BY <1>3, <1>4
<1> DEFINE j == SmallestInterval(m, T)
<1>6. j \in T /\ \A s \in T : m[j].interval < m[s].interval
                              \/ (m[j].interval = m[s].interval /\ j <= s)
  BY <1>5, Zenon DEF SmallestInterval
<1> HIDE DEF j
<1>7. \A s \in T : m[j].interval <= m[s].interval
  BY <1>1, <1>6
<1>8. QED
  BY <1>1, <1>6, <1>7 DEF j

\* The multiplexed power mode is one.
LEMMA PowerType ==
  ASSUME NEW m \in SessionMaps, NEW T \in SUBSET In(m)
  PROVE  MultiplexedPower(m, T) \in Nat
<1> DEFINE after == {s \in T : \A j \in T : j >= s => m[j].power # 0}
           V == {m[s].power : s \in after}
<1>1. V \in SUBSET Nat
  BY MapFacts DEF Given
<1>2. after # {} => V # {} /\ LeastOf(V) \in Nat
  <2>1. after # {} => V # {}
    OBVIOUS
  <2> HIDE DEF V
  <2>2. QED
    BY <1>1, <2>1, LeastOfIsLeast
<1>3. QED
  BY <1>2 DEF MultiplexedPower

\* The highest accuracy wanted by some sessions is one.
LEMMA QualityType ==
  ASSUME NEW m \in SessionMaps, NEW T \in SUBSET In(m), T # {}
  PROVE  MostOf({m[s].quality : s \in T}) \in Nat
<1> DEFINE f == [s \in Sessions |-> IF s \in T THEN m[s].quality ELSE 0]
           V == {m[s].quality : s \in T}
<1>1. \A s \in Sessions : f[s] \in Nat
  BY MapFacts DEF Given
<1>2. T \in SUBSET Sessions /\ \A s \in T : f[s] = m[s].quality
  BY MapFacts
<1> HIDE DEF f
<1>3. PICK k \in T : \A j \in T : f[j] <= f[k]
  BY <1>1, <1>2, Most, ConstantFacts
<1>4. f[k] \in V /\ V \subseteq Nat /\ \A w \in V : f[k] >= w
  BY <1>1, <1>2, <1>3
<1> HIDE DEF V
<1>5. MostOf(V) \in V
  BY <1>4, Zenon DEF MostOf
<1>6. QED
  BY <1>4, <1>5 DEF V

\* The least and the most of two numbers.
LEMMA OfTwo ==
  ASSUME NEW x \in Nat, NEW y \in Nat
  PROVE  /\ LeastOf({x, y}) \in {x, y} /\ LeastOf({x, y}) <= x /\ LeastOf({x, y}) <= y
         /\ MostOf({x, y}) \in Nat
<1>1. LeastOf({x, y}) \in {x, y} /\ \A w \in {x, y} : LeastOf({x, y}) <= w
  BY LeastOfIsLeast
<1>2. \E v \in {x, y} : \A w \in {x, y} : v >= w
  OBVIOUS
<1>3. MostOf({x, y}) \in {x, y}
  BY <1>2, Zenon DEF MostOf
<1>4. QED
  BY <1>1, <1>3

\* The fields of a request.
LEMMA RequestFields ==
  ASSUME NEW call, NEW s, NEW o, NEW then
  PROVE  LET r == Request(call, s, o, then)
         IN  r.call = call /\ r.session = s /\ r.options = o /\ r.old = NoOptions /\ r.then = then
BY DEF Request

\* The requests of the adapter are proper.
LEMMA RequestsMade ==
  ASSUME NEW s \in Sessions, NEW o \in Given
  PROVE  /\ Request("open", 0, NoOptions, "nothing") \in Made
         /\ Request("start", s, o, "started") \in Made
         /\ \A p \in Given : (DbtSupported => ~p.distance) =>
              [Request("start", s, o, "updated") EXCEPT !.old = p] \in Made
         /\ Request("start", 0, o, "nothing") \in Made
         /\ Request("stop", 0, NoOptions, "nothing") \in Made
         /\ Request("stop", s, NoOptions, "respond") \in Made
         /\ \A then \in {"nothing", "started"} : Request("dstart", s, o, then) \in Made
         /\ \A then \in {"stopped", "removed"} : Request("dstop", s, NoOptions, then) \in Made
         /\ o.distance => /\ Request("dstart", s, o, "dupdated") \in Made
                          /\ Request("dstop", s, o, "dstopped") \in Made
         /\ ~o.distance => Request("dstop", s, o, "switched") \in Made
<1>1. o \in OptionRecords /\ NoOptions \in OptionRecords /\ Given \subseteq OptionRecords
  BY ConstantFacts
<1>2. /\ Request("open", 0, NoOptions, "nothing") \in Made
      /\ Request("start", 0, o, "nothing") \in Made
      /\ Request("stop", 0, NoOptions, "nothing") \in Made
  BY <1>1 DEF Request, Made, Requests, Calls, Thens
<1>3. /\ Request("start", s, o, "started") \in Made
      /\ Request("stop", s, NoOptions, "respond") \in Made
  BY <1>1 DEF Request, Made, Requests, Calls, Thens
<1>4. \A p \in Given : (DbtSupported => ~p.distance) =>
              [Request("start", s, o, "updated") EXCEPT !.old = p] \in Made
  BY <1>1 DEF Request, Made, Requests, Calls, Thens
<1>5. \A then \in {"nothing", "started"} : Request("dstart", s, o, then) \in Made
  BY <1>1 DEF Request, Made, Requests, Calls, Thens
<1>6. \A then \in {"stopped", "removed"} : Request("dstop", s, NoOptions, then) \in Made
  BY <1>1 DEF Request, Made, Requests, Calls, Thens
<1>7. o.distance => /\ Request("dstart", s, o, "dupdated") \in Made
                    /\ Request("dstop", s, o, "dstopped") \in Made
  BY <1>1 DEF Request, Made, Requests, Calls, Thens, Distance
<1>8. ~o.distance => Request("dstop", s, o, "switched") \in Made
  BY <1>1 DEF Request, Made, Requests, Calls, Thens
<1>9. QED
  BY <1>2, <1>3, <1>4, <1>5, <1>6, <1>7, <1>8

\* What is asked of the modem when the map m of time-based sessions becomes m2:
\* nothing, and then what served m serves m2 as well; or one request about
\* session s, with one of the closures K, for options that serve m2.
Multiplexed(q, s, m, m2, K) ==
  \/ /\ q = <<>> /\ In(m2) # {}
     /\ \A o \in Given \cup {NoOptions} : Serves(o, m) => Serves(o, m2)
  \/ \E r \in Timed : /\ q = <<r>> /\ r.session = s /\ r.then \in K
                      /\ Serves(r.options, m2)
                      /\ In(m2) = {} => r.options = NoOptions

\* A start serves the sessions there were and the new one.
LEMMA StartMultiplexed ==
  ASSUME NEW m \in SessionMaps, NEW s \in Sessions, NEW o \in Given
  PROVE  Multiplexed(startTimeBasedTrackingMultiplex(m, s, o), s, m, [m EXCEPT ![s] = o],
                     {"started"})
<1> DEFINE q == startTimeBasedTrackingMultiplex(m, s, o)
           m2 == [m EXCEPT ![s] = o]
           k == SmallestInterval(m, In(m))
<1> SUFFICES Multiplexed(q, s, m, m2, {"started"})
  OBVIOUS
<1>1. /\ In(m2) = In(m) \cup {s} /\ o.interval \in Nat /\ o # NoOptions
      /\ \A z \in Sessions : m2[z] = IF z = s THEN o ELSE m[z]
      /\ In(m) \subseteq Sessions
  <2>1. In(m2) = In(m) \cup {s} /\ In(m) \subseteq Sessions
    BY MapFacts
  <2>2. \A z \in Sessions : m2[z] = IF z = s THEN o ELSE m[z]
    BY DEF SessionMaps
  <2>3. QED
    BY <2>1, <2>2, ConstantFacts DEF Given
<1> HIDE DEF m2
<1>2. \A z \in In(m) : m[z] \in Given /\ m[z].interval \in Nat
  BY MapFacts DEF Given
<1>3. ASSUME NEW p \in Given, Serves(p, m2), q = startTimeBasedTracking(s, p)
      PROVE  Multiplexed(q, s, m, m2, {"started"})
  <2> DEFINE r == Request("start", s, p, "started")
  <2>1. r \in Timed /\ r.session = s /\ r.then = "started" /\ r.options = p /\ q = <<r>>
    BY <1>3, RequestsMade, RequestFields DEF Timed, startTimeBasedTracking
  <2> HIDE DEF r, q
  <2>2. QED
    BY <1>1, <1>3, <2>1 DEF Multiplexed
<1>4. CASE In(m) = {}
  <2>1. q = startTimeBasedTracking(s, o)
    BY <1>4 DEF startTimeBasedTrackingMultiplex
  <2>2. Serves(o, m2)
    <3>1. In(m2) = {s} /\ m2[s] = o
      BY <1>1, <1>4
    <3>2. QED
      BY <1>1, <3>1 DEF Serves
  <2>3. QED
    BY <1>3, <2>1, <2>2
<1>5. CASE In(m) # {}
  <2>1. k \in In(m) /\ m[k] \in Given /\ m[k].interval \in Nat
        /\ \A z \in In(m) : m[k].interval <= m[z].interval
    BY <1>2, <1>5, SmallestIsOne
  <2> DEFINE T == {j \in In(m) : j >= k}
             quality == MostOf({m[j].quality : j \in T})
             power == MultiplexedPower(m, In(m))
             p == [m[k] EXCEPT !.interval = LeastOf({@, o.interval}),
                               !.power = IF o.power < power THEN o.power ELSE @,
                               !.quality = MostOf({quality, o.quality})]
  <2>2. quality \in Nat /\ power \in Nat /\ o.quality \in Nat
    <3>1. T # {} /\ T \in SUBSET In(m)
      BY <2>1, MapFacts, ConstantFacts
    <3> HIDE DEF T
    <3>2. QED
      BY <3>1, QualityType, PowerType DEF Given
  <2>3. CASE o.interval < m[k].interval \/ o.power < power \/ o.quality > quality
    <3>1. q = startTimeBasedTracking(s, p)
      BY <1>5, <2>3 DEF startTimeBasedTrackingMultiplex
    <3>2. LeastOf({m[k].interval, o.interval}) \in Nat \ {0}
          /\ LeastOf({m[k].interval, o.interval}) <= m[k].interval
          /\ LeastOf({m[k].interval, o.interval}) <= o.interval
      <4>1. m[k].interval \in Nat \ {0} /\ o.interval \in Nat \ {0}
        BY <2>1 DEF Given
      <4>2. QED
        BY <4>1, OfTwo
    <3>3. MostOf({quality, o.quality}) \in Nat
      BY <2>2, OfTwo
    <3> HIDE DEF quality, power
    <3>4. p \in Given /\ p.interval = LeastOf({m[k].interval, o.interval})
      BY <2>1, <3>2, <3>3 DEF Given
    <3>5. Serves(p, m2)
      <4> HIDE DEF p
      <4>1. \A z \in In(m2) : p.interval <= m2[z].interval
        BY <1>1, <1>2, <2>1, <3>2, <3>4
      <4>2. QED
        BY <3>4, <4>1, ConstantFacts DEF Serves
    <3>6. QED
      BY <1>3, <3>1, <3>4, <3>5
  <2>4. CASE ~(o.interval < m[k].interval \/ o.power < power \/ o.quality > quality)
    <3>1. q = <<>>
      BY <1>5, <2>4 DEF startTimeBasedTrackingMultiplex
    <3>2. ASSUME NEW t \in Given \cup {NoOptions}, Serves(t, m) PROVE Serves(t, m2)
      <4>1. t # NoOptions /\ t.interval <= m[k].interval /\ t.interval \in Nat
        BY <2>1, <3>2 DEF Serves, Given
      <4>2. t.interval <= o.interval
        BY <1>1, <2>1, <2>4, <4>1
      <4>3. QED
        BY <1>1, <3>2, <4>1, <4>2 DEF Serves
    <3> HIDE DEF q
    <3>3. QED
      BY <1>1, <3>1, <3>2 DEF Multiplexed
  <2>5. QED
    BY <2>3, <2>4
<1>6. QED
  BY <1>4, <1>5

\* An update serves the other sessions and the new options.
LEMMA UpdateMultiplexed ==
  ASSUME NEW m \in SessionMaps, NEW s \in In(m), NEW o \in Given,
         DbtSupported => ~m[s].distance
  PROVE  Multiplexed(updateTrackingMultiplex(m, s, o), s, m, [m EXCEPT ![s] = o], {"updated"})
<1> DEFINE q == updateTrackingMultiplex(m, s, o)
           m2 == [m EXCEPT ![s] = o]
           S == In(m) \ {s}
           most == MultiplexedOptions(m, S)
           power == MultiplexedPower(m, S)
<1> SUFFICES Multiplexed(q, s, m, m2, {"updated"})
  OBVIOUS
<1>1. /\ In(m2) = In(m) /\ o.interval \in Nat /\ o # NoOptions
      /\ \A z \in Sessions : m2[z] = IF z = s THEN o ELSE m[z]
      /\ s \in Sessions /\ m[s] \in Given /\ S \in SUBSET In(m) /\ In(m) \subseteq Sessions
  <2>1. In(m) \subseteq Sessions /\ m[s] \in Given
    BY MapFacts
  <2>2. In(m2) = In(m) \cup {s}
    BY <2>1, MapFacts
  <2>3. \A z \in Sessions : m2[z] = IF z = s THEN o ELSE m[z]
    BY DEF SessionMaps
  <2>4. o.interval \in Nat /\ o # NoOptions
    BY ConstantFacts DEF Given
  <2> HIDE DEF m2
  <2>5. QED
    BY <2>1, <2>2, <2>3, <2>4
<1> HIDE DEF m2
<1>2. \A z \in In(m) : m[z] \in Given /\ m[z].interval \in Nat
  BY MapFacts DEF Given
<1>3. ASSUME NEW p \in Given, Serves(p, m2),
             q = <<[Request("start", s, p, "updated") EXCEPT !.old = m[s]]>>
      PROVE  Multiplexed(q, s, m, m2, {"updated"})
  <2> DEFINE r == [Request("start", s, p, "updated") EXCEPT !.old = m[s]]
  <2>1. r \in Timed /\ r.session = s /\ r.then = "updated" /\ r.options = p /\ q = <<r>>
    <3>1. r \in Made
      BY <1>1, RequestsMade
    <3>2. r.call = "start" /\ r.session = s /\ r.then = "updated" /\ r.options = p
      BY DEF Request
    <3>3. QED
      BY <1>3, <3>1, <3>2 DEF Timed
  <2> HIDE DEF r, q
  <2>2. QED
    BY <1>1, <1>3, <2>1 DEF Multiplexed
<1>4. CASE m[s].interval = o.interval /\ m[s].power = o.power
  <2>1. q = <<>>
    BY <1>4 DEF updateTrackingMultiplex
  <2>2. ASSUME NEW t \in Given \cup {NoOptions}, Serves(t, m) PROVE Serves(t, m2)
    <3>1. QED
      BY <1>1, <1>4, <2>2 DEF Serves
  <2> HIDE DEF q
  <2>3. QED
    BY <1>1, <2>1, <2>2 DEF Multiplexed
<1>5. CASE ~(m[s].interval = o.interval /\ m[s].power = o.power) /\ S = {}
  <2>1. q = <<[Request("start", s, o, "updated") EXCEPT !.old = m[s]]>>
    BY <1>5 DEF updateTrackingMultiplex
  <2>2. Serves(o, m2)
    <3>1. In(m2) = {s} /\ m2[s] = o
      BY <1>1, <1>5
    <3>2. QED
      BY <1>1, <3>1 DEF Serves
  <2>3. QED
    BY <1>3, <2>1, <2>2
<1>6. CASE ~(m[s].interval = o.interval /\ m[s].power = o.power) /\ S # {}
  <2>1. most \in Given /\ most.interval \in Nat
        /\ \E k \in S : most = m[k]
        /\ \A z \in S : most.interval <= m[z].interval
    <3> HIDE DEF S
    <3>1. QED
      BY <1>1, <1>6, SmallestIsOne DEF MultiplexedOptions, Given
  <2>2. power \in Nat
    BY <1>1, PowerType
  <2> DEFINE p == [most EXCEPT !.interval = LeastOf({@, o.interval}),
                               !.power = IF o.power < power THEN o.power ELSE @]
  <2>3. CASE o.interval < most.interval \/ o.power < power
    <3>1. q = <<[Request("start", s, p, "updated") EXCEPT !.old = m[s]]>>
      BY <1>6, <2>3 DEF updateTrackingMultiplex
    <3>2. LeastOf({most.interval, o.interval}) \in Nat \ {0}
          /\ LeastOf({most.interval, o.interval}) <= most.interval
          /\ LeastOf({most.interval, o.interval}) <= o.interval
      <4>1. most.interval \in Nat \ {0} /\ o.interval \in Nat \ {0}
        BY <2>1 DEF Given
      <4> HIDE DEF most
      <4>2. QED
        BY <4>1, OfTwo
    <3> HIDE DEF power, most
    <3>4. p \in Given /\ p.interval = LeastOf({most.interval, o.interval})
      BY <2>1, <3>2 DEF Given
    <3>5. Serves(p, m2)
      <4> HIDE DEF p
      <4>1. \A z \in In(m2) : p.interval <= m2[z].interval
        BY <1>1, <1>2, <2>1, <3>2, <3>4
      <4>2. QED
        BY <3>4, <4>1, ConstantFacts DEF Serves
    <3>6. QED
      BY <1>3, <3>1, <3>4, <3>5
  <2>4. CASE ~(o.interval < most.interval \/ o.power < power)
    <3>1. q = <<>>
      BY <1>6, <2>4 DEF updateTrackingMultiplex
    <3>2. ASSUME NEW t \in Given \cup {NoOptions}, Serves(t, m) PROVE Serves(t, m2)
      <4>1. t # NoOptions /\ t.interval <= most.interval /\ t.interval \in Nat
        <5> HIDE DEF most
        <5>1. QED
          BY <1>1, <2>1, <3>2 DEF Serves, Given
      <4>2. t.interval <= o.interval
        BY <1>1, <2>1, <2>4, <4>1
      <4>3. QED
        BY <1>1, <3>2, <4>1, <4>2 DEF Serves
    <3> HIDE DEF q
    <3>3. QED
      BY <1>1, <3>1, <3>2 DEF Multiplexed
  <2>5. QED
    BY <2>3, <2>4
<1>7. QED
  BY <1>4, <1>5, <1>6

\* A stop serves the other sessions; the last one stops the modem.
LEMMA StopMultiplexed ==
  ASSUME NEW m \in SessionMaps, NEW s \in In(m)
  PROVE  Multiplexed(stopTimeBasedTrackingMultiplex(m, s), s, m, [m EXCEPT ![s] = NoOptions],
                     {"started", "respond"})
<1> DEFINE q == stopTimeBasedTrackingMultiplex(m, s)
           m2 == [m EXCEPT ![s] = NoOptions]
           S == In(m) \ {s}
           most == MultiplexedOptions(m, S)
           power == MultiplexedPower(m, S)
<1> SUFFICES Multiplexed(q, s, m, m2, {"started", "respond"})
  OBVIOUS
<1>1. /\ In(m2) = S /\ s \in Sessions /\ S \in SUBSET In(m)
      /\ \A z \in S : m2[z] = m[z] /\ m[z] \in Given
  <2>1. In(m) \subseteq Sessions /\ \A z \in In(m) : m[z] \in Given
    BY MapFacts
  <2>2. In(m2) = In(m) \ {s}
    BY <2>1, MapFacts
  <2>3. \A z \in S : m2[z] = m[z]
    BY <2>1 DEF SessionMaps
  <2>4. QED
    BY <2>1, <2>2, <2>3
<1> HIDE DEF m2
<1>2. CASE S = {}
  <2> DEFINE r == Request("stop", s, NoOptions, "respond")
  <2>1. q = <<r>>
    BY <1>2 DEF stopTimeBasedTrackingMultiplex
  <2>2. r \in Timed /\ r.session = s /\ r.then = "respond" /\ r.options = NoOptions
    <3>1. r \in Made
      BY <1>1, RequestsMade, ConstantFacts DEF Made, Requests, Request, Calls, Thens, OptionRecords
    <3>2. QED
      BY <3>1, RequestFields DEF Timed
  <2>3. Serves(NoOptions, m2)
    BY <1>1, <1>2 DEF Serves
  <2> HIDE DEF r, q
  <2>4. QED
    BY <2>1, <2>2, <2>3 DEF Multiplexed
<1>3. CASE S # {}
  <2>1. most \in Given /\ most.interval \in Nat /\ \A z \in S : most.interval <= m[z].interval
        /\ \E k \in S : most = m[k]
    <3> HIDE DEF S
    <3>1. QED
      BY <1>1, <1>3, SmallestIsOne DEF MultiplexedOptions, Given
  <2>2. power \in Nat
    BY <1>1, PowerType
  <2>3. CASE m[s].interval < most.interval \/ m[s].power < power
    <3> DEFINE p == [most EXCEPT !.power = power]
               r == Request("start", s, p, "started")
    <3>1. q = <<r>>
      BY <1>3, <2>3 DEF stopTimeBasedTrackingMultiplex, startTimeBasedTracking
    <3> HIDE DEF most, power
    <3>2. p \in Given /\ p.interval = most.interval
      BY <2>1, <2>2 DEF Given
    <3>3. p # NoOptions
      BY <3>2, ConstantFacts
    <3> HIDE DEF p
    <3>4. r \in Timed /\ r.session = s /\ r.then = "started" /\ r.options = p
      BY <1>1, <3>2, RequestsMade, RequestFields DEF Timed
    <3>5. Serves(p, m2)
      BY <1>1, <2>1, <3>2, <3>3 DEF Serves
    <3> HIDE DEF r, q
    <3>6. QED
      BY <1>1, <1>3, <3>1, <3>4, <3>5 DEF Multiplexed
  <2>4. CASE ~(m[s].interval < most.interval \/ m[s].power < power)
    <3>1. q = <<>>
      BY <1>3, <2>4 DEF stopTimeBasedTrackingMultiplex
    <3>2. \A t \in Given \cup {NoOptions} : Serves(t, m) => Serves(t, m2)
      BY <1>1 DEF Serves
    <3> HIDE DEF q
    <3>3. QED
      BY <1>1, <1>3, <3>1, <3>2 DEF Multiplexed
  <2>5. QED
    BY <2>3, <2>4
<1>4. QED
  BY <1>2, <1>3

\* What the requests q do for the time-based sessions, as their map becomes m2:
\* none is for them, and what served m serves m2; or the last one serves m2.
Turned(q, m, m2) ==
  \/ /\ ~Has(q, Timed)
     /\ \A o \in Given \cup {NoOptions} : Serves(o, m) => Serves(o, m2)
     /\ In(m2) = {} => In(m) = {}
  \/ \E o \in Given \cup {NoOptions} :
       EndsIn(q, TimedTo(o), Timed) /\ Serves(o, m2) /\ (In(m2) = {} => o = NoOptions)

\* A request is for proper options.
LEMMA MadeFacts ==
  ASSUME NEW r \in Made
  PROVE  /\ r \in Requests
         /\ r \in Timed => r.options \in Given \cup {NoOptions} /\ r \in TimedTo(r.options)
BY DEF Made, Timed, TimedTo, Given

\* Multiplexing serves the sessions.
LEMMA MultiplexedTurned ==
  ASSUME NEW q, NEW s, NEW m, NEW m2, NEW K, Multiplexed(q, s, m, m2, K)
  PROVE  Turned(q, m, m2) /\ q \in Seq(Made)
<1>1. CASE /\ q = <<>> /\ In(m2) # {}
           /\ \A o \in Given \cup {NoOptions} : Serves(o, m) => Serves(o, m2)
  BY <1>1, ShortHas, EmptySeq DEF Turned
<1>2. ASSUME NEW r \in Timed, q = <<r>>, Serves(r.options, m2), In(m2) = {} => r.options = NoOptions
      PROVE  Turned(q, m, m2) /\ q \in Seq(Made)
  <2>1. r \in Made /\ r.options \in Given \cup {NoOptions} /\ r \in TimedTo(r.options)
    BY MadeFacts DEF Timed
  <2>2. EndsIn(q, TimedTo(r.options), Timed)
    BY <1>2, <2>1, ShortHas
  <2>3. q \in Seq(Made)
    BY <1>2, <2>1
  <2>4. QED
    BY <1>2, <2>1, <2>2, <2>3 DEF Turned
<1>3. QED
  BY <1>1, <1>2 DEF Multiplexed

\* The time-based sessions of a client that is removed are stopped one by one;
\* the last request serves the sessions that are left.
LEMMA StopClientTurned ==
  ASSUME NEW t \in SessionMaps, NEW S \in SUBSET In(t)
  PROVE  LET q == StopClient(t, S)[1]
             u == StopClient(t, S)[2]
         IN  /\ u \in SessionMaps /\ In(u) = In(t) \ S /\ u = Without(t, S)
             /\ \A z \in Sessions \ S : u[z] = t[z]
             /\ q \in Seq(Made)
             /\ \A i \in DOMAIN q : /\ q[i] \in Timed /\ q[i].session \in S
                                    /\ q[i].then \in {"started", "respond"}
             /\ Turned(q, t, u)
<1> DEFINE before(s) == Without(t, {r \in S : r < s})
           stop(s) == stopTimeBasedTrackingMultiplex(before(s), s)
           A == {s \in S : stop(s) # <<>>}
           ids == InOrder(A)
           q == [i \in DOMAIN ids |-> Head(stop(ids[i]))]
           u == Without(t, S)
<1>1. StopClient(t, S) = <<q, u>>
  BY DEF StopClient
<1>2. /\ u \in SessionMaps /\ In(u) = In(t) \ S /\ \A z \in Sessions \ S : u[z] = t[z]
      /\ \A z \in In(t) : t[z] \in Given
      /\ In(t) \subseteq Sessions /\ S \subseteq Sessions
  BY MapFacts DEF Without, SessionMaps, In
<1>3. ASSUME NEW s \in S
      PROVE  LET m2 == [before(s) EXCEPT ![s] = NoOptions]
             IN  /\ Multiplexed(stop(s), s, before(s), m2, {"started", "respond"})
                 /\ In(m2) = In(t) \ {r \in S : r <= s}
                 /\ \A z \in In(u) : m2[z] = t[z]
  <2> DEFINE m == before(s)
             m2 == [m EXCEPT ![s] = NoOptions]
  <2>1. m \in SessionMaps /\ In(m) = In(t) \ {r \in S : r < s} /\ \A z \in Sessions \ S : m[z] = t[z]
    BY <1>2 DEF Without, SessionMaps, In
  <2>2. s \in In(m) /\ s \in Nat
    BY <1>2, <2>1, ConstantFacts
  <2>3. Multiplexed(stop(s), s, m, m2, {"started", "respond"})
    <3> HIDE DEF m
    <3>1. QED
      BY <2>1, <2>2, StopMultiplexed DEF m
  <2>4. In(m2) = In(m) \ {s}
    <3> HIDE DEF m
    <3>1. QED
      BY <1>2, <2>1, MapFacts
  <2>5. In(m2) = In(t) \ {r \in S : r <= s}
    <3>1. \A r \in S : r <= s <=> (r < s \/ r = s)
      BY <1>2, ConstantFacts
    <3> HIDE DEF m2
    <3>2. QED
      BY <2>1, <2>4, <3>1
  <2>6. \A z \in In(u) : m2[z] = t[z]
    BY <1>2, <2>1 DEF SessionMaps
  <2>7. QED
    BY <2>3, <2>5, <2>6
<1> HIDE DEF before
<1>4. ASSUME NEW s \in A
      PROVE  LET r == Head(stop(s))
             IN  /\ r \in Timed /\ r \in Made /\ r.session \in S
                 /\ r.then \in {"started", "respond"}
                 /\ Serves(r.options, u)
                 /\ In(t) = {z \in S : z <= s} => r.options = NoOptions
  <2> DEFINE m2 == [before(s) EXCEPT ![s] = NoOptions]
  <2>1. /\ Multiplexed(stop(s), s, before(s), m2, {"started", "respond"}) /\ s \in S
        /\ In(m2) = In(t) \ {r \in S : r <= s}
        /\ \A z \in In(u) : m2[z] = t[z]
        /\ stop(s) # <<>>
    BY <1>3
  <2> HIDE DEF m2, stop
  <2>2. PICK r \in Timed : /\ stop(s) = <<r>> /\ r.session = s /\ r.then \in {"started", "respond"}
                           /\ Serves(r.options, m2)
                           /\ In(m2) = {} => r.options = NoOptions
    BY <2>1 DEF Multiplexed
  <2>3. Head(stop(s)) = r
    BY <2>2
  <2>4. In(u) \subseteq In(m2) /\ \A z \in In(u) : u[z] = m2[z]
    BY <1>2, <2>1
  <2>5. Serves(r.options, u)
    BY <2>2, <2>4 DEF Serves
  <2>6. QED
    BY <2>1, <2>2, <2>3, <2>5 DEF Timed
<1>5. /\ ids \in Seq(A) /\ DOMAIN ids = 1..Len(ids) /\ Len(ids) \in Nat
      /\ \A i, j \in DOMAIN ids : i < j => ids[i] < ids[j]
      /\ \A s \in A : \E i \in DOMAIN ids : ids[i] = s
      /\ \A i \in DOMAIN ids : ids[i] \in A
  <2>1. A \in SUBSET Sessions
    BY <1>2
  <2> HIDE DEF A
  <2>2. QED
    BY <2>1, Ordered, LenProperties, ElementOfSeq
<1> HIDE DEF ids
<1>6. /\ q \in Seq(Made) /\ DOMAIN q = 1..Len(ids)
      /\ \A i \in DOMAIN q : /\ q[i] \in Timed /\ q[i].session \in S
                             /\ q[i].then \in {"started", "respond"}
                             /\ Serves(q[i].options, u)
                             /\ In(t) = {z \in S : z <= ids[i]} => q[i].options = NoOptions
  <2>1. ASSUME NEW i \in DOMAIN ids
        PROVE  LET r == Head(stop(ids[i]))
               IN  /\ r \in Timed /\ r \in Made /\ r.session \in S
                   /\ r.then \in {"started", "respond"}
                   /\ Serves(r.options, u)
                   /\ In(t) = {z \in S : z <= ids[i]} => r.options = NoOptions
    <3>1. ids[i] \in A
      BY <1>5
    <3> HIDE DEF A, stop, u
    <3>2. QED
      BY <1>4, <3>1
  <2> HIDE DEF A, stop, u
  <2>2. QED
    BY <1>5, <2>1
\* If no session is left, the last of S asks for the stop.
<1>7. ASSUME In(u) = {}, S # {}
      PROVE  \E k \in A : \A j \in S : j <= k
  <2>1. S = In(t) /\ S \subseteq Sessions
    BY <1>2, <1>7
  <2>2. PICK k \in S : \A j \in S : j <= k
    <3> DEFINE f == [x \in Sessions |-> x]
    <3>1. \A x \in Sessions : f[x] \in Nat
      BY ConstantFacts
    <3>2. \E x \in S : \A j \in S : f[j] <= f[x]
      <4> HIDE DEF f
      <4>1. QED
        BY <1>7, <2>1, <3>1, Most, ConstantFacts
    <3>3. QED
      BY <2>1, <3>2
  <2>3. stop(k) # <<>>
    <3> DEFINE m2 == [before(k) EXCEPT ![k] = NoOptions]
    <3>1. {r \in S : r <= k} = S
      BY <2>2
    <3>2. In(m2) = {} /\ Multiplexed(stop(k), k, before(k), m2, {"started", "respond"})
      BY <1>3, <2>1, <3>1
    <3> HIDE DEF stop, m2
    <3>3. PICK r : stop(k) = <<r>>
      BY <3>2 DEF Multiplexed
    <3>4. <<r>> # <<>>
      OBVIOUS
    <3>5. QED
      BY <3>3, <3>4
  <2>4. QED
    BY <2>2, <2>3
<1>8. Turned(q, t, u)
  <2>1. CASE A = {}
    <3>1. DOMAIN ids = {}
      BY <1>5, <2>1
    <3>2. ~Has(q, Timed)
      BY <3>1 DEF Has
    <3>3. \A o \in Given \cup {NoOptions} : Serves(o, t) => Serves(o, u)
      <4> HIDE DEF u
      <4>1. QED
        BY <1>2 DEF Serves
    <3>4. In(u) = {} => In(t) = {}
      BY <1>2, <1>7, <2>1
    <3> HIDE DEF q, u
    <3>5. QED
      BY <3>2, <3>3, <3>4 DEF Turned
  <2>2. CASE A # {}
    <3> DEFINE n == Len(ids)
               o == q[n].options
    <3>1. n \in DOMAIN ids /\ n \in DOMAIN q /\ n \in Nat
      <4>1. DOMAIN ids # {}
        BY <1>5, <2>2
      <4>2. QED
        BY <1>5, <1>6, <4>1
    <3>2. q[n] \in TimedTo(o) /\ o \in Given \cup {NoOptions} /\ Serves(o, u)
      <4> HIDE DEF q, u, n
      <4>1. QED
        BY <1>6, <3>1, MadeFacts DEF Timed
    <3>3. EndsIn(q, TimedTo(o), Timed)
      <4>1. \A j \in DOMAIN q : ~(n < j)
        BY <1>5, <1>6
      <4> HIDE DEF q, o, n
      <4>2. QED
        BY <3>1, <3>2, <4>1 DEF EndsIn
    <3>4. ASSUME In(u) = {} PROVE o = NoOptions
      <4>1. S = In(t) /\ ids[n] \in S /\ S \subseteq Nat
        BY <1>2, <1>5, <3>1, <3>4, ConstantFacts
      <4>2. PICK k \in A : \A j \in S : j <= k
        BY <1>7, <3>4, <4>1
      <4>3. PICK i \in DOMAIN ids : ids[i] = k
        BY <1>5
      <4>4. ids[n] = k
        <5>1. ~(i < n) \/ k < ids[n]
          BY <1>5, <3>1, <4>3
        <5>2. ids[n] <= k /\ ids[n] \in Nat /\ k \in Nat
          BY <4>1, <4>2
        <5>3. i = n
          BY <1>5, <5>1, <5>2
        <5>4. QED
          BY <4>3, <5>3
      <4>5. In(t) = {z \in S : z <= ids[n]}
        BY <4>1, <4>2, <4>4
      <4>6. QED
        <5> HIDE DEF q, n
        <5>1. QED
          BY <1>6, <3>1, <4>5
    <3> HIDE DEF q, u, o
    <3>5. QED
      BY <3>2, <3>3, <3>4 DEF Turned
  <2>3. QED
    BY <2>1, <2>2
<1>9. QED
  <2> HIDE DEF q, u
  <2>1. StopClient(t, S)[1] = q /\ StopClient(t, S)[2] = u
    BY <1>1
  <2>2. QED
    BY <1>2, <1>6, <1>8, <2>1 DEF u

\* The options of a restart serve the sessions.
LEMMA RestartServes ==
  ASSUME NEW m \in SessionMaps, In(m) # {}
  PROVE  RestartOptions(m) \in Given /\ Serves(RestartOptions(m), m)
<1> DEFINE S == In(m)
           k == SmallestInterval(m, S)
           first == m[LeastOf(S)].power
           V == {m[s].power : s \in {s \in S : m[s].power # 0}}
           w == IF first = 0 THEN 0 ELSE LeastOf(V)
           p == [m[k] EXCEPT !.power = w]
<1>1. /\ k \in S /\ m[k] \in Given /\ \A s \in S : m[k].interval <= m[s].interval
      /\ \A s \in S : m[s] \in Given
  BY SmallestIsOne, MapFacts
<1>2. w \in Nat
  <2>1. S \in SUBSET Nat /\ S # {}
    BY MapFacts, ConstantFacts
  <2>2. LeastOf(S) \in S
    <3> HIDE DEF S
    <3>1. QED
      BY <2>1, LeastOfIsLeast
  <2>3. CASE first # 0
    <3>1. V \in SUBSET Nat /\ V # {}
      BY <1>1, <2>2, <2>3 DEF Given
    <3>2. LeastOf(V) \in Nat
      <4> HIDE DEF V
      <4>1. QED
        BY <3>1, LeastOfIsLeast
    <3>3. QED
      BY <2>3, <3>2
  <2>4. QED
    BY <2>3
<1> HIDE DEF k, w
<1>3. p \in Given /\ p.interval = m[k].interval
  BY <1>1, <1>2 DEF Given
<1>4. p # NoOptions
  BY <1>3, ConstantFacts
<1> HIDE DEF p
<1>5. Serves(p, m)
  BY <1>1, <1>3, <1>4 DEF Serves
<1>6. QED
  BY <1>3, <1>5 DEF RestartOptions, p, k, w

\* A restart starts what the maps t and d have, and nothing else.
LEMMA RestartFacts ==
  ASSUME NEW t \in SessionMaps, NEW d \in SessionMaps
  PROVE  LET q == restartSessions(t, d)
         IN  /\ q \in Seq(Made)
             /\ \A i \in DOMAIN q : q[i].then = "nothing" /\ q[i].call \in {"start", "dstart"}
             /\ \A s \in Sessions : Has(q, Dstarts(s)) <=> s \in In(d)
             /\ In(t) = {} => ~Has(q, Timed)
             /\ In(t) # {} => \E o \in Given : EndsIn(q, TimedTo(o), Timed) /\ Serves(o, t)
<1> DEFINE ids == InOrder(In(d))
           r == Request("start", 0, RestartOptions(t), "nothing")
           a == IF In(t) = {} THEN <<>> ELSE <<r>>
           b == [i \in DOMAIN ids |-> Request("dstart", ids[i], d[ids[i]], "nothing")]
<1>1. restartSessions(t, d) = a \o b
  BY DEF restartSessions
<1>2. /\ DOMAIN ids = 1..Len(ids) /\ Len(ids) \in Nat
      /\ \A i \in DOMAIN ids : ids[i] \in In(d)
      /\ \A s \in In(d) : \E i \in DOMAIN ids : ids[i] = s
  <2>1. In(d) \in SUBSET Sessions
    BY MapFacts
  <2>2. QED
    BY <2>1, Ordered, LenProperties, ElementOfSeq
<1> HIDE DEF ids
<1>3. /\ b \in Seq(Made) /\ DOMAIN b = DOMAIN ids
      /\ \A i \in DOMAIN b : b[i].then = "nothing" /\ b[i].call = "dstart" /\ b[i].session = ids[i]
  <2>1. ASSUME NEW i \in DOMAIN ids
        PROVE  Request("dstart", ids[i], d[ids[i]], "nothing") \in Made
    <3>1. ids[i] \in Sessions /\ d[ids[i]] \in Given
      BY <1>2, MapFacts
    <3>2. QED
      BY <3>1, RequestsMade
  <2>2. DOMAIN b = DOMAIN ids /\ \A i \in DOMAIN b : b[i] \in Made
    BY <2>1
  <2>3. b \in [1..Len(ids) -> Made]
    BY <1>2, <2>1
  <2>4. b \in Seq(Made)
    BY <1>2, <2>3
  <2>5. \A i \in DOMAIN b : b[i].then = "nothing" /\ b[i].call = "dstart" /\ b[i].session = ids[i]
    BY RequestFields
  <2>6. QED
    BY <2>2, <2>4, <2>5
<1> HIDE DEF b
<1>4. ~Has(b, Timed) /\ \A s \in Sessions : Has(b, Dstarts(s)) <=> s \in In(d)
  <2>1. \A i \in DOMAIN b : b[i] \in Made
    BY <1>3, ElementOfSeq, LenProperties
  <2>2. ~Has(b, Timed)
    BY <1>3 DEF Has, Timed
  <2>3. \A s \in Sessions : Has(b, Dstarts(s)) <=> s \in In(d)
    BY <1>2, <1>3, <2>1 DEF Has, Dstarts
  <2>4. QED
    BY <2>2, <2>3
<1>5. CASE In(t) = {}
  <2>1. a \o b = b
    BY <1>3, <1>5, ConcatEmptySeq
  <2>2. QED
    BY <1>1, <1>3, <1>4, <1>5, <2>1
<1>6. CASE In(t) # {}
  <2>1. a = <<r>> /\ RestartOptions(t) \in Given /\ Serves(RestartOptions(t), t)
    BY <1>6, RestartServes
  <2>2. r.then = "nothing" /\ r.call = "start" /\ r.options = RestartOptions(t)
    BY RequestFields
  <2>3. r \in Made
    BY <2>1, ConstantFacts DEF Made, Request, Requests, Calls, Thens
  <2>4. r \in Timed /\ r \in TimedTo(RestartOptions(t)) /\ \A s : r \notin Dstarts(s)
    BY <2>2, <2>3 DEF Timed, TimedTo, Dstarts
  <2> HIDE DEF r, a
  <2>5. a \in Seq(Made)
    BY <2>1, <2>3
  <2>6. a \o b \in Seq(Made)
    BY <1>3, <2>5, ConcatProperties
  <2>7. \A i \in DOMAIN (a \o b) : (a \o b)[i].then = "nothing"
                                    /\ (a \o b)[i].call \in {"start", "dstart"}
    <3>1. DOMAIN a = {1} /\ a[1] = r
      BY <2>1
    <3>2. /\ \A i \in DOMAIN a : (a \o b)[i] = a[i]
          /\ \A k \in DOMAIN b : (a \o b)[Len(a) + k] = b[k]
          /\ \A i \in DOMAIN (a \o b) : i \in DOMAIN a \/ \E k \in DOMAIN b : i = Len(a) + k
      BY <1>3, <2>5, ConcatPlaces
    <3>3. QED
      BY <1>3, <2>2, <3>1, <3>2
  <2>8. \A s \in Sessions : Has(a \o b, Dstarts(s)) <=> s \in In(d)
    <3> TAKE s \in Sessions
    <3>1. Has(a \o b, Dstarts(s)) <=> Has(a, Dstarts(s)) \/ Has(b, Dstarts(s))
      BY <1>3, <2>5, ConcatHas
    <3>2. ~Has(a, Dstarts(s))
      BY <2>1, <2>4, ShortHas
    <3>3. QED
      BY <1>4, <3>1, <3>2
  <2>9. EndsIn(a \o b, TimedTo(RestartOptions(t)), Timed)
    <3>1. EndsIn(a, TimedTo(RestartOptions(t)), Timed)
      BY <2>1, <2>4, ShortHas
    <3>2. QED
      BY <1>3, <1>4, <2>5, <3>1, ConcatHas
  <2>10. QED
    BY <1>1, <1>6, <2>1, <2>6, <2>7, <2>8, <2>9
<1>7. QED
  BY <1>5, <1>6

\* A suspension stops the modem at most.
LEMMA SuspendFacts ==
  ASSUME NEW t \in SessionMaps
  PROVE  /\ suspendSessions(t) \in Seq(Made)
         /\ \A i \in DOMAIN suspendSessions(t) :
              suspendSessions(t)[i].then = "nothing" /\ suspendSessions(t)[i].call = "stop"
<1> DEFINE r == Request("stop", 0, NoOptions, "nothing")
<1>1. r \in Made
  BY ConstantFacts DEF Made, Request, Requests, Calls, Thens
<1>2. r.then = "nothing" /\ r.call = "stop"
  BY RequestFields
<1> HIDE DEF r
<1>3. <<r>> \in Seq(Made) /\ DOMAIN <<r>> = {1} /\ <<r>>[1] = r
  BY <1>1
<1>4. CASE In(t) = {}
  BY <1>4, EmptySeq DEF suspendSessions
<1>5. CASE In(t) # {}
  <2>1. suspendSessions(t) = <<r>>
    BY <1>5 DEF suspendSessions, r
  <2>2. QED
    BY <1>2, <1>3, <2>1
<1>6. QED
  BY <1>4, <1>5

-----------------------------------------------------------------------------
(* What is in flight about a session.                                      *)

\* Elements of the queues.
LEMMA Kinds ==
  ASSUME NEW s \in Sessions, NEW K, NEW z \in Sessions \ {s}, NEW L
  PROVE  /\ Pk(s) \subseteq Waiting /\ An(s, K) \subseteq Replies /\ Rq(s, K) \subseteq Made
         /\ Waiting \subseteq Msgs /\ Replies \subseteq Msgs /\ EngineUp \in Msgs
         /\ EngineUp \notin Waiting \cup Replies /\ Waiting \cap Replies = {}
         /\ Pk(s) \cap Pk(z) = {} /\ An(s, K) \cap An(z, L) = {} /\ Rq(s, K) \cap Rq(z, L) = {}
BY DEF Pk, An, Rq, Waiting, Replies, Msgs, EngineUp

\* A message is one of the three.
LEMMA MsgCases ==
  ASSUME NEW a \in Msgs
  PROVE  /\ a.kind \in {"start", "update"} => a \in Waiting /\ a \in Pk(a.session)
         /\ a.kind = "answer" => a \in Replies /\ a.req \in Made /\ a.req.then # "nothing"
         /\ a = EngineUp \/ a.kind \in {"start", "update", "answer"}
<1>1. CASE a \in Waiting
  BY <1>1 DEF Waiting, Pk
<1>2. CASE a \in Replies
  BY <1>2 DEF Replies
<1>3. CASE a = EngineUp
  BY <1>3 DEF EngineUp
<1>4. QED
  BY <1>1, <1>2, <1>3 DEF Msgs

\* The sum is a number; it is none when there is none, and it grows with the closures.
LEMMA AmountType ==
  ASSUME NEW p \in Seq(Waiting), NEW m \in Seq(Msgs), NEW r \in Seq(Made),
         NEW s \in Sessions, NEW K
  PROVE  /\ Amount(p, m, r, s, K) \in Nat
         /\ Amount(p, m, r, s, K) = 0 <=>
              ~Has(p, Pk(s)) /\ ~Has(m, Pk(s) \cup An(s, K)) /\ ~Has(r, Rq(s, K))
<1>1. /\ Count(p, Pk(s)) \in Nat /\ Count(m, Pk(s) \cup An(s, K)) \in Nat
      /\ Count(r, Rq(s, K)) \in Nat
      /\ Count(p, Pk(s)) = 0 <=> ~Has(p, Pk(s))
      /\ Count(m, Pk(s) \cup An(s, K)) = 0 <=> ~Has(m, Pk(s) \cup An(s, K))
      /\ Count(r, Rq(s, K)) = 0 <=> ~Has(r, Rq(s, K))
  BY CountFacts
<1>2. QED
  BY <1>1 DEF Amount

\* More closures, more elements.
LEMMA CountMore ==
  ASSUME NEW S, NEW q \in Seq(S), NEW V, NEW W, V \subseteq W
  PROVE  Count(q, V) \in Nat /\ Count(q, W) \in Nat /\ Count(q, V) <= Count(q, W)
<1> DEFINE A == {i \in DOMAIN q : q[i] \in V}
           B == {i \in DOMAIN q : q[i] \in W}
<1>1. A \in SUBSET B
  OBVIOUS
<1>2. IsFiniteSet(B) /\ Count(q, V) \in Nat /\ Count(q, W) \in Nat
  BY CountFacts
<1> HIDE DEF A, B
<1>3. Cardinality(A) <= Cardinality(B)
  BY <1>1, <1>2, FS_Subset
<1>4. QED
  BY <1>2, <1>3 DEF Count, A, B

\* The more closures, the larger the sum.
LEMMA AmountMore ==
  ASSUME NEW p \in Seq(Waiting), NEW m \in Seq(Msgs), NEW r \in Seq(Made),
         NEW s \in Sessions, NEW K, NEW L, K \subseteq L
  PROVE  Amount(p, m, r, s, K) <= Amount(p, m, r, s, L)
<1>1. Pk(s) \cup An(s, K) \subseteq Pk(s) \cup An(s, L) /\ Rq(s, K) \subseteq Rq(s, L)
  BY DEF An, Rq
<1>2. /\ Count(m, Pk(s) \cup An(s, K)) \in Nat /\ Count(m, Pk(s) \cup An(s, L)) \in Nat
      /\ Count(m, Pk(s) \cup An(s, K)) <= Count(m, Pk(s) \cup An(s, L))
  BY <1>1, CountMore
<1>3. /\ Count(r, Rq(s, K)) \in Nat /\ Count(r, Rq(s, L)) \in Nat
      /\ Count(r, Rq(s, K)) <= Count(r, Rq(s, L))
  BY <1>1, CountMore
<1>4. Count(p, Pk(s)) \in Nat
  BY CountFacts
<1>5. QED
  BY <1>2, <1>3, <1>4 DEF Amount

\* The first message is taken, ...
LEMMA AmountTake ==
  ASSUME NEW p \in Seq(Waiting), NEW m \in Seq(Msgs), NEW r \in Seq(Made), m # <<>>,
         NEW s \in Sessions, NEW K
  PROVE  /\ Amount(p, m, r, s, K) \in Nat /\ Amount(p, Tail(m), r, s, K) \in Nat
         /\ Tail(m) \in Seq(Msgs)
         /\ Amount(p, m, r, s, K) =
              (IF Head(m) \in Pk(s) \cup An(s, K) THEN 1 ELSE 0) + Amount(p, Tail(m), r, s, K)
<1>1. Tail(m) \in Seq(Msgs)
  BY HeadFirst
<1>2. /\ Count(p, Pk(s)) \in Nat /\ Count(m, Pk(s) \cup An(s, K)) \in Nat
      /\ Count(r, Rq(s, K)) \in Nat /\ Count(Tail(m), Pk(s) \cup An(s, K)) \in Nat
  BY <1>1, CountFacts
<1>3. Count(m, Pk(s) \cup An(s, K)) =
        (IF Head(m) \in Pk(s) \cup An(s, K) THEN 1 ELSE 0) + Count(Tail(m), Pk(s) \cup An(s, K))
  BY TailHas
<1>4. PICK x \in {0, 1} : x = IF Head(m) \in Pk(s) \cup An(s, K) THEN 1 ELSE 0
  OBVIOUS
<1>5. /\ Amount(p, m, r, s, K) \in Nat /\ Amount(p, Tail(m), r, s, K) \in Nat
      /\ Amount(p, m, r, s, K) = x + Amount(p, Tail(m), r, s, K)
  <2> DEFINE a == Count(p, Pk(s))
             b == Count(m, Pk(s) \cup An(s, K))
             c == Count(Tail(m), Pk(s) \cup An(s, K))
             d == Count(r, Rq(s, K))
  <2>1. b = x + c
    BY <1>3, <1>4
  <2>2. Amount(p, m, r, s, K) = a + b + d /\ Amount(p, Tail(m), r, s, K) = a + c + d
    BY DEF Amount
  <2>3. a \in Nat /\ b \in Nat /\ c \in Nat /\ d \in Nat
    BY <1>2
  <2> HIDE DEF a, b, c, d
  <2>4. QED
    BY <1>4, <2>1, <2>2, <2>3
<1>6. QED
  BY <1>1, <1>4, <1>5

\* ... requests are made, ...
LEMMA AmountAsk ==
  ASSUME NEW p \in Seq(Waiting), NEW m \in Seq(Msgs), NEW r \in Seq(Made), NEW q \in Seq(Made),
         NEW r2, Joined(r2, r, q), NEW s \in Sessions, NEW K
  PROVE  /\ Amount(p, m, r, s, K) \in Nat /\ Count(q, Rq(s, K)) \in Nat /\ r2 \in Seq(Made)
         /\ Amount(p, m, r2, s, K) = Amount(p, m, r, s, K) + Count(q, Rq(s, K))
<1>1. r2 \in Seq(Made)
  BY JoinHas
<1>2. /\ Count(p, Pk(s)) \in Nat /\ Count(m, Pk(s) \cup An(s, K)) \in Nat
      /\ Count(r, Rq(s, K)) \in Nat /\ Count(q, Rq(s, K)) \in Nat
  BY CountFacts
<1>3. Count(r2, Rq(s, K)) = Count(r, Rq(s, K)) + Count(q, Rq(s, K))
  BY <1>1, JoinHas
<1>4. QED
  BY <1>1, <1>2, <1>3 DEF Amount

\* ... a message is parked, ...
LEMMA AmountPark ==
  ASSUME NEW p \in Seq(Waiting), NEW m \in Seq(Msgs), NEW r \in Seq(Made), NEW x \in Waiting,
         NEW p2, Extended(p2, p, x), NEW s \in Sessions, NEW K
  PROVE  /\ Amount(p, m, r, s, K) \in Nat /\ p2 \in Seq(Waiting)
         /\ Amount(p2, m, r, s, K) =
              Amount(p, m, r, s, K) + (IF x \in Pk(s) THEN 1 ELSE 0)
<1>1. p2 \in Seq(Waiting)
  BY AppendHas
<1>2. /\ Count(p, Pk(s)) \in Nat /\ Count(m, Pk(s) \cup An(s, K)) \in Nat
      /\ Count(r, Rq(s, K)) \in Nat
  BY CountFacts
<1>3. Count(p2, Pk(s)) = Count(p, Pk(s)) + (IF x \in Pk(s) THEN 1 ELSE 0)
  BY <1>1, AppendHas
<1>4. QED
  BY <1>1, <1>2, <1>3 DEF Amount

\* The messages m become m2 when what was parked, p, is posted after m's head.
Reposted(m2, m, p) == m # <<>> /\ Head(m) = EngineUp /\ Joined(m2, Tail(m), p)

\* ... what was parked is posted again, ...
LEMMA AmountRepost ==
  ASSUME NEW p \in Seq(Waiting), NEW m \in Seq(Msgs), NEW r \in Seq(Made),
         NEW m2, Reposted(m2, m, p), NEW p2, p2 = <<>>, NEW s \in Sessions, NEW K
  PROVE  Amount(p2, m2, r, s, K) = Amount(p, m, r, s, K)
<1> DEFINE W == Pk(s) \cup An(s, K)
<1>0. m # <<>> /\ Head(m) = EngineUp /\ Joined(m2, Tail(m), p)
  BY DEF Reposted
<1>1. Tail(m) \in Seq(Msgs) /\ p \in Seq(Msgs) /\ m2 \in Seq(Msgs)
  <2>1. Tail(m) \in Seq(Msgs)
    BY <1>0, HeadFirst
  <2>2. p \in Seq(Msgs)
    BY SeqMonotonic, Kinds DEF Msgs
  <2>3. QED
    BY <1>0, <2>1, <2>2, JoinHas
<1>2. \A i \in DOMAIN p : p[i] \in Waiting
  BY LenProperties, ElementOfSeq
<1>3. Pk(s) \subseteq Waiting /\ An(s, K) \cap Waiting = {} /\ (Replies \cup {EngineUp}) \cap Waiting = {}
  BY DEF Pk, An, Waiting, Replies, EngineUp
<1>4. {i \in DOMAIN p : p[i] \in W} = {i \in DOMAIN p : p[i] \in Pk(s)}
  BY <1>2, <1>3
<1>5. Count(p, W) = Count(p, Pk(s)) /\ (Has(p, W) <=> Has(p, Pk(s)))
      /\ ~Has(p, Replies \cup {EngineUp})
  BY <1>2, <1>3, <1>4 DEF Count, Has
<1>6. Count(<<>>, Pk(s)) = 0
  BY ShortCount
<1>7. Count(m2, W) = Count(Tail(m), W) + Count(p, W)
  <2> DEFINE h == Tail(m)
  <2>1. h \in Seq(Msgs) /\ Joined(m2, h, p)
    BY <1>0, <1>1
  <2> HIDE DEF W, h
  <2>2. Count(m2, W) = Count(h, W) + Count(p, W)
    BY <1>1, <2>1, JoinHas
  <2>3. QED
    BY <2>2 DEF h
<1>8. Count(m, W) = Count(Tail(m), W)
  <2>1. Head(m) \notin W
    BY <1>0 DEF Pk, An, Waiting, Replies, EngineUp
  <2>2. Count(m, W) = (IF Head(m) \in W THEN 1 ELSE 0) + Count(Tail(m), W)
    <3> HIDE DEF W
    <3>1. QED
      BY <1>0, TailHas
  <2>3. Count(Tail(m), W) \in Nat
    BY <1>1, CountFacts
  <2> HIDE DEF W
  <2>4. QED
    BY <2>1, <2>2, <2>3
<1>9. /\ Count(p, Pk(s)) \in Nat /\ Count(Tail(m), W) \in Nat /\ Count(r, Rq(s, K)) \in Nat
  BY <1>1, CountFacts
<1>10. Amount(p2, m2, r, s, K) = Amount(p, m, r, s, K)
  BY <1>5, <1>6, <1>7, <1>8, <1>9 DEF Amount
<1>11. QED
  BY <1>10

\* ... and LocApi carries out a request and answers.
LEMMA AmountCarry ==
  ASSUME NEW p \in Seq(Waiting), NEW m \in Seq(Msgs), NEW r \in Seq(Made), r # <<>>,
         NEW ok \in BOOLEAN, NEW s \in Sessions, NEW K, "nothing" \notin K,
         NEW a, a = [kind |-> "answer", req |-> Head(r), ok |-> ok],
         NEW m2, IF Head(r).then = "nothing" THEN m2 = m ELSE Extended(m2, m, a)
  PROVE  /\ Amount(p, m2, Tail(r), s, K) = Amount(p, m, r, s, K)
         /\ m2 \in Seq(Msgs) /\ Tail(r) \in Seq(Made) /\ Head(r) \in Made
         /\ Head(r).then # "nothing" => a \in Replies
         /\ \A L : \A z \in Sessions : "nothing" \notin L =>
              (a \in An(z, L) <=> Head(r) \in Rq(z, L))
<1> DEFINE W == Pk(s) \cup An(s, K)
<1>1. Head(r) \in Made /\ Tail(r) \in Seq(Made)
  BY HeadFirst
<1>2. Head(r).then # "nothing" => a \in Replies
  BY <1>1 DEF Replies
<1>3. \A L : \A z \in Sessions : "nothing" \notin L => (a \in An(z, L) <=> Head(r) \in Rq(z, L))
  BY <1>1, <1>2 DEF An, Rq, Replies
<1>4. a \notin Pk(s)
  BY DEF Pk, Waiting
<1>5. Count(r, Rq(s, K)) = (IF Head(r) \in Rq(s, K) THEN 1 ELSE 0) + Count(Tail(r), Rq(s, K))
  BY TailHas
<1>6. /\ Count(p, Pk(s)) \in Nat /\ Count(m, W) \in Nat /\ Count(r, Rq(s, K)) \in Nat
      /\ Count(Tail(r), Rq(s, K)) \in Nat
  BY <1>1, CountFacts
<1>7. CASE Head(r).then = "nothing"
  <2>1. Head(r) \notin Rq(s, K)
    BY <1>7 DEF Rq
  <2>2. Amount(p, m, Tail(r), s, K) = Amount(p, m, r, s, K)
    BY <1>5, <1>6, <2>1 DEF Amount
  <2>3. QED
    BY <1>1, <1>2, <1>3, <1>7, <2>2
<1>8. CASE Head(r).then # "nothing"
  <2>1. a \in Msgs /\ Extended(m2, m, a)
    BY <1>2, <1>8 DEF Msgs
  <2>2. m2 \in Seq(Msgs)
    BY <2>1, AppendHas
  <2>3. Count(m2, W) = Count(m, W) + (IF a \in W THEN 1 ELSE 0)
    <3> HIDE DEF W
    <3>1. QED
      BY <2>1, <2>2, AppendHas
  <2>4. a \in W <=> Head(r) \in Rq(s, K)
    BY <1>3, <1>4
  <2>5. Amount(p, m2, Tail(r), s, K) = Amount(p, m, r, s, K)
    BY <1>5, <1>6, <2>3, <2>4 DEF Amount
  <2>6. QED
    BY <1>1, <1>2, <1>3, <1>8, <2>2, <2>5
<1>9. QED
  BY <1>7, <1>8

-----------------------------------------------------------------------------
(* What a message does.                                                    *)

\* The maps stay proper and keep the other sessions.
MapsOfOthersKept(s) ==
  /\ TBS' \in SessionMaps /\ DBS' \in SessionMaps
  /\ \A z \in Sessions \ {s} : TBS'[z] = TBS[z] /\ DBS'[z] = DBS[z]
  /\ DbtSupported => \A z \in In(TBS') : ~TBS'[z].distance

\* The handling of a message about session s asks LocApi for q and parks as
\* many messages, called is as in the model, and sends as many responses: it
\* does at most one of these, and does not touch the other sessions.
Reacts(s, q, parked, called, sent) ==
  /\ q \in Seq(Made) /\ Joined(reqs', reqs, q)
  /\ \A i \in DOMAIN q : q[i].session = s /\ q[i].call # "open"
  /\ parked \in {0, 1} /\ sent \in {0, 1}
  /\ IF parked = 0 THEN mPendingMsgs' = mPendingMsgs
                   ELSE \E x \in Pk(s) : Extended(mPendingMsgs', mPendingMsgs, x)
  /\ owed' = [owed EXCEPT ![s] = @ + called - sent]
  /\ sent = 1 => owner'[s] \in mClientData
  /\ sent + parked + Count(q, Rq(s, ClientThens)) <= 1
  /\ MapsOfOthersKept(s)

\* It comes from a call of the client, or it is the first message of the queue.
Concerns(s, q, parked, called, sent) ==
  /\ Reacts(s, q, parked, called, sent)
  /\ \/ /\ called = 1 /\ msgs' = msgs
        /\ owner[s] \notin removed /\ owner'[s] \in Clients /\ (ClientsWait => owed[s] = 0)
        /\ \A z \in Sessions \ {s} : owner'[z] = owner[z]
     \/ /\ called = 0 /\ msgs # <<>> /\ msgs' = Tail(msgs) /\ owner' = owner
        /\ \/ Head(msgs) \in Pk(s) \cup An(s, ActiveThens)
           \/ Head(msgs) \in An(s, {"started", "respond"}) /\ q = <<>> /\ parked = 0
           \/ Head(msgs) \in An(s, {"removed"}) /\ q = <<>> /\ parked = 0 /\ sent = 0
  /\ UNCHANGED <<mClientData, removed, mIsEngineCapabilitiesKnown, mSystemPowerState, modem,
                 events>>

\* The sums.
LEMMA AmountAfter ==
  ASSUME Typed, NEW s \in Sessions, NEW q, NEW parked, NEW called, NEW sent,
         Reacts(s, q, parked, called, sent),
         msgs' = msgs \/ (msgs # <<>> /\ msgs' = Tail(msgs)),
         NEW z \in Sessions, NEW K
  PROVE  /\ mPendingMsgs' \in Seq(Waiting) /\ msgs' \in Seq(Msgs) /\ reqs' \in Seq(Made)
         /\ Amount(mPendingMsgs, msgs', reqs, z, K) \in Nat /\ Count(q, Rq(z, K)) \in Nat
         /\ Amount(mPendingMsgs', msgs', reqs', z, K) =
              Amount(mPendingMsgs, msgs', reqs, z, K) + (IF z = s THEN parked ELSE 0)
                + Count(q, Rq(z, K))
         /\ z # s => Count(q, Rq(z, K)) = 0
<1> DEFINE p == mPendingMsgs
           p2 == mPendingMsgs'
           m == msgs'
           r == reqs
           r2 == reqs'
<1>1. p \in Seq(Waiting) /\ r \in Seq(Made) /\ q \in Seq(Made)
  BY DEF Typed, Reacts
<1>2. m \in Seq(Msgs)
  <2>1. msgs # <<>> => Tail(msgs) \in Seq(Msgs)
    BY HeadFirst DEF Typed
  <2>2. QED
    BY <2>1 DEF Typed
<1>3. p2 \in Seq(Waiting) /\ Amount(p, m, r, z, K) \in Nat
      /\ Amount(p2, m, r, z, K) = Amount(p, m, r, z, K) + (IF z = s THEN parked ELSE 0)
  <2>1. CASE parked = 0
    <3>1. Amount(p, m, r, z, K) \in Nat
      <4> HIDE DEF m, p
      <4>1. QED
        BY <1>1, <1>2, AmountType
    <3>2. p2 = p
      BY <2>1 DEF Reacts
    <3>3. QED
      BY <1>1, <2>1, <3>1, <3>2
  <2>2. CASE parked # 0
    <3>1. PICK x \in Pk(s) : Extended(p2, p, x)
      BY <2>2 DEF Reacts
    <3>2. x \in Waiting /\ parked = 1 /\ (x \in Pk(z) <=> z = s)
      BY <2>2 DEF Pk, Reacts
    <3> HIDE DEF p, p2, m, r
    <3>3. QED
      BY <1>1, <1>2, <3>1, <3>2, AmountPark
  <2>3. QED
    BY <2>1, <2>2
<1>4. r2 \in Seq(Made) /\ Count(q, Rq(z, K)) \in Nat
      /\ Amount(p2, m, r2, z, K) = Amount(p2, m, r, z, K) + Count(q, Rq(z, K))
  <2>1. Joined(r2, r, q)
    BY DEF Reacts
  <2> HIDE DEF p, p2, m, r, r2
  <2>2. QED
    BY <1>1, <1>2, <1>3, <2>1, AmountAsk
<1>5. ASSUME z # s PROVE Count(q, Rq(z, K)) = 0
  <2>1. \A i \in DOMAIN q : q[i] \notin Rq(z, K)
    BY <1>5 DEF Reacts, Rq
  <2>2. QED
    BY <1>1, <2>1, CountFacts DEF Has
<1> HIDE DEF p, p2, m, r, r2
<1>6. Amount(p2, m, r2, z, K) =
        Amount(p, m, r, z, K) + (IF z = s THEN parked ELSE 0) + Count(q, Rq(z, K))
  BY <1>3, <1>4
<1>7. QED
  BY <1>2, <1>3, <1>4, <1>5, <1>6 DEF p, p2, m, r, r2

\* Such a step keeps the types and the count of responses.
LEMMA ConcernsSound ==
  ASSUME Typed, Counted, NEW s \in Sessions, NEW q, NEW parked, NEW called, NEW sent,
         Concerns(s, q, parked, called, sent),
         owner' \in [Sessions -> Clients \cup {NoClient}],
         commands' \in 0..MaxCommands, starting' \subseteq Sessions, stopped' \subseteq Sessions
  PROVE  Typed' /\ Counted'
<1> DEFINE p == mPendingMsgs
           p2 == mPendingMsgs'
           m == msgs
           m2 == msgs'
           r == reqs
           r2 == reqs'
           CT == ClientThens
           AT == ActiveThens
<1>1. Reacts(s, q, parked, called, sent) /\ (m2 = m \/ (m # <<>> /\ m2 = Tail(m)))
  BY DEF Concerns
<1>2. /\ p2 \in Seq(Waiting) /\ m2 \in Seq(Msgs) /\ r2 \in Seq(Made)
      /\ p \in Seq(Waiting) /\ m \in Seq(Msgs) /\ r \in Seq(Made)
      /\ \A K : \A z \in Sessions :
           /\ Amount(p, m2, r, z, K) \in Nat /\ Count(q, Rq(z, K)) \in Nat
           /\ Amount(p2, m2, r2, z, K) =
                Amount(p, m2, r, z, K) + (IF z = s THEN parked ELSE 0) + Count(q, Rq(z, K))
           /\ z # s => Count(q, Rq(z, K)) = 0
  <2>1. ASSUME NEW z \in Sessions, NEW K
        PROVE  /\ p2 \in Seq(Waiting) /\ m2 \in Seq(Msgs) /\ r2 \in Seq(Made)
               /\ Amount(p, m2, r, z, K) \in Nat /\ Count(q, Rq(z, K)) \in Nat
               /\ Amount(p2, m2, r2, z, K) =
                    Amount(p, m2, r, z, K) + (IF z = s THEN parked ELSE 0) + Count(q, Rq(z, K))
               /\ z # s => Count(q, Rq(z, K)) = 0
    BY <1>1, AmountAfter
  <2>2. p \in Seq(Waiting) /\ m \in Seq(Msgs) /\ r \in Seq(Made)
    BY DEF Typed
  <2>3. p2 \in Seq(Waiting) /\ m2 \in Seq(Msgs) /\ r2 \in Seq(Made)
    BY <2>1
  <2> HIDE DEF p, p2, m, m2, r, r2
  <2>4. QED
    BY <2>1, <2>2, <2>3
<1>3. ASSUME m # <<>>, m2 = Tail(m), NEW z \in Sessions, NEW K
      PROVE  /\ Amount(p, m, r, z, K) \in Nat
             /\ Amount(p, m, r, z, K) =
                  (IF Head(m) \in Pk(z) \cup An(z, K) THEN 1 ELSE 0) + Amount(p, m2, r, z, K)
  BY <1>2, <1>3, AmountTake
<1>4. /\ owed \in [Sessions -> Nat] /\ removed' = removed /\ mClientData' = mClientData
      /\ mClientData \cap removed = {} /\ NoClient \notin removed
  BY ConstantFacts DEF Typed, Concerns
<1>5. Count(q, Rq(s, AT)) <= Count(q, Rq(s, CT))
  <2>1. Rq(s, AT) \subseteq Rq(s, CT)
    BY DEF Rq, ActiveThens, ClientThens
  <2>2. q \in Seq(Made)
    BY <1>1 DEF Reacts
  <2>3. QED
    BY <2>1, <2>2, CountMore
<1>6. /\ parked \in {0, 1} /\ sent \in {0, 1}
      /\ owed' = [owed EXCEPT ![s] = @ + called - sent]
      /\ sent = 1 => owner'[s] \in mClientData
      /\ sent + parked + Count(q, Rq(s, CT)) <= 1
  BY <1>1 DEF Reacts
<1>7. ASSUME NEW z \in Sessions \ {s}
      PROVE  /\ owed'[z] = owed[z] /\ owner'[z] = owner[z]
             /\ \A K : Amount(p2, m2, r2, z, K) = Amount(p, m, r, z, K)
  <2>1. owed'[z] = owed[z]
    BY <1>4, <1>6
  <2>2. owner'[z] = owner[z]
    BY DEF Concerns
  <2>3. ASSUME NEW K PROVE Amount(p2, m2, r2, z, K) = Amount(p, m, r, z, K)
    <3>1. CASE m2 = m
      BY <1>2, <3>1
    <3>2. CASE m # <<>> /\ m2 = Tail(m) /\ Head(m) \notin Pk(z) \cup An(z, K)
      <4> HIDE DEF p, p2, m, m2, r, r2
      <4>1. QED
        BY <1>2, <1>3, <3>2
    <3>3. (m # <<>> /\ m2 = Tail(m) /\ Head(m) \in Pk(z) \cup An(z, K)) => m2 = m
      BY DEF Concerns, Pk, An, Rq, Waiting, Replies
    <3>4. QED
      BY <1>1, <3>1, <3>2, <3>3
  <2>4. QED
    BY <2>1, <2>2, <2>3
<1>8. /\ owed'[s] \in Nat
      /\ owner'[s] \notin removed' => Amount(p2, m2, r2, s, CT) <= owed'[s]
      /\ ClientsWait => Amount(p2, m2, r2, s, AT) <= 1
      /\ owner'[s] = NoClient => owed'[s] = 0
  <2>1. /\ Amount(p2, m2, r2, s, CT) = Amount(p, m2, r, s, CT) + parked + Count(q, Rq(s, CT))
        /\ Amount(p2, m2, r2, s, AT) = Amount(p, m2, r, s, AT) + parked + Count(q, Rq(s, AT))
        /\ Amount(p, m2, r, s, CT) \in Nat /\ Amount(p, m2, r, s, AT) \in Nat
        /\ Count(q, Rq(s, CT)) \in Nat /\ Count(q, Rq(s, AT)) \in Nat
    BY <1>2
  <2>2. owed'[s] = owed[s] + called - sent /\ owed[s] \in Nat
    BY <1>4, <1>6
  <2>3. /\ owner[s] \notin removed => Amount(p, m, r, s, CT) <= owed[s]
        /\ ClientsWait => Amount(p, m, r, s, AT) <= 1
        /\ owner[s] = NoClient => owed[s] = 0
    BY DEF Counted
  <2>4. CASE called = 1 /\ m2 = m
    <3>1. owner[s] \notin removed /\ owner'[s] \in Clients /\ (ClientsWait => owed[s] = 0)
      BY <2>4 DEF Concerns
    <3>2. Amount(p, m, r, s, AT) <= Amount(p, m, r, s, CT)
      <4>1. AT \subseteq CT
        BY DEF ActiveThens, ClientThens
      <4> HIDE DEF AT, CT, p, m, r
      <4>2. QED
        BY <1>2, <4>1, AmountMore
    <3>3. owner'[s] # NoClient
      BY <3>1, ConstantFacts
    <3> HIDE DEF AT, CT, p, p2, m, m2, r, r2
    <3>4. QED
      BY <1>5, <1>6, <2>1, <2>2, <2>3, <2>4, <3>1, <3>2, <3>3
  <2>5. CASE /\ called = 0 /\ m # <<>> /\ m2 = Tail(m) /\ owner' = owner
             /\ \/ Head(m) \in Pk(s) \cup An(s, AT)
                \/ Head(m) \in An(s, {"started", "respond"}) /\ q = <<>> /\ parked = 0
    <3>1. Head(m) \in Pk(s) \cup An(s, CT)
      BY <2>5 DEF An, Rq, ActiveThens, ClientThens, Thens
    <3>2. /\ Amount(p, m, r, s, CT) = 1 + Amount(p, m2, r, s, CT)
          /\ Amount(p, m, r, s, CT) \in Nat /\ Amount(p, m, r, s, AT) \in Nat
          /\ Amount(p, m, r, s, AT) =
               (IF Head(m) \in Pk(s) \cup An(s, AT) THEN 1 ELSE 0) + Amount(p, m2, r, s, AT)
      BY <1>3, <2>5, <3>1
    <3>3. q = <<>> => Count(q, Rq(s, AT)) = 0
      BY ShortCount
    <3>4. owner[s] # NoClient
      <4> HIDE DEF AT, CT, p, p2, m, m2, r, r2
      <4>1. QED
        BY <1>4, <2>1, <2>3, <3>2
    <3>5. sent = 1 => owner[s] \notin removed
      BY <1>4, <1>6, <2>5
    <3> HIDE DEF AT, CT, p, p2, m, m2, r, r2
    <3>6. owed'[s] \in Nat
      <4>1. CASE sent = 0
        BY <2>2, <2>5, <4>1
      <4>2. CASE sent = 1
        <5>1. owed[s] >= 1
          BY <2>1, <2>2, <2>3, <3>2, <3>5, <4>2
        <5>2. QED
          BY <2>2, <2>5, <4>2, <5>1
      <4>3. QED
        BY <1>6, <4>1, <4>2
    <3> DEFINE a == Amount(p, m2, r, s, CT)
               b == Amount(p, m2, r, s, AT)
               c == Count(q, Rq(s, CT))
               d == Count(q, Rq(s, AT))
    <3>7. /\ a \in Nat /\ b \in Nat /\ c \in Nat /\ d \in Nat /\ d <= c
          /\ parked \in Nat /\ sent \in Nat /\ sent + parked + c <= 1
          /\ owed'[s] = owed[s] - sent
          /\ Amount(p2, m2, r2, s, CT) = a + parked + c
          /\ Amount(p2, m2, r2, s, AT) = b + parked + d
          /\ owner[s] \notin removed => 1 + a <= owed[s]
      <4>1. a \in Nat /\ b \in Nat /\ c \in Nat /\ d \in Nat /\ d <= c
        BY <1>5, <2>1
      <4>2. /\ parked \in Nat /\ sent \in Nat /\ sent + parked + c <= 1
            /\ owed'[s] = owed[s] - sent
        BY <1>6, <2>2, <2>5
      <4>3. /\ Amount(p2, m2, r2, s, CT) = a + parked + c
            /\ Amount(p2, m2, r2, s, AT) = b + parked + d
        BY <2>1
      <4>4. owner[s] \notin removed => 1 + a <= owed[s]
        BY <2>3, <3>2
      <4>5. QED
        BY <4>1, <4>2, <4>3, <4>4
    <3>8. ClientsWait => b + parked + d <= 1
      <4>1. CASE Head(m) \in Pk(s) \cup An(s, AT)
        <5>1. ClientsWait => b = 0
          BY <2>1, <2>3, <3>2, <4>1
        <5>2. QED
          BY <3>7, <5>1
      <4>2. CASE Head(m) \notin Pk(s) \cup An(s, AT)
        <5>1. parked = 0 /\ d = 0 /\ (ClientsWait => b <= 1)
          BY <2>1, <2>3, <2>5, <3>2, <3>3, <4>2
        <5>2. QED
          BY <3>7, <5>1
      <4>3. QED
        BY <4>1, <4>2
    <3>9. /\ owner[s] \notin removed => Amount(p2, m2, r2, s, CT) <= owed'[s]
          /\ ClientsWait => Amount(p2, m2, r2, s, AT) <= 1
      <4> HIDE DEF a, b, c, d
      <4>1. owner[s] \notin removed => a + parked + c <= owed[s] - sent
        BY <2>2, <3>7
      <4>2. QED
        BY <3>7, <3>8, <4>1
    <3>10. QED
      BY <1>4, <2>5, <3>4, <3>6, <3>9
  <2>6. CASE /\ called = 0 /\ m # <<>> /\ m2 = Tail(m) /\ owner' = owner
             /\ Head(m) \in An(s, {"removed"}) /\ q = <<>> /\ parked = 0 /\ sent = 0
    <3>1. Head(m) \notin Pk(s) \cup An(s, CT) /\ Head(m) \notin Pk(s) \cup An(s, AT)
      BY <2>6 DEF Pk, An, Rq, Waiting, Replies, ClientThens, ActiveThens
    <3>2. /\ Amount(p, m, r, s, CT) = Amount(p, m2, r, s, CT)
          /\ Amount(p, m, r, s, AT) = Amount(p, m2, r, s, AT)
      BY <1>2, <1>3, <2>6, <3>1
    <3>3. Count(q, Rq(s, AT)) = 0 /\ Count(q, Rq(s, CT)) = 0
      BY <2>6, ShortCount
    <3> HIDE DEF AT, CT, p, p2, m, m2, r, r2
    <3>4. owed'[s] = owed[s] /\ owner'[s] = owner[s]
      BY <2>2, <2>6
    <3>5. /\ Amount(p2, m2, r2, s, CT) = Amount(p, m, r, s, CT)
          /\ Amount(p2, m2, r2, s, AT) = Amount(p, m, r, s, AT)
      BY <2>1, <2>6, <3>2, <3>3
    <3>6. QED
      BY <1>4, <2>2, <2>3, <3>4, <3>5
  <2>7. QED
    BY <2>4, <2>5, <2>6 DEF Concerns
<1>9. Counted'
  <2>1. ASSUME NEW z \in Sessions
        PROVE  /\ owner'[z] \notin removed' => Amount(p2, m2, r2, z, CT) <= owed'[z]
               /\ ClientsWait => Amount(p2, m2, r2, z, AT) <= 1
               /\ owner'[z] = NoClient => owed'[z] = 0
    <3>1. CASE z = s
      BY <1>8, <3>1
    <3>2. CASE z # s
      <4>1. /\ owner[z] \notin removed => Amount(p, m, r, z, CT) <= owed[z]
            /\ ClientsWait => Amount(p, m, r, z, AT) <= 1
            /\ owner[z] = NoClient => owed[z] = 0
        BY DEF Counted
      <4> HIDE DEF AT, CT, p, p2, m, m2, r, r2
      <4>2. QED
        BY <1>4, <1>7, <3>2, <4>1
    <3>3. QED
      BY <3>1, <3>2
  <2>2. QED
    BY <2>1 DEF Counted
<1>10. Typed'
  <2>1. owed' \in [Sessions -> Nat]
    <3>1. \A z \in Sessions : owed'[z] \in Nat
      BY <1>4, <1>7, <1>8
    <3>2. QED
      BY <1>4, <1>6, <3>1
  <2>2. TBS' \in SessionMaps /\ DBS' \in SessionMaps
        /\ (DbtSupported => \A z \in In(TBS') : ~TBS'[z].distance)
    BY <1>1 DEF Reacts, MapsOfOthersKept
  <2>3. /\ mClientData' \subseteq Clients /\ removed' \subseteq Clients
        /\ mClientData' \cap removed' = {}
        /\ mIsEngineCapabilitiesKnown' \in BOOLEAN
        /\ mSystemPowerState' \in {"unknown", "suspend", "resume"}
        /\ down' \in BOOLEAN
        /\ tbt' \in Given \cup {NoOptions} /\ dbt' \subseteq Sessions
        /\ events' \in 0..MaxEvents
    BY DEF Typed, Concerns, modem
  <2>4. QED
    BY <1>2, <2>1, <2>2, <2>3 DEF Typed
<1>11. QED
  BY <1>9, <1>10

\* Saving a session keeps the maps proper.
LEMMA SaveKeeps ==
  ASSUME Typed, NEW s \in Sessions, NEW o \in Given, Save(s, o)
  PROVE  MapsOfOthersKept(s)
<1>1. TBS \in SessionMaps /\ DBS \in SessionMaps /\ (DbtSupported => \A z \in In(TBS) : ~TBS[z].distance)
  BY DEF Typed
<1>2. CASE o.distance /\ DbtSupported
  <2>1. TBS' = TBS /\ DBS' = [DBS EXCEPT ![s] = o]
    BY <1>2 DEF Save, Maps, saveTrackingSession, TBS, DBS
  <2>2. DBS' \in SessionMaps /\ \A z \in Sessions \ {s} : DBS'[z] = DBS[z]
    BY <1>1, <2>1 DEF SessionMaps
  <2>3. QED
    BY <1>1, <2>1, <2>2 DEF MapsOfOthersKept
<1>3. CASE ~(o.distance /\ DbtSupported)
  <2>1. TBS' = [TBS EXCEPT ![s] = o] /\ DBS' = DBS
    BY <1>3 DEF Save, Maps, saveTrackingSession, TBS, DBS
  <2>2. /\ TBS' \in SessionMaps /\ TBS'[s] = o /\ \A z \in Sessions \ {s} : TBS'[z] = TBS[z]
        /\ In(TBS') = In(TBS) \cup {s}
    <3>1. In([TBS EXCEPT ![s] = o]) = In(TBS) \cup {s}
      BY <1>1, MapFacts
    <3>2. QED
      BY <1>1, <2>1, <3>1 DEF SessionMaps
  <2>3. In(TBS) \subseteq Sessions
    BY DEF In
  <2>4. QED
    BY <1>1, <1>3, <2>1, <2>2, <2>3 DEF MapsOfOthersKept
<1>4. QED
  BY <1>2, <1>3

\* So does erasing one.
LEMMA EraseKeeps ==
  ASSUME Typed, NEW s \in Sessions, Erase(s)
  PROVE  MapsOfOthersKept(s)
<1>1. TBS \in SessionMaps /\ DBS \in SessionMaps /\ (DbtSupported => \A z \in In(TBS) : ~TBS[z].distance)
  BY DEF Typed
<1>2. CASE s \in In(TBS)
  <2>1. TBS' = [TBS EXCEPT ![s] = NoOptions] /\ DBS' = DBS
    BY <1>2 DEF Erase, Maps, eraseTrackingSession, TBS, DBS
  <2>2. /\ TBS' \in SessionMaps /\ \A z \in Sessions \ {s} : TBS'[z] = TBS[z]
        /\ In(TBS') = In(TBS) \ {s}
    <3>1. In([TBS EXCEPT ![s] = NoOptions]) = In(TBS) \ {s}
      BY <1>1, MapFacts
    <3>2. QED
      BY <1>1, <2>1, <3>1 DEF SessionMaps
  <2>3. In(TBS) \subseteq Sessions
    BY DEF In
  <2>4. QED
    BY <1>1, <2>1, <2>2, <2>3 DEF MapsOfOthersKept
<1>3. CASE s \notin In(TBS)
  <2>1. TBS' = TBS /\ DBS' = [DBS EXCEPT ![s] = NoOptions]
    BY <1>3 DEF Erase, Maps, eraseTrackingSession, TBS, DBS
  <2>2. DBS' \in SessionMaps /\ \A z \in Sessions \ {s} : DBS'[z] = DBS[z]
    BY <1>1, <2>1 DEF SessionMaps
  <2>3. QED
    BY <1>1, <2>1, <2>2 DEF MapsOfOthersKept
<1>4. QED
  BY <1>2, <1>3

\* So does leaving them alone.
LEMMA SameKeeps ==
  ASSUME Typed, NEW s \in Sessions, UNCHANGED sessions
  PROVE  MapsOfOthersKept(s)
BY DEF Typed, MapsOfOthersKept, sessions, TBS, DBS

\* A handler that asks for at most one thing and responds if it asks for none.
LEMMA AskReacts ==
  ASSUME Typed, NEW s \in Sessions, MapsOfOthersKept(s),
         NEW q, q = <<>> \/ \E r \in Made : q = <<r>> /\ r.session = s /\ r.call # "open",
         reqs' = reqs \o q \/ (q = <<>> /\ reqs' = reqs), mPendingMsgs' = mPendingMsgs,
         NEW n \in {0, 1}, n = 1 => q = <<>>, NEW called, reportResponse(s, n, called)
  PROVE  \E sent \in {0, 1} : sent <= n /\ Reacts(s, q, 0, called, sent)
<1> DEFINE sent == IF owner'[s] \in mClientData THEN n ELSE 0
<1>1. q \in Seq(Made) /\ \A i \in DOMAIN q : q[i].session = s /\ q[i].call # "open"
  <2>1. CASE q = <<>>
    BY <2>1, EmptySeq
  <2>2. ASSUME NEW r \in Made, q = <<r>>, r.session = s, r.call # "open"
        PROVE  q \in Seq(Made) /\ \A i \in DOMAIN q : q[i].session = s /\ q[i].call # "open"
    <3>1. <<r>> \in Seq(Made) /\ DOMAIN <<r>> = {1} /\ <<r>>[1] = r
      OBVIOUS
    <3>2. QED
      BY <2>2, <3>1
  <2>3. QED
    BY <2>1, <2>2
<1>2. Joined(reqs', reqs, q)
  <2>1. reqs \o <<>> = reqs
    BY ConcatEmptySeq DEF Typed
  <2>2. QED
    BY <2>1, Zenon DEF Joined
<1>3. sent + 0 + Count(q, Rq(s, ClientThens)) <= 1
  <2>1. CASE q = <<>>
    <3>1. Count(q, Rq(s, ClientThens)) = 0
      BY <2>1, ShortCount
    <3>2. QED
      BY <3>1
  <2>2. CASE q # <<>>
    <3>1. Count(q, Rq(s, ClientThens)) \in {0, 1} /\ n = 0
      BY <2>2, ShortCount
    <3>2. QED
      BY <3>1
  <2>3. QED
    BY <2>1, <2>2
<1>4. owed' = [owed EXCEPT ![s] = @ + called - sent]
  BY DEF reportResponse
<1>5. sent \in {0, 1} /\ sent <= n /\ (sent = 1 => owner'[s] \in mClientData)
  OBVIOUS
<1> HIDE DEF sent
<1>6. Reacts(s, q, 0, called, sent)
  BY <1>1, <1>2, <1>3, <1>4, <1>5 DEF Reacts
<1>7. QED
  BY <1>5, <1>6

\* A handler that parks the message.
LEMMA ParkReacts ==
  ASSUME Typed, NEW s \in Sessions, NEW o \in Given, NEW kind \in {"start", "update"},
         NEW called, MustPark(o), Park(kind, s, o, called)
  PROVE  /\ Reacts(s, <<>>, 1, called, 0) /\ UNCHANGED <<sessions, reqs>>
         /\ ~mIsEngineCapabilitiesKnown
         /\ \E x \in Pk(s) : x.kind = kind /\ Extended(mPendingMsgs', mPendingMsgs, x)
<1> DEFINE x == [kind |-> kind, session |-> s, options |-> o]
<1>1. x \in Pk(s) /\ x.kind = kind /\ Extended(mPendingMsgs', mPendingMsgs, x)
  BY DEF MustPark, Park, Pk, Waiting, Distance, Extended
<1>2. UNCHANGED <<sessions, reqs>> /\ ~mIsEngineCapabilitiesKnown
  BY DEF Park, MustPark
<1>3. MapsOfOthersKept(s)
  BY <1>2, SameKeeps
<1>4. owed' = [owed EXCEPT ![s] = @ + called - 0]
  BY DEF Park, reportResponse
<1>5. Joined(reqs', reqs, <<>>)
  <2>1. reqs \o <<>> = reqs
    BY ConcatEmptySeq DEF Typed
  <2>2. QED
    BY <1>2, <2>1, Zenon DEF Joined
<1>6. Count(<<>>, Rq(s, ClientThens)) = 0
  BY ShortCount
<1>7. <<>> \in Seq(Made) /\ DOMAIN <<>> = {}
  BY EmptySeq
<1> HIDE DEF x
<1>8. Reacts(s, <<>>, 1, called, 0)
  BY <1>1, <1>3, <1>4, <1>5, <1>6, <1>7 DEF Reacts
<1>9. QED
  BY <1>1, <1>2, <1>8

\* A start asks the modem for the session, or for what all sessions need.
LEMMA StartReacts ==
  ASSUME Typed, NEW s \in Sessions, NEW o \in Given, NEW called, StartSession(s, o, called)
  PROVE  \E q, sent :
           /\ Reacts(s, q, 0, called, sent)
           /\ \/ /\ o.distance /\ DbtSupported /\ TBS' = TBS /\ DBS' = [DBS EXCEPT ![s] = o]
                 /\ q = <<Request("dstart", s, o, "started")>>
              \/ /\ TBS' = [TBS EXCEPT ![s] = o] /\ DBS' = DBS
                 /\ Multiplexed(q, s, TBS, TBS', {"started"})
<1> DEFINE q == IF o.distance /\ DbtSupported THEN <<Request("dstart", s, o, "started")>>
                ELSE startTimeBasedTrackingMultiplex(TBS, s, o)
<1>1. /\ reqs' = reqs \o q /\ mPendingMsgs' = mPendingMsgs /\ Save(s, o)
      /\ reportResponse(s, IF q = <<>> THEN 1 ELSE 0, called)
  BY DEF StartSession, Ask, RespondUnless
<1>2. MapsOfOthersKept(s)
  BY <1>1, SaveKeeps
<1>3. TBS \in SessionMaps
  BY DEF Typed
<1>4. CASE o.distance /\ DbtSupported
  <2> DEFINE r == Request("dstart", s, o, "started")
  <2>1. q = <<r>> /\ r \in Made /\ r.session = s /\ r.call # "open"
    BY <1>4, RequestsMade, RequestFields
  <2>2. TBS' = TBS /\ DBS' = [DBS EXCEPT ![s] = o]
    BY <1>1, <1>4 DEF Save, Maps, saveTrackingSession, TBS, DBS
  <2> HIDE DEF r, q
  <2>3. q = <<>> \/ \E x \in Made : q = <<x>> /\ x.session = s /\ x.call # "open"
    BY <2>1
  <2>4. \E sent : Reacts(s, q, 0, called, sent)
    BY <1>1, <1>2, <2>3, AskReacts
  <2>5. QED
    BY <1>4, <2>1, <2>2, <2>4 DEF r
<1>5. CASE ~(o.distance /\ DbtSupported)
  <2>1. TBS' = [TBS EXCEPT ![s] = o] /\ DBS' = DBS
    BY <1>1, <1>5 DEF Save, Maps, saveTrackingSession, TBS, DBS
  <2>2. Multiplexed(q, s, TBS, TBS', {"started"})
    BY <1>3, <1>5, <2>1, StartMultiplexed
  <2> HIDE DEF q
  <2>3. q = <<>> \/ \E r \in Made : q = <<r>> /\ r.session = s /\ r.call # "open"
    BY <2>2 DEF Multiplexed, Timed
  <2>4. \E sent : Reacts(s, q, 0, called, sent)
    BY <1>1, <1>2, <2>3, AskReacts
  <2>5. QED
    BY <2>1, <2>2, <2>4
<1>6. QED
  BY <1>4, <1>5

\* A start without callbacks does nothing.
LEMMA StartUnregisteredReacts ==
  ASSUME Typed, NEW s \in Sessions, NEW called, StartWithoutCallbacks(s, called)
  PROVE  Reacts(s, <<>>, 0, called, 0) /\ UNCHANGED sessions
<1>1. /\ UNCHANGED sessions /\ reqs' = reqs /\ mPendingMsgs' = mPendingMsgs
      /\ reportResponse(s, 0, called)
  BY DEF StartWithoutCallbacks
<1>2. MapsOfOthersKept(s)
  BY <1>1, SameKeeps
<1>3. \E sent \in {0, 1} : sent <= 0 /\ Reacts(s, <<>>, 0, called, sent)
  BY <1>1, <1>2, AskReacts
<1>4. QED
  BY <1>1, <1>3

\* An update of an unknown session does nothing.
LEMMA UnknownReacts ==
  ASSUME Typed, NEW s \in Sessions, NEW called, UpdateUnknown(s, called),
         mPendingMsgs' = mPendingMsgs
  PROVE  \E sent : Reacts(s, <<>>, 0, called, sent) /\ UNCHANGED sessions
<1>1. UNCHANGED sessions /\ reqs' = reqs /\ reportResponse(s, 1, called)
  BY DEF UpdateUnknown
<1>2. MapsOfOthersKept(s)
  BY <1>1, SameKeeps
<1>3. \E sent \in {0, 1} : Reacts(s, <<>>, 0, called, sent)
  BY <1>1, <1>2, AskReacts
<1>4. QED
  BY <1>1, <1>3

\* A switch from distance to time stops the session and forgets it.
LEMMA ToTimeReacts ==
  ASSUME Typed, NEW s \in Sessions, NEW o \in Given, NEW called, UpdateToTime(s, o, called),
         mPendingMsgs' = mPendingMsgs
  PROVE  \E sent : /\ Reacts(s, <<Request("dstop", s, o, "switched")>>, 0, called, sent)
                   /\ s \in In(DBS) /\ ~o.distance /\ Erase(s)
<1> DEFINE r == Request("dstop", s, o, "switched")
<1>1. /\ s \in In(DBS) /\ ~o.distance /\ Erase(s) /\ reqs' = reqs \o <<r>>
      /\ reportResponse(s, 0, called)
  BY DEF UpdateToTime, Ask, isDistanceBasedTrackingSession, DBS
<1>2. MapsOfOthersKept(s)
  BY <1>1, EraseKeeps
<1>3. r \in Made /\ r.session = s /\ r.call # "open"
  BY <1>1, RequestsMade, RequestFields
<1> DEFINE q == <<r>>
<1>4. /\ q = <<>> \/ \E x \in Made : q = <<x>> /\ x.session = s /\ x.call # "open"
      /\ reqs' = reqs \o q \/ (q = <<>> /\ reqs' = reqs)
  BY <1>1, <1>3
<1> HIDE DEF r, q
<1>5. \E sent : Reacts(s, q, 0, called, sent)
  <2>1. PICK n \in {0, 1} : n = 0 /\ reportResponse(s, n, called)
    BY <1>1
  <2>2. n = 1 => q = <<>>
    BY <2>1
  <2>3. QED
    BY <1>1, <1>2, <1>4, <2>1, <2>2, AskReacts
<1>6. QED
  BY <1>1, <1>5 DEF r, q

\* An update of a time-based session asks for what all sessions need.
LEMMA TimeBasedReacts ==
  ASSUME Typed, NEW s \in Sessions, NEW o \in Given, NEW called, UpdateTimeBased(s, o, called),
         mPendingMsgs' = mPendingMsgs
  PROVE  \E q, sent :
           /\ Reacts(s, q, 0, called, sent) /\ s \in In(TBS)
           /\ TBS' = [TBS EXCEPT ![s] = o] /\ DBS' = DBS
           /\ Multiplexed(q, s, TBS, TBS', {"updated"})
<1> DEFINE q == updateTrackingMultiplex(TBS, s, o)
<1>1. /\ s \in In(TBS) /\ ~o.distance /\ Save(s, o) /\ reqs' = reqs \o q
      /\ reportResponse(s, IF q = <<>> THEN 1 ELSE 0, called)
  BY DEF UpdateTimeBased, Ask, RespondUnless, isTimeBasedTrackingSession, TBS
<1>2. MapsOfOthersKept(s)
  BY <1>1, SaveKeeps
<1>3. TBS \in SessionMaps /\ (DbtSupported => ~TBS[s].distance)
  BY <1>1 DEF Typed
<1>4. TBS' = [TBS EXCEPT ![s] = o] /\ DBS' = DBS
  BY <1>1 DEF Save, Maps, saveTrackingSession, TBS, DBS
<1>5. Multiplexed(q, s, TBS, TBS', {"updated"})
  BY <1>1, <1>3, <1>4, UpdateMultiplexed
<1> HIDE DEF q
<1>6. q = <<>> \/ \E r \in Made : q = <<r>> /\ r.session = s /\ r.call # "open"
  BY <1>5 DEF Multiplexed, Timed
<1>7. \E sent : Reacts(s, q, 0, called, sent)
  BY <1>1, <1>2, <1>6, AskReacts
<1>8. QED
  BY <1>1, <1>4, <1>5, <1>7

\* An update of a distance-based session stops it.
LEMMA DistanceBasedReacts ==
  ASSUME Typed, NEW s \in Sessions, NEW o \in Given, NEW called,
         UpdateDistanceBased(s, o, called), mPendingMsgs' = mPendingMsgs
  PROVE  \E sent : /\ Reacts(s, <<Request("dstop", s, o, "dstopped")>>, 0, called, sent)
                   /\ s \in In(DBS) /\ UNCHANGED sessions
<1> DEFINE r == Request("dstop", s, o, "dstopped")
<1>1. /\ s \in In(DBS) /\ o.distance /\ UNCHANGED sessions /\ reqs' = reqs \o <<r>>
      /\ reportResponse(s, 0, called)
  BY DEF UpdateDistanceBased, Ask, isDistanceBasedTrackingSession, DBS
<1>2. MapsOfOthersKept(s)
  BY <1>1, SameKeeps
<1>3. r \in Made /\ r.session = s /\ r.call # "open"
  BY <1>1, RequestsMade, RequestFields
<1> DEFINE q == <<r>>
<1>4. /\ q = <<>> \/ \E x \in Made : q = <<x>> /\ x.session = s /\ x.call # "open"
      /\ reqs' = reqs \o q \/ (q = <<>> /\ reqs' = reqs)
  BY <1>1, <1>3
<1> HIDE DEF r, q
<1>5. \E sent : Reacts(s, q, 0, called, sent)
  <2>1. PICK n \in {0, 1} : n = 0 /\ reportResponse(s, n, called)
    BY <1>1
  <2>2. n = 1 => q = <<>>
    BY <2>1
  <2>3. QED
    BY <1>1, <1>2, <1>4, <2>1, <2>2, AskReacts
<1>6. QED
  BY <1>1, <1>5 DEF r, q

\* A switch from time to distance leaves what the others need, and starts the session.
LEMMA ToDistanceReacts ==
  ASSUME Typed, NEW s \in Sessions, NEW o \in Given, NEW called, UpdateToDistance(s, o, called),
         mPendingMsgs' = mPendingMsgs
  PROVE  \E q, sent :
           /\ Reacts(s, Append(q, Request("dstart", s, o, "nothing")), 0, called, sent)
           /\ s \in In(TBS) /\ o.distance
           /\ \/ /\ DbtSupported /\ DBS' = [DBS EXCEPT ![s] = o]
                 /\ TBS' = [TBS EXCEPT ![s] = NoOptions]
              \/ ~DbtSupported
           /\ Multiplexed(q, s, TBS, [TBS EXCEPT ![s] = NoOptions], {"started", "respond"})
<1> DEFINE q == stopTimeBasedTrackingMultiplex(TBS, s)
           r == Request("dstart", s, o, "nothing")
           t2 == [TBS EXCEPT ![s] = NoOptions]
           n == IF q = <<>> THEN 1 ELSE 0
           sent == IF owner'[s] \in mClientData THEN n ELSE 0
<1>1. /\ s \in In(TBS) /\ o.distance /\ reqs' = reqs \o Append(q, r)
      /\ Maps(saveTrackingSession(t2, DBS, s, o))
      /\ reportResponse(s, n, called)
  BY DEF UpdateToDistance, Ask, RespondUnless, isTimeBasedTrackingSession, eraseTrackingSession,
         TBS, DBS
<1>2. TBS \in SessionMaps /\ DBS \in SessionMaps /\ t2 \in SessionMaps
      /\ (DbtSupported => \A z \in In(TBS) : ~TBS[z].distance)
  <2>1. TBS \in SessionMaps /\ DBS \in SessionMaps
        /\ (DbtSupported => \A z \in In(TBS) : ~TBS[z].distance)
    BY DEF Typed
  <2>2. QED
    BY <2>1, MapFacts
<1>3. Multiplexed(q, s, TBS, t2, {"started", "respond"})
  BY <1>1, <1>2, StopMultiplexed
<1>4. /\ r \in Made /\ r.session = s /\ r.call # "open" /\ r \notin Rq(s, ClientThens)
  BY RequestsMade, RequestFields DEF Rq, ClientThens
<1>5. \/ DbtSupported /\ TBS' = t2 /\ DBS' = [DBS EXCEPT ![s] = o]
      \/ ~DbtSupported /\ TBS' = [t2 EXCEPT ![s] = o] /\ DBS' = DBS
  BY <1>1 DEF Maps, saveTrackingSession, TBS, DBS
<1>6. MapsOfOthersKept(s)
  <2>1. CASE DbtSupported /\ TBS' = t2 /\ DBS' = [DBS EXCEPT ![s] = o]
    <3>1. /\ DBS' \in SessionMaps /\ TBS' \in SessionMaps
          /\ \A z \in Sessions \ {s} : TBS'[z] = TBS[z] /\ DBS'[z] = DBS[z]
      BY <1>2, <2>1 DEF SessionMaps
    <3>2. In(TBS') = In(TBS) \ {s} /\ In(TBS) \subseteq Sessions
      BY <1>2, <2>1, MapFacts
    <3>3. QED
      BY <1>2, <3>1, <3>2 DEF MapsOfOthersKept
  <2>2. CASE ~DbtSupported /\ TBS' = [t2 EXCEPT ![s] = o] /\ DBS' = DBS
    <3>1. /\ DBS' \in SessionMaps /\ TBS' \in SessionMaps
          /\ \A z \in Sessions \ {s} : TBS'[z] = TBS[z] /\ DBS'[z] = DBS[z]
      BY <1>2, <2>2 DEF SessionMaps
    <3>2. QED
      BY <2>2, <3>1 DEF MapsOfOthersKept
  <2>3. QED
    BY <1>5, <2>1, <2>2
<1> HIDE DEF q, r, t2
<1>7. q = <<>> \/ \E x \in Made : q = <<x>> /\ x.session = s /\ x.call # "open"
  BY <1>3 DEF Multiplexed, Timed
<1>8. /\ q \in Seq(Made) /\ \A i \in DOMAIN q : q[i].session = s /\ q[i].call # "open"
      /\ Count(q, Rq(s, ClientThens)) \in {0, 1}
      /\ q = <<>> => Count(q, Rq(s, ClientThens)) = 0
  <2>1. CASE q = <<>>
    <3>1. Count(q, Rq(s, ClientThens)) = 0
      BY <2>1, ShortCount
    <3>2. q \in Seq(Made) /\ DOMAIN q = {}
      BY <2>1, EmptySeq
    <3>3. QED
      BY <3>1, <3>2
  <2>2. ASSUME NEW x \in Made, q = <<x>>, x.session = s, x.call # "open"
        PROVE  /\ q \in Seq(Made) /\ \A i \in DOMAIN q : q[i].session = s /\ q[i].call # "open"
               /\ Count(q, Rq(s, ClientThens)) \in {0, 1}
               /\ q = <<>> => Count(q, Rq(s, ClientThens)) = 0
    <3>1. <<x>> \in Seq(Made) /\ DOMAIN <<x>> = {1} /\ <<x>>[1] = x /\ <<x>> # <<>>
      OBVIOUS
    <3>2. Count(q, Rq(s, ClientThens)) \in {0, 1}
      BY <2>2, ShortCount
    <3>3. QED
      BY <2>2, <3>1, <3>2
  <2>3. QED
    BY <1>7, <2>1, <2>2
<1>9. \E q2 : q2 = Append(q, r) /\ Reacts(s, q2, 0, called, sent)
  <2>1. PICK q2 : q2 = Append(q, r)
    OBVIOUS
  <2>2. q2 \in Seq(Made) /\ Count(q2, Rq(s, ClientThens)) = Count(q, Rq(s, ClientThens))
    <3>1. Extended(q2, q, r)
      BY <2>1 DEF Extended
    <3>2. Count(q2, Rq(s, ClientThens)) = Count(q, Rq(s, ClientThens)) + 0
      BY <1>4, <1>8, <3>1, AppendHas
    <3>3. QED
      BY <1>4, <1>8, <3>1, <3>2, AppendHas
  <2>3. \A i \in DOMAIN q2 : q2[i].session = s /\ q2[i].call # "open"
    BY <1>4, <1>8, <2>1
  <2>4. Joined(reqs', reqs, q2)
    BY <1>1, <2>1 DEF Joined
  <2>5. /\ owed' = [owed EXCEPT ![s] = @ + called - sent]
        /\ sent \in {0, 1} /\ (sent = 1 => owner'[s] \in mClientData /\ q = <<>>)
    BY <1>1 DEF reportResponse
  <2> HIDE DEF sent
  <2>6. sent + 0 + Count(q2, Rq(s, ClientThens)) <= 1
    BY <1>8, <2>2, <2>5
  <2>7. Reacts(s, q2, 0, called, sent)
    BY <1>6, <2>2, <2>3, <2>4, <2>5, <2>6 DEF Reacts
  <2>8. QED
    BY <2>1, <2>7
<1>10. QED
  BY <1>1, <1>3, <1>5, <1>9 DEF r, t2

\* What becomes of a start: nothing, it is parked, or the session is started.
StartDoes(s, o, q, parked) ==
  \/ q = <<>> /\ parked = 0 /\ UNCHANGED sessions
  \/ /\ q = <<>> /\ parked = 1 /\ UNCHANGED sessions /\ ~mIsEngineCapabilitiesKnown
  \/ /\ parked = 0 /\ o.distance /\ DbtSupported /\ mIsEngineCapabilitiesKnown
     /\ TBS' = TBS /\ DBS' = [DBS EXCEPT ![s] = o]
     /\ q = <<Request("dstart", s, o, "started")>>
  \/ /\ parked = 0 /\ TBS' = [TBS EXCEPT ![s] = o] /\ DBS' = DBS
     /\ Multiplexed(q, s, TBS, TBS', {"started"})

\* What becomes of an update.
UpdateDoes(s, o, q, parked) ==
  \/ q = <<>> /\ parked = 0 /\ UNCHANGED sessions /\ s \notin In(TBS) \cup In(DBS)
  \/ /\ q = <<>> /\ parked = 1 /\ UNCHANGED sessions /\ ~mIsEngineCapabilitiesKnown
     /\ \E x \in Pk(s) : x.kind = "update" /\ Extended(mPendingMsgs', mPendingMsgs, x)
  \/ /\ parked = 0 /\ s \in In(TBS) /\ o.distance /\ mIsEngineCapabilitiesKnown
     /\ DbtSupported => /\ DBS' = [DBS EXCEPT ![s] = o]
                        /\ TBS' = [TBS EXCEPT ![s] = NoOptions]
     /\ \E p : /\ q = Append(p, Request("dstart", s, o, "nothing"))
               /\ Multiplexed(p, s, TBS, [TBS EXCEPT ![s] = NoOptions], {"started", "respond"})
  \/ /\ parked = 0 /\ s \in In(DBS) /\ ~o.distance /\ Erase(s)
     /\ q = <<Request("dstop", s, o, "switched")>>
  \/ /\ parked = 0 /\ s \in In(TBS) /\ TBS' = [TBS EXCEPT ![s] = o] /\ DBS' = DBS
     /\ Multiplexed(q, s, TBS, TBS', {"updated"})
  \/ /\ parked = 0 /\ s \in In(DBS) /\ UNCHANGED sessions /\ mIsEngineCapabilitiesKnown
     /\ o.distance /\ q = <<Request("dstop", s, o, "dstopped")>>

\* What becomes of a stop.
StopDoes(s, q) ==
  \/ q = <<>> /\ UNCHANGED sessions /\ s \notin In(TBS) \cup In(DBS)
  \/ /\ s \in In(TBS) /\ TBS' = [TBS EXCEPT ![s] = NoOptions] /\ DBS' = DBS
     /\ Multiplexed(q, s, TBS, TBS', {"started", "respond"})
  \/ /\ s \in In(DBS) /\ s \notin In(TBS) /\ UNCHANGED sessions
     /\ q = <<Request("dstop", s, NoOptions, "stopped")>>

\* A start message does one of these.
LEMMA MsgStartReacts ==
  ASSUME Typed, NEW s \in Sessions, NEW o \in Given, NEW called, MsgStartTracking(s, o, called)
  PROVE  \E q, parked, sent : Reacts(s, q, parked, called, sent) /\ StartDoes(s, o, q, parked)
<1>1. CASE MustPark(o)
  <2>1. Park("start", s, o, called)
    BY <1>1 DEF MsgStartTracking
  <2>2. PICK kind \in {"start", "update"} : kind = "start"
    OBVIOUS
  <2>3. Reacts(s, <<>>, 1, called, 0) /\ UNCHANGED <<sessions, reqs>> /\ ~mIsEngineCapabilitiesKnown
    BY <1>1, <2>1, <2>2, ParkReacts
  <2>4. StartDoes(s, o, <<>>, 1)
    BY <2>3 DEF StartDoes
  <2>5. QED
    BY <2>3, <2>4
<1>2. CASE ~MustPark(o) /\ StartWithoutCallbacks(s, called)
  <2>1. Reacts(s, <<>>, 0, called, 0) /\ UNCHANGED sessions
    BY <1>2, StartUnregisteredReacts
  <2>2. StartDoes(s, o, <<>>, 0)
    BY <2>1 DEF StartDoes
  <2>3. QED
    BY <2>1, <2>2
<1>3. CASE ~MustPark(o) /\ StartSession(s, o, called)
  <2>1. PICK q, sent :
          /\ Reacts(s, q, 0, called, sent)
          /\ \/ /\ o.distance /\ DbtSupported /\ TBS' = TBS /\ DBS' = [DBS EXCEPT ![s] = o]
                /\ q = <<Request("dstart", s, o, "started")>>
             \/ /\ TBS' = [TBS EXCEPT ![s] = o] /\ DBS' = DBS
                /\ Multiplexed(q, s, TBS, TBS', {"started"})
    BY <1>3, StartReacts
  <2>2. StartDoes(s, o, q, 0)
    BY <1>3, <2>1 DEF StartDoes, MustPark
  <2>3. QED
    BY <2>1, <2>2
<1>4. QED
  BY <1>1, <1>2, <1>3 DEF MsgStartTracking

\* An update message does one of these.
LEMMA MsgUpdateReacts ==
  ASSUME Typed, NEW s \in Sessions, NEW o \in Given, NEW called, MsgUpdateTracking(s, o, called)
  PROVE  \E q, parked, sent : Reacts(s, q, parked, called, sent) /\ UpdateDoes(s, o, q, parked)
<1>1. CASE MustPark(o)
  <2>1. Park("update", s, o, called)
    BY <1>1 DEF MsgUpdateTracking
  <2>2. PICK kind \in {"start", "update"} : kind = "update"
    OBVIOUS
  <2>3. /\ Reacts(s, <<>>, 1, called, 0) /\ UNCHANGED <<sessions, reqs>>
        /\ ~mIsEngineCapabilitiesKnown
        /\ \E x \in Pk(s) : x.kind = "update" /\ Extended(mPendingMsgs', mPendingMsgs, x)
    BY <1>1, <2>1, <2>2, ParkReacts
  <2>4. UpdateDoes(s, o, <<>>, 1)
    BY <2>3 DEF UpdateDoes
  <2>5. QED
    BY <2>3, <2>4
<1>2. ASSUME ~MustPark(o)
      PROVE  /\ mPendingMsgs' = mPendingMsgs /\ (o.distance => mIsEngineCapabilitiesKnown)
             /\ \/ UpdateUnknown(s, called) \/ UpdateToDistance(s, o, called)
                \/ UpdateToTime(s, o, called) \/ UpdateTimeBased(s, o, called)
                \/ UpdateDistanceBased(s, o, called)
  BY <1>2 DEF MsgUpdateTracking, MustPark
<1>3. CASE ~MustPark(o) /\ UpdateUnknown(s, called)
  <2>1. PICK sent : Reacts(s, <<>>, 0, called, sent) /\ UNCHANGED sessions
    BY <1>2, <1>3, UnknownReacts
  <2>2. s \notin In(TBS) \cup In(DBS)
    BY <1>3 DEF UpdateUnknown, isTimeBasedTrackingSession, isDistanceBasedTrackingSession, TBS, DBS
  <2>3. UpdateDoes(s, o, <<>>, 0)
    BY <2>1, <2>2 DEF UpdateDoes
  <2>4. QED
    BY <2>1, <2>3
<1>4. CASE ~MustPark(o) /\ UpdateToDistance(s, o, called)
  <2>1. PICK p, sent :
          /\ Reacts(s, Append(p, Request("dstart", s, o, "nothing")), 0, called, sent)
          /\ s \in In(TBS) /\ o.distance
          /\ \/ /\ DbtSupported /\ DBS' = [DBS EXCEPT ![s] = o]
                /\ TBS' = [TBS EXCEPT ![s] = NoOptions]
             \/ ~DbtSupported
          /\ Multiplexed(p, s, TBS, [TBS EXCEPT ![s] = NoOptions], {"started", "respond"})
    BY <1>2, <1>4, ToDistanceReacts
  <2> DEFINE q == Append(p, Request("dstart", s, o, "nothing"))
  <2>2. UpdateDoes(s, o, q, 0)
    BY <1>2, <1>4, <2>1 DEF UpdateDoes
  <2>3. QED
    BY <2>1, <2>2
<1>5. CASE ~MustPark(o) /\ UpdateToTime(s, o, called)
  <2>1. PICK sent : /\ Reacts(s, <<Request("dstop", s, o, "switched")>>, 0, called, sent)
                    /\ s \in In(DBS) /\ ~o.distance /\ Erase(s)
    BY <1>2, <1>5, ToTimeReacts
  <2>2. UpdateDoes(s, o, <<Request("dstop", s, o, "switched")>>, 0)
    BY <2>1 DEF UpdateDoes
  <2>3. QED
    BY <2>1, <2>2
<1>6. CASE ~MustPark(o) /\ UpdateTimeBased(s, o, called)
  <2>1. PICK q, sent :
          /\ Reacts(s, q, 0, called, sent) /\ s \in In(TBS)
          /\ TBS' = [TBS EXCEPT ![s] = o] /\ DBS' = DBS
          /\ Multiplexed(q, s, TBS, TBS', {"updated"})
    BY <1>2, <1>6, TimeBasedReacts
  <2>2. UpdateDoes(s, o, q, 0)
    BY <2>1 DEF UpdateDoes
  <2>3. QED
    BY <2>1, <2>2
<1>7. CASE ~MustPark(o) /\ UpdateDistanceBased(s, o, called)
  <2>1. PICK sent : /\ Reacts(s, <<Request("dstop", s, o, "dstopped")>>, 0, called, sent)
                    /\ s \in In(DBS) /\ UNCHANGED sessions
    BY <1>2, <1>7, DistanceBasedReacts
  <2>2. o.distance
    BY <1>7 DEF UpdateDistanceBased
  <2>3. UpdateDoes(s, o, <<Request("dstop", s, o, "dstopped")>>, 0)
    BY <1>2, <1>7, <2>1, <2>2 DEF UpdateDoes
  <2>4. QED
    BY <2>1, <2>3
<1>8. QED
  BY <1>1, <1>2, <1>3, <1>4, <1>5, <1>6, <1>7

\* A stop message does one of these.
LEMMA StopReacts ==
  ASSUME Typed, NEW s \in Sessions, StopTimeBased(s) \/ StopDistanceBased(s) \/ StopUnknown(s),
         mPendingMsgs' = mPendingMsgs
  PROVE  \E q, sent : Reacts(s, q, 0, 1, sent) /\ StopDoes(s, q)
<1>1. CASE StopTimeBased(s)
  <2> DEFINE q == stopTimeBasedTrackingMultiplex(TBS, s)
  <2>1. /\ s \in In(TBS) /\ Erase(s) /\ reqs' = reqs \o q
        /\ reportResponse(s, IF q = <<>> THEN 1 ELSE 0, 1)
    BY <1>1 DEF StopTimeBased, Ask, RespondUnless, isTimeBasedTrackingSession, TBS
  <2>2. MapsOfOthersKept(s)
    BY <2>1, EraseKeeps
  <2>3. TBS' = [TBS EXCEPT ![s] = NoOptions] /\ DBS' = DBS
    BY <2>1 DEF Erase, Maps, eraseTrackingSession, TBS, DBS
  <2>4. Multiplexed(q, s, TBS, TBS', {"started", "respond"})
    BY <2>1, <2>3, StopMultiplexed DEF Typed
  <2> HIDE DEF q
  <2>5. q = <<>> \/ \E r \in Made : q = <<r>> /\ r.session = s /\ r.call # "open"
    BY <2>4 DEF Multiplexed, Timed
  <2>6. \E sent : Reacts(s, q, 0, 1, sent)
    BY <2>1, <2>2, <2>5, AskReacts
  <2>7. StopDoes(s, q)
    BY <2>1, <2>3, <2>4 DEF StopDoes
  <2>8. QED
    BY <2>6, <2>7
<1>2. CASE StopDistanceBased(s)
  <2> DEFINE r == Request("dstop", s, NoOptions, "stopped")
             q == <<r>>
  <2>1. /\ s \in In(DBS) /\ s \notin In(TBS) /\ UNCHANGED sessions /\ reqs' = reqs \o q
        /\ reportResponse(s, 0, 1)
    BY <1>2 DEF StopDistanceBased, Ask, isDistanceBasedTrackingSession, isTimeBasedTrackingSession,
                TBS, DBS
  <2>2. MapsOfOthersKept(s)
    BY <2>1, SameKeeps
  <2>3. r \in Made /\ r.session = s /\ r.call # "open"
    <3>1. DBS[s] \in Given
      BY <2>1, MapFacts DEF Typed
    <3>2. QED
      BY <3>1, RequestsMade, RequestFields
  <2>4. /\ q = <<>> \/ \E x \in Made : q = <<x>> /\ x.session = s /\ x.call # "open"
        /\ reqs' = reqs \o q \/ (q = <<>> /\ reqs' = reqs)
    BY <2>1, <2>3
  <2>5. StopDoes(s, q)
    BY <2>1 DEF StopDoes
  <2> HIDE DEF r, q
  <2>6. \E sent : Reacts(s, q, 0, 1, sent)
    <3>1. PICK n \in {0, 1} : n = 0 /\ reportResponse(s, n, 1)
      BY <2>1
    <3>2. n = 1 => q = <<>>
      BY <3>1
    <3>3. QED
      BY <2>1, <2>2, <2>4, <3>1, <3>2, AskReacts
  <2>7. QED
    BY <2>5, <2>6
<1>3. CASE StopUnknown(s)
  <2>1. UNCHANGED sessions /\ reqs' = reqs /\ reportResponse(s, 1, 1)
    BY <1>3 DEF StopUnknown
  <2>2. MapsOfOthersKept(s)
    BY <2>1, SameKeeps
  <2>3. \E sent \in {0, 1} : Reacts(s, <<>>, 0, 1, sent)
    BY <2>1, <2>2, AskReacts
  <2>4. StopDoes(s, <<>>)
    BY <1>3, <2>1 DEF StopDoes, StopUnknown, isTimeBasedTrackingSession,
                      isDistanceBasedTrackingSession, TBS, DBS
  <2>5. QED
    BY <2>3, <2>4
<1>4. QED
  BY <1>1, <1>2, <1>3

\* A new session has an id that is not used yet.
LEMMA NewId ==
  ASSUME Typed, \E s \in Sessions : owner[s] = NoClient
  PROVE  generateSessionId \in Sessions /\ owner[generateSessionId] = NoClient
<1> DEFINE S == {s \in Sessions : owner[s] = NoClient}
<1>1. S \in SUBSET Nat /\ S # {}
  BY ConstantFacts
<1>2. PICK s \in S : \A r \in S : s <= r
  BY <1>1, Least
<1>3. s \in Sessions /\ owner[s] = NoClient /\ \A r \in Sessions : r < s => owner[r] # NoClient
  BY <1>1, <1>2, ConstantFacts
<1>4. QED
  BY <1>3 DEF generateSessionId

\* What a call leaves in a proper state.
Proper == /\ owner' \in [Sessions -> Clients \cup {NoClient}]
          /\ commands' \in 0..MaxCommands /\ starting' \subseteq Sessions /\ stopped' \subseteq Sessions

\* One more command is within the bound.
LEMMA CommandBound == ASSUME Typed, Command PROVE commands' \in 0..MaxCommands
BY ConstantFacts, TrackingAssumption DEF Typed, Command

\* A call for a new session.
LEMMA StartCallConcerns ==
  ASSUME Typed, Counted, NEW c \in Clients, NEW o \in Options, startTrackingCommand(c, o)
  PROVE  \E s \in Sessions : \E q, parked, sent :
           /\ Concerns(s, q, parked, 1, sent) /\ StartDoes(s, o, q, parked)
           /\ owner[s] = NoClient /\ owner'[s] = c /\ Proper
<1> DEFINE s == generateSessionId
<1>1. s \in Sessions /\ owner[s] = NoClient
  BY NewId DEF startTrackingCommand
<1>2. /\ owner' = [owner EXCEPT ![s] = c] /\ MsgStartTracking(s, o, 1) /\ Command /\ c \notin removed
      /\ UNCHANGED <<mClientData, removed, mIsEngineCapabilitiesKnown, msgs, mSystemPowerState,
                     modem, events, stopped>>
  BY DEF startTrackingCommand
<1> HIDE DEF s
<1>3. o \in Given
  BY ConstantFacts
<1>4. PICK q, parked, sent : Reacts(s, q, parked, 1, sent) /\ StartDoes(s, o, q, parked)
  BY <1>1, <1>2, <1>3, MsgStartReacts
<1>5. /\ owner' \in [Sessions -> Clients \cup {NoClient}] /\ owner'[s] = c
      /\ \A z \in Sessions \ {s} : owner'[z] = owner[z]
  BY <1>1, <1>2 DEF Typed
<1>6. owner[s] \notin removed /\ owed[s] = 0
  BY <1>1, ConstantFacts DEF Typed, Counted
<1>7. Concerns(s, q, parked, 1, sent)
  BY <1>2, <1>4, <1>5, <1>6 DEF Concerns
<1>8. starting' \subseteq Sessions
  <2>1. MustPark(o) => starting' = starting \cup {s}
    BY <1>2 DEF MsgStartTracking
  <2>2. ~MustPark(o) => starting' \in {starting \ {s}, starting \cup {s}}
    BY <1>2 DEF MsgStartTracking, StartWithoutCallbacks, StartSession
  <2>3. QED
    BY <1>1, <2>1, <2>2 DEF Typed
<1>9. Proper
  BY <1>2, <1>5, <1>8, CommandBound DEF Typed, Proper
<1>10. QED
  BY <1>1, <1>4, <1>5, <1>7, <1>9

\* A call to update a session.
LEMMA UpdateCallConcerns ==
  ASSUME Typed, Counted, NEW s \in Sessions, NEW o \in Options, updateTrackingOptionsCommand(s, o)
  PROVE  \E q, parked, sent :
           /\ Concerns(s, q, parked, 1, sent) /\ UpdateDoes(s, o, q, parked)
           /\ owner' = owner /\ owner[s] \in Clients \ removed /\ Proper
<1>1. /\ MsgUpdateTracking(s, o, 1) /\ Command /\ MayCall(s)
      /\ UNCHANGED <<clientVars, mIsEngineCapabilitiesKnown, msgs, mSystemPowerState, modem, events,
                     starting, stopped>>
  BY DEF updateTrackingOptionsCommand
<1>2. o \in Given
  BY ConstantFacts
<1>3. PICK q, parked, sent : Reacts(s, q, parked, 1, sent) /\ UpdateDoes(s, o, q, parked)
  BY <1>1, <1>2, MsgUpdateReacts
<1>4. owner[s] \in Clients \ removed /\ (ClientsWait => owed[s] = 0)
  BY <1>1 DEF MayCall
<1>5. Concerns(s, q, parked, 1, sent)
  BY <1>1, <1>3, <1>4 DEF Concerns, clientVars
<1>6. Proper
  BY <1>1, CommandBound DEF Proper, Typed, clientVars
<1>7. QED
  BY <1>1, <1>3, <1>4, <1>5, <1>6 DEF clientVars

\* A call to stop a session.
LEMMA StopCallConcerns ==
  ASSUME Typed, Counted, NEW s \in Sessions, stopTrackingCommand(s)
  PROVE  \E q, sent :
           /\ Concerns(s, q, 0, 1, sent) /\ StopDoes(s, q)
           /\ owner' = owner /\ owner[s] \in Clients \ removed /\ Proper
<1>1. /\ StopTimeBased(s) \/ StopDistanceBased(s) \/ StopUnknown(s)
      /\ Command /\ MayCall(s)
      /\ UNCHANGED <<clientVars, parkVars, msgs, mSystemPowerState, modem, events, starting>>
  BY DEF stopTrackingCommand
<1>2. PICK q, sent : Reacts(s, q, 0, 1, sent) /\ StopDoes(s, q)
  BY <1>1, StopReacts DEF parkVars
<1>3. owner[s] \in Clients \ removed /\ (ClientsWait => owed[s] = 0)
  BY <1>1 DEF MayCall
<1>4. Concerns(s, q, 0, 1, sent)
  BY <1>1, <1>2, <1>3 DEF Concerns, clientVars, parkVars
<1>5. stopped' \subseteq Sessions
  BY <1>1 DEF StopTimeBased, StopDistanceBased, StopUnknown, Typed
<1>6. Proper
  BY <1>1, <1>5, CommandBound DEF Proper, Typed, clientVars
<1>7. QED
  BY <1>1, <1>2, <1>3, <1>4, <1>6 DEF clientVars

\* The answer that is handled.
LEMMA AnsweredFacts ==
  ASSUME Typed, NEW then, then # "nothing", Answered(then)
  PROVE  /\ msgs # <<>> /\ msgs' = Tail(msgs)
         /\ It \in Made /\ It.then = then /\ It.session \in Sessions /\ Ok \in BOOLEAN
         /\ Head(msgs) \in Replies /\ Head(msgs) \in An(It.session, {then})
         /\ ~Ok => Head(msgs) \in Failed
         /\ Ok /\ then = "dupdated" => Head(msgs) \in DoneOf(It.session)
         /\ UNCHANGED <<clientVars, parkVars, mSystemPowerState, modem, counts>>
<1>1. /\ msgs # <<>> /\ Head(msgs).kind = "answer" /\ It.then = then /\ msgs' = Tail(msgs)
      /\ UNCHANGED <<clientVars, parkVars, mSystemPowerState, modem, counts>>
  BY DEF Answered, It
<1>2. Head(msgs) \in Msgs
  BY <1>1, HeadFirst DEF Typed
<1>3. Head(msgs) \in Replies /\ It \in Made
  BY <1>1, <1>2, MsgCases DEF It
<1>4. It.session \in Sessions
  BY <1>1, <1>3 DEF Made
<1>5. Ok \in BOOLEAN
  BY <1>3 DEF Replies, Ok
<1>6. Head(msgs) \in An(It.session, {then})
  BY <1>1, <1>3, <1>4 DEF An, Rq, It
<1>7. QED
  BY <1>1, <1>3, <1>4, <1>5, <1>6 DEF Failed, DoneOf, Ok

\* What becomes of the answer about session s.
AnswerDoes(s, q) ==
  \/ It.then = "started" /\ q = <<>> /\ IF Ok THEN UNCHANGED sessions ELSE Erase(s)
  \/ It.then = "updated" /\ q = <<>> /\ IF Ok THEN UNCHANGED sessions ELSE Save(s, It.old)
  \/ It.then = "respond" /\ q = <<>> /\ UNCHANGED sessions
  \/ It.then \in {"stopped", "removed"} /\ q = <<>> /\ IF Ok THEN Erase(s) ELSE UNCHANGED sessions
  \/ /\ It.then = "switched" /\ TBS' = [TBS EXCEPT ![s] = It.options] /\ DBS' = DBS
     /\ Multiplexed(q, s, TBS, TBS', {"started"})
  \/ /\ It.then = "dstopped" /\ UNCHANGED sessions
     /\ q = IF Ok THEN <<Request("dstart", s, It.options, "dupdated")>> ELSE <<>>
  \/ It.then = "dupdated" /\ q = <<>> /\ IF Ok THEN Save(s, It.options) ELSE UNCHANGED sessions

AnswerHandled == \/ Started \/ Updated \/ StoppedTimeBased \/ StoppedDistanceBased \/ StoppedClient
                 \/ Switched \/ DistanceStopped \/ DistanceUpdated

\* A handler that asks for nothing.
LEMMA NoAskReacts ==
  ASSUME Typed, NEW s \in Sessions, MapsOfOthersKept(s), reqs' = reqs, mPendingMsgs' = mPendingMsgs,
         NEW n \in {0, 1}, NEW called, reportResponse(s, n, called)
  PROVE  \E sent \in {0, 1} : sent <= n /\ Reacts(s, <<>>, 0, called, sent)
<1>1. <<>> = <<>> \/ \E r \in Made : <<>> = <<r>> /\ r.session = s /\ r.call # "open"
  OBVIOUS
<1>2. reqs' = reqs \o <<>> \/ (<<>> = <<>> /\ reqs' = reqs)
  OBVIOUS
<1>3. n = 1 => <<>> = <<>>
  OBVIOUS
<1>4. QED
  BY <1>1, <1>2, <1>3, AskReacts

\* An answer concerns one session.
LEMMA AnswerReacts ==
  ASSUME Typed, Counted, AnswerHandled
  PROVE  \E s \in Sessions : \E q, sent :
           /\ s = It.session /\ Answered(It.then) /\ It.then # "nothing"
           /\ Reacts(s, q, 0, 0, sent) /\ AnswerDoes(s, q)
           /\ It.then \in {"started", "respond"} => q = <<>>
           /\ It.then = "removed" => q = <<>> /\ sent = 0
           /\ starting' \subseteq Sessions /\ stopped' \subseteq Sessions
<1> DEFINE s == It.session

<1>1. ASSUME NEW then, then # "nothing", Answered(then)
      PROVE  /\ It \in Made /\ It.then = then /\ s \in Sessions /\ Ok \in BOOLEAN
             /\ Answered(It.then) /\ mPendingMsgs' = mPendingMsgs
  <2>1. /\ It \in Made /\ It.then = then /\ s \in Sessions /\ Ok \in BOOLEAN
        /\ mPendingMsgs' = mPendingMsgs
    BY <1>1, AnsweredFacts DEF parkVars
  <2>2. Answered(It.then)
    BY <1>1, <2>1, Zenon
  <2>3. QED
    BY <2>1, <2>2
<1>2. starting \subseteq Sessions /\ stopped \subseteq Sessions /\ owed \in [Sessions -> Nat]
  BY DEF Typed
<1>3. CASE Started
  <2>1. /\ It.then = "started" /\ s \in Sessions /\ Ok \in BOOLEAN /\ Answered(It.then)
        /\ mPendingMsgs' = mPendingMsgs
    BY <1>1, <1>3 DEF Started
  <2>2. /\ IF Ok THEN UNCHANGED sessions ELSE Erase(s)
        /\ reportResponse(s, 1, 0) /\ reqs' = reqs
        /\ starting' = starting \ {s} /\ stopped' = stopped
    BY <1>3 DEF Started
  <2>3. MapsOfOthersKept(s)
    BY <2>1, <2>2, SameKeeps, EraseKeeps
  <2>4. AnswerDoes(s, <<>>)
    BY <2>1, <2>2 DEF AnswerDoes
  <2>5. \E sent \in {0, 1} : Reacts(s, <<>>, 0, 0, sent)
    <3> HIDE DEF s
    <3>1. QED
      BY <2>1, <2>2, <2>3, NoAskReacts
  <2>6. QED
    BY <1>2, <2>1, <2>2, <2>4, <2>5
<1>4. CASE Updated
  <2>1. /\ It.then = "updated" /\ s \in Sessions /\ Ok \in BOOLEAN /\ Answered(It.then)
        /\ mPendingMsgs' = mPendingMsgs /\ It \in Made
    BY <1>1, <1>4 DEF Updated
  <2>2. /\ IF Ok THEN UNCHANGED sessions ELSE Save(s, It.old)
        /\ reportResponse(s, 1, 0) /\ reqs' = reqs
        /\ starting' = starting /\ stopped' = stopped
    BY <1>4 DEF Updated
  <2>3. It.old \in Given
    BY <2>1 DEF Made
  <2>4. MapsOfOthersKept(s)
    BY <2>1, <2>2, <2>3, SameKeeps, SaveKeeps
  <2>5. AnswerDoes(s, <<>>)
    BY <2>1, <2>2 DEF AnswerDoes
  <2>6. \E sent \in {0, 1} : Reacts(s, <<>>, 0, 0, sent)
    <3> HIDE DEF s
    <3>1. QED
      BY <2>1, <2>2, <2>4, NoAskReacts
  <2>7. QED
    BY <1>2, <2>1, <2>2, <2>5, <2>6
<1>5. CASE StoppedTimeBased
  <2>1. /\ It.then = "respond" /\ s \in Sessions /\ Answered(It.then)
        /\ mPendingMsgs' = mPendingMsgs
    BY <1>1, <1>5 DEF StoppedTimeBased
  <2>2. /\ UNCHANGED sessions /\ reportResponse(s, 1, 0) /\ reqs' = reqs
        /\ starting' = starting /\ stopped' = stopped
    BY <1>5 DEF StoppedTimeBased
  <2>3. MapsOfOthersKept(s)
    BY <2>1, <2>2, SameKeeps
  <2>4. AnswerDoes(s, <<>>)
    BY <2>1, <2>2 DEF AnswerDoes
  <2>5. \E sent \in {0, 1} : Reacts(s, <<>>, 0, 0, sent)
    <3> HIDE DEF s
    <3>1. QED
      BY <2>1, <2>2, <2>3, NoAskReacts
  <2>6. QED
    BY <1>2, <2>1, <2>2, <2>4, <2>5
<1>6. CASE StoppedDistanceBased
  <2>1. /\ It.then = "stopped" /\ s \in Sessions /\ Ok \in BOOLEAN /\ Answered(It.then)
        /\ mPendingMsgs' = mPendingMsgs
    BY <1>1, <1>6 DEF StoppedDistanceBased
  <2>2. /\ IF Ok THEN Erase(s) ELSE UNCHANGED sessions
        /\ reportResponse(s, 1, 0) /\ reqs' = reqs
        /\ starting' = starting /\ stopped' \in {stopped, stopped \cup {s}}
    BY <1>6 DEF StoppedDistanceBased
  <2>3. MapsOfOthersKept(s)
    BY <2>1, <2>2, SameKeeps, EraseKeeps
  <2>4. AnswerDoes(s, <<>>)
    BY <2>1, <2>2 DEF AnswerDoes
  <2>5. \E sent \in {0, 1} : Reacts(s, <<>>, 0, 0, sent)
    <3> HIDE DEF s
    <3>1. QED
      BY <2>1, <2>2, <2>3, NoAskReacts
  <2>6. QED
    BY <1>2, <2>1, <2>2, <2>4, <2>5
<1>7. CASE StoppedClient
  <2>1. /\ It.then = "removed" /\ s \in Sessions /\ Ok \in BOOLEAN /\ Answered(It.then)
        /\ mPendingMsgs' = mPendingMsgs
    BY <1>1, <1>7 DEF StoppedClient
  <2>2. /\ IF Ok THEN Erase(s) ELSE UNCHANGED sessions
        /\ reqs' = reqs /\ starting' = starting /\ stopped' = stopped /\ owed' = owed
    BY <1>7 DEF StoppedClient, history
  <2>3. MapsOfOthersKept(s)
    BY <2>1, <2>2, SameKeeps, EraseKeeps
  <2>4. AnswerDoes(s, <<>>)
    BY <2>1, <2>2 DEF AnswerDoes
  <2>5. reportResponse(s, 0, 0)
    <3>1. owed = [owed EXCEPT ![s] = @ + 0 - 0]
      BY <1>2, <2>1
    <3>2. QED
      BY <2>2, <3>1 DEF reportResponse
  <2>6. Reacts(s, <<>>, 0, 0, 0)
    <3>1. PICK n \in {0, 1} : n = 0
      OBVIOUS
    <3>2. reportResponse(s, n, 0)
      BY <2>5, <3>1
    <3> HIDE DEF s
    <3>3. PICK sent \in {0, 1} : sent <= n /\ Reacts(s, <<>>, 0, 0, sent)
      BY <2>1, <2>2, <2>3, <3>2, NoAskReacts
    <3>4. sent = 0
      BY <3>1, <3>3
    <3>5. QED
      BY <3>3, <3>4
  <2>7. QED
    BY <1>2, <2>1, <2>2, <2>4, <2>6
<1>8. CASE Switched
  <2> DEFINE q == startTimeBasedTrackingMultiplex(TBS, s, It.options)
  <2>1. /\ It.then = "switched" /\ s \in Sessions /\ It \in Made /\ Answered(It.then)
        /\ mPendingMsgs' = mPendingMsgs
    BY <1>1, <1>8 DEF Switched
  <2>2. /\ reqs' = reqs \o q /\ Save(s, It.options)
        /\ reportResponse(s, IF q = <<>> THEN 1 ELSE 0, 0)
        /\ starting' = starting /\ stopped' = stopped
    BY <1>8 DEF Switched, Ask, RespondUnless, TBS
  <2>3. It.options \in Given /\ ~It.options.distance
    BY <2>1 DEF Made
  <2>4. MapsOfOthersKept(s)
    BY <2>1, <2>2, <2>3, SaveKeeps
  <2>5. TBS' = [TBS EXCEPT ![s] = It.options] /\ DBS' = DBS
    BY <2>2, <2>3 DEF Save, Maps, saveTrackingSession, TBS, DBS
  <2>6. Multiplexed(q, s, TBS, TBS', {"started"})
    BY <2>1, <2>3, <2>5, StartMultiplexed DEF Typed
  <2>7. AnswerDoes(s, q)
    BY <2>1, <2>5, <2>6 DEF AnswerDoes
  <2> HIDE DEF q, s
  <2>8. q = <<>> \/ \E r \in Made : q = <<r>> /\ r.session = s /\ r.call # "open"
    BY <2>6 DEF Multiplexed, Timed
  <2>9. \E sent : Reacts(s, q, 0, 0, sent)
    BY <2>1, <2>2, <2>4, <2>8, AskReacts
  <2>10. QED
    BY <1>2, <2>1, <2>2, <2>7, <2>9 DEF s
<1>9. CASE DistanceStopped
  <2> DEFINE r == Request("dstart", s, It.options, "dupdated")
             q == IF Ok THEN <<r>> ELSE <<>>
  <2>1. /\ It.then = "dstopped" /\ s \in Sessions /\ It \in Made /\ Answered(It.then)
        /\ mPendingMsgs' = mPendingMsgs
    BY <1>1, <1>9 DEF DistanceStopped
  <2>2. /\ reqs' = reqs \o q /\ UNCHANGED sessions
        /\ starting' = starting /\ stopped' = stopped /\ owed' = owed
    BY <1>9 DEF DistanceStopped, Ask, history
  <2>3. It.options \in Given /\ It.options.distance
    BY <2>1 DEF Made, Distance
  <2>4. MapsOfOthersKept(s)
    BY <2>1, <2>2, SameKeeps
  <2>5. r \in Made /\ r.session = s /\ r.call # "open"
    BY <2>1, <2>3, RequestsMade, RequestFields
  <2>6. AnswerDoes(s, q)
    BY <2>1, <2>2 DEF AnswerDoes
  <2>7. reportResponse(s, 0, 0)
    <3>1. owed = [owed EXCEPT ![s] = @ + 0 - 0]
      BY <1>2, <2>1
    <3>2. QED
      BY <2>2, <3>1 DEF reportResponse
  <2> HIDE DEF r
  <2>8. q = <<>> \/ \E x \in Made : q = <<x>> /\ x.session = s /\ x.call # "open"
    BY <2>5
  <2> HIDE DEF q, s
  <2>9. \E sent : Reacts(s, q, 0, 0, sent)
    <3>1. PICK n \in {0, 1} : n = 0 /\ reportResponse(s, n, 0)
      BY <2>7
    <3>2. n = 1 => q = <<>>
      BY <3>1
    <3>3. QED
      BY <2>1, <2>2, <2>4, <2>8, <3>1, <3>2, AskReacts
  <2>10. QED
    BY <1>2, <2>1, <2>2, <2>6, <2>9 DEF s
<1>10. CASE DistanceUpdated
  <2>1. /\ It.then = "dupdated" /\ s \in Sessions /\ Ok \in BOOLEAN /\ Answered(It.then)
        /\ mPendingMsgs' = mPendingMsgs /\ It \in Made
    BY <1>1, <1>10 DEF DistanceUpdated
  <2>2. /\ IF Ok THEN Save(s, It.options) ELSE UNCHANGED sessions
        /\ reportResponse(s, 1, 0) /\ reqs' = reqs
        /\ starting' = starting /\ stopped' = stopped
    BY <1>10 DEF DistanceUpdated
  <2>3. It.options \in Given
    BY <2>1 DEF Made
  <2>4. MapsOfOthersKept(s)
    BY <2>1, <2>2, <2>3, SameKeeps, SaveKeeps
  <2>5. AnswerDoes(s, <<>>)
    BY <2>1, <2>2 DEF AnswerDoes
  <2>6. \E sent \in {0, 1} : Reacts(s, <<>>, 0, 0, sent)
    <3> HIDE DEF s
    <3>1. QED
      BY <2>1, <2>2, <2>4, NoAskReacts
  <2>7. QED
    BY <1>2, <2>1, <2>2, <2>5, <2>6
<1>11. QED
  BY <1>3, <1>4, <1>5, <1>6, <1>7, <1>8, <1>9, <1>10 DEF AnswerHandled

\* The handling of an answer concerns its session.
LEMMA AnswerConcerns ==
  ASSUME Typed, Counted, AnswerHandled
  PROVE  \E s \in Sessions : \E q, sent :
           /\ Concerns(s, q, 0, 0, sent) /\ AnswerDoes(s, q) /\ owner' = owner
           /\ s = It.session /\ Answered(It.then) /\ It.then # "nothing" /\ Proper
<1>1. PICK s \in Sessions : \E q, sent :
        /\ s = It.session /\ Answered(It.then) /\ It.then # "nothing"
        /\ Reacts(s, q, 0, 0, sent) /\ AnswerDoes(s, q)
        /\ It.then \in {"started", "respond"} => q = <<>>
        /\ It.then = "removed" => q = <<>> /\ sent = 0
        /\ starting' \subseteq Sessions /\ stopped' \subseteq Sessions
  BY AnswerReacts
<1>2. PICK q, sent :
        /\ s = It.session /\ Answered(It.then) /\ It.then # "nothing"
        /\ Reacts(s, q, 0, 0, sent) /\ AnswerDoes(s, q)
        /\ It.then \in {"started", "respond"} => q = <<>>
        /\ It.then = "removed" => q = <<>> /\ sent = 0
        /\ starting' \subseteq Sessions /\ stopped' \subseteq Sessions
  BY <1>1
<1>3. /\ msgs # <<>> /\ msgs' = Tail(msgs) /\ It \in Made /\ Head(msgs) \in Replies
      /\ Head(msgs) \in An(s, {It.then})
      /\ UNCHANGED <<clientVars, parkVars, mSystemPowerState, modem, counts>>
  BY <1>2, AnsweredFacts
<1>4. /\ owner' = owner /\ commands' = commands
      /\ UNCHANGED <<mClientData, removed, mIsEngineCapabilitiesKnown, mSystemPowerState, modem,
                     events>>
  BY <1>3 DEF clientVars, parkVars, counts
<1>5. \/ Head(msgs) \in An(s, ActiveThens)
      \/ Head(msgs) \in An(s, {"started", "respond"}) /\ q = <<>>
      \/ Head(msgs) \in An(s, {"removed"}) /\ q = <<>> /\ sent = 0
  <2>1. It.then \in Thens
    BY <1>3 DEF Made, Requests
  <2>2. CASE It.then \in {"started", "respond"}
    BY <1>2, <1>3, <2>2 DEF An, Rq
  <2>3. CASE It.then = "removed"
    BY <1>2, <1>3, <2>3 DEF An, Rq
  <2>4. CASE It.then \in ActiveThens
    BY <1>3, <2>4 DEF An, Rq
  <2>5. It.then \in {"started", "respond", "removed"} \cup ActiveThens
    BY <1>2, <2>1 DEF Thens, ActiveThens, ClientThens
  <2>6. QED
    BY <2>2, <2>3, <2>4, <2>5
<1>6. Concerns(s, q, 0, 0, sent)
  BY <1>2, <1>3, <1>4, <1>5 DEF Concerns
<1>7. Proper
  BY <1>2, <1>4 DEF Proper, Typed
<1>8. QED
  BY <1>2, <1>4, <1>6, <1>7

\* A message that was parked concerns its session.
LEMMA ParkedConcerns ==
  ASSUME Typed, Counted, ParkedMsg
  PROVE  \E s \in Sessions, o \in Distance : \E q, parked, sent :
           /\ Concerns(s, q, parked, 0, sent) /\ owner' = owner /\ Proper
           /\ Head(msgs) \in Pk(s) /\ msgs # <<>> /\ msgs' = Tail(msgs)
           /\ \/ Head(msgs) \in Starts(s) /\ StartDoes(s, o, q, parked)
              \/ UpdateDoes(s, o, q, parked)
<1> DEFINE a == Head(msgs)
           s == a.session
           o == a.options
<1>1. /\ msgs # <<>> /\ a.kind \in {"start", "update"} /\ msgs' = Tail(msgs)
      /\ UNCHANGED <<clientVars, mIsEngineCapabilitiesKnown, mSystemPowerState, modem, counts,
                     stopped>>
      /\ \/ a.kind = "start" /\ MsgStartTracking(s, o, 0)
         \/ a.kind = "update" /\ MsgUpdateTracking(s, o, 0) /\ UNCHANGED starting
  BY DEF ParkedMsg
<1>2. a \in Waiting /\ a \in Pk(s)
  BY <1>1, HeadFirst, MsgCases DEF Typed
<1>3. s \in Sessions /\ o \in Distance /\ o \in Given
  BY <1>2 DEF Waiting, Distance
<1>4. a.kind = "start" => a \in Starts(s)
  BY <1>2 DEF Starts
<1>5. /\ owner' = owner /\ commands' = commands /\ stopped' = stopped
      /\ UNCHANGED <<mClientData, removed, mIsEngineCapabilitiesKnown, mSystemPowerState, modem,
                     events>>
  BY <1>1 DEF clientVars, counts
<1> HIDE DEF a, s, o
<1>6. ASSUME starting' \subseteq Sessions PROVE Proper
  BY <1>5, <1>6 DEF Proper, Typed
<1>7. ASSUME NEW q, NEW parked, NEW sent, Reacts(s, q, parked, 0, sent)
      PROVE  Concerns(s, q, parked, 0, sent)
  BY <1>1, <1>2, <1>5, <1>7 DEF Concerns, a
<1>8. CASE a.kind = "start" /\ MsgStartTracking(s, o, 0)
  <2>1. PICK q, parked, sent : Reacts(s, q, parked, 0, sent) /\ StartDoes(s, o, q, parked)
    BY <1>3, <1>8, MsgStartReacts
  <2>2. Concerns(s, q, parked, 0, sent)
    BY <1>7, <2>1
  <2>3. starting' \subseteq Sessions
    <3>1. MustPark(o) => starting' = starting \cup {s}
      BY <1>8 DEF MsgStartTracking
    <3>2. ~MustPark(o) => starting' \in {starting \ {s}, starting \cup {s}}
      BY <1>8 DEF MsgStartTracking, StartWithoutCallbacks, StartSession
    <3>3. QED
      BY <1>3, <3>1, <3>2 DEF Typed
  <2>4. QED
    BY <1>1, <1>2, <1>3, <1>4, <1>5, <1>6, <1>8, <2>1, <2>2, <2>3 DEF a
<1>9. CASE a.kind = "update" /\ MsgUpdateTracking(s, o, 0) /\ UNCHANGED starting
  <2>1. PICK q, parked, sent : Reacts(s, q, parked, 0, sent) /\ UpdateDoes(s, o, q, parked)
    BY <1>3, <1>9, MsgUpdateReacts
  <2>2. Concerns(s, q, parked, 0, sent)
    BY <1>7, <2>1
  <2>3. starting' \subseteq Sessions
    BY <1>9 DEF Typed
  <2>4. QED
    BY <1>1, <1>2, <1>3, <1>5, <1>6, <2>1, <2>2, <2>3 DEF a
<1>10. QED
  BY <1>1, <1>8, <1>9

-----------------------------------------------------------------------------
(* The other steps: what they ask of LocApi and do to the queues.          *)

\* One client or event more: the requests are nobody's.
Asks(q) == /\ q \in Seq(Made) /\ Joined(reqs', reqs, q)
           /\ \A i \in DOMAIN q : q[i].then = "nothing" /\ q[i].call \in {"start", "stop", "dstart"}

\* What restarts and suspensions ask.
LEMMA RestartAsks ==
  ASSUME Typed, NEW q,
         \/ q = <<>> \/ q = suspendSessions(TBS) \/ q = restartSessions(TBS, DBS)
         \/ q = suspendSessions(TBS) \o restartSessions(TBS, DBS)
         \/ q = restartSessions(TBS, DBS) \o restartSessions(TBS, DBS),
         Ask(q)
  PROVE  Asks(q)
<1> DEFINE P(x) == /\ x \in Seq(Made)
                   /\ \A i \in DOMAIN x : x[i].then = "nothing" /\ x[i].call \in {"start", "stop", "dstart"}
<1>1. Joined(reqs', reqs, q)
  BY DEF Ask, Joined
<1>2. P(restartSessions(TBS, DBS)) /\ P(suspendSessions(TBS))
  <2>1. P(restartSessions(TBS, DBS))
    BY RestartFacts DEF Typed
  <2>2. P(suspendSessions(TBS))
    BY SuspendFacts DEF Typed
  <2>3. QED
    BY <2>1, <2>2
<1>3. P(<<>>)
  BY EmptySeq
<1>4. ASSUME NEW x, NEW y, P(x), P(y) PROVE P(x \o y)
  <2> DEFINE t == x \o y
             n == Len(x)
  <2>1. /\ \A i \in DOMAIN x : t[i] = x[i]
        /\ \A k \in DOMAIN y : t[n + k] = y[k]
        /\ \A i \in DOMAIN t : i \in DOMAIN x \/ \E k \in DOMAIN y : i = n + k
    BY <1>4, ConcatPlaces
  <2>2. t \in Seq(Made)
    BY <1>4, ConcatProperties
  <2> HIDE DEF t, n
  <2>3. \A i \in DOMAIN t : t[i].then = "nothing" /\ t[i].call \in {"start", "stop", "dstart"}
    BY <1>4, <2>1
  <2>4. QED
    BY <2>2, <2>3 DEF t
<1> HIDE DEF P
<1>5. P(q)
  BY <1>2, <1>3, <1>4
<1>6. QED
  BY <1>1, <1>5 DEF Asks, P

\* Such requests are not about any client's call.
LEMMA AsksNothing ==
  ASSUME Typed, NEW q, Asks(q), NEW s \in Sessions, NEW K, "nothing" \notin K
  PROVE  /\ reqs' \in Seq(Made) /\ ~Has(q, Rq(s, K)) /\ ~Has(q, Opens) /\ ~Has(q, Dstops(s))
         /\ Amount(mPendingMsgs, msgs, reqs', s, K) = Amount(mPendingMsgs, msgs, reqs, s, K)
<1> DEFINE p == mPendingMsgs
           m == msgs
           r == reqs
           r2 == reqs'
<1>1. q \in Seq(Made) /\ Joined(r2, r, q)
  BY DEF Asks
<1>2. \A i \in DOMAIN q : q[i] \notin Rq(s, K) /\ q[i] \notin Opens /\ q[i] \notin Dstops(s)
  BY DEF Asks, Rq, Opens, Dstops
<1>3. ~Has(q, Rq(s, K)) /\ ~Has(q, Opens) /\ ~Has(q, Dstops(s))
  BY <1>2 DEF Has
<1>4. Count(q, Rq(s, K)) = 0
  BY <1>1, <1>3, CountFacts
<1>5. p \in Seq(Waiting) /\ m \in Seq(Msgs) /\ r \in Seq(Made)
  BY DEF Typed
<1> HIDE DEF p, m, r, r2
<1>6. /\ Amount(p, m, r, s, K) \in Nat /\ r2 \in Seq(Made)
      /\ Amount(p, m, r2, s, K) = Amount(p, m, r, s, K) + Count(q, Rq(s, K))
  BY <1>1, <1>5, AmountAsk
<1>7. Amount(p, m, r2, s, K) = Amount(p, m, r, s, K)
  BY <1>4, <1>6
<1>8. QED
  BY <1>3, <1>6, <1>7 DEF p, m, r, r2

\* What the removal of client c asks: the time-based sessions are left to the
\* multiplexing (q), the distance-based ones are stopped (p).
Removes(c, q, p) ==
  /\ q \in Seq(Made) /\ p \in Seq(Made) /\ \E t : Joined(t, q, p) /\ Joined(reqs', reqs, t)
  /\ \A i \in DOMAIN q : /\ q[i] \in Timed /\ q[i].session \in Sessions /\ owner[q[i].session] = c
                         /\ q[i].then \in {"started", "respond"}
  /\ \A i \in DOMAIN p : /\ p[i].call = "dstop" /\ p[i].then = "removed"
                         /\ p[i].session \in In(DBS) /\ owner[p[i].session] = c
  /\ \A s \in In(DBS) : owner[s] = c => Has(p, Rq(s, {"removed"}))
  /\ Turned(q, TBS, TBS') /\ TBS' \in SessionMaps
  /\ In(TBS') = {s \in In(TBS) : owner[s] # c}
  /\ \A s \in In(TBS') : TBS'[s] = TBS[s]
  /\ UNCHANGED <<DBS, owner, mIsEngineCapabilitiesKnown, mPendingMsgs, msgs, mSystemPowerState,
                 modem, events, history>>
  /\ mClientData' = mClientData \ {c} /\ removed' = removed \cup {c}

\* It asks this.
LEMMA RemoveAsks ==
  ASSUME Typed, NEW c \in Clients, removeClientCommand(c)
  PROVE  (\E q, p : Removes(c, q, p)) /\ c \in mClientData /\ commands' \in 0..MaxCommands
<1> DEFINE S == {s \in In(TBS) : owner[s] = c}
           D == {s \in In(DBS) : owner[s] = c}
           q == StopClient(TBS, S)[1]
           ids == InOrder(D)
           p == [i \in DOMAIN ids |-> Request("dstop", ids[i], NoOptions, "removed")]
<1>1. /\ Command /\ c \in mClientData /\ reqs' = reqs \o (q \o p)
      /\ TBS' = StopClient(TBS, S)[2]
      /\ mClientData' = mClientData \ {c} /\ removed' = removed \cup {c}
      /\ UNCHANGED <<owner, mDistanceBasedTrackingSessions, parkVars, msgs, mSystemPowerState,
                     modem, events, history>>
  BY DEF removeClientCommand, Ask, TBS, DBS
<1>2. TBS \in SessionMaps /\ DBS \in SessionMaps
  BY DEF Typed
<1>3. S \in SUBSET In(TBS) /\ D \subseteq Sessions /\ In(TBS) \subseteq Sessions
      /\ In(DBS) \subseteq Sessions
  BY DEF In
<1>4. /\ TBS' \in SessionMaps /\ In(TBS') = In(TBS) \ S
      /\ \A s \in Sessions \ S : TBS'[s] = TBS[s]
      /\ q \in Seq(Made)
      /\ \A i \in DOMAIN q : q[i] \in Timed /\ q[i].session \in S /\ q[i].then \in {"started", "respond"}
      /\ Turned(q, TBS, TBS')
  <2> HIDE DEF S
  <2>1. QED
    BY <1>1, <1>2, <1>3, StopClientTurned
<1>5. /\ ids \in Seq(D) /\ \A s \in D : \E i \in DOMAIN ids : ids[i] = s
  <2> HIDE DEF D
  <2>1. QED
    BY <1>3, Ordered
<1>6. DOMAIN ids = 1..Len(ids) /\ Len(ids) \in Nat /\ \A i \in DOMAIN ids : ids[i] \in D
  <2> HIDE DEF D, ids
  <2>1. QED
    BY <1>5, LenProperties, ElementOfSeq
<1>7. \A s \in D : /\ Request("dstop", s, NoOptions, "removed") \in Made
                   /\ Request("dstop", s, NoOptions, "removed") \in Rq(s, {"removed"})
  <2> SUFFICES ASSUME NEW s \in D
               PROVE  /\ Request("dstop", s, NoOptions, "removed") \in Made
                      /\ Request("dstop", s, NoOptions, "removed") \in Rq(s, {"removed"})
    OBVIOUS
  <2>1. DBS[s] \in Given /\ s \in Sessions
    BY <1>2, <1>3, MapFacts
  <2>2. Request("dstop", s, NoOptions, "removed") \in Made
    BY <2>1, RequestsMade
  <2>3. QED
    BY <2>2, RequestFields DEF Rq
<1>8. /\ p \in Seq(Made) /\ DOMAIN p = DOMAIN ids
      /\ \A i \in DOMAIN p : p[i] = Request("dstop", ids[i], NoOptions, "removed")
  <2> HIDE DEF ids, D
  <2>1. \A i \in 1..Len(ids) : Request("dstop", ids[i], NoOptions, "removed") \in Made
    BY <1>6, <1>7
  <2>2. p \in [1..Len(ids) -> Made]
    BY <1>6, <2>1
  <2>3. QED
    BY <1>6, <2>2, SeqDef
<1>9. ASSUME NEW i \in DOMAIN p
      PROVE  p[i].call = "dstop" /\ p[i].then = "removed" /\ p[i].session \in D
  <2> HIDE DEF p, ids, D
  <2>1. QED
    BY <1>6, <1>8, <1>9, RequestFields
<1>10. ASSUME NEW s \in D PROVE Has(p, Rq(s, {"removed"}))
  <2> HIDE DEF p, ids, D
  <2>1. PICK i \in DOMAIN ids : ids[i] = s
    BY <1>5
  <2>2. i \in DOMAIN p /\ p[i] \in Rq(s, {"removed"})
    BY <1>7, <1>8, <2>1
  <2>3. QED
    BY <2>2 DEF Has
<1>11. \E t : Joined(t, q, p) /\ Joined(reqs', reqs, t)
  BY <1>1 DEF Joined
<1>12. UNCHANGED <<DBS, owner, mIsEngineCapabilitiesKnown, mPendingMsgs, msgs, mSystemPowerState,
                   modem, events, history>>
  BY <1>1 DEF DBS, parkVars
<1>13. commands' \in 0..MaxCommands
  BY <1>1, CommandBound
<1>14. Removes(c, q, p)
  <2>1. /\ \A i \in DOMAIN q : /\ q[i] \in Timed /\ q[i].session \in Sessions
                               /\ owner[q[i].session] = c /\ q[i].then \in {"started", "respond"}
        /\ In(TBS') = {s \in In(TBS) : owner[s] # c}
        /\ \A s \in In(TBS') : TBS'[s] = TBS[s]
    <3> HIDE DEF q
    <3>1. QED
      BY <1>3, <1>4
  <2>2. /\ \A i \in DOMAIN p : /\ p[i].call = "dstop" /\ p[i].then = "removed"
                               /\ p[i].session \in In(DBS) /\ owner[p[i].session] = c
        /\ \A s \in In(DBS) : owner[s] = c => Has(p, Rq(s, {"removed"}))
    <3> HIDE DEF p
    <3>1. QED
      BY <1>9, <1>10
  <2> HIDE DEF q, p
  <2>3. QED
    BY <1>1, <1>4, <1>8, <1>11, <1>12, <2>1, <2>2 DEF Removes
<1>15. QED
  BY <1>1, <1>13, <1>14

\* What it asks is about its own sessions.
LEMMA RemovesFacts ==
  ASSUME Typed, NEW c, NEW q, NEW p, Removes(c, q, p), NEW s \in Sessions
  PROVE  /\ \E t \in Seq(Made) : Joined(t, q, p) /\ Joined(reqs', reqs, t)
         /\ ~Has(q, Rq(s, ActiveThens)) /\ ~Has(p, Rq(s, ClientThens))
         /\ owner[s] # c => (\A K : ~Has(q, Rq(s, K)) /\ ~Has(p, Rq(s, K))) /\ ~Has(p, Dstops(s))
         /\ s \notin In(DBS) => (\A K : ~Has(p, Rq(s, K))) /\ ~Has(p, Dstops(s))
         /\ ~Has(q, Opens) /\ ~Has(p, Opens) /\ ~Has(p, Timed)
         /\ ~Has(q, Dstops(s)) /\ ~Has(q, Dstarts(s)) /\ ~Has(p, Dstarts(s))
         /\ Has(p, Rq(s, {"removed"})) => Has(p, Dstops(s))
<1>1. \E t \in Seq(Made) : Joined(t, q, p) /\ Joined(reqs', reqs, t)
  <2>1. PICK t : Joined(t, q, p) /\ Joined(reqs', reqs, t)
    BY DEF Removes
  <2>2. t \in Seq(Made)
    BY <2>1, JoinHas DEF Removes
  <2>3. QED
    BY <2>1, <2>2
<1>2. \A i \in DOMAIN q : /\ q[i] \in Timed /\ owner[q[i].session] = c
                          /\ q[i].then \in {"started", "respond"}
  BY DEF Removes
<1>3. \A i \in DOMAIN p : /\ p[i].call = "dstop" /\ p[i].then = "removed"
                          /\ p[i].session \in In(DBS) /\ owner[p[i].session] = c
  BY DEF Removes
<1>4. ~Has(q, Rq(s, ActiveThens)) /\ ~Has(p, Rq(s, ClientThens))
  BY <1>2, <1>3 DEF Has, Rq, ActiveThens, ClientThens
<1>5. owner[s] # c => (\A K : ~Has(q, Rq(s, K)) /\ ~Has(p, Rq(s, K))) /\ ~Has(p, Dstops(s))
  BY <1>2, <1>3 DEF Has, Rq, Dstops
<1>6. s \notin In(DBS) => (\A K : ~Has(p, Rq(s, K))) /\ ~Has(p, Dstops(s))
  BY <1>3 DEF Has, Rq, Dstops
<1>7. ~Has(q, Opens) /\ ~Has(p, Opens) /\ ~Has(p, Timed)
  BY <1>2, <1>3 DEF Has, Opens, Timed
<1>8. ~Has(q, Dstops(s)) /\ ~Has(q, Dstarts(s)) /\ ~Has(p, Dstarts(s))
  BY <1>2, <1>3 DEF Has, Dstops, Dstarts, Timed
<1>9. Has(p, Rq(s, {"removed"})) => Has(p, Dstops(s))
  BY <1>3 DEF Has, Rq, Dstops
<1>10. QED
  BY <1>1, <1>4, <1>5, <1>6, <1>7, <1>8, <1>9

\* Steps that leave the owners and what is owed alone, and add nothing to what
\* is in flight about the calls of clients that are there.
LEMMA CountedKept ==
  ASSUME Typed, Counted, UNCHANGED <<owner, owed>>, removed \subseteq removed',
         \A s \in Sessions : Amount(mPendingMsgs', msgs', reqs', s, ActiveThens)
                               = Amount(mPendingMsgs, msgs, reqs, s, ActiveThens),
         \A s \in Sessions : owner[s] \notin removed' =>
           Amount(mPendingMsgs', msgs', reqs', s, ClientThens)
             = Amount(mPendingMsgs, msgs, reqs, s, ClientThens)
  PROVE  Counted'
<1>1. \A s \in Sessions :
        /\ owner[s] \notin removed => Amount(mPendingMsgs, msgs, reqs, s, ClientThens) <= owed[s]
        /\ ClientsWait => Amount(mPendingMsgs, msgs, reqs, s, ActiveThens) <= 1
        /\ owner[s] = NoClient => owed[s] = 0
  BY DEF Counted
<1>2. \A s \in Sessions :
        /\ owner'[s] \notin removed' =>
             Amount(mPendingMsgs', msgs', reqs', s, ClientThens) <= owed'[s]
        /\ ClientsWait => Amount(mPendingMsgs', msgs', reqs', s, ActiveThens) <= 1
        /\ owner'[s] = NoClient => owed'[s] = 0
  BY <1>1
<1>3. QED
  BY <1>2 DEF Counted

\* Neither of the sets of closures has the empty one.
LEMMA NotNothing == "nothing" \notin ClientThens /\ "nothing" \notin ActiveThens
BY DEF ClientThens, ActiveThens

\* A client registers.
LEMMA AddSound ==
  ASSUME Typed, Counted, NEW c \in Clients, addClientCommand(c)
  PROVE  Typed' /\ Counted'
<1>1. /\ c \notin removed /\ mClientData' = mClientData \cup {c}
      /\ UNCHANGED <<removed, owner, sessions, parkVars, msgs, mSystemPowerState, reqs, modem,
                     counts, history>>
  BY DEF addClientCommand
<1>2. Typed'
  BY <1>1 DEF Typed, sessions, parkVars, modem, counts, history, TBS, DBS
<1>3. Counted'
  BY <1>1, CountedKept DEF parkVars, history
<1>4. QED
  BY <1>2, <1>3

\* A client is removed.
LEMMA RemoveSound ==
  ASSUME Typed, Counted, NEW c \in Clients, removeClientCommand(c)
  PROVE  Typed' /\ Counted'
<1>1. PICK q, p : Removes(c, q, p)
  BY RemoveAsks
<1>2. commands' \in 0..MaxCommands
  BY RemoveAsks
<1>3. /\ UNCHANGED <<DBS, owner, mIsEngineCapabilitiesKnown, mPendingMsgs, msgs, mSystemPowerState,
                     modem, events, history>>
      /\ mClientData' = mClientData \ {c} /\ removed' = removed \cup {c}
      /\ TBS' \in SessionMaps /\ In(TBS') \subseteq In(TBS) /\ q \in Seq(Made) /\ p \in Seq(Made)
      /\ \A s \in In(TBS') : TBS'[s] = TBS[s]
  BY <1>1 DEF Removes
<1>4. \E t \in Seq(Made) : Joined(t, q, p) /\ Joined(reqs', reqs, t)
  <2>1. CASE Sessions # {}
    BY <1>1, <2>1, RemovesFacts
  <2>2. PICK t : Joined(t, q, p) /\ Joined(reqs', reqs, t)
    BY <1>1 DEF Removes
  <2>3. t \in Seq(Made)
    BY <1>3, <2>2, JoinHas
  <2>4. QED
    BY <2>2, <2>3
<1>5. PICK t \in Seq(Made) : Joined(t, q, p) /\ Joined(reqs', reqs, t)
  BY <1>4
<1>6. reqs' \in Seq(Made)
  BY <1>5, JoinHas DEF Typed
<1>7. Typed'
  BY <1>2, <1>3, <1>6 DEF Typed, modem, history
<1>8. ASSUME NEW s \in Sessions, NEW K, ~Has(q, Rq(s, K)), ~Has(p, Rq(s, K))
      PROVE  Amount(mPendingMsgs', msgs', reqs', s, K) = Amount(mPendingMsgs, msgs, reqs, s, K)
  <2> DEFINE pend == mPendingMsgs
             m == msgs
             r == reqs
             r2 == reqs'
  <2>1. Count(q, Rq(s, K)) = 0 /\ Count(p, Rq(s, K)) = 0
    BY <1>3, <1>8, CountFacts
  <2>2. Count(t, Rq(s, K)) = 0
    BY <1>3, <1>5, <2>1, JoinHas
  <2>3. pend \in Seq(Waiting) /\ m \in Seq(Msgs) /\ r \in Seq(Made) /\ Joined(r2, r, t)
    BY <1>5 DEF Typed
  <2> HIDE DEF pend, m, r, r2
  <2>4. /\ Amount(pend, m, r, s, K) \in Nat
        /\ Amount(pend, m, r2, s, K) = Amount(pend, m, r, s, K) + Count(t, Rq(s, K))
    BY <1>5, <2>3, AmountAsk
  <2>5. Amount(pend, m, r2, s, K) = Amount(pend, m, r, s, K)
    BY <2>2, <2>4
  <2>6. QED
    BY <1>3, <2>5 DEF pend, m, r, r2
<1>9. ASSUME NEW s \in Sessions
      PROVE  /\ Amount(mPendingMsgs', msgs', reqs', s, ActiveThens)
                  = Amount(mPendingMsgs, msgs, reqs, s, ActiveThens)
             /\ owner[s] \notin removed' =>
                  Amount(mPendingMsgs', msgs', reqs', s, ClientThens)
                    = Amount(mPendingMsgs, msgs, reqs, s, ClientThens)
  <2>1. ~Has(q, Rq(s, ActiveThens)) /\ ~Has(p, Rq(s, ClientThens))
    BY <1>1, RemovesFacts
  <2>2. owner[s] # c => (\A K : ~Has(q, Rq(s, K)) /\ ~Has(p, Rq(s, K)))
    BY <1>1, RemovesFacts
  <2>3. ~Has(p, Rq(s, ActiveThens))
    BY <2>1 DEF Has, Rq, ActiveThens
  <2>4. owner[s] \notin removed' => owner[s] # c
    BY <1>3
  <2>5. QED
    BY <1>8, <2>1, <2>2, <2>3, <2>4
<1>10. UNCHANGED <<owner, owed>> /\ removed \subseteq removed'
  BY <1>3 DEF history
<1>11. Counted'
  BY <1>9, <1>10, CountedKept
<1>12. QED
  BY <1>7, <1>11

\* The modem comes up.
LEMMA OpenSound ==
  ASSUME Typed, Counted, Open
  PROVE  Typed' /\ Counted'
<1>1. /\ reqs # <<>> /\ Head(reqs).call = "open" /\ reqs' = Tail(reqs) /\ down' = FALSE
      /\ Extended(msgs', msgs, EngineUp)
      /\ UNCHANGED <<clientVars, sessions, parkVars, mSystemPowerState, tbt, dbt, counts, history>>
  BY DEF Open, Extended
<1>2. EngineUp \in Msgs
  BY DEF Msgs
<1>3. msgs' \in Seq(Msgs) /\ reqs' \in Seq(Made) /\ Head(reqs) \in Made
  <2>1. msgs' \in Seq(Msgs)
    BY <1>1, <1>2, AppendHas DEF Typed
  <2>2. QED
    BY <1>1, <2>1, HeadFirst DEF Typed
<1>4. Typed'
  BY <1>1, <1>3 DEF Typed, clientVars, sessions, parkVars, counts, history, TBS, DBS
<1>5. ASSUME NEW s \in Sessions, NEW K, "nothing" \notin K
      PROVE  Amount(mPendingMsgs', msgs', reqs', s, K) = Amount(mPendingMsgs, msgs, reqs, s, K)
  <2>1. Head(reqs) \notin Rq(s, K) /\ EngineUp \notin Pk(s) \cup An(s, K)
    BY <1>1, <1>3, <1>5 DEF Rq, Pk, An, Waiting, Replies, EngineUp, Made
  <2> DEFINE W == Pk(s) \cup An(s, K)
             V == Rq(s, K)
             m2 == msgs'
  <2>2. Count(m2, W) = Count(msgs, W) + 0
    <3>1. EngineUp \notin W /\ Extended(m2, msgs, EngineUp) /\ msgs \in Seq(Msgs)
      BY <1>1, <2>1 DEF Typed
    <3> HIDE DEF W, m2
    <3>2. Count(m2, W) = Count(msgs, W) + (IF EngineUp \in W THEN 1 ELSE 0)
      BY <1>2, <3>1, AppendHas
    <3>3. QED
      BY <3>1, <3>2
  <2>3. Count(reqs, V) = 0 + Count(Tail(reqs), V)
    <3>1. Head(reqs) \notin V /\ reqs \in Seq(Made)
      BY <2>1 DEF Typed
    <3> HIDE DEF V
    <3>2. QED
      BY <1>1, <3>1, TailHas
  <2>4. Count(msgs, W) \in Nat /\ Count(Tail(reqs), V) \in Nat
    <3>1. msgs \in Seq(Msgs) /\ Tail(reqs) \in Seq(Made)
      BY <1>1, <1>3 DEF Typed
    <3> HIDE DEF W, V
    <3>2. QED
      BY <3>1, CountFacts
  <2> HIDE DEF W, V
  <2>5. Count(m2, W) = Count(msgs, W) /\ Count(reqs', V) = Count(reqs, V)
    BY <1>1, <2>2, <2>3, <2>4
  <2>6. mPendingMsgs' = mPendingMsgs
    BY <1>1 DEF parkVars
  <2>7. QED
    BY <2>5, <2>6 DEF Amount, W, V
<1>6. UNCHANGED <<owner, owed, removed>>
  BY <1>1 DEF clientVars, history
<1>7. Counted'
  BY <1>5, <1>6, CountedKept, NotNothing
<1>8. QED
  BY <1>4, <1>7

\* LocApi carries out the request at the head of its queue and answers.
Carried(ok, a) ==
  /\ reqs # <<>> /\ Head(reqs) \in Made /\ Head(reqs).call # "open" /\ reqs' = Tail(reqs)
  /\ ok = ~down /\ Carry(Head(reqs), ok)
  /\ a = [kind |-> "answer", req |-> Head(reqs), ok |-> ok]
  /\ IF Head(reqs).then = "nothing" THEN msgs' = msgs ELSE Extended(msgs', msgs, a)
  /\ UNCHANGED <<clientVars, sessions, parkVars, mSystemPowerState, down, counts, history>>

\* This is what it does.
LEMMA CarriedOut ==
  ASSUME Typed, CarryOut
  PROVE  \E a : \E ok \in BOOLEAN : Carried(ok, a)
<1>1. PICK ok \in BOOLEAN : ok = ~down
  BY DEF Typed
<1>2. /\ reqs # <<>> /\ Head(reqs).call # "open" /\ reqs' = Tail(reqs)
      /\ Carry(Head(reqs), ok)
      /\ msgs' = IF Head(reqs).then = "nothing" THEN msgs
                 ELSE Append(msgs, [kind |-> "answer", req |-> Head(reqs), ok |-> ok])
      /\ UNCHANGED <<clientVars, sessions, parkVars, mSystemPowerState, down, counts, history>>
  BY <1>1 DEF CarryOut
<1>3. Head(reqs) \in Made
  BY <1>2, HeadFirst DEF Typed
<1>4. PICK a : a = [kind |-> "answer", req |-> Head(reqs), ok |-> ok]
  OBVIOUS
<1>5. IF Head(reqs).then = "nothing" THEN msgs' = msgs ELSE Extended(msgs', msgs, a)
  BY <1>2, <1>4 DEF Extended
<1>6. QED
  BY <1>1, <1>2, <1>3, <1>4, <1>5 DEF Carried

\* A request is carried out.
LEMMA CarrySound ==
  ASSUME Typed, Counted, CarryOut
  PROVE  Typed' /\ Counted'
<1>0. PICK a : \E ok \in BOOLEAN : Carried(ok, a)
  BY CarriedOut
<1>1. PICK ok \in BOOLEAN : Carried(ok, a)
  BY <1>0
<1>2. /\ reqs # <<>> /\ Head(reqs) \in Made /\ reqs' = Tail(reqs) /\ Carry(Head(reqs), ok)
      /\ a = [kind |-> "answer", req |-> Head(reqs), ok |-> ok]
      /\ IF Head(reqs).then = "nothing" THEN msgs' = msgs ELSE Extended(msgs', msgs, a)
      /\ UNCHANGED <<clientVars, sessions, parkVars, mSystemPowerState, down, counts, history>>
  BY <1>1 DEF Carried
<1>3. ASSUME NEW s \in Sessions, NEW K, "nothing" \notin K
      PROVE  Amount(mPendingMsgs', msgs', reqs', s, K) = Amount(mPendingMsgs, msgs, reqs, s, K)
  <2> DEFINE p == mPendingMsgs
             m == msgs
             r == reqs
             m2 == msgs'
  <2>1. /\ p \in Seq(Waiting) /\ m \in Seq(Msgs) /\ r \in Seq(Made) /\ r # <<>>
        /\ a = [kind |-> "answer", req |-> Head(r), ok |-> ok]
        /\ IF Head(r).then = "nothing" THEN m2 = m ELSE Extended(m2, m, a)
    BY <1>2 DEF Typed
  <2> HIDE DEF p, m, r, m2
  <2>2. Amount(p, m2, Tail(r), s, K) = Amount(p, m, r, s, K)
    BY <1>3, <2>1, AmountCarry
  <2>3. mPendingMsgs' = mPendingMsgs
    BY <1>2 DEF parkVars
  <2>4. QED
    BY <1>2, <2>2, <2>3 DEF p, m, r, m2
<1>4. msgs' \in Seq(Msgs) /\ reqs' \in Seq(Made)
  <2>1. Head(reqs).then # "nothing" => a \in Msgs
    BY <1>2 DEF Msgs, Replies
  <2>2. msgs' \in Seq(Msgs)
    BY <1>2, <2>1, AppendHas DEF Typed
  <2>3. QED
    BY <1>2, <2>2, HeadFirst DEF Typed
<1>5. tbt' \in Given \cup {NoOptions} /\ dbt' \subseteq Sessions
  BY <1>2 DEF Carry, Typed, Made
<1>6. Typed'
  BY <1>2, <1>4, <1>5 DEF Typed, clientVars, sessions, parkVars, counts, history, TBS, DBS
<1>7. UNCHANGED <<owner, owed, removed>>
  BY <1>2 DEF clientVars, history
<1>8. Counted'
  BY <1>3, <1>7, CountedKept, NotNothing
<1>9. QED
  BY <1>6, <1>8

\* One more event is within the bound.
LEMMA EventBound == ASSUME Typed, Event PROVE events' \in 0..MaxEvents /\ events' # 0
BY ConstantFacts, TrackingAssumption DEF Typed, Event

\* The modem crashes.
LEMMA DownSound ==
  ASSUME Typed, Counted, handleEngineDownEvent
  PROVE  Typed' /\ Counted'
<1> DEFINE r == Request("open", 0, NoOptions, "nothing")
           q == <<r>>
<1>1. /\ Event /\ down' = TRUE /\ tbt' = NoOptions /\ dbt' = {} /\ reqs' = reqs \o q
      /\ UNCHANGED <<clientVars, sessions, parkVars, msgs, mSystemPowerState, commands, history>>
  BY DEF handleEngineDownEvent, Ask
<1>2. r \in Made
  BY DEF Made, Requests, Request, Calls, Thens, OptionRecords, NoOptions
<1>3. \A K : \A s \in Sessions : "nothing" \notin K => r \notin Rq(s, K)
  BY RequestFields DEF Rq
<1> HIDE DEF r
<1>4. q \in Seq(Made) /\ Joined(reqs', reqs, q)
  BY <1>1, <1>2 DEF Joined
<1>5. ASSUME NEW s \in Sessions, NEW K, "nothing" \notin K
      PROVE  Amount(mPendingMsgs', msgs', reqs', s, K) = Amount(mPendingMsgs, msgs, reqs, s, K)
  <2> DEFINE p == mPendingMsgs
             m == msgs
             rs == reqs
             r2 == reqs'
  <2>1. Count(q, Rq(s, K)) = 0
    BY <1>3, <1>5, ShortCount
  <2>2. p \in Seq(Waiting) /\ m \in Seq(Msgs) /\ rs \in Seq(Made) /\ Joined(r2, rs, q)
    BY <1>4 DEF Typed
  <2> HIDE DEF p, m, rs, r2, q
  <2>3. /\ Amount(p, m, rs, s, K) \in Nat
        /\ Amount(p, m, r2, s, K) = Amount(p, m, rs, s, K) + Count(q, Rq(s, K))
    BY <1>4, <2>2, AmountAsk
  <2>4. Amount(p, m, r2, s, K) = Amount(p, m, rs, s, K)
    BY <2>1, <2>3
  <2>5. mPendingMsgs' = mPendingMsgs /\ msgs' = msgs
    BY <1>1 DEF parkVars
  <2>6. QED
    BY <2>4, <2>5 DEF p, m, rs, r2
<1>6. reqs' \in Seq(Made)
  <2> HIDE DEF q
  <2>1. QED
    BY <1>4, JoinHas DEF Typed
<1>7. Typed'
  BY <1>1, <1>6, EventBound DEF Typed, clientVars, sessions, parkVars, history, TBS, DBS
<1>8. UNCHANGED <<owner, owed, removed>>
  BY <1>1 DEF clientVars, history
<1>9. Counted'
  BY <1>5, <1>8, CountedKept, NotNothing
<1>10. QED
  BY <1>7, <1>9

\* What a power event, a configuration or the modem coming up asks.
LEMMA EventAsks ==
  ASSUME Typed,
         \/ \E state \in {"suspend", "resume"} : updateSystemPowerState(state)
         \/ UpdateConfig
         \/ MsgHandleEngineUpEvent
  PROVE  \E q : /\ Asks(q) /\ Ask(q)
                /\ \/ q = <<>> \/ q = suspendSessions(TBS) \/ q = restartSessions(TBS, DBS)
                   \/ q = suspendSessions(TBS) \o restartSessions(TBS, DBS)
                   \/ q = restartSessions(TBS, DBS) \o restartSessions(TBS, DBS)
<1>1. \E q : /\ Ask(q)
             /\ \/ q = <<>> \/ q = suspendSessions(TBS) \/ q = restartSessions(TBS, DBS)
                \/ q = suspendSessions(TBS) \o restartSessions(TBS, DBS)
                \/ q = restartSessions(TBS, DBS) \o restartSessions(TBS, DBS)
  <2>1. CASE \E state \in {"suspend", "resume"} : updateSystemPowerState(state)
    BY <2>1 DEF updateSystemPowerState
  <2>2. CASE UpdateConfig
    BY <2>2 DEF UpdateConfig
  <2>3. CASE MsgHandleEngineUpEvent
    <3> DEFINE R == restartSessions(TBS, DBS)
    <3>1. R \in Seq(Made)
      BY RestartFacts DEF Typed
    <3>2. <<>> \o R = R
      <4> HIDE DEF R
      <4>1. QED
        BY <3>1, ConcatEmptySeq
    <3>3. /\ mSystemPowerState = "suspend" => Ask(suspendSessions(TBS))
          /\ mSystemPowerState = "resume" => Ask(R \o R)
          /\ mSystemPowerState = "unknown" => Ask(<<>> \o R)
      BY <2>3 DEF MsgHandleEngineUpEvent
    <3>4. mSystemPowerState \in {"unknown", "suspend", "resume"}
      BY DEF Typed
    <3>5. mSystemPowerState = "unknown" => Ask(R)
      BY <3>2, <3>3, Zenon
    <3> HIDE DEF R
    <3>6. QED
      BY <3>3, <3>4, <3>5 DEF R
  <2>4. QED
    BY <2>1, <2>2, <2>3
<1>2. QED
  BY <1>1, RestartAsks

\* Power events and configurations.
LEMMA EventSound ==
  ASSUME Typed, Counted,
         \/ \E state \in {"suspend", "resume"} : updateSystemPowerState(state)
         \/ UpdateConfig
  PROVE  Typed' /\ Counted'
<1>1. PICK q : Asks(q)
  BY EventAsks
<1>2. /\ mSystemPowerState' \in {"unknown", "suspend", "resume"} /\ Event
      /\ UNCHANGED <<clientVars, sessions, parkVars, msgs, modem, commands, history>>
  <2>1. CASE \E state \in {"suspend", "resume"} : updateSystemPowerState(state)
    BY <2>1 DEF updateSystemPowerState
  <2>2. CASE UpdateConfig
    BY <2>2 DEF UpdateConfig, Typed
  <2>3. QED
    BY <2>1, <2>2
<1>3. reqs' \in Seq(Made)
  BY <1>1, JoinHas DEF Asks, Typed
<1>4. Typed'
  BY <1>2, <1>3, EventBound DEF Typed, clientVars, sessions, parkVars, history, modem, TBS, DBS
<1>5. ASSUME NEW s \in Sessions, NEW K, "nothing" \notin K
      PROVE  Amount(mPendingMsgs', msgs', reqs', s, K) = Amount(mPendingMsgs, msgs, reqs, s, K)
  <2>1. Amount(mPendingMsgs, msgs, reqs', s, K) = Amount(mPendingMsgs, msgs, reqs, s, K)
    BY <1>1, <1>5, AsksNothing
  <2>2. mPendingMsgs' = mPendingMsgs /\ msgs' = msgs
    BY <1>2 DEF parkVars
  <2>3. QED
    BY <2>1, <2>2
<1>6. UNCHANGED <<owner, owed, removed>>
  BY <1>2 DEF clientVars, history
<1>7. Counted'
  BY <1>5, <1>6, CountedKept, NotNothing
<1>8. QED
  BY <1>4, <1>7

\* The message that the modem is up.
LEMMA UpFacts ==
  ASSUME MsgHandleEngineUpEvent
  PROVE  /\ msgs # <<>> /\ Head(msgs) = EngineUp /\ Joined(msgs', Tail(msgs), mPendingMsgs)
         /\ mPendingMsgs' = <<>> /\ mIsEngineCapabilitiesKnown' = TRUE
         /\ UNCHANGED <<clientVars, sessions, mSystemPowerState, modem, counts, history>>
BY DEF MsgHandleEngineUpEvent, Repost, Joined

\* It is handled.
LEMMA UpSound ==
  ASSUME Typed, Counted, MsgHandleEngineUpEvent
  PROVE  Typed' /\ Counted'
<1>1. PICK q : Asks(q)
  BY EventAsks
<1>2. /\ msgs # <<>> /\ Head(msgs) = EngineUp /\ Joined(msgs', Tail(msgs), mPendingMsgs)
      /\ mPendingMsgs' = <<>> /\ mIsEngineCapabilitiesKnown' = TRUE
      /\ UNCHANGED <<clientVars, sessions, mSystemPowerState, modem, counts, history>>
  BY UpFacts
<1>3. reqs' \in Seq(Made)
  BY <1>1, JoinHas DEF Asks, Typed
<1>4. ASSUME NEW s \in Sessions, NEW K
      PROVE  Amount(mPendingMsgs', msgs', reqs', s, K) = Amount(mPendingMsgs, msgs, reqs', s, K)
  <2> DEFINE p == mPendingMsgs
             m == msgs
             m2 == msgs'
             r == reqs'
             p2 == mPendingMsgs'
  <2>1. /\ p2 = <<>> /\ p \in Seq(Waiting) /\ m \in Seq(Msgs) /\ r \in Seq(Made)
        /\ Reposted(m2, m, p)
    BY <1>2, <1>3 DEF Typed, Reposted
  <2> HIDE DEF p, m, m2, r, p2
  <2>2. Amount(p2, m2, r, s, K) = Amount(p, m, r, s, K) 
    BY <2>1, AmountRepost
  <2>3. QED
    BY <2>2 DEF p, m, m2, r, p2
<1>5. msgs' \in Seq(Msgs)
  <2>1. Tail(msgs) \in Seq(Msgs)
    BY <1>2, HeadFirst DEF Typed
  <2>2. mPendingMsgs \in Seq(Msgs)
    BY SeqMonotonic DEF Typed, Msgs
  <2>3. QED
    BY <1>2, <2>1, <2>2, JoinHas
<1>6. Typed'
  <2>1. mPendingMsgs' \in Seq(Waiting)
    BY <1>2, EmptySeq
  <2>2. QED
    BY <1>2, <1>3, <1>5, <2>1 DEF Typed, clientVars, sessions, history, modem, counts, TBS, DBS
<1>7. ASSUME NEW s \in Sessions, NEW K, "nothing" \notin K
      PROVE  Amount(mPendingMsgs', msgs', reqs', s, K) = Amount(mPendingMsgs, msgs, reqs, s, K)
  <2>1. Amount(mPendingMsgs, msgs, reqs', s, K) = Amount(mPendingMsgs, msgs, reqs, s, K)
    BY <1>1, <1>7, AsksNothing
  <2>2. QED
    BY <1>4, <2>1
<1>8. UNCHANGED <<owner, owed, removed>>
  BY <1>2 DEF clientVars, history
<1>9. Counted'
  BY <1>7, <1>8, CountedKept, NotNothing
<1>10. QED
  BY <1>6, <1>9

-----------------------------------------------------------------------------
(* The types, and that no call is answered twice.                          *)

\* The steps, by what they concern.
LEMMA NextCases ==
  ASSUME Next
  PROVE  \/ \E c \in Clients : addClientCommand(c)
         \/ \E c \in Clients : removeClientCommand(c)
         \/ \E c \in Clients, o \in Options : startTrackingCommand(c, o)
         \/ \E s \in Sessions : stopTrackingCommand(s)
         \/ \E s \in Sessions, o \in Options : updateTrackingOptionsCommand(s, o)
         \/ Open \/ CarryOut \/ AnswerHandled \/ ParkedMsg \/ MsgHandleEngineUpEvent
         \/ handleEngineDownEvent
         \/ \/ \E state \in {"suspend", "resume"} : updateSystemPowerState(state)
            \/ UpdateConfig
BY DEF Next, LocApi, HandleMsg, AnswerHandled

\* The first state.
LEMMA InitSound == Init => Sound
<1> SUFFICES ASSUME Init PROVE Typed /\ Counted
  BY DEF Sound
<1> DEFINE r == Request("open", 0, NoOptions, "nothing")
<1>1. r \in Made /\ \A K : \A s \in Sessions : "nothing" \notin K => r \notin Rq(s, K)
  BY DEF Made, Requests, Request, Calls, Thens, OptionRecords, NoOptions, Rq
<1>2. /\ mPendingMsgs = <<>> /\ msgs = <<>> /\ reqs = <<r>>
      /\ owed = [s \in Sessions |-> 0] /\ removed = {}
  BY DEF Init
<1> HIDE DEF r
<1>3. Typed
  <2>1. mPendingMsgs \in Seq(Waiting) /\ msgs \in Seq(Msgs) /\ reqs \in Seq(Made)
    BY <1>1, <1>2, EmptySeq
  <2>2. TBS \in SessionMaps /\ DBS \in SessionMaps /\ In(TBS) = {}
    BY DEF Init, TBS, DBS, SessionMaps, In
  <2>3. 0 \in 0..MaxCommands /\ 0 \in 0..MaxEvents
    BY TrackingAssumption
  <2>4. QED
    BY <2>1, <2>2, <2>3 DEF Init, Typed
<1>4. ASSUME NEW s \in Sessions, NEW K, "nothing" \notin K
      PROVE  Amount(mPendingMsgs, msgs, reqs, s, K) = 0
  <2>1. Count(reqs, Rq(s, K)) = 0
    BY <1>1, <1>2, <1>4, ShortCount
  <2>2. Count(<<>>, Pk(s)) = 0 /\ Count(<<>>, Pk(s) \cup An(s, K)) = 0
    BY ShortCount
  <2>3. QED
    BY <1>2, <2>1, <2>2 DEF Amount
<1>5. Counted
  BY <1>2, <1>4, NotNothing DEF Counted
<1>6. QED
  BY <1>3, <1>5

\* Every step keeps them.
LEMMA NextSound == Sound /\ [Next]_vars => Sound'
<1> SUFFICES ASSUME Typed, Counted, [Next]_vars PROVE Typed' /\ Counted'
  BY DEF Sound
<1>1. CASE \E c \in Clients : addClientCommand(c)
  BY <1>1, AddSound
<1>2. CASE \E c \in Clients : removeClientCommand(c)
  BY <1>2, RemoveSound
<1>3. CASE \E c \in Clients, o \in Options : startTrackingCommand(c, o)
  <2>1. PICK s \in Sessions : \E q, parked, sent : Concerns(s, q, parked, 1, sent) /\ Proper
    BY <1>3, StartCallConcerns
  <2>2. QED
    BY <2>1, ConcernsSound DEF Proper
<1>4. CASE \E s \in Sessions : stopTrackingCommand(s)
  <2>1. PICK s \in Sessions : \E q, sent : Concerns(s, q, 0, 1, sent) /\ Proper
    BY <1>4, StopCallConcerns
  <2>2. QED
    BY <2>1, ConcernsSound DEF Proper
<1>5. CASE \E s \in Sessions, o \in Options : updateTrackingOptionsCommand(s, o)
  <2>1. PICK s \in Sessions : \E q, parked, sent : Concerns(s, q, parked, 1, sent) /\ Proper
    BY <1>5, UpdateCallConcerns
  <2>2. QED
    BY <2>1, ConcernsSound DEF Proper
<1>6. CASE AnswerHandled
  <2>1. PICK s \in Sessions : \E q, sent : Concerns(s, q, 0, 0, sent) /\ Proper
    BY <1>6, AnswerConcerns
  <2>2. QED
    BY <2>1, ConcernsSound DEF Proper
<1>7. CASE ParkedMsg
  <2>1. PICK s \in Sessions : \E q, parked, sent : Concerns(s, q, parked, 0, sent) /\ Proper
    BY <1>7, ParkedConcerns
  <2>2. QED
    BY <2>1, ConcernsSound DEF Proper
<1>8. CASE Open \/ CarryOut \/ MsgHandleEngineUpEvent \/ handleEngineDownEvent
  BY <1>8, OpenSound, CarrySound, UpSound, DownSound
<1>9. CASE (\E state \in {"suspend", "resume"} : updateSystemPowerState(state)) \/ UpdateConfig
  BY <1>9, EventSound
<1>10. CASE UNCHANGED vars
  BY <1>10 DEF vars, clientVars, sessions, parkVars, modem, counts, history, Typed, Counted, TBS, DBS
<1>11. QED
  BY <1>1, <1>2, <1>3, <1>4, <1>5, <1>6, <1>7, <1>8, <1>9, <1>10, NextCases

\* The queues hold what they are for, the maps and the modem proper options, and
\* the adapter never answers a call twice (owed is never below 0): for any number
\* of clients, sessions, calls, crashes and configurations, and also for clients
\* that do not wait for responses (reportResponse, GnssAdapter.cpp).
THEOREM TypeCorrect == Spec => []TypeOK
<1>1. Sound => TypeOK
  <2>1. Given \cup {NoOptions} \subseteq OptionRecords
    BY ConstantFacts
  <2>2. Waiting \subseteq Parked /\ Made \subseteq Requests
    BY <2>1 DEF Waiting, Parked, Made, Distance
  <2>3. Msgs \subseteq Parked \cup Answers \cup {EngineUp}
    BY <2>2 DEF Msgs, Replies, Answers
  <2>4. /\ Seq(Waiting) \subseteq Seq(Parked) /\ Seq(Made) \subseteq Seq(Requests)
        /\ Seq(Msgs) \subseteq Seq(Parked \cup Answers \cup {EngineUp})
    BY <2>2, <2>3, SeqMonotonic
  <2>5. SessionMaps \subseteq [Sessions -> OptionRecords]
    BY <2>1 DEF SessionMaps
  <2>6. QED
    BY <2>1, <2>4, <2>5 DEF Sound, Typed, TypeOK, TBS, DBS
<1>2. QED
  BY <1>1, InitSound, NextSound, PTL DEF Spec

-----------------------------------------------------------------------------
(* What the modem will run.                                                *)

\* Of more there is more.
LEMMA HasMore ==
  ASSUME NEW q, NEW V, NEW W, V \subseteq W, Has(q, V)
  PROVE  Has(q, W)
BY DEF Has

\* What is at the end of a sequence is in it; without any W what is in it is at the end.
LEMMA EndsFacts ==
  ASSUME NEW q, NEW V, NEW W
  PROVE  /\ EndsIn(q, V, W) => Has(q, V)
         /\ HasThen(q, V, W) => Has(q, V) /\ Has(q, W)
         /\ Has(q, V) /\ ~Has(q, W) => EndsIn(q, V, W)
BY DEF EndsIn, Has, HasThen

\* More requests do not change the first one.
LEMMA HeadJoined ==
  ASSUME NEW S, NEW q \in Seq(S), q # <<>>, NEW p \in Seq(S), NEW t, Joined(t, q, p)
  PROVE  t # <<>> /\ Head(t) = Head(q)
<1>1. /\ q \o p \in Seq(S) /\ Len(q \o p) = Len(q) + Len(p)
      /\ \A i \in 1..Len(q) + Len(p) :
           (q \o p)[i] = IF i <= Len(q) THEN q[i] ELSE p[i - Len(q)]
  BY ConcatProperties
<1>2. Len(q) \in Nat \ {0} /\ Len(p) \in Nat /\ Head(q) = q[1]
  BY EmptySeq, LenProperties
<1>3. Len(q \o p) # 0 /\ (q \o p)[1] = q[1]
  BY <1>1, <1>2
<1> DEFINE u == q \o p
<1>4. u \in Seq(S) /\ Len(u) # 0 /\ u[1] = q[1] /\ t = u
  BY <1>1, <1>3 DEF Joined
<1> HIDE DEF u
<1>5. t # <<>> /\ Head(t) = t[1]
  BY <1>4, EmptySeq
<1>6. QED
  BY <1>2, <1>4, <1>5

\* New requests start a distance-based session, stop it, or leave it to the others.
LEMMA RunsAfter ==
  ASSUME NEW r \in Seq(Made), NEW q \in Seq(Made), NEW r2, Joined(r2, r, q), NEW d, NEW s
  PROVE  Runs(r2, d, s) <=> EndsIn(q, Dstarts(s), Dstops(s)) \/ (Runs(r, d, s) /\ ~Has(q, Dstops(s)))
<1>1. /\ EndsIn(r2, Dstarts(s), Dstops(s)) <=>
           EndsIn(q, Dstarts(s), Dstops(s)) \/ (EndsIn(r, Dstarts(s), Dstops(s)) /\ ~Has(q, Dstops(s)))
      /\ Has(r2, Dstops(s)) <=> Has(r, Dstops(s)) \/ Has(q, Dstops(s))
  BY JoinHas
<1>2. QED
  BY <1>1 DEF Runs

\* There is a last request for the time-based sessions, or what the modem runs for them stays.
LEMMA FinalExists ==
  ASSUME NEW r \in Seq(Made), NEW t \in Given \cup {NoOptions}
  PROVE  \E o \in Given \cup {NoOptions} : Final(r, t, o)
<1>1. CASE ~Has(r, Timed)
  BY <1>1 DEF Final
<1>2. CASE Has(r, Timed)
  <2> DEFINE P == {i \in 1..Len(r) : r[i] \in Timed}
             f == [i \in 1..Len(r) |-> i]
  <2>1. DOMAIN r = 1..Len(r) /\ Len(r) \in Nat /\ \A i \in DOMAIN r : r[i] \in Made
    BY LenProperties, ElementOfSeq
  <2>2. P # {} /\ P \in SUBSET (1..Len(r))
    BY <1>2, <2>1 DEF Has
  <2>3. \A i \in 1..Len(r) : f[i] \in Nat
    BY <2>1
  <2>4. PICK k \in P : \A j \in P : f[j] <= f[k]
    <3> HIDE DEF P, f
    <3>1. QED
      BY <2>1, <2>2, <2>3, Most
  <2>5. k \in 1..Len(r) /\ r[k] \in Timed /\ \A j \in P : j <= k
    BY <2>4
  <2>6. \A j \in DOMAIN r : k < j => r[j] \notin Timed
    BY <2>1, <2>5
  <2>7. r[k].options \in Given \cup {NoOptions} /\ r[k] \in TimedTo(r[k].options)
    BY <2>1, <2>5, MadeFacts
  <2>8. EndsIn(r, TimedTo(r[k].options), Timed)
    BY <2>1, <2>5, <2>6, <2>7 DEF EndsIn
  <2>9. QED
    BY <1>2, <2>7, <2>8 DEF Final
<1>3. QED
  BY <1>1, <1>2

\* After the requests r the modem will serve m2 as well as the options o serve m.
AsWell(r, t, m2, o, m) == \E o2 \in Given \cup {NoOptions} :
  /\ Final(r, t, o2)
  /\ Serves(o, m) => Serves(o2, m2)
  /\ (In(m) = {} => o = NoOptions) => (In(m2) = {} => o2 = NoOptions)

\* Requests that turn the modem from m to m2 serve m2, if the earlier ones serve m.
LEMMA TurnedServes ==
  ASSUME NEW r \in Seq(Made), NEW q \in Seq(Made), NEW r2, Joined(r2, r, q), NEW t,
         NEW m, NEW m2, Turned(q, m, m2),
         NEW o \in Given \cup {NoOptions}, Final(r, t, o)
  PROVE  AsWell(r2, t, m2, o, m)
<1>1. /\ Has(r2, Timed) <=> Has(r, Timed) \/ Has(q, Timed)
      /\ \A p : EndsIn(r2, TimedTo(p), Timed) <=>
                  EndsIn(q, TimedTo(p), Timed) \/ (EndsIn(r, TimedTo(p), Timed) /\ ~Has(q, Timed))
  BY JoinHas
<1>2. CASE /\ ~Has(q, Timed)
           /\ \A x \in Given \cup {NoOptions} : Serves(x, m) => Serves(x, m2)
           /\ In(m2) = {} => In(m) = {}
  <2>1. Final(r2, t, o)
    BY <1>1, <1>2 DEF Final
  <2>2. QED
    BY <1>2, <2>1 DEF AsWell
<1>3. ASSUME NEW p \in Given \cup {NoOptions}, EndsIn(q, TimedTo(p), Timed), Serves(p, m2),
             In(m2) = {} => p = NoOptions
      PROVE  AsWell(r2, t, m2, o, m)
  <2>1. Has(q, Timed)
    <3>1. TimedTo(p) \subseteq Timed
      BY DEF TimedTo
    <3>2. Has(q, TimedTo(p))
      BY <1>3, EndsFacts
    <3>3. QED
      BY <3>1, <3>2, HasMore
  <2>2. Final(r2, t, p)
    BY <1>1, <1>3, <2>1 DEF Final
  <2>3. QED
    BY <1>3, <2>2 DEF AsWell
<1>4. QED
  BY <1>2, <1>3 DEF Turned

\* Requests that are not for the time-based sessions do not change what they get.
LEMMA FinalKept ==
  ASSUME NEW r \in Seq(Made), NEW q \in Seq(Made), NEW r2, Joined(r2, r, q), ~Has(q, Timed), NEW t,
         NEW o, Final(r, t, o)
  PROVE  Final(r2, t, o)
<1>1. /\ Has(r2, Timed) <=> Has(r, Timed) \/ Has(q, Timed)
      /\ EndsIn(r2, TimedTo(o), Timed) <=>
           EndsIn(q, TimedTo(o), Timed) \/ (EndsIn(r, TimedTo(o), Timed) /\ ~Has(q, Timed))
  BY JoinHas
<1>2. QED
  BY <1>1 DEF Final

\* Multiplexing is for no distance-based session, and the answers are for s.
LEMMA MultiplexedFacts ==
  ASSUME NEW q, NEW s \in Sessions, NEW m, NEW m2, NEW K, Multiplexed(q, s, m, m2, K), NEW z
  PROVE  /\ q \in Seq(Made) /\ Turned(q, m, m2)
         /\ ~Has(q, Dstops(z)) /\ ~Has(q, Dstarts(z)) /\ ~EndsIn(q, Dstarts(z), Dstops(z))
         /\ \A L : Has(q, Rq(s, L)) => L \cap K # {}
<1>1. q \in Seq(Made) /\ Turned(q, m, m2)
  BY MultiplexedTurned
<1>2. CASE q = <<>>
  <2>1. ~Has(<<>>, Dstops(z)) /\ ~Has(<<>>, Dstarts(z)) /\ \A L : ~Has(<<>>, Rq(s, L))
    BY DEF Has
  <2>2. QED
    BY <1>1, <1>2, <2>1, EndsFacts
<1>3. ASSUME NEW r \in Timed, q = <<r>>, r.then \in K
      PROVE  /\ ~Has(q, Dstops(z)) /\ ~Has(q, Dstarts(z))
             /\ \A L : Has(q, Rq(s, L)) => L \cap K # {}
  <2>1. DOMAIN q = {1} /\ q[1] = r
    BY <1>3
  <2>2. QED
    BY <1>3, <2>1 DEF Has, Dstops, Dstarts, Timed, Rq
<1>4. QED
  BY <1>1, <1>2, <1>3, EndsFacts DEF Multiplexed

-----------------------------------------------------------------------------
(* A session that a step is not about stays followed.                      *)

\* What a step leaves of session z; the modem may be down now, or run it now.
Unmoved(z) ==
  /\ TBS'[z] = TBS[z] /\ DBS'[z] = DBS[z] /\ owner'[z] = owner[z]
  /\ owner[z] \in removed => owner[z] \in removed'
  /\ mIsEngineCapabilitiesKnown => mIsEngineCapabilitiesKnown'
  /\ \A K : "nothing" \notin K => (InFlight(msgs', reqs', z, K) <=> InFlight(msgs, reqs, z, K))
  /\ IsParked(mPendingMsgs', msgs', z) <=> IsParked(mPendingMsgs, msgs, z)
  /\ Has(mPendingMsgs', Starts(z)) \/ Has(msgs', Starts(z)) =>
       Has(mPendingMsgs, Starts(z)) \/ Has(msgs, Starts(z))
  /\ Steady' => Steady \/ z \notin In(DBS) \/ Runs(reqs', dbt', z)
  /\ ~down' /\ EndsIn(msgs', DoneOf(z), {EngineUp}) =>
       \/ ~down /\ EndsIn(msgs, DoneOf(z), {EngineUp})
       \/ Runs(reqs', dbt', z) \/ RemovedAfter(msgs', reqs', z)
  /\ Runs(reqs, dbt, z) => down' \/ Runs(reqs', dbt', z)
  /\ events' = 0 => events = 0 /\ (Runs(reqs', dbt', z) => Runs(reqs, dbt, z))
  /\ RemovedAfter(msgs', reqs', z) <=> RemovedAfter(msgs, reqs, z)

\* Then it stays followed.
LEMMA UnmovedKept ==
  ASSUME NEW z \in Sessions, Followed(z), Unmoved(z)
  PROVE  Followed(z)'
<1>1. /\ z \in In(TBS') <=> z \in In(TBS)
      /\ z \in In(DBS') <=> z \in In(DBS)
  BY DEF Unmoved, In
<1>2. /\ InFlight(msgs', reqs', z, {"updated", "switched"}) <=> InFlight(msgs, reqs, z, {"updated", "switched"})
      /\ InFlight(msgs', reqs', z, {"switched", "stopped", "dstopped", "dupdated", "removed"})
           <=> InFlight(msgs, reqs, z, {"switched", "stopped", "dstopped", "dupdated", "removed"})
      /\ InFlight(msgs', reqs', z, {"removed"}) <=> InFlight(msgs, reqs, z, {"removed"})
      /\ InFlight(msgs', reqs', z, {"switched", "updated"}) <=> InFlight(msgs, reqs, z, {"switched", "updated"})
      /\ InFlight(msgs', reqs', z, {"dstopped", "dupdated"}) <=> InFlight(msgs, reqs, z, {"dstopped", "dupdated"})
      /\ InFlight(msgs', reqs', z, {"stopped", "removed", "dstopped"})
           <=> InFlight(msgs, reqs, z, {"stopped", "removed", "dstopped"})
      /\ InFlight(msgs', reqs', z, {"dupdated"}) <=> InFlight(msgs, reqs, z, {"dupdated"})
      /\ InFlight(msgs', reqs', z, {"stopped", "switched", "dstopped"})
           <=> InFlight(msgs, reqs, z, {"stopped", "switched", "dstopped"})
  <2>1. \A K : "nothing" \notin K => (InFlight(msgs', reqs', z, K) <=> InFlight(msgs, reqs, z, K))
    BY DEF Unmoved
  <2>2. QED
    BY <2>1
<1>3. Placed(z)'
  BY <1>1, <1>2 DEF Followed, Placed, Unmoved
<1>4. DistanceServed(z)'
  <2>1. ASSUME Steady', z \in In(DBS')
        PROVE  Runs(reqs', dbt', z) \/ InFlight(msgs', reqs', z, {"stopped", "removed", "dstopped"})
    <3>1. ~down'
      BY <2>1 DEF Steady, Recovering
    <3>2. QED
      BY <1>1, <1>2, <2>1, <3>1 DEF Followed, DistanceServed, Unmoved
  <2>2. ASSUME ~down', EndsIn(msgs', DoneOf(z), {EngineUp})
        PROVE  Runs(reqs', dbt', z) \/ RemovedAfter(msgs', reqs', z)
    BY <2>2 DEF Followed, DistanceServed, Unmoved
  <2>3. QED
    BY <2>1, <2>2 DEF DistanceServed
<1>5. NotRun(z)'
  BY <1>1, <1>2 DEF Followed, NotRun, Unmoved
<1>6. QED
  BY <1>3, <1>4, <1>5 DEF Followed

-----------------------------------------------------------------------------
(* The steps that concern one session.                                     *)

\* The head of the queue may be gone.
LEMMA MsgsAfter ==
  ASSUME Typed, NEW s \in Sessions, NEW q, NEW parked, NEW called, NEW sent,
         Concerns(s, q, parked, called, sent)
  PROVE  /\ msgs \in Seq(Msgs) /\ msgs' \in Seq(Msgs)
         /\ \A V : Has(msgs', V) => Has(msgs, V)
         /\ \A V, W : EndsIn(msgs', V, W) => EndsIn(msgs, V, W)
         /\ \A V, W : HasThen(msgs', V, W) => HasThen(msgs, V, W)
         /\ Has(msgs, {EngineUp}) <=> Has(msgs', {EngineUp})
         /\ Count(msgs', {EngineUp}) = Count(msgs, {EngineUp})
         /\ \A z \in Sessions \ {s} : \A K : Has(msgs', An(z, K)) <=> Has(msgs, An(z, K))
         /\ \A z \in Sessions \ {s} : Has(msgs', Pk(z)) <=> Has(msgs, Pk(z))
<1>1. msgs \in Seq(Msgs)
  BY DEF Typed
<1>2. CASE msgs' = msgs
  BY <1>1, <1>2
<1>3. CASE msgs # <<>> /\ msgs' = Tail(msgs) /\ \E K : Head(msgs) \in Pk(s) \cup An(s, K)
  <2>1. /\ msgs' \in Seq(Msgs)
        /\ \A V : Has(msgs, V) <=> Head(msgs) \in V \/ Has(msgs', V)
        /\ \A V, W : HasThen(msgs, V, W) <=> HasThen(msgs', V, W) \/ (Head(msgs) \in V /\ Has(msgs', W))
        /\ \A V, W : EndsIn(msgs, V, W) <=> EndsIn(msgs', V, W) \/ (Head(msgs) \in V /\ ~Has(msgs', W))
        /\ \A W : Count(msgs, W) = (IF Head(msgs) \in W THEN 1 ELSE 0) + Count(msgs', W)
    BY <1>1, <1>3, TailHas
  <2>2. Head(msgs) # EngineUp
    BY <1>3 DEF Pk, An, Waiting, Replies, EngineUp
  <2>3. Count(msgs', {EngineUp}) \in Nat
    BY <2>1, CountFacts
  <2>4. Count(msgs', {EngineUp}) = Count(msgs, {EngineUp})
    BY <2>1, <2>2, <2>3
  <2>5. \A z \in Sessions \ {s} : Head(msgs) \notin Pk(z) /\ \A K : Head(msgs) \notin An(z, K)
    BY <1>3 DEF Pk, An, Rq, Waiting, Replies
  <2>6. QED
    BY <1>1, <2>1, <2>2, <2>4, <2>5
<1>4. QED
  BY <1>2, <1>3 DEF Concerns

\* What is asked is about no other session, and it does not open the modem.
LEMMA ReactsFacts ==
  ASSUME Typed, NEW s \in Sessions, NEW q, NEW parked, NEW called, NEW sent,
         Reacts(s, q, parked, called, sent)
  PROVE  /\ q \in Seq(Made) /\ reqs \in Seq(Made) /\ reqs' \in Seq(Made) /\ Joined(reqs', reqs, q)
         /\ ~Has(q, Opens) /\ Count(q, Opens) = 0
         /\ \A z \in Sessions \ {s} : /\ \A K : ~Has(q, Rq(z, K))
                                      /\ ~Has(q, Dstops(z)) /\ ~Has(q, Dstarts(z))
         /\ mPendingMsgs' \in Seq(Waiting)
         /\ \A V : Has(mPendingMsgs, V) => Has(mPendingMsgs', V)
         /\ parked = 0 => mPendingMsgs' = mPendingMsgs
         /\ \A z \in Sessions \ {s} : /\ Has(mPendingMsgs', Pk(z)) <=> Has(mPendingMsgs, Pk(z))
                                      /\ Has(mPendingMsgs', Starts(z)) <=> Has(mPendingMsgs, Starts(z))
<1>1. /\ q \in Seq(Made) /\ Joined(reqs', reqs, q)
      /\ \A i \in DOMAIN q : q[i].session = s /\ q[i].call # "open"
  BY DEF Reacts
<1>2. reqs \in Seq(Made) /\ reqs' \in Seq(Made)
  BY <1>1, JoinHas DEF Typed
<1>3. ~Has(q, Opens)
  BY <1>1 DEF Has, Opens
<1>4. Count(q, Opens) = 0
  BY <1>1, <1>3, CountFacts
<1>5. \A z \in Sessions \ {s} : /\ \A K : ~Has(q, Rq(z, K))
                                /\ ~Has(q, Dstops(z)) /\ ~Has(q, Dstarts(z))
  BY <1>1 DEF Has, Rq, Dstops, Dstarts
<1>6. /\ mPendingMsgs' \in Seq(Waiting)
      /\ \A V : Has(mPendingMsgs, V) => Has(mPendingMsgs', V)
      /\ parked = 0 => mPendingMsgs' = mPendingMsgs
      /\ \A z \in Sessions \ {s} : /\ Has(mPendingMsgs', Pk(z)) <=> Has(mPendingMsgs, Pk(z))
                                   /\ Has(mPendingMsgs', Starts(z)) <=> Has(mPendingMsgs, Starts(z))
  <2>1. CASE parked = 0
    <3>1. mPendingMsgs' = mPendingMsgs
      BY <2>1 DEF Reacts
    <3>2. QED
      BY <3>1 DEF Typed
  <2>2. CASE parked # 0
    <3>1. PICK x \in Pk(s) : Extended(mPendingMsgs', mPendingMsgs, x)
      BY <2>2 DEF Reacts
    <3>2. x \in Waiting /\ \A z \in Sessions \ {s} : x \notin Pk(z) /\ x \notin Starts(z)
      BY DEF Pk, Starts
    <3>3. /\ mPendingMsgs' \in Seq(Waiting)
          /\ \A V : Has(mPendingMsgs', V) <=> Has(mPendingMsgs, V) \/ x \in V
      BY <3>1, <3>2, AppendHas DEF Typed
    <3>4. QED
      BY <2>2, <3>2, <3>3
  <2>3. QED
    BY <2>1, <2>2
<1>7. QED
  BY <1>1, <1>2, <1>3, <1>4, <1>5, <1>6

\* The modem is neither up nor down by such a step.
LEMMA ConcernsOpening ==
  ASSUME Typed, Opening, NEW s \in Sessions, NEW q, NEW parked, NEW called, NEW sent,
         Concerns(s, q, parked, called, sent)
  PROVE  Opening' /\ (Recovering' <=> Recovering) /\ (Steady' <=> Steady)
<1>1. Reacts(s, q, parked, called, sent)
      /\ UNCHANGED <<mIsEngineCapabilitiesKnown, mSystemPowerState, modem, events>>
  BY DEF Concerns
<1>2. /\ q \in Seq(Made) /\ reqs \in Seq(Made) /\ Joined(reqs', reqs, q)
      /\ ~Has(q, Opens) /\ Count(q, Opens) = 0
  BY <1>1, ReactsFacts
<1>3. /\ Has(reqs', Opens) <=> Has(reqs, Opens)
      /\ Count(reqs', Opens) = Count(reqs, Opens)
  <2>1. /\ Has(reqs', Opens) <=> Has(reqs, Opens) \/ Has(q, Opens)
        /\ Count(reqs', Opens) = Count(reqs, Opens) + Count(q, Opens)
    BY <1>2, JoinHas
  <2>2. Count(reqs, Opens) \in Nat
    BY <1>2, CountFacts
  <2>3. QED
    BY <1>2, <2>1, <2>2
<1>4. reqs # <<>> => reqs' # <<>> /\ Head(reqs') = Head(reqs)
  BY <1>2, HeadJoined
<1>5. /\ Has(msgs', {EngineUp}) <=> Has(msgs, {EngineUp})
      /\ Count(msgs', {EngineUp}) = Count(msgs, {EngineUp})
      /\ Has(msgs', Failed) => Has(msgs, Failed)
      /\ EndsIn(msgs', Failed, {EngineUp}) => EndsIn(msgs, Failed, {EngineUp})
  BY MsgsAfter
<1>6. (Recovering' <=> Recovering) /\ (Steady' <=> Steady)
  BY <1>1, <1>5 DEF Recovering, Steady, modem
<1>7. Opening'
  BY <1>1, <1>3, <1>4, <1>5, <1>6 DEF Opening, modem
<1>8. QED
  BY <1>6, <1>7

\* The other sessions stay followed.
LEMMA OthersFollowed ==
  ASSUME Typed, Opening, NEW s \in Sessions, NEW q, NEW parked, NEW called, NEW sent,
         Concerns(s, q, parked, called, sent),
         NEW z \in Sessions \ {s}, Followed(z)
  PROVE  Followed(z)'
<1>1. /\ Reacts(s, q, parked, called, sent) /\ owner'[z] = owner[z]
      /\ UNCHANGED <<removed, mIsEngineCapabilitiesKnown, modem, events>>
  BY DEF Concerns
<1>2. Steady' <=> Steady
  BY ConcernsOpening
<1>3. TBS'[z] = TBS[z] /\ DBS'[z] = DBS[z]
  BY <1>1 DEF Reacts, MapsOfOthersKept
<1>4. /\ q \in Seq(Made) /\ reqs \in Seq(Made) /\ Joined(reqs', reqs, q)
      /\ \A K : ~Has(q, Rq(z, K))
      /\ ~Has(q, Dstops(z)) /\ ~Has(q, Dstarts(z))
      /\ Has(mPendingMsgs', Pk(z)) <=> Has(mPendingMsgs, Pk(z))
      /\ Has(mPendingMsgs', Starts(z)) <=> Has(mPendingMsgs, Starts(z))
  BY <1>1, ReactsFacts
<1>5. /\ \A V : Has(msgs', V) => Has(msgs, V)
      /\ \A V, W : EndsIn(msgs', V, W) => EndsIn(msgs, V, W)
      /\ \A K : Has(msgs', An(z, K)) <=> Has(msgs, An(z, K))
      /\ Has(msgs', Pk(z)) <=> Has(msgs, Pk(z))
  BY MsgsAfter
<1>6. /\ \A V : Has(reqs', V) <=> Has(reqs, V) \/ Has(q, V)
      /\ \A V, W : HasThen(reqs', V, W) <=>
                     HasThen(reqs, V, W) \/ HasThen(q, V, W) \/ (Has(reqs, V) /\ Has(q, W))
  BY <1>4, JoinHas
<1>7. \A K : InFlight(msgs', reqs', z, K) <=> InFlight(msgs, reqs, z, K)
  BY <1>4, <1>5, <1>6 DEF InFlight
<1>8. IsParked(mPendingMsgs', msgs', z) <=> IsParked(mPendingMsgs, msgs, z)
  BY <1>4, <1>5 DEF IsParked
<1>9. Runs(reqs', dbt, z) <=> Runs(reqs, dbt, z)
  <2>1. ~EndsIn(q, Dstarts(z), Dstops(z))
    BY <1>4, EndsFacts
  <2>2. QED
    BY <1>4, <2>1, RunsAfter
<1>10. RemovedAfter(msgs', reqs', z) <=> RemovedAfter(msgs, reqs, z)
  <2>1. HasThen(msgs', An(z, {"dupdated"}), An(z, {"removed"}))
          <=> HasThen(msgs, An(z, {"dupdated"}), An(z, {"removed"}))
    <3>1. CASE msgs' = msgs
      BY <3>1
    <3>2. CASE msgs # <<>> /\ msgs' = Tail(msgs) /\ Head(msgs) \notin An(z, {"dupdated"})
      BY <3>2, TailHas DEF Typed
    <3>3. (msgs # <<>> /\ msgs' = Tail(msgs) /\ Head(msgs) \in An(z, {"dupdated"})) => msgs' = msgs
      BY DEF Concerns, Pk, An, Rq, Waiting, Replies
    <3>4. QED
      BY <3>1, <3>2, <3>3 DEF Concerns
  <2>2. HasThen(reqs', Rq(z, {"dupdated"}), Rq(z, {"removed"}))
          <=> HasThen(reqs, Rq(z, {"dupdated"}), Rq(z, {"removed"}))
    <3>1. ~HasThen(q, Rq(z, {"dupdated"}), Rq(z, {"removed"}))
      BY <1>4, EndsFacts
    <3>2. QED
      BY <1>4, <1>6, <3>1
  <2>3. QED
    BY <1>4, <1>5, <1>6, <2>1, <2>2 DEF RemovedAfter
<1>11. Unmoved(z)
  BY <1>1, <1>2, <1>3, <1>4, <1>5, <1>7, <1>8, <1>9, <1>10 DEF Unmoved, modem
<1>12. QED
  BY <1>11, UnmovedKept

-----------------------------------------------------------------------------
(* The session that a step is about: at most one thing of it is in flight, so   *)
(* what the step asks is all there is.                                          *)

\* Nothing else of session s is in flight but answers nobody needs and its removal.
Rest(s) == ~IsParked(mPendingMsgs, msgs', s) /\ ~InFlight(msgs', reqs, s, ActiveThens)

\* The head of the queue needs no new request.
Ended(s, q, parked) == /\ msgs # <<>> /\ msgs' = Tail(msgs) /\ q = <<>> /\ parked = 0
                       /\ Head(msgs) \in An(s, {"started", "respond", "removed"})

\* What is asked for session s has this closure.
Brings(q, s, then) ==
  /\ q \in Seq(Made) /\ Joined(reqs', reqs, q)
  /\ \A L : L \subseteq ActiveThens \cup {"removed"} => (Has(q, Rq(s, L)) <=> then \in L)

\* Clients that wait leave nothing else of their session in flight.
LEMMA ConcernsRest ==
  ASSUME Typed, Counted, ClientsWait, NEW s \in Sessions,
         NEW q, NEW parked, NEW called, NEW sent, Concerns(s, q, parked, called, sent)
  PROVE  Rest(s) \/ Ended(s, q, parked)
<1> DEFINE p == mPendingMsgs
           m2 == msgs'
<1>1. p \in Seq(Waiting) /\ msgs \in Seq(Msgs) /\ reqs \in Seq(Made) /\ m2 \in Seq(Msgs)
  BY MsgsAfter DEF Typed
<1>2. ASSUME NEW K, ActiveThens \subseteq K, Amount(p, m2, reqs, s, K) = 0
      PROVE  Rest(s)
  <2> HIDE DEF p, m2
  <2>1. ~Has(p, Pk(s)) /\ ~Has(m2, Pk(s) \cup An(s, K)) /\ ~Has(reqs, Rq(s, K))
    BY <1>1, <1>2, AmountType
  <2>2. /\ Pk(s) \subseteq Pk(s) \cup An(s, K) /\ An(s, ActiveThens) \subseteq Pk(s) \cup An(s, K)
        /\ Rq(s, ActiveThens) \subseteq Rq(s, K)
    BY <1>2 DEF An, Rq
  <2>3. ~Has(m2, Pk(s)) /\ ~Has(m2, An(s, ActiveThens)) /\ ~Has(reqs, Rq(s, ActiveThens))
    BY <2>1, <2>2, HasMore
  <2>4. QED
    BY <2>1, <2>3 DEF Rest, IsParked, InFlight, p, m2
<1>3. CASE called = 1 /\ msgs' = msgs /\ owner[s] \notin removed /\ owed[s] = 0
  <2>1. Amount(p, msgs, reqs, s, ClientThens) <= 0
    BY <1>3 DEF Counted
  <2>2. Amount(p, msgs, reqs, s, ClientThens) \in Nat
    <3> HIDE DEF p
    <3>1. QED
      BY <1>1, AmountType
  <2>3. Amount(p, m2, reqs, s, ClientThens) = 0
    <3>1. Amount(p, msgs, reqs, s, ClientThens) = 0
      BY <2>1, <2>2
    <3>2. QED
      BY <1>3, <3>1
  <2>4. ActiveThens \subseteq ClientThens
    BY DEF ActiveThens
  <2>5. QED
    BY <1>2, <2>3, <2>4
<1>4. CASE msgs # <<>> /\ msgs' = Tail(msgs) /\ Head(msgs) \in Pk(s) \cup An(s, ActiveThens)
  <2>1. Amount(p, msgs, reqs, s, ActiveThens) <= 1
    BY DEF Counted
  <2>2. Amount(p, m2, reqs, s, ActiveThens) = 0
    <3> HIDE DEF p
    <3>1. /\ Amount(p, Tail(msgs), reqs, s, ActiveThens) \in Nat
          /\ Amount(p, msgs, reqs, s, ActiveThens) = 1 + Amount(p, Tail(msgs), reqs, s, ActiveThens)
      BY <1>1, <1>4, AmountTake
    <3>2. Amount(p, Tail(msgs), reqs, s, ActiveThens) = 0
      BY <2>1, <3>1 DEF p
    <3>3. QED
      BY <1>4, <3>2
  <2>3. QED
    BY <1>2, <2>2
<1>5. CASE /\ msgs # <<>> /\ msgs' = Tail(msgs) /\ q = <<>> /\ parked = 0
           /\ Head(msgs) \in An(s, {"started", "respond"}) \cup An(s, {"removed"})
  BY <1>5 DEF Ended, An, Rq
<1>6. QED
  BY <1>3, <1>4, <1>5 DEF Concerns

\* What is then in flight.
LEMMA RestFacts ==
  ASSUME msgs' \in Seq(Msgs), reqs \in Seq(Made), NEW s \in Sessions, Rest(s),
         NEW q, NEW then, then # "removed", Brings(q, s, then)
  PROVE  /\ \A L : L \subseteq ActiveThens => (InFlight(msgs', reqs', s, L) <=> then \in L)
         /\ InFlight(msgs', reqs', s, {"removed"}) <=> InFlight(msgs', reqs, s, {"removed"})
         /\ \A L : L \subseteq ActiveThens =>
              (InFlight(msgs', reqs', s, L \cup {"removed"}) <=>
                 then \in L \/ InFlight(msgs', reqs', s, {"removed"}))
         /\ ~EndsIn(msgs', DoneOf(s), {EngineUp})
         /\ ~RemovedAfter(msgs', reqs', s)
<1> DEFINE m == msgs'
           r2 == reqs'
<1>1. /\ q \in Seq(Made) /\ Joined(r2, reqs, q)
      /\ \A L : L \subseteq ActiveThens \cup {"removed"} => (Has(q, Rq(s, L)) <=> then \in L)
  BY DEF Brings
<1>2. ~Has(m, An(s, ActiveThens)) /\ ~Has(reqs, Rq(s, ActiveThens))
  BY DEF Rest, InFlight
<1> HIDE DEF m, r2
<1>3. \A L : L \subseteq ActiveThens => ~Has(m, An(s, L)) /\ ~Has(reqs, Rq(s, L))
  <2> TAKE L
  <2> HAVE L \subseteq ActiveThens
  <2>1. An(s, L) \subseteq An(s, ActiveThens) /\ Rq(s, L) \subseteq Rq(s, ActiveThens)
    BY DEF An, Rq
  <2>2. QED
    BY <1>2, <2>1, HasMore
<1>4. /\ \A V : Has(r2, V) <=> Has(reqs, V) \/ Has(q, V)
      /\ \A V, W : HasThen(r2, V, W) <=>
                     HasThen(reqs, V, W) \/ HasThen(q, V, W) \/ (Has(reqs, V) /\ Has(q, W))
  BY <1>1, JoinHas
<1>5. \A L : L \subseteq ActiveThens => (InFlight(m, r2, s, L) <=> then \in L)
  BY <1>1, <1>3, <1>4 DEF InFlight
<1>6. ~Has(q, Rq(s, {"removed"}))
  BY <1>1
<1>7. InFlight(m, r2, s, {"removed"}) <=> InFlight(m, reqs, s, {"removed"})
  BY <1>4, <1>6 DEF InFlight
<1>8. ASSUME NEW L, L \subseteq ActiveThens
      PROVE  InFlight(m, r2, s, L \cup {"removed"}) <=> then \in L \/ InFlight(m, r2, s, {"removed"})
  <2>1. InFlight(m, r2, s, L \cup {"removed"}) <=>
          InFlight(m, r2, s, L) \/ InFlight(m, r2, s, {"removed"})
    BY DEF InFlight, Has, An, Rq
  <2>2. QED
    BY <1>5, <1>8, <2>1
<1>9. {"dupdated"} \subseteq ActiveThens
  BY DEF ActiveThens, ClientThens, Thens
<1>10. ~EndsIn(m, DoneOf(s), {EngineUp})
  <2>1. ~Has(m, An(s, {"dupdated"})) /\ DoneOf(s) \subseteq An(s, {"dupdated"})
    BY <1>3, <1>9 DEF DoneOf
  <2>2. ~Has(m, DoneOf(s))
    BY <2>1, HasMore
  <2>3. QED
    BY <2>2, EndsFacts
<1>11. ~RemovedAfter(m, r2, s)
  <2>1. ~Has(m, An(s, {"dupdated"})) /\ ~Has(reqs, Rq(s, {"dupdated"}))
    BY <1>3, <1>9
  <2>2. /\ ~HasThen(m, An(s, {"dupdated"}), An(s, {"removed"}))
        /\ ~HasThen(reqs, Rq(s, {"dupdated"}), Rq(s, {"removed"}))
        /\ ~HasThen(q, Rq(s, {"dupdated"}), Rq(s, {"removed"}))
    BY <1>6, <2>1, EndsFacts
  <2>3. QED
    BY <1>4, <2>1, <2>2 DEF RemovedAfter
<1>12. QED
  BY <1>5, <1>7, <1>8, <1>10, <1>11 DEF m, r2

\* How such a session has to be when something with the closure then was asked for it.
Fits(s, then) ==
  /\ s \in In(TBS') => /\ s \notin In(DBS')
                       /\ then \notin {"switched", "stopped", "dstopped", "dupdated"}
                       /\ ~InFlight(msgs', reqs, s, {"removed"})
                       /\ ~Has(mPendingMsgs', Starts(s))
  /\ owner'[s] = NoClient => s \notin In(TBS') \cup In(DBS')
  /\ s \in In(DBS') => /\ then \notin {"updated", "switched"} /\ mPendingMsgs' = mPendingMsgs
                       /\ mIsEngineCapabilitiesKnown'
  /\ InFlight(msgs', reqs, s, {"removed"}) =>
       /\ owner'[s] \in removed' /\ mPendingMsgs' = mPendingMsgs
       /\ then \notin {"switched", "updated"}
  /\ then \in {"dstopped", "dupdated"} => mIsEngineCapabilitiesKnown'
  /\ Steady' /\ s \in In(DBS') =>
       \/ Runs(reqs', dbt', s) \/ InFlight(msgs', reqs, s, {"removed"})
       \/ then \in {"stopped", "dstopped"}
  /\ events' = 0 /\ Runs(reqs', dbt', s) =>
       /\ s \in In(DBS') \/ then = "dupdated"
       /\ then \notin {"stopped", "switched", "dstopped"}
       /\ InFlight(msgs', reqs, s, {"removed"}) => then = "dupdated"

\* Then it is followed.
LEMMA RestFollowed ==
  ASSUME Typed, msgs' \in Seq(Msgs), NEW s \in Sessions, Rest(s),
         NEW q, NEW then, then # "removed", Brings(q, s, then), Fits(s, then)
  PROVE  Followed(s)'
<1> DEFINE m == msgs'
           r2 == reqs'
           gone == InFlight(m, r2, s, {"removed"})
<1>1. {"updated", "switched", "stopped", "dstopped", "dupdated"} = ActiveThens
  BY DEF ActiveThens, ClientThens, Thens
<1>2. reqs \in Seq(Made)
  BY DEF Typed
<1>3. /\ \A L : L \subseteq ActiveThens => (InFlight(m, r2, s, L) <=> then \in L)
      /\ gone <=> InFlight(m, reqs, s, {"removed"})
      /\ \A L : L \subseteq ActiveThens => (InFlight(m, r2, s, L \cup {"removed"}) <=> then \in L \/ gone)
      /\ ~EndsIn(m, DoneOf(s), {EngineUp}) /\ ~RemovedAfter(m, r2, s)
  BY <1>2, RestFacts
<1> HIDE DEF m, r2
<1>4. /\ InFlight(m, r2, s, {"updated", "switched"}) <=> then \in {"updated", "switched"}
      /\ InFlight(m, r2, s, {"switched", "updated"}) <=> then \in {"updated", "switched"}
      /\ InFlight(m, r2, s, {"dstopped", "dupdated"}) <=> then \in {"dstopped", "dupdated"}
      /\ InFlight(m, r2, s, {"dupdated"}) <=> then = "dupdated"
      /\ InFlight(m, r2, s, {"stopped", "switched", "dstopped"})
           <=> then \in {"stopped", "switched", "dstopped"}
  BY <1>1, <1>3
<1>5. /\ {"switched", "stopped", "dstopped", "dupdated", "removed"}
           = {"switched", "stopped", "dstopped", "dupdated"} \cup {"removed"}
      /\ {"stopped", "removed", "dstopped"} = {"stopped", "dstopped"} \cup {"removed"}
  OBVIOUS
<1>6. /\ InFlight(m, r2, s, {"switched", "stopped", "dstopped", "dupdated", "removed"})
           <=> then \in {"switched", "stopped", "dstopped", "dupdated"} \/ gone
      /\ InFlight(m, r2, s, {"stopped", "removed", "dstopped"})
           <=> then \in {"stopped", "dstopped"} \/ gone
  <2>1. {"switched", "stopped", "dstopped", "dupdated"} \subseteq ActiveThens
        /\ {"stopped", "dstopped"} \subseteq ActiveThens
    BY <1>1
  <2>2. /\ InFlight(m, r2, s, {"switched", "stopped", "dstopped", "dupdated"} \cup {"removed"})
             <=> then \in {"switched", "stopped", "dstopped", "dupdated"} \/ gone
        /\ InFlight(m, r2, s, {"stopped", "dstopped"} \cup {"removed"})
             <=> then \in {"stopped", "dstopped"} \/ gone
    <3> HIDE DEF gone
    <3>1. QED
      BY <1>3, <2>1
  <2>3. QED
    BY <1>5, <2>2
<1>7. ~Has(mPendingMsgs, Pk(s)) /\ ~Has(m, Pk(s)) /\ ~Has(m, Starts(s))
  <2>1. ~Has(mPendingMsgs, Pk(s)) /\ ~Has(m, Pk(s)) /\ Starts(s) \subseteq Pk(s)
    BY DEF Rest, IsParked, m, Starts
  <2>2. QED
    BY <2>1, HasMore
<1>8. mPendingMsgs' = mPendingMsgs => ~IsParked(mPendingMsgs', m, s)
  BY <1>7 DEF IsParked
<1>9. Placed(s)'
  BY <1>3, <1>4, <1>6, <1>7, <1>8 DEF Placed, Fits, m, r2
<1>10. DistanceServed(s)'
  BY <1>3, <1>6 DEF DistanceServed, Fits, m, r2
<1>11. NotRun(s)'
  BY <1>3, <1>4 DEF NotRun, Fits, m, r2
<1>12. QED
  BY <1>9, <1>10, <1>11 DEF Followed

\* A map without the session.
LEMMA EraseFacts ==
  ASSUME Typed, NEW s \in Sessions, Erase(s)
  PROVE  /\ s \in In(TBS) => s \notin In(TBS') /\ DBS' = DBS
         /\ s \notin In(TBS) => TBS' = TBS /\ s \notin In(DBS')
<1>1. TBS \in SessionMaps /\ DBS \in SessionMaps
  BY DEF Typed
<1>2. CASE s \in In(TBS)
  <2>1. TBS' = [TBS EXCEPT ![s] = NoOptions] /\ DBS' = DBS
    BY <1>2 DEF Erase, Maps, eraseTrackingSession, TBS, DBS
  <2>2. TBS'[s] = NoOptions
    BY <1>1, <2>1 DEF SessionMaps
  <2>3. QED
    BY <1>2, <2>1, <2>2 DEF In
<1>3. CASE s \notin In(TBS)
  <2>1. TBS' = TBS /\ DBS' = [DBS EXCEPT ![s] = NoOptions]
    BY <1>3 DEF Erase, Maps, eraseTrackingSession, TBS, DBS
  <2>2. DBS'[s] = NoOptions
    BY <1>1, <2>1 DEF SessionMaps
  <2>3. QED
    BY <1>3, <2>1, <2>2 DEF In
<1>4. QED
  BY <1>2, <1>3

\* What a session has less of: it may be erased, or something of it not be in flight.
Shrunk(s) ==
  /\ s \in In(TBS') => s \in In(TBS)
  /\ s \in In(DBS') => s \in In(DBS)
  /\ owner' = owner /\ removed' = removed /\ events' = events /\ down' = down
  /\ mIsEngineCapabilitiesKnown' = mIsEngineCapabilitiesKnown
  /\ Steady' => Steady
  /\ Runs(reqs', dbt', s) <=> Runs(reqs, dbt, s)
  /\ \A K : InFlight(msgs', reqs', s, K) => InFlight(msgs, reqs, s, K)
  /\ InFlight(msgs, reqs, s, {"dupdated"}) => InFlight(msgs', reqs', s, {"dupdated"})
  /\ IsParked(mPendingMsgs', msgs', s) => IsParked(mPendingMsgs, msgs, s)
  /\ Has(mPendingMsgs', Starts(s)) \/ Has(msgs', Starts(s)) =>
       Has(mPendingMsgs, Starts(s)) \/ Has(msgs, Starts(s))
  /\ RemovedAfter(msgs', reqs', s) <=> RemovedAfter(msgs, reqs, s)
  /\ EndsIn(msgs', DoneOf(s), {EngineUp}) => EndsIn(msgs, DoneOf(s), {EngineUp})
  /\ Steady' /\ s \in In(DBS') /\ InFlight(msgs, reqs, s, {"stopped", "removed", "dstopped"}) =>
       InFlight(msgs', reqs', s, {"stopped", "removed", "dstopped"})
  /\ events = 0 /\ Runs(reqs, dbt, s) => s \in In(DBS') \/ InFlight(msgs, reqs, s, {"dupdated"})

\* It stays followed.
LEMMA ShrunkFollowed ==
  ASSUME NEW s \in Sessions, Followed(s), Shrunk(s)
  PROVE  Followed(s)'
<1>1. Placed(s)'
  BY DEF Followed, Placed, Shrunk
<1>2. DistanceServed(s)'
  BY DEF Followed, DistanceServed, Shrunk
<1>3. NotRun(s)'
  BY DEF Followed, NotRun, Shrunk
<1>4. QED
  BY <1>1, <1>2, <1>3 DEF Followed

\* An answer fails only after a crash, and the adapter has still to recover from it.
LEMMA FailedFacts ==
  ASSUME Typed, Opening, NEW s \in Sessions,
         NEW q, NEW parked, NEW called, NEW sent, Concerns(s, q, parked, called, sent),
         msgs # <<>>, msgs' = Tail(msgs), Head(msgs) \in Failed
  PROVE  events # 0 /\ ~Steady'
<1>1. /\ \A V : Has(msgs, V) <=> Head(msgs) \in V \/ Has(msgs', V)
      /\ \A V, W : EndsIn(msgs, V, W) <=> EndsIn(msgs', V, W) \/ (Head(msgs) \in V /\ ~Has(msgs', W))
  BY TailHas DEF Typed
<1>2. Has(msgs, Failed) /\ (EndsIn(msgs, Failed, {EngineUp}) \/ Has(msgs', {EngineUp}))
  BY <1>1
<1>3. Steady' <=> Steady
  BY ConcernsOpening
<1>4. QED
  BY <1>1, <1>2, <1>3 DEF Opening, Steady, Recovering

\* The answer that ends a start, a stop or a removal.
LEMMA EndedFollowed ==
  ASSUME Typed, Opening, NEW s \in Sessions, Followed(s), AnswerHandled,
         NEW q, NEW parked, NEW called, NEW sent,
         Concerns(s, q, parked, called, sent), Ended(s, q, parked), AnswerDoes(s, q), owner' = owner,
         Answered(It.then), It.then # "nothing", s = It.session
  PROVE  Followed(s)'
<1>1. /\ msgs # <<>> /\ msgs' = Tail(msgs) /\ Head(msgs) \in An(s, {It.then})
      /\ ~Ok => Head(msgs) \in Failed
      /\ It.then \in {"started", "respond", "removed"} /\ Ok \in BOOLEAN
      /\ UNCHANGED <<clientVars, parkVars, mSystemPowerState, modem, counts>>
  BY AnsweredFacts DEF Ended, An, Rq, It
<1>2. reqs' = reqs
  <2>1. Joined(reqs', reqs, <<>>) /\ reqs \in Seq(Made)
    BY DEF Concerns, Reacts, Ended, Typed
  <2>2. QED
    BY <2>1 DEF Joined
<1>3. /\ Recovering' <=> Recovering
      /\ Steady' <=> Steady
  BY ConcernsOpening
<1>4. /\ msgs \in Seq(Msgs)
      /\ \A V : Has(msgs, V) <=> Head(msgs) \in V \/ Has(Tail(msgs), V)
      /\ \A V, W : HasThen(msgs, V, W) <=>
                     HasThen(Tail(msgs), V, W) \/ (Head(msgs) \in V /\ Has(Tail(msgs), W))
      /\ \A V, W : EndsIn(msgs, V, W) <=>
                     EndsIn(Tail(msgs), V, W) \/ (Head(msgs) \in V /\ ~Has(Tail(msgs), W))
  BY <1>1, TailHas DEF Typed
<1> DEFINE m == msgs
           a == Head(msgs)
           m2 == Tail(msgs)
<1>5. /\ \A K : It.then \notin K => a \notin An(s, K)
      /\ a \notin DoneOf(s) /\ a \notin Pk(s) /\ a \notin Starts(s)
  <2>1. a.req.then = It.then /\ a.kind = "answer"
    BY <1>1 DEF An, Rq, Replies, It
  <2>2. QED
    BY <1>1, <2>1 DEF An, Rq, DoneOf, Pk, Starts, Waiting
<1>6. ~Ok => events # 0 /\ ~Steady
  BY <1>1, <1>3, FailedFacts
<1>7. \/ TBS' = TBS /\ DBS' = DBS /\ (It.then = "removed" => ~Ok)
      \/ /\ s \notin In(TBS') \cup In(DBS') /\ (s \in In(TBS') => s \in In(TBS))
         /\ It.then = "started" => ~Ok
  <2>1. \/ UNCHANGED sessions /\ (It.then = "removed" => ~Ok)
        \/ Erase(s) /\ (It.then = "started" => ~Ok)
    BY <1>1 DEF AnswerDoes
  <2>2. Erase(s) => s \notin In(TBS') \cup In(DBS')
    BY EraseFacts DEF Followed, Placed
  <2>3. QED
    BY <2>1, <2>2 DEF sessions, TBS, DBS
<1> HIDE DEF m, a, m2
<1>8. \A K : InFlight(msgs', reqs', s, K) => InFlight(msgs, reqs, s, K)
  BY <1>1, <1>2, <1>4 DEF InFlight
<1>9. \A K : It.then \notin K => (InFlight(msgs', reqs', s, K) <=> InFlight(msgs, reqs, s, K))
  BY <1>1, <1>2, <1>4, <1>5 DEF InFlight, m, m2, a
<1>10. RemovedAfter(msgs', reqs', s) <=> RemovedAfter(msgs, reqs, s)
  <2>1. "dupdated" # It.then
    BY <1>1
  <2>2. a \notin An(s, {"dupdated"})
    BY <1>5, <2>1
  <2>3. QED
    BY <1>1, <1>2, <1>4, <2>2 DEF RemovedAfter, m, m2, a
<1>11. Runs(reqs', dbt', s) <=> Runs(reqs, dbt, s)
  BY <1>1, <1>2 DEF modem
<1>12. /\ IsParked(mPendingMsgs', msgs', s) => IsParked(mPendingMsgs, msgs, s)
       /\ Has(mPendingMsgs', Starts(s)) \/ Has(msgs', Starts(s)) =>
            Has(mPendingMsgs, Starts(s)) \/ Has(msgs, Starts(s))
       /\ EndsIn(msgs', DoneOf(s), {EngineUp}) => EndsIn(msgs, DoneOf(s), {EngineUp})
  BY <1>1, <1>4 DEF IsParked, parkVars
<1>13. Steady' /\ s \in In(DBS') /\ InFlight(msgs, reqs, s, {"stopped", "removed", "dstopped"}) =>
         InFlight(msgs', reqs', s, {"stopped", "removed", "dstopped"})
  <2>1. CASE It.then = "removed"
    BY <1>3, <1>6, <1>7, <2>1
  <2>2. CASE It.then \in {"started", "respond"}
    <3>1. It.then \notin {"stopped", "removed", "dstopped"}
      BY <2>2
    <3>2. QED
      BY <1>9, <3>1
  <2>3. QED
    BY <1>1, <2>1, <2>2
<1>14. events = 0 /\ Runs(reqs, dbt, s) => s \in In(DBS') \/ InFlight(msgs, reqs, s, {"dupdated"})
  <2>1. CASE It.then = "removed"
    <3>1. InFlight(msgs, reqs, s, {"removed"})
      BY <1>1, <1>4, <2>1 DEF InFlight
    <3>2. QED
      BY <3>1 DEF Followed, NotRun
  <2>2. CASE It.then # "removed"
    <3>1. DBS' = DBS \/ events # 0
      BY <1>1, <1>6, <1>7, <2>2 DEF AnswerDoes, sessions, DBS
    <3>2. QED
      BY <3>1 DEF Followed, NotRun
  <2>3. QED
    BY <2>1, <2>2
<1>15. InFlight(msgs, reqs, s, {"dupdated"}) => InFlight(msgs', reqs', s, {"dupdated"})
  <2>1. It.then \notin {"dupdated"}
    BY <1>1
  <2>2. QED
    BY <1>9, <2>1
<1>16. Shrunk(s)
  BY <1>1, <1>3, <1>7, <1>8, <1>10, <1>11, <1>12, <1>13, <1>14, <1>15 DEF Shrunk, clientVars, parkVars, modem, counts
<1>17. QED
  BY <1>16, ShrunkFollowed

\* What a request for no distance-based session does.
LEMMA QuietAsks ==
  ASSUME Typed, NEW s \in Sessions, NEW q, Joined(reqs', reqs, q), dbt' = dbt,
         NEW m, NEW m2, NEW K, q = <<>> \/ Multiplexed(q, s, m, m2, K)
  PROVE  /\ \E then \in K \cup {"nothing"} : Brings(q, s, then)
         /\ Runs(reqs', dbt', s) <=> Runs(reqs, dbt, s)
<1>1. q \in Seq(Made) /\ ~Has(q, Dstops(s)) /\ ~EndsIn(q, Dstarts(s), Dstops(s))
  <2>1. CASE q = <<>>
    <3>1. ~Has(<<>>, Dstops(s)) /\ ~EndsIn(<<>>, Dstarts(s), Dstops(s))
      BY ShortHas
    <3>2. <<>> \in Seq(Made)
      OBVIOUS
    <3>3. QED
      BY <2>1, <3>1, <3>2
  <2>2. QED
    BY <2>1, MultiplexedFacts
<1>2. \E then \in K \cup {"nothing"} : Brings(q, s, then)
  <2>1. CASE q = <<>>
    <3>1. \A L : ~Has(<<>>, Rq(s, L))
      BY ShortHas
    <3>2. "nothing" \notin ActiveThens \cup {"removed"}
      BY DEF ActiveThens, ClientThens
    <3>3. Brings(q, s, "nothing")
      BY <1>1, <2>1, <3>1, <3>2 DEF Brings
    <3>4. QED
      BY <3>3
  <2>2. ASSUME NEW r \in Timed, q = <<r>>, r.session = s, r.then \in K
        PROVE  \E then \in K \cup {"nothing"} : Brings(q, s, then)
    <3>1. r \in Made /\ \A L : r \in Rq(s, L) <=> r.then \in L
      BY <2>2 DEF Rq, Timed
    <3>2. \A L : Has(<<r>>, Rq(s, L)) <=> r.then \in L
      BY <3>1, ShortHas
    <3>3. Brings(q, s, r.then)
      BY <1>1, <2>2, <3>2 DEF Brings
    <3>4. QED
      BY <2>2, <3>3
  <2>3. QED
    BY <2>1, <2>2 DEF Multiplexed
<1>3. reqs \in Seq(Made)
  BY DEF Typed
<1>4. Runs(reqs', dbt, s) <=> Runs(reqs, dbt, s)
  BY <1>1, <1>3, RunsAfter
<1>5. QED
  BY <1>2, <1>4

\* What a request for a distance-based session does.
LEMMA OneAsks ==
  ASSUME Typed, NEW s \in Sessions, NEW r \in Made, r.session = s,
         NEW q, q = <<r>>, Joined(reqs', reqs, q)
  PROVE  /\ Brings(q, s, r.then)
         /\ r.call = "dstart" => Runs(reqs', dbt', s)
         /\ r.call = "dstop" => ~Runs(reqs', dbt', s)
<1>1. q \in Seq(Made) /\ \A L : r \in Rq(s, L) <=> r.then \in L
  BY DEF Rq
<1>2. \A L : Has(<<r>>, Rq(s, L)) <=> r.then \in L
  BY <1>1, ShortHas
<1>3. Brings(q, s, r.then)
  BY <1>1, <1>2 DEF Brings
<1>4. /\ EndsIn(<<r>>, Dstarts(s), Dstops(s)) <=> r.call = "dstart"
      /\ Has(<<r>>, Dstops(s)) <=> r.call = "dstop"
  <2>1. (r \in Dstarts(s) <=> r.call = "dstart") /\ (r \in Dstops(s) <=> r.call = "dstop")
    BY DEF Dstarts, Dstops
  <2>2. QED
    BY <2>1, ShortHas
<1>5. reqs \in Seq(Made)
  BY DEF Typed
<1>6. Runs(reqs', dbt', s) <=>
        EndsIn(q, Dstarts(s), Dstops(s)) \/ (Runs(reqs, dbt', s) /\ ~Has(q, Dstops(s)))
  BY <1>1, <1>5, RunsAfter
<1>7. QED
  BY <1>3, <1>4, <1>6

\* What the switch from time to distance asks.
LEMMA LastAsks ==
  ASSUME Typed, NEW s \in Sessions, NEW r \in Dstarts(s), r.then = "nothing",
         NEW p, NEW m, NEW m2, NEW K, Multiplexed(p, s, m, m2, K),
         NEW q, q = Append(p, r), Joined(reqs', reqs, q)
  PROVE  /\ \E then \in K \cup {"nothing"} : Brings(q, s, then)
         /\ Runs(reqs', dbt', s)
<1>1. p \in Seq(Made) /\ r \in Made /\ Extended(q, p, r)
  BY MultiplexedFacts DEF Dstarts, Extended
<1>2. /\ q \in Seq(Made)
      /\ \A V : Has(q, V) <=> Has(p, V) \/ r \in V
      /\ \A V, W : EndsIn(q, V, W) <=> r \in V \/ (EndsIn(p, V, W) /\ r \notin W)
  BY <1>1, AppendHas
<1>3. PICK then \in K \cup {"nothing"} :
        \A L : L \subseteq ActiveThens \cup {"removed"} => (Has(p, Rq(s, L)) <=> then \in L)
  <2>1. "nothing" \notin ActiveThens \cup {"removed"}
    BY DEF ActiveThens, ClientThens
  <2>2. CASE p = <<>>
    <3>1. \A L : ~Has(<<>>, Rq(s, L))
      BY ShortHas
    <3>2. QED
      BY <2>1, <2>2, <3>1
  <2>3. ASSUME NEW a \in Timed, p = <<a>>, a.session = s, a.then \in K
        PROVE  \E x \in K \cup {"nothing"} :
                 \A L : L \subseteq ActiveThens \cup {"removed"} => (Has(p, Rq(s, L)) <=> x \in L)
    <3>1. \A L : a \in Rq(s, L) <=> a.then \in L
      BY <2>3 DEF Rq, Timed
    <3>2. \A L : Has(<<a>>, Rq(s, L)) <=> a.then \in L
      BY <3>1, ShortHas
    <3>3. QED
      BY <2>3, <3>2
  <2>4. QED
    BY <2>2, <2>3 DEF Multiplexed
<1>4. \A L : L \subseteq ActiveThens \cup {"removed"} => r \notin Rq(s, L)
  BY DEF Rq, ActiveThens, ClientThens
<1>5. Brings(q, s, then)
  BY <1>2, <1>3, <1>4 DEF Brings
<1>6. reqs \in Seq(Made)
  BY DEF Typed
<1>7. Runs(reqs', dbt', s)
  BY <1>2, <1>6, RunsAfter
<1>8. QED
  BY <1>5, <1>7

\* The step is a call, or it takes a parked message or an answer with the closure then.
From(s, then) ==
  \/ msgs' = msgs
  \/ msgs # <<>> /\ msgs' = Tail(msgs) /\ Head(msgs) \in Pk(s) \cup An(s, {then})

\* What was in flight before the step.
LEMMA RestBefore ==
  ASSUME Typed, Counted, NEW s \in Sessions, Followed(s), Rest(s),
         NEW q, NEW parked, NEW called, NEW sent, Concerns(s, q, parked, called, sent),
         ~Ended(s, q, parked),
         NEW then, then # "removed", From(s, then)
  PROVE  /\ \A K : K \subseteq ActiveThens /\ then \notin K => ~InFlight(msgs, reqs, s, K)
         /\ InFlight(msgs, reqs, s, {"removed"}) <=> InFlight(msgs', reqs, s, {"removed"})
         /\ owner'[s] # NoClient
         /\ Joined(reqs', reqs, q) /\ msgs' \in Seq(Msgs)
         /\ parked = 0 => mPendingMsgs' = mPendingMsgs
         /\ ~Has(mPendingMsgs, Starts(s))
         /\ removed' = removed /\ mIsEngineCapabilitiesKnown' = mIsEngineCapabilitiesKnown
         /\ dbt' = dbt /\ down' = down /\ events' = events
         /\ NoClient \notin removed
<1>1. /\ Reacts(s, q, parked, called, sent)
      /\ UNCHANGED <<mClientData, removed, mIsEngineCapabilitiesKnown, mSystemPowerState, modem,
                     events>>
  BY DEF Concerns
<1>2. msgs \in Seq(Msgs) /\ msgs' \in Seq(Msgs) /\ removed \subseteq Clients /\ NoClient \notin removed
  BY MsgsAfter, TrackingAssumption DEF Typed
<1>3. \A K : then \notin K => (Has(msgs, An(s, K)) <=> Has(msgs', An(s, K)))
  <2>1. CASE msgs' = msgs
    BY <2>1
  <2>2. CASE msgs # <<>> /\ msgs' = Tail(msgs) /\ Head(msgs) \in Pk(s) \cup An(s, {then})
    <3>1. \A V : Has(msgs, V) <=> Head(msgs) \in V \/ Has(msgs', V)
      BY <1>2, <2>2, TailHas
    <3>2. \A K : then \notin K => Head(msgs) \notin An(s, K)
      BY <2>2 DEF An, Rq, Pk, Waiting, Replies
    <3>3. QED
      BY <3>1, <3>2
  <2>3. QED
    BY <2>1, <2>2 DEF From
<1>4. \A K : K \subseteq ActiveThens /\ then \notin K => ~InFlight(msgs, reqs, s, K)
  <2> TAKE K
  <2> HAVE K \subseteq ActiveThens /\ then \notin K
  <2>1. An(s, K) \subseteq An(s, ActiveThens) /\ Rq(s, K) \subseteq Rq(s, ActiveThens)
    BY DEF An, Rq
  <2>2. ~Has(msgs', An(s, K)) /\ ~Has(reqs, Rq(s, K))
    BY <2>1, HasMore DEF Rest, InFlight
  <2>3. QED
    BY <1>3, <2>2 DEF InFlight
<1>5. InFlight(msgs, reqs, s, {"removed"}) <=> InFlight(msgs', reqs, s, {"removed"})
  BY <1>3 DEF InFlight
<1>6. owner'[s] # NoClient
  <2>1. CASE owner'[s] \in Clients
    BY <2>1, TrackingAssumption
  <2>2. CASE msgs # <<>> /\ owner' = owner /\ Head(msgs) \in Pk(s) \cup An(s, ActiveThens)
    <3> DEFINE p == mPendingMsgs
    <3>1. p \in Seq(Waiting) /\ reqs \in Seq(Made)
      BY DEF Typed
    <3>2. Head(msgs) \in Pk(s) \cup An(s, ClientThens)
      BY <2>2 DEF An, Rq, ActiveThens
    <3>3. Has(msgs, Pk(s) \cup An(s, ClientThens))
      BY <1>2, <2>2, <3>2, TailHas
    <3> HIDE DEF p
    <3>4. Amount(p, msgs, reqs, s, ClientThens) \in Nat /\ Amount(p, msgs, reqs, s, ClientThens) # 0
      BY <1>2, <3>1, <3>3, AmountType
    <3>5. owner[s] = NoClient => Amount(p, msgs, reqs, s, ClientThens) <= 0
      BY <1>2 DEF Counted, p
    <3>6. QED
      BY <2>2, <3>4, <3>5
  <2>3. \/ owner'[s] \in Clients
        \/ msgs # <<>> /\ owner' = owner /\ Head(msgs) \in Pk(s) \cup An(s, ActiveThens)
    <3>1. Head(msgs) \in An(s, {"started", "respond"}) \/ Head(msgs) \in An(s, {"removed"}) =>
            Head(msgs) \in An(s, {"started", "respond", "removed"})
      BY DEF An, Rq
    <3>2. QED
      BY <3>1 DEF Concerns, Ended
  <2>4. QED
    BY <2>1, <2>2, <2>3
<1>7. ~Has(mPendingMsgs, Starts(s))
  <2>1. Starts(s) \subseteq Pk(s) /\ ~Has(mPendingMsgs, Pk(s))
    BY DEF Starts, Rest, IsParked
  <2>2. QED
    BY <2>1, HasMore
<1>8. /\ Joined(reqs', reqs, q)
      /\ parked = 0 => mPendingMsgs' = mPendingMsgs
  BY <1>1 DEF Reacts
<1>9. QED
  BY <1>1, <1>2, <1>4, <1>5, <1>6, <1>7, <1>8 DEF modem

-----------------------------------------------------------------------------
(* The session of a call, of an answer or of a parked message stays followed.   *)

\* There are options.
LEMMA SomeOptions == \E o \in Given : TRUE
<1>1. [interval |-> 1, power |-> 0, quality |-> 0, distance |-> FALSE] \in Given
  BY DEF Given
<1>2. QED
  BY <1>1

\* A map with new options of the session.
LEMMA PutFacts ==
  ASSUME Typed, NEW s \in Sessions, NEW o \in Given
  PROVE  /\ TBS' = [TBS EXCEPT ![s] = o] => s \in In(TBS')
         /\ DBS' = [DBS EXCEPT ![s] = o] => s \in In(DBS')
         /\ TBS' = [TBS EXCEPT ![s] = NoOptions] => s \notin In(TBS')
<1>1. TBS \in SessionMaps /\ DBS \in SessionMaps /\ o # NoOptions
  BY ConstantFacts DEF Typed
<1>2. QED
  BY <1>1 DEF SessionMaps, In

\* A call or a parked message comes when nothing of the session is in flight.
LEMMA CallBefore ==
  ASSUME Typed, Counted, NEW s \in Sessions, Followed(s), Rest(s),
         NEW q, NEW parked, NEW called, NEW sent, Concerns(s, q, parked, called, sent),
         ~Ended(s, q, parked),
         msgs' = msgs \/ (msgs # <<>> /\ msgs' = Tail(msgs) /\ Head(msgs) \in Pk(s))
  PROVE  /\ InFlight(msgs, reqs, s, {"removed"}) <=> InFlight(msgs', reqs, s, {"removed"})
         /\ owner'[s] # NoClient /\ Joined(reqs', reqs, q) /\ msgs' \in Seq(Msgs)
         /\ parked = 0 => mPendingMsgs' = mPendingMsgs
         /\ ~Has(mPendingMsgs, Starts(s)) /\ mIsEngineCapabilitiesKnown' = mIsEngineCapabilitiesKnown
         /\ dbt' = dbt /\ events' = events /\ NoClient \notin removed
         /\ events = 0 /\ Runs(reqs, dbt, s) => s \in In(DBS)
<1>1. "nothing" \notin ActiveThens /\ "nothing" # "removed" /\ "dupdated" \in ActiveThens
  BY DEF ActiveThens, ClientThens, Thens
<1>2. From(s, "nothing")
  BY DEF From
<1>3. /\ \A K : K \subseteq ActiveThens /\ "nothing" \notin K => ~InFlight(msgs, reqs, s, K)
      /\ InFlight(msgs, reqs, s, {"removed"}) <=> InFlight(msgs', reqs, s, {"removed"})
      /\ owner'[s] # NoClient /\ Joined(reqs', reqs, q) /\ msgs' \in Seq(Msgs)
      /\ parked = 0 => mPendingMsgs' = mPendingMsgs
      /\ ~Has(mPendingMsgs, Starts(s)) /\ mIsEngineCapabilitiesKnown' = mIsEngineCapabilitiesKnown
      /\ dbt' = dbt /\ events' = events /\ NoClient \notin removed
  BY <1>1, <1>2, RestBefore
<1>4. ~InFlight(msgs, reqs, s, {"dupdated"})
  BY <1>1, <1>3
<1>5. events = 0 /\ Runs(reqs, dbt, s) => s \in In(DBS)
  BY <1>4 DEF Followed, NotRun
<1>6. QED
  BY <1>3, <1>5

\* A start.
LEMMA StartFollowed ==
  ASSUME Typed, Counted, NEW s \in Sessions, Followed(s), Rest(s), NEW o \in Given,
         NEW q, NEW parked, NEW called, NEW sent, Concerns(s, q, parked, called, sent),
         ~Ended(s, q, parked), StartDoes(s, o, q, parked),
         \/ msgs' = msgs /\ owner[s] = NoClient
         \/ msgs # <<>> /\ msgs' = Tail(msgs) /\ Head(msgs) \in Starts(s)
  PROVE  Followed(s)'
<1>1. /\ InFlight(msgs, reqs, s, {"removed"}) <=> InFlight(msgs', reqs, s, {"removed"})
      /\ owner'[s] # NoClient /\ Joined(reqs', reqs, q) /\ msgs' \in Seq(Msgs)
      /\ parked = 0 => mPendingMsgs' = mPendingMsgs
      /\ ~Has(mPendingMsgs, Starts(s)) /\ mIsEngineCapabilitiesKnown' = mIsEngineCapabilitiesKnown
      /\ dbt' = dbt /\ events' = events /\ NoClient \notin removed
      /\ events = 0 /\ Runs(reqs, dbt, s) => s \in In(DBS)
  <2>1. Starts(s) \subseteq Pk(s)
    BY DEF Starts
  <2>2. msgs' = msgs \/ (msgs # <<>> /\ msgs' = Tail(msgs) /\ Head(msgs) \in Pk(s))
    BY <2>1
  <2>3. QED
    BY <2>2, CallBefore
<1>2. /\ s \notin In(TBS) \cup In(DBS) /\ ~InFlight(msgs', reqs, s, {"removed"})
  <2>1. CASE owner[s] = NoClient
    BY <1>1, <2>1 DEF Followed, Placed
  <2>2. CASE msgs # <<>> /\ Head(msgs) \in Starts(s)
    <3>1. Has(msgs, Starts(s)) /\ Has(msgs, Pk(s))
      BY <2>2, TailHas DEF Typed, Starts
    <3>2. QED
      BY <1>1, <3>1 DEF Followed, Placed, IsParked
  <2>3. QED
    BY <2>1, <2>2
<1>3. ~(events = 0 /\ Runs(reqs, dbt, s))
  BY <1>1, <1>2
<1>4. CASE q = <<>> /\ UNCHANGED sessions
  <2>1. /\ \E then \in {} \cup {"nothing"} : Brings(q, s, then)
        /\ Runs(reqs', dbt', s) <=> Runs(reqs, dbt, s)
    BY <1>1, <1>4, QuietAsks
  <2>2. Brings(q, s, "nothing") /\ (Runs(reqs', dbt', s) <=> Runs(reqs, dbt, s))
    BY <2>1
  <2>3. TBS' = TBS /\ DBS' = DBS
    BY <1>4 DEF sessions, TBS, DBS
  <2>4. Fits(s, "nothing")
    BY <1>1, <1>2, <1>3, <2>2, <2>3 DEF Fits
  <2>5. QED
    BY <1>1, <2>2, <2>4, RestFollowed
<1>5. CASE /\ parked = 0 /\ o.distance /\ DbtSupported /\ mIsEngineCapabilitiesKnown
           /\ TBS' = TBS /\ DBS' = [DBS EXCEPT ![s] = o]
           /\ q = <<Request("dstart", s, o, "started")>>
  <2>1. s \in In(DBS') /\ s \notin In(TBS')
    BY <1>2, <1>5, PutFacts
  <2>2. Brings(q, s, "started") /\ Runs(reqs', dbt', s)
    <3> DEFINE r == Request("dstart", s, o, "started")
    <3>1. r \in Made /\ r.session = s /\ r.then = "started" /\ r.call = "dstart" /\ q = <<r>>
      BY <1>5, RequestsMade, RequestFields
    <3> HIDE DEF r
    <3>2. QED
      BY <1>1, <3>1, OneAsks
  <2>3. Fits(s, "started")
    BY <1>1, <1>2, <1>5, <2>1, <2>2 DEF Fits
  <2>4. QED
    BY <1>1, <2>2, <2>3, RestFollowed
<1>6. CASE /\ parked = 0 /\ TBS' = [TBS EXCEPT ![s] = o] /\ DBS' = DBS
           /\ Multiplexed(q, s, TBS, TBS', {"started"})
  <2>1. s \in In(TBS') /\ s \notin In(DBS')
    BY <1>2, <1>6, PutFacts
  <2>2. PICK then \in {"started"} \cup {"nothing"} : Brings(q, s, then)
    BY <1>1, <1>6, QuietAsks
  <2>3. Runs(reqs', dbt', s) <=> Runs(reqs, dbt, s)
    BY <1>1, <1>6, QuietAsks
  <2>4. Fits(s, then)
    BY <1>1, <1>2, <1>3, <1>6, <2>1, <2>3 DEF Fits
  <2>5. QED
    BY <1>1, <2>2, <2>4, RestFollowed
<1>7. QED
  BY <1>4, <1>5, <1>6 DEF StartDoes

\* An update; with the distance-based tracking of the modem.
LEMMA UpdateFollowed ==
  ASSUME Typed, Counted, DbtSupported, NEW s \in Sessions, Followed(s), Rest(s), NEW o \in Given,
         NEW q, NEW parked, NEW called, NEW sent, Concerns(s, q, parked, called, sent),
         ~Ended(s, q, parked), UpdateDoes(s, o, q, parked), owner' = owner,
         \/ msgs' = msgs /\ owner[s] \notin removed
         \/ msgs # <<>> /\ msgs' = Tail(msgs) /\ Head(msgs) \in Pk(s)
  PROVE  Followed(s)'
<1>1. /\ InFlight(msgs, reqs, s, {"removed"}) <=> InFlight(msgs', reqs, s, {"removed"})
      /\ owner'[s] # NoClient /\ Joined(reqs', reqs, q) /\ msgs' \in Seq(Msgs)
      /\ parked = 0 => mPendingMsgs' = mPendingMsgs
      /\ ~Has(mPendingMsgs, Starts(s)) /\ mIsEngineCapabilitiesKnown' = mIsEngineCapabilitiesKnown
      /\ dbt' = dbt /\ events' = events /\ NoClient \notin removed
      /\ events = 0 /\ Runs(reqs, dbt, s) => s \in In(DBS)
  BY CallBefore
<1>2. /\ ~InFlight(msgs', reqs, s, {"removed"}) /\ (s \in In(TBS) => s \notin In(DBS))
      /\ ~mIsEngineCapabilitiesKnown => s \notin In(DBS)
  <2>1. CASE owner[s] \notin removed
    BY <1>1, <2>1 DEF Followed, Placed
  <2>2. CASE msgs # <<>> /\ Head(msgs) \in Pk(s)
    <3>1. Has(msgs, Pk(s))
      BY <2>2, TailHas DEF Typed
    <3>2. QED
      BY <1>1, <3>1 DEF Followed, Placed, IsParked
  <2>3. QED
    BY <2>1, <2>2
<1>3. CASE /\ q = <<>> /\ UNCHANGED sessions /\ s \notin In(DBS) /\ ~Has(mPendingMsgs', Starts(s))
  <2>1. /\ \E then \in {} \cup {"nothing"} : Brings(q, s, then)
        /\ Runs(reqs', dbt', s) <=> Runs(reqs, dbt, s)
    BY <1>1, <1>3, QuietAsks
  <2>2. Brings(q, s, "nothing") /\ (Runs(reqs', dbt', s) <=> Runs(reqs, dbt, s))
    BY <2>1
  <2>3. TBS' = TBS /\ DBS' = DBS
    BY <1>3 DEF sessions, TBS, DBS
  <2>4. Fits(s, "nothing")
    BY <1>1, <1>2, <1>3, <2>2, <2>3 DEF Fits
  <2>5. QED
    BY <1>1, <2>2, <2>4, RestFollowed
<1>4. CASE q = <<>> /\ parked = 0 /\ UNCHANGED sessions /\ s \notin In(TBS) \cup In(DBS)
  BY <1>1, <1>3, <1>4
<1>5. CASE /\ q = <<>> /\ parked = 1 /\ UNCHANGED sessions /\ ~mIsEngineCapabilitiesKnown
           /\ \E x \in Pk(s) : x.kind = "update" /\ Extended(mPendingMsgs', mPendingMsgs, x)
  <2>1. PICK x \in Pk(s) : x.kind = "update" /\ Extended(mPendingMsgs', mPendingMsgs, x)
    BY <1>5
  <2>2. x \in Waiting /\ x \notin Starts(s) /\ mPendingMsgs \in Seq(Waiting)
    BY <2>1 DEF Pk, Starts, Typed
  <2>3. \A V : Has(mPendingMsgs', V) <=> Has(mPendingMsgs, V) \/ x \in V
    BY <2>1, <2>2, AppendHas
  <2>4. ~Has(mPendingMsgs', Starts(s))
    BY <1>1, <2>2, <2>3
  <2>5. QED
    BY <1>2, <1>3, <1>5, <2>4
<1>6. ASSUME parked = 0, s \in In(TBS), o.distance, mIsEngineCapabilitiesKnown,
             DbtSupported => /\ DBS' = [DBS EXCEPT ![s] = o]
                             /\ TBS' = [TBS EXCEPT ![s] = NoOptions],
             NEW p, q = Append(p, Request("dstart", s, o, "nothing")),
             Multiplexed(p, s, TBS, [TBS EXCEPT ![s] = NoOptions], {"started", "respond"})
      PROVE  Followed(s)'
  <2>1. s \in In(DBS') /\ s \notin In(TBS')
    BY <1>6, PutFacts
  <2>2. /\ \E then \in {"started", "respond"} \cup {"nothing"} : Brings(q, s, then)
        /\ Runs(reqs', dbt', s)
    <3> DEFINE r == Request("dstart", s, o, "nothing")
               m2 == [TBS EXCEPT ![s] = NoOptions]
    <3>1. r \in Made /\ r.session = s /\ r.then = "nothing" /\ r.call = "dstart" /\ q = Append(p, r)
      BY <1>6, RequestsMade, RequestFields
    <3>2. r \in Dstarts(s) /\ Multiplexed(p, s, TBS, m2, {"started", "respond"})
      BY <1>6, <3>1 DEF Dstarts
    <3> HIDE DEF r, m2
    <3>3. QED
      BY <1>1, <3>1, <3>2, LastAsks
  <2>3. PICK then \in {"started", "respond"} \cup {"nothing"} : Brings(q, s, then)
    BY <2>2
  <2>4. Fits(s, then)
    BY <1>1, <1>2, <1>6, <2>1, <2>2 DEF Fits
  <2>5. QED
    BY <1>1, <2>3, <2>4, RestFollowed
<1>7. CASE /\ parked = 0 /\ s \in In(DBS) /\ ~o.distance /\ Erase(s)
           /\ q = <<Request("dstop", s, o, "switched")>>
  <2>1. s \notin In(DBS') /\ s \notin In(TBS')
    BY <1>2, <1>7, EraseFacts
  <2>2. Brings(q, s, "switched") /\ ~Runs(reqs', dbt', s)
    <3> DEFINE r == Request("dstop", s, o, "switched")
    <3>1. r \in Made /\ r.session = s /\ r.then = "switched" /\ r.call = "dstop" /\ q = <<r>>
      BY <1>7, RequestsMade, RequestFields
    <3> HIDE DEF r
    <3>2. QED
      BY <1>1, <3>1, OneAsks
  <2>3. Fits(s, "switched")
    BY <1>1, <1>2, <1>7, <2>1, <2>2 DEF Fits
  <2>4. QED
    BY <1>1, <2>2, <2>3, RestFollowed
<1>8. CASE /\ parked = 0 /\ s \in In(TBS) /\ TBS' = [TBS EXCEPT ![s] = o] /\ DBS' = DBS
           /\ Multiplexed(q, s, TBS, TBS', {"updated"})
  <2>1. s \in In(TBS') /\ s \notin In(DBS')
    BY <1>2, <1>8, PutFacts
  <2>2. PICK then \in {"updated"} \cup {"nothing"} : Brings(q, s, then)
    BY <1>1, <1>8, QuietAsks
  <2>3. Runs(reqs', dbt', s) <=> Runs(reqs, dbt, s)
    BY <1>1, <1>8, QuietAsks
  <2>4. Fits(s, then)
    BY <1>1, <1>2, <1>8, <2>1, <2>3 DEF Fits
  <2>5. QED
    BY <1>1, <2>2, <2>4, RestFollowed
<1>9. CASE /\ parked = 0 /\ s \in In(DBS) /\ UNCHANGED sessions /\ mIsEngineCapabilitiesKnown
           /\ o.distance /\ q = <<Request("dstop", s, o, "dstopped")>>
  <2>1. TBS' = TBS /\ DBS' = DBS
    BY <1>9 DEF sessions, TBS, DBS
  <2>2. Brings(q, s, "dstopped") /\ ~Runs(reqs', dbt', s)
    <3> DEFINE r == Request("dstop", s, o, "dstopped")
    <3>1. r \in Made /\ r.session = s /\ r.then = "dstopped" /\ r.call = "dstop" /\ q = <<r>>
      BY <1>9, RequestsMade, RequestFields
    <3> HIDE DEF r
    <3>2. QED
      BY <1>1, <3>1, OneAsks
  <2>3. Fits(s, "dstopped")
    BY <1>1, <1>2, <1>9, <2>1, <2>2 DEF Fits
  <2>4. QED
    BY <1>1, <2>2, <2>3, RestFollowed
<1>10. QED
  BY <1>4, <1>5, <1>6, <1>7, <1>8, <1>9 DEF UpdateDoes

\* A stop.
LEMMA StopFollowed ==
  ASSUME Typed, Counted, NEW s \in Sessions, Followed(s), Rest(s),
         NEW q, NEW called, NEW sent, Concerns(s, q, 0, called, sent),
         ~Ended(s, q, 0), StopDoes(s, q), owner' = owner, msgs' = msgs, owner[s] \notin removed
  PROVE  Followed(s)'
<1>1. /\ InFlight(msgs, reqs, s, {"removed"}) <=> InFlight(msgs', reqs, s, {"removed"})
      /\ owner'[s] # NoClient /\ Joined(reqs', reqs, q) /\ msgs' \in Seq(Msgs)
      /\ mPendingMsgs' = mPendingMsgs
      /\ ~Has(mPendingMsgs, Starts(s)) /\ mIsEngineCapabilitiesKnown' = mIsEngineCapabilitiesKnown
      /\ dbt' = dbt /\ events' = events /\ NoClient \notin removed
      /\ events = 0 /\ Runs(reqs, dbt, s) => s \in In(DBS)
  BY CallBefore
<1>2. /\ ~InFlight(msgs', reqs, s, {"removed"}) /\ (s \in In(TBS) => s \notin In(DBS))
      /\ ~mIsEngineCapabilitiesKnown => s \notin In(DBS)
  BY <1>1 DEF Followed, Placed
<1>3. CASE q = <<>> /\ UNCHANGED sessions /\ s \notin In(TBS) \cup In(DBS)
  <2>1. /\ \E then \in {} \cup {"nothing"} : Brings(q, s, then)
        /\ Runs(reqs', dbt', s) <=> Runs(reqs, dbt, s)
    BY <1>1, <1>3, QuietAsks
  <2>2. Brings(q, s, "nothing") /\ (Runs(reqs', dbt', s) <=> Runs(reqs, dbt, s))
    BY <2>1
  <2>3. TBS' = TBS /\ DBS' = DBS
    BY <1>3 DEF sessions, TBS, DBS
  <2>4. Fits(s, "nothing")
    BY <1>1, <1>2, <1>3, <2>2, <2>3 DEF Fits
  <2>5. QED
    BY <1>1, <2>2, <2>4, RestFollowed
<1>4. CASE /\ s \in In(TBS) /\ TBS' = [TBS EXCEPT ![s] = NoOptions] /\ DBS' = DBS
           /\ Multiplexed(q, s, TBS, TBS', {"started", "respond"})
  <2>1. s \notin In(TBS') /\ s \notin In(DBS')
    <3>1. PICK o \in Given : TRUE
      BY SomeOptions
    <3>2. QED
      BY <1>2, <1>4, <3>1, PutFacts
  <2>2. PICK then \in {"started", "respond"} \cup {"nothing"} : Brings(q, s, then)
    BY <1>1, <1>4, QuietAsks
  <2>3. Runs(reqs', dbt', s) <=> Runs(reqs, dbt, s)
    BY <1>1, <1>4, QuietAsks
  <2>4. Fits(s, then)
    BY <1>1, <1>2, <1>4, <2>1, <2>3 DEF Fits
  <2>5. QED
    BY <1>1, <2>2, <2>4, RestFollowed
<1>5. CASE /\ s \in In(DBS) /\ s \notin In(TBS) /\ UNCHANGED sessions
           /\ q = <<Request("dstop", s, NoOptions, "stopped")>>
  <2>1. TBS' = TBS /\ DBS' = DBS
    BY <1>5 DEF sessions, TBS, DBS
  <2>2. Brings(q, s, "stopped") /\ ~Runs(reqs', dbt', s)
    <3> DEFINE r == Request("dstop", s, NoOptions, "stopped")
    <3>1. PICK o \in Given : TRUE
      BY SomeOptions
    <3>2. r \in Made /\ r.session = s /\ r.then = "stopped" /\ r.call = "dstop" /\ q = <<r>>
      BY <1>5, <3>1, RequestsMade, RequestFields
    <3> HIDE DEF r
    <3>3. QED
      BY <1>1, <3>2, OneAsks
  <2>3. Fits(s, "stopped")
    BY <1>1, <1>2, <1>5, <2>1, <2>2 DEF Fits
  <2>4. QED
    BY <1>1, <2>2, <2>3, RestFollowed
<1>6. QED
  BY <1>3, <1>4, <1>5 DEF StopDoes

\* A saved session.
LEMMA SaveFacts ==
  ASSUME Typed, NEW s \in Sessions, NEW o \in Given, Save(s, o), DbtSupported
  PROVE  /\ o.distance => TBS' = TBS /\ s \in In(DBS')
         /\ ~o.distance => DBS' = DBS /\ s \in In(TBS')
<1>1. TBS \in SessionMaps /\ DBS \in SessionMaps
  BY DEF Typed
<1>2. CASE o.distance
  <2>1. TBS' = TBS /\ DBS' = [DBS EXCEPT ![s] = o]
    BY <1>2 DEF Save, Maps, saveTrackingSession, TBS, DBS
  <2>2. QED
    BY <1>2, <2>1, PutFacts
<1>3. CASE ~o.distance
  <2>1. DBS' = DBS /\ TBS' = [TBS EXCEPT ![s] = o]
    BY <1>3 DEF Save, Maps, saveTrackingSession, TBS, DBS
  <2>2. QED
    BY <1>3, <2>1, PutFacts
<1>4. QED
  BY <1>2, <1>3

\* What the answer to an active request finds.
LEMMA AnswerBefore ==
  ASSUME Typed, Counted, Opening, NEW s \in Sessions, Followed(s), Rest(s),
         NEW q, NEW parked, NEW called, NEW sent, Concerns(s, q, parked, called, sent),
         ~Ended(s, q, parked), NEW then \in ActiveThens,
         msgs # <<>>, msgs' = Tail(msgs), Head(msgs) \in An(s, {then}), owner' = owner
  PROVE  /\ InFlight(msgs, reqs, s, {then})
         /\ InFlight(msgs, reqs, s, {"removed"}) <=> InFlight(msgs', reqs, s, {"removed"})
         /\ then = "dupdated" =>
              (RemovedAfter(msgs, reqs, s) <=> InFlight(msgs, reqs, s, {"removed"}))
         /\ Head(msgs) \in Failed => events # 0 /\ ~Steady'
         /\ Steady' => ~down /\ ~Has(msgs, {EngineUp})
<1>1. /\ reqs \in Seq(Made) /\ msgs' \in Seq(Msgs)
      /\ \A V : Has(msgs, V) <=> Head(msgs) \in V \/ Has(msgs', V)
      /\ \A V, W : HasThen(msgs, V, W) <=> HasThen(msgs', V, W) \/ (Head(msgs) \in V /\ Has(msgs', W))
  BY TailHas DEF Typed
<1>2. InFlight(msgs, reqs, s, {then})
  BY <1>1 DEF InFlight
<1>3. InFlight(msgs, reqs, s, {"removed"}) <=> InFlight(msgs', reqs, s, {"removed"})
  <2>1. then # "removed" /\ From(s, then)
    BY DEF From, ActiveThens, ClientThens
  <2>2. QED
    BY <2>1, RestBefore
<1>4. ASSUME then = "dupdated"
      PROVE  RemovedAfter(msgs, reqs, s) <=> InFlight(msgs, reqs, s, {"removed"})
  <2>1. {"dupdated"} \subseteq ActiveThens
    BY DEF ActiveThens, ClientThens, Thens
  <2>2. ~Has(reqs, Rq(s, {"dupdated"})) /\ ~Has(msgs', An(s, {"dupdated"}))
    <3>1. /\ Rq(s, {"dupdated"}) \subseteq Rq(s, ActiveThens)
          /\ An(s, {"dupdated"}) \subseteq An(s, ActiveThens)
      BY <2>1 DEF Rq, An
    <3>2. ~Has(reqs, Rq(s, ActiveThens)) /\ ~Has(msgs', An(s, ActiveThens))
      BY DEF Rest, InFlight
    <3>3. QED
      BY <3>1, <3>2, HasMore
  <2>3. /\ ~HasThen(reqs, Rq(s, {"dupdated"}), Rq(s, {"removed"}))
        /\ ~HasThen(msgs', An(s, {"dupdated"}), An(s, {"removed"}))
    BY <2>2, EndsFacts
  <2>4. Has(msgs, An(s, {"dupdated"})) /\ Head(msgs) \in An(s, {"dupdated"})
    BY <1>1, <1>4
  <2>5. Head(msgs) \notin An(s, {"removed"})
    BY <2>4 DEF An, Rq
  <2>6. QED
    BY <1>1, <2>2, <2>3, <2>4, <2>5 DEF RemovedAfter, InFlight
<1>5. /\ Steady' <=> Steady
      /\ Recovering' <=> Recovering
  BY ConcernsOpening
<1>6. Head(msgs) \in Failed => events # 0 /\ ~Steady'
  BY FailedFacts
<1>7. Steady' => ~down /\ ~Has(msgs, {EngineUp})
  BY <1>5 DEF Steady, Recovering
<1>8. QED
  BY <1>2, <1>3, <1>4, <1>6, <1>7

\* The options that an answer brings back.
LEMMA MadeOptions ==
  ASSUME NEW r \in Made
  PROVE  /\ r.then = "updated" => r.old \in Given /\ (DbtSupported => ~r.old.distance)
         /\ r.then \in {"switched", "dstopped", "dupdated"} => r.options \in Given
         /\ r.then = "switched" => ~r.options.distance
         /\ r.then \in {"dstopped", "dupdated"} => r.options.distance
BY DEF Made, Distance

\* The answer to an active request; with the distance-based tracking of the modem.
LEMMA AnswerFollowed ==
  ASSUME Typed, Counted, Opening, DbtSupported, NEW s \in Sessions, Followed(s), Rest(s),
         NEW q, NEW called, NEW sent, Concerns(s, q, 0, called, sent),
         ~Ended(s, q, 0), It.then \in ActiveThens, s = It.session, Ok \in BOOLEAN,
         msgs # <<>>, msgs' = Tail(msgs), Head(msgs) \in An(s, {It.then}), owner' = owner,
         ~Ok => Head(msgs) \in Failed, Ok /\ It.then = "dupdated" => Head(msgs) \in DoneOf(s),
         It \in Made, AnswerDoes(s, q)
  PROVE  Followed(s)'
<1> DEFINE gone == InFlight(msgs', reqs, s, {"removed"})
<1>1. /\ owner' = owner /\ owner[s] # NoClient /\ Joined(reqs', reqs, q) /\ msgs' \in Seq(Msgs)
      /\ mPendingMsgs' = mPendingMsgs /\ removed' = removed
      /\ ~Has(mPendingMsgs, Starts(s)) /\ mIsEngineCapabilitiesKnown' = mIsEngineCapabilitiesKnown
      /\ dbt' = dbt /\ events' = events
      /\ \A K : K \subseteq ActiveThens /\ It.then \notin K => ~InFlight(msgs, reqs, s, K)
  <2>1. It.then # "removed" /\ From(s, It.then)
    BY DEF From, ActiveThens, ClientThens
  <2>2. QED
    BY <2>1, RestBefore
<1>2. /\ InFlight(msgs, reqs, s, {It.then})
      /\ InFlight(msgs, reqs, s, {"removed"}) <=> gone
      /\ It.then = "dupdated" => (RemovedAfter(msgs, reqs, s) <=> gone)
      /\ ~Ok => events # 0 /\ ~Steady'
      /\ Steady' => ~down /\ ~Has(msgs, {EngineUp})
  BY AnswerBefore
<1> HIDE DEF gone
<1>3. /\ \A L : It.then \in L => InFlight(msgs, reqs, s, L)
      /\ "dupdated" \in ActiveThens
  BY <1>2 DEF InFlight, Has, An, Rq, ActiveThens, ClientThens, Thens
<1>4. /\ It.then \in {"updated", "switched"} => s \notin In(DBS) /\ ~gone
      /\ It.then \in {"switched", "stopped", "dstopped", "dupdated"} => s \notin In(TBS)
      /\ gone => owner[s] \in removed /\ s \notin In(TBS)
      /\ s \in In(TBS) => s \notin In(DBS)
      /\ It.then \in {"dstopped", "dupdated"} \/ s \in In(DBS) => mIsEngineCapabilitiesKnown
  <2>1. /\ It.then \in {"updated", "switched"} => InFlight(msgs, reqs, s, {"updated", "switched"})
                                                  /\ InFlight(msgs, reqs, s, {"switched", "updated"})
        /\ It.then \in {"switched", "stopped", "dstopped", "dupdated"} =>
             InFlight(msgs, reqs, s, {"switched", "stopped", "dstopped", "dupdated", "removed"})
        /\ It.then \in {"dstopped", "dupdated"} => InFlight(msgs, reqs, s, {"dstopped", "dupdated"})
    BY <1>3
  <2>2. gone => InFlight(msgs, reqs, s, {"switched", "stopped", "dstopped", "dupdated", "removed"})
    <3>1. InFlight(msgs, reqs, s, {"removed"}) =>
            InFlight(msgs, reqs, s, {"switched", "stopped", "dstopped", "dupdated", "removed"})
      BY DEF InFlight, Has, An, Rq
    <3>2. QED
      BY <1>2, <3>1
  <2>3. QED
    BY <1>2, <2>1, <2>2 DEF Followed, Placed
<1>5. events = 0 /\ Runs(reqs, dbt, s) =>
        /\ s \in In(DBS) \/ It.then = "dupdated"
        /\ It.then \notin {"stopped", "switched", "dstopped"}
        /\ gone => It.then = "dupdated" /\ ~RemovedAfter(msgs, reqs, s)
  <2>1. It.then \in {"stopped", "switched", "dstopped"} =>
          InFlight(msgs, reqs, s, {"stopped", "switched", "dstopped"})
    BY <1>3
  <2>2. InFlight(msgs, reqs, s, {"dupdated"}) => It.then = "dupdated"
    BY <1>1, <1>3
  <2>3. QED
    BY <1>2, <2>1, <2>2 DEF Followed, NotRun
<1>6. /\ It.then = "updated" => It.old \in Given /\ ~It.old.distance
      /\ It.then \in {"switched", "dstopped", "dupdated"} => It.options \in Given
      /\ It.then = "switched" => ~It.options.distance
      /\ It.then \in {"dstopped", "dupdated"} => It.options.distance
  BY MadeOptions
<1>7. UNCHANGED sessions => TBS' = TBS /\ DBS' = DBS
  BY DEF sessions, TBS, DBS
<1>8. q = <<>> => Brings(q, s, "nothing") /\ (Runs(reqs', dbt', s) <=> Runs(reqs, dbt, s))
  <2>1. q = <<>> => /\ \E then \in {} \cup {"nothing"} : Brings(q, s, then)
                    /\ Runs(reqs', dbt', s) <=> Runs(reqs, dbt, s)
    BY <1>1, QuietAsks
  <2>2. QED
    BY <2>1
<1>9. CASE q = <<>> /\ UNCHANGED sessions /\ ~Ok
  <2>1. Fits(s, "nothing")
    BY <1>1, <1>2, <1>4, <1>7, <1>9 DEF Fits, gone
  <2>2. QED
    BY <1>1, <1>8, <1>9, <2>1, RestFollowed
<1>10. CASE It.then = "updated" /\ q = <<>> /\ IF Ok THEN UNCHANGED sessions ELSE Save(s, It.old)
  <2>1. DBS' = DBS
    BY <1>6, <1>7, <1>10, SaveFacts
  <2>2. s \notin In(DBS') /\ ~gone
    BY <1>4, <1>10, <2>1
  <2>3. Fits(s, "nothing")
    BY <1>1, <1>5, <1>8, <1>10, <2>1, <2>2 DEF Fits, gone
  <2>4. QED
    BY <1>1, <1>8, <1>10, <2>3, RestFollowed
<1>11. CASE It.then = "stopped" /\ q = <<>> /\ Ok /\ Erase(s)
  <2>1. s \notin In(TBS') \cup In(DBS')
    BY <1>4, <1>11, EraseFacts
  <2>2. Fits(s, "nothing")
    BY <1>1, <1>4, <1>5, <1>8, <1>11, <2>1 DEF Fits, gone
  <2>3. QED
    BY <1>1, <1>8, <1>11, <2>2, RestFollowed
<1>12. CASE /\ It.then = "switched" /\ TBS' = [TBS EXCEPT ![s] = It.options] /\ DBS' = DBS
            /\ Multiplexed(q, s, TBS, TBS', {"started"})
  <2>1. PICK then \in {"started"} \cup {"nothing"} : Brings(q, s, then)
    BY <1>1, <1>12, QuietAsks
  <2>2. Runs(reqs', dbt', s) <=> Runs(reqs, dbt, s)
    BY <1>1, <1>12, QuietAsks
  <2>3. Fits(s, then)
    BY <1>1, <1>4, <1>5, <1>12, <2>2 DEF Fits, gone
  <2>4. QED
    BY <1>1, <2>1, <2>3, RestFollowed
<1>13. CASE /\ It.then = "dstopped" /\ UNCHANGED sessions /\ Ok
            /\ q = <<Request("dstart", s, It.options, "dupdated")>>
  <2>1. Brings(q, s, "dupdated") /\ Runs(reqs', dbt', s)
    <3> DEFINE r == Request("dstart", s, It.options, "dupdated")
    <3>1. r \in Made /\ r.session = s /\ r.then = "dupdated" /\ r.call = "dstart" /\ q = <<r>>
      BY <1>6, <1>13, RequestsMade, RequestFields
    <3> HIDE DEF r
    <3>2. QED
      BY <1>1, <3>1, OneAsks
  <2>2. Fits(s, "dupdated")
    BY <1>1, <1>4, <1>7, <1>13, <2>1 DEF Fits, gone
  <2>3. QED
    BY <1>1, <2>1, <2>2, RestFollowed
<1>14. CASE It.then = "dupdated" /\ q = <<>> /\ Ok /\ Save(s, It.options)
  <2>1. TBS' = TBS /\ s \in In(DBS')
    BY <1>6, <1>14, SaveFacts
  <2>2. Steady' => Runs(reqs, dbt, s) \/ gone
    <3>1. Has(msgs, DoneOf(s))
      BY <1>14, TailHas DEF Typed
    <3>2. Steady' => EndsIn(msgs, DoneOf(s), {EngineUp})
      BY <1>2, <3>1, EndsFacts
    <3>3. QED
      BY <1>2, <1>14, <3>2 DEF Followed, DistanceServed
  <2>3. events = 0 /\ Runs(reqs, dbt, s) => ~gone
    BY <1>2, <1>5, <1>14
  <2>4. Fits(s, "nothing")
    BY <1>1, <1>4, <1>8, <1>14, <2>1, <2>2, <2>3 DEF Fits, gone
  <2>5. QED
    BY <1>1, <1>8, <1>14, <2>4, RestFollowed
<1>15. It.then \notin {"started", "respond", "removed"}
  BY DEF ActiveThens, ClientThens
<1>16. QED
  BY <1>9, <1>10, <1>11, <1>12, <1>13, <1>14, <1>15 DEF AnswerDoes

-----------------------------------------------------------------------------
(* The time-based sessions, in a step that concerns one session.               *)

\* Requests that turn the modem to the new map serve it.
LEMMA TurnedServed ==
  ASSUME Typed, TimeServed, NEW q, Joined(reqs', reqs, q), q \in Seq(Made), Turned(q, TBS, TBS'),
         tbt' = tbt, Steady' => Steady, events' = events
  PROVE  TimeServed'
<1> DEFINE r2 == reqs'
           m2 == TBS'
<1>1. PICK o \in Given \cup {NoOptions} :
        Final(reqs, tbt, o) /\ (Steady => Serves(o, TBS)) /\ (events = 0 /\ In(TBS) = {} => o = NoOptions)
  BY DEF TimeServed
<1>2. reqs \in Seq(Made)
  BY DEF Typed
<1>3. AsWell(r2, tbt, m2, o, TBS)
  <2> DEFINE r == reqs
             m == TBS
  <2>1. /\ Joined(r2, r, q) /\ Turned(q, m, m2) /\ q \in Seq(Made) /\ r \in Seq(Made)
        /\ Final(r, tbt, o)
    BY <1>1, <1>2
  <2> HIDE DEF r2, m2, r, m
  <2>2. AsWell(r2, tbt, m2, o, m)
    BY <2>1, TurnedServes
  <2>3. QED
    BY <2>2 DEF m
<1>4. QED
  BY <1>1, <1>3 DEF TimeServed, AsWell

\* While the adapter has to recover from a crash nothing is promised.
LEMMA AnyServed ==
  ASSUME reqs' \in Seq(Made), tbt' \in Given \cup {NoOptions}, ~Steady', events' # 0
  PROVE  TimeServed'
<1> DEFINE r2 == reqs'
           t2 == tbt'
<1>1. \E o \in Given \cup {NoOptions} : Final(r2, t2, o)
  <2>1. r2 \in Seq(Made) /\ t2 \in Given \cup {NoOptions}
    OBVIOUS
  <2> HIDE DEF r2, t2
  <2>2. QED
    BY <2>1, FinalExists
<1>2. QED
  BY <1>1 DEF TimeServed

\* Requests that are for no time-based session leave the map to the earlier ones.
LEMMA UntimedTurned ==
  ASSUME NEW q, ~Has(q, Timed), NEW m
  PROVE  Turned(q, m, m)
BY DEF Turned

\* One request for a distance-based session, or none, is such.
LEMMA Untimed ==
  ASSUME NEW r, r.call \in {"dstart", "dstop"}
  PROVE  r \notin Timed /\ ~Has(<<r>>, Timed) /\ ~Has(<<>>, Timed)
<1>1. r \notin Timed
  BY DEF Timed
<1>2. QED
  BY <1>1, ShortHas

\* A start turns the modem.
LEMMA StartTurned ==
  ASSUME NEW s \in Sessions, NEW o, NEW q, NEW parked, StartDoes(s, o, q, parked)
  PROVE  Turned(q, TBS, TBS')
<1>1. CASE q = <<>> /\ UNCHANGED sessions
  <2>1. TBS' = TBS /\ ~Has(<<>>, Timed)
    BY <1>1, ShortHas DEF sessions, TBS
  <2>2. QED
    BY <1>1, <2>1, UntimedTurned
<1>2. CASE TBS' = TBS /\ q = <<Request("dstart", s, o, "started")>>
  <2> DEFINE r == Request("dstart", s, o, "started")
  <2>1. r.call = "dstart" /\ q = <<r>>
    BY <1>2, RequestFields
  <2> HIDE DEF r
  <2>2. QED
    BY <1>2, <2>1, Untimed, UntimedTurned
<1>3. CASE Multiplexed(q, s, TBS, TBS', {"started"})
  BY <1>3, MultiplexedFacts
<1>4. QED
  BY <1>1, <1>2, <1>3 DEF StartDoes

\* So does an update.
LEMMA UpdateTurned ==
  ASSUME Typed, DbtSupported, NEW s \in Sessions, s \in In(TBS) => s \notin In(DBS),
         NEW o \in Given, NEW q, NEW parked, UpdateDoes(s, o, q, parked)
  PROVE  Turned(q, TBS, TBS')
<1>1. CASE q = <<>> /\ UNCHANGED sessions
  <2>1. TBS' = TBS /\ ~Has(<<>>, Timed)
    BY <1>1, ShortHas DEF sessions, TBS
  <2>2. QED
    BY <1>1, <2>1, UntimedTurned
<1>2. ASSUME DbtSupported => /\ DBS' = [DBS EXCEPT ![s] = o]
                             /\ TBS' = [TBS EXCEPT ![s] = NoOptions],
             NEW p, q = Append(p, Request("dstart", s, o, "nothing")),
             Multiplexed(p, s, TBS, [TBS EXCEPT ![s] = NoOptions], {"started", "respond"})
      PROVE  Turned(q, TBS, TBS')
  <2> DEFINE r == Request("dstart", s, o, "nothing")
  <2>1. p \in Seq(Made) /\ Turned(p, TBS, TBS')
    BY <1>2, MultiplexedFacts
  <2>2. r \in Made /\ r.call = "dstart" /\ Extended(q, p, r)
    BY <1>2, RequestsMade, RequestFields DEF Extended
  <2> HIDE DEF r
  <2>3. r \notin Timed /\ \A x : r \notin TimedTo(x)
    BY <2>2 DEF Timed, TimedTo
  <2>4. /\ Has(q, Timed) <=> Has(p, Timed)
        /\ \A x : EndsIn(q, TimedTo(x), Timed) <=> EndsIn(p, TimedTo(x), Timed)
    BY <2>1, <2>2, <2>3, AppendHas
  <2>5. QED
    BY <2>1, <2>4 DEF Turned
<1>3. CASE s \in In(DBS) /\ Erase(s) /\ q = <<Request("dstop", s, o, "switched")>>
  <2> DEFINE r == Request("dstop", s, o, "switched")
  <2>1. r.call = "dstop" /\ q = <<r>> /\ TBS' = TBS
    BY <1>3, RequestFields, EraseFacts
  <2> HIDE DEF r
  <2>2. QED
    BY <2>1, Untimed, UntimedTurned
<1>4. CASE Multiplexed(q, s, TBS, TBS', {"updated"})
  BY <1>4, MultiplexedFacts
<1>5. CASE UNCHANGED sessions /\ q = <<Request("dstop", s, o, "dstopped")>>
  <2> DEFINE r == Request("dstop", s, o, "dstopped")
  <2>1. r.call = "dstop" /\ q = <<r>> /\ TBS' = TBS
    BY <1>5, RequestFields DEF sessions, TBS
  <2> HIDE DEF r
  <2>2. QED
    BY <2>1, Untimed, UntimedTurned
<1>6. QED
  BY <1>1, <1>2, <1>3, <1>4, <1>5 DEF UpdateDoes

\* So does a stop.
LEMMA StopTurned ==
  ASSUME NEW s \in Sessions, NEW q, StopDoes(s, q)
  PROVE  Turned(q, TBS, TBS')
<1>1. CASE q = <<>> /\ UNCHANGED sessions
  <2>1. TBS' = TBS /\ ~Has(<<>>, Timed)
    BY <1>1, ShortHas DEF sessions, TBS
  <2>2. QED
    BY <1>1, <2>1, UntimedTurned
<1>2. CASE Multiplexed(q, s, TBS, TBS', {"started", "respond"})
  BY <1>2, MultiplexedFacts
<1>3. CASE UNCHANGED sessions /\ q = <<Request("dstop", s, NoOptions, "stopped")>>
  <2> DEFINE r == Request("dstop", s, NoOptions, "stopped")
  <2>1. r.call = "dstop" /\ q = <<r>> /\ TBS' = TBS
    BY <1>3, RequestFields DEF sessions, TBS
  <2> HIDE DEF r
  <2>2. QED
    BY <2>1, Untimed, UntimedTurned
<1>4. QED
  BY <1>1, <1>2, <1>3 DEF StopDoes

\* So does an answer, unless it tells of a failure.
LEMMA AnswerTurned ==
  ASSUME Typed, DbtSupported, NEW s \in Sessions, s = It.session, It \in Made, Ok,
         It.then \in {"stopped", "removed"} => s \notin In(TBS),
         NEW q, AnswerDoes(s, q)
  PROVE  Turned(q, TBS, TBS')
<1>1. ASSUME TBS' = TBS, q = <<>> PROVE Turned(q, TBS, TBS')
  <2>1. ~Has(<<>>, Timed)
    BY ShortHas
  <2>2. QED
    BY <1>1, <2>1, UntimedTurned
<1>2. UNCHANGED sessions => TBS' = TBS
  BY DEF sessions, TBS
<1>3. CASE It.then \in {"started", "updated", "respond"} /\ q = <<>> /\ UNCHANGED sessions
  BY <1>1, <1>2, <1>3
<1>4. CASE It.then \in {"stopped", "removed"} /\ q = <<>> /\ Erase(s)
  BY <1>1, <1>4, EraseFacts
<1>5. CASE Multiplexed(q, s, TBS, TBS', {"started"})
  BY <1>5, MultiplexedFacts
<1>6. CASE UNCHANGED sessions /\ q = <<Request("dstart", s, It.options, "dupdated")>>
  <2> DEFINE r == Request("dstart", s, It.options, "dupdated")
  <2>1. r.call = "dstart" /\ q = <<r>> /\ TBS' = TBS
    BY <1>2, <1>6, RequestFields
  <2> HIDE DEF r
  <2>2. QED
    BY <2>1, Untimed, UntimedTurned
<1>7. CASE It.then = "dupdated" /\ q = <<>> /\ Save(s, It.options)
  <2>1. It.options \in Given /\ It.options.distance
    BY <1>7, MadeOptions
  <2>2. TBS' = TBS
    BY <1>7, <2>1, SaveFacts
  <2>3. QED
    BY <1>1, <1>7, <2>2
<1>8. QED
  BY <1>3, <1>4, <1>5, <1>6, <1>7 DEF AnswerDoes

-----------------------------------------------------------------------------
(* Calls, parked messages and answers.                                         *)

\* The rest of a sequence is not the sequence.
LEMMA TailDiffers ==
  ASSUME NEW S, NEW q \in Seq(S), q # <<>>
  PROVE  Tail(q) # q
<1> DEFINE t == Tail(q)
<1>1. Len(t) = Len(q) - 1 /\ Len(q) \in Nat
  BY HeadTailProperties, LenProperties
<1> HIDE DEF t
<1>2. t # q
  BY <1>1
<1>3. QED
  BY <1>2 DEF t

\* What remains to be shown of a step that concerns one session.
LEMMA ConcernsServing ==
  ASSUME Typed, Serving, NEW s \in Sessions, NEW q, NEW parked, NEW called, NEW sent,
         Concerns(s, q, parked, called, sent),
         Turned(q, TBS, TBS') \/ (events # 0 /\ ~Steady'), Followed(s)'
  PROVE  Serving'
<1>1. Opening /\ TimeServed /\ \A z \in Sessions : Followed(z)
  BY DEF Serving
<1>2. Opening' /\ (Steady' <=> Steady)
  BY <1>1, ConcernsOpening
<1>3. \A z \in Sessions : Followed(z)'
  BY <1>1, OthersFollowed
<1>4. /\ q \in Seq(Made) /\ Joined(reqs', reqs, q) /\ tbt' = tbt /\ events' = events
      /\ reqs' \in Seq(Made)
  <2>1. Reacts(s, q, parked, called, sent)
    BY DEF Concerns
  <2>2. QED
    BY <2>1, ReactsFacts DEF Concerns, modem
<1>5. TimeServed'
  <2>1. CASE Turned(q, TBS, TBS')
    BY <1>1, <1>2, <1>4, <2>1, TurnedServed
  <2>2. CASE events # 0 /\ ~Steady'
    <3>1. tbt' \in Given \cup {NoOptions}
      BY <1>4 DEF Typed
    <3>2. QED
      BY <1>4, <2>2, <3>1, AnyServed
  <2>3. QED
    BY <2>1, <2>2
<1>6. QED
  BY <1>2, <1>3, <1>5 DEF Serving

\* A call leaves the queue as it is.
LEMMA CallRest ==
  ASSUME Typed, Counted, ClientsWait, NEW s \in Sessions, NEW q, NEW parked, NEW sent,
         Concerns(s, q, parked, 1, sent)
  PROVE  Rest(s) /\ ~Ended(s, q, parked) /\ msgs' = msgs /\ owner[s] \notin removed
<1>1. msgs' = msgs /\ owner[s] \notin removed
  BY DEF Concerns
<1>2. ~Ended(s, q, parked)
  BY <1>1, TailDiffers DEF Ended, Typed
<1>3. QED
  BY <1>1, <1>2, ConcernsRest

\* A call for a new session.
LEMMA StartCallServing ==
  ASSUME Sound, Serving, ClientsWait, NEW c \in Clients, NEW o \in Options,
         startTrackingCommand(c, o)
  PROVE  Serving'
<1>1. Typed /\ Counted /\ o \in Given
  BY ConstantFacts DEF Sound
<1>2. PICK s \in Sessions : \E q, parked, sent :
        /\ Concerns(s, q, parked, 1, sent) /\ StartDoes(s, o, q, parked)
        /\ owner[s] = NoClient /\ owner'[s] = c /\ Proper
  BY <1>1, StartCallConcerns
<1>3. PICK q, parked, sent :
        /\ Concerns(s, q, parked, 1, sent) /\ StartDoes(s, o, q, parked) /\ owner[s] = NoClient
  BY <1>2
<1>4. Rest(s) /\ ~Ended(s, q, parked) /\ msgs' = msgs /\ Followed(s)
  BY <1>1, <1>3, CallRest DEF Serving
<1>5. Followed(s)'
  BY <1>1, <1>3, <1>4, StartFollowed
<1>6. Turned(q, TBS, TBS')
  BY <1>3, StartTurned
<1>7. QED
  BY <1>1, <1>3, <1>5, <1>6, ConcernsServing

\* A call to update a session.
LEMMA UpdateCallServing ==
  ASSUME Sound, Serving, ClientsWait, DbtSupported, NEW s \in Sessions, NEW o \in Options,
         updateTrackingOptionsCommand(s, o)
  PROVE  Serving'
<1>1. Typed /\ Counted /\ o \in Given /\ Followed(s)
  BY ConstantFacts DEF Sound, Serving
<1>2. PICK q, parked, sent :
        Concerns(s, q, parked, 1, sent) /\ UpdateDoes(s, o, q, parked) /\ owner' = owner
  BY <1>1, UpdateCallConcerns
<1>3. Rest(s) /\ ~Ended(s, q, parked) /\ msgs' = msgs /\ owner[s] \notin removed
  BY <1>1, <1>2, CallRest
<1>4. Followed(s)'
  BY <1>1, <1>2, <1>3, UpdateFollowed
<1>5. Turned(q, TBS, TBS')
  BY <1>1, <1>2, UpdateTurned DEF Followed, Placed
<1>6. QED
  BY <1>1, <1>2, <1>4, <1>5, ConcernsServing

\* A call to stop a session.
LEMMA StopCallServing ==
  ASSUME Sound, Serving, ClientsWait, NEW s \in Sessions, stopTrackingCommand(s)
  PROVE  Serving'
<1>1. Typed /\ Counted /\ Followed(s)
  BY DEF Sound, Serving
<1>2. PICK q, sent : Concerns(s, q, 0, 1, sent) /\ StopDoes(s, q) /\ owner' = owner
  BY <1>1, StopCallConcerns
<1>3. Rest(s) /\ ~Ended(s, q, 0) /\ msgs' = msgs /\ owner[s] \notin removed
  BY <1>1, <1>2, CallRest
<1>4. Followed(s)'
  BY <1>1, <1>2, <1>3, StopFollowed
<1>5. Turned(q, TBS, TBS')
  BY <1>2, StopTurned
<1>6. QED
  BY <1>1, <1>2, <1>4, <1>5, ConcernsServing

\* A message that was parked.
LEMMA ParkedServing ==
  ASSUME Sound, Serving, ClientsWait, DbtSupported, ParkedMsg
  PROVE  Serving'
<1>1. Typed /\ Counted
  BY DEF Sound
<1>2. PICK s \in Sessions, o \in Distance : \E q, parked, sent :
        /\ Concerns(s, q, parked, 0, sent) /\ owner' = owner /\ Proper
        /\ Head(msgs) \in Pk(s) /\ msgs # <<>> /\ msgs' = Tail(msgs)
        /\ \/ Head(msgs) \in Starts(s) /\ StartDoes(s, o, q, parked)
           \/ UpdateDoes(s, o, q, parked)
  BY <1>1, ParkedConcerns
<1>3. PICK q, parked, sent :
        /\ Concerns(s, q, parked, 0, sent) /\ owner' = owner
        /\ Head(msgs) \in Pk(s) /\ msgs # <<>> /\ msgs' = Tail(msgs)
        /\ \/ Head(msgs) \in Starts(s) /\ StartDoes(s, o, q, parked)
           \/ UpdateDoes(s, o, q, parked)
  BY <1>2
<1>4. o \in Given /\ Followed(s)
  BY DEF Distance, Serving
<1>5. Rest(s) /\ ~Ended(s, q, parked)
  <2>1. ~Ended(s, q, parked)
    BY <1>3 DEF Ended, Pk, An, Waiting, Replies
  <2>2. QED
    BY <1>1, <1>3, <2>1, ConcernsRest
<1>6. CASE Head(msgs) \in Starts(s) /\ StartDoes(s, o, q, parked)
  <2>1. Followed(s)'
    BY <1>1, <1>3, <1>4, <1>5, <1>6, StartFollowed
  <2>2. Turned(q, TBS, TBS')
    BY <1>6, StartTurned
  <2>3. QED
    BY <1>1, <1>3, <2>1, <2>2, ConcernsServing
<1>7. CASE UpdateDoes(s, o, q, parked)
  <2>1. Followed(s)'
    BY <1>1, <1>3, <1>4, <1>5, <1>7, UpdateFollowed
  <2>2. Turned(q, TBS, TBS')
    BY <1>1, <1>4, <1>7, UpdateTurned DEF Followed, Placed
  <2>3. QED
    BY <1>1, <1>3, <2>1, <2>2, ConcernsServing
<1>8. QED
  BY <1>3, <1>6, <1>7

\* An answer.
LEMMA AnswerServing ==
  ASSUME Sound, Serving, ClientsWait, DbtSupported, AnswerHandled
  PROVE  Serving'
<1>1. Typed /\ Counted /\ Opening
  BY DEF Sound, Serving
<1>2. PICK s \in Sessions : \E q, sent :
        /\ Concerns(s, q, 0, 0, sent) /\ AnswerDoes(s, q) /\ owner' = owner
        /\ s = It.session /\ Answered(It.then) /\ It.then # "nothing" /\ Proper
  BY <1>1, AnswerConcerns
<1>3. PICK q, sent :
        /\ Concerns(s, q, 0, 0, sent) /\ AnswerDoes(s, q) /\ owner' = owner
        /\ s = It.session /\ Answered(It.then) /\ It.then # "nothing"
  BY <1>2
<1>4. /\ msgs # <<>> /\ msgs' = Tail(msgs) /\ Head(msgs) \in An(s, {It.then})
      /\ ~Ok => Head(msgs) \in Failed
      /\ Ok /\ It.then = "dupdated" => Head(msgs) \in DoneOf(s)
      /\ It \in Made /\ Ok \in BOOLEAN
  BY <1>1, <1>3, AnsweredFacts
<1>5. Followed(s)
  BY DEF Serving
<1>6. It.then \in ActiveThens \/ It.then \in {"started", "respond", "removed"}
  BY <1>3, <1>4 DEF Made, Requests, ActiveThens, ClientThens
<1>7. Followed(s)'
  <2>1. CASE Ended(s, q, 0)
    BY <1>1, <1>3, <1>5, <2>1, EndedFollowed
  <2>2. CASE ~Ended(s, q, 0)
    <3>1. Rest(s)
      BY <1>1, <1>3, <2>2, ConcernsRest
    <3>2. It.then \in ActiveThens
      <4>1. Head(msgs) \in Pk(s) \cup An(s, ActiveThens)
        <5>1. Head(msgs) \in An(s, {"started", "respond"}) \/ Head(msgs) \in An(s, {"removed"}) =>
                Head(msgs) \in An(s, {"started", "respond", "removed"})
          BY DEF An, Rq
        <5>2. QED
          BY <1>3, <2>2, <5>1 DEF Concerns, Ended
      <4>2. QED
        BY <1>4, <4>1 DEF Pk, An, Rq, Waiting, Replies, It
    <3>3. QED
      BY <1>1, <1>3, <1>4, <1>5, <2>2, <3>1, <3>2, AnswerFollowed
  <2>3. QED
    BY <2>1, <2>2
<1>8. Turned(q, TBS, TBS') \/ (events # 0 /\ ~Steady')
  <2>1. CASE ~Ok
    BY <1>1, <1>3, <1>4, <2>1, FailedFacts
  <2>2. CASE Ok
    <3>1. It.then \in {"stopped", "removed"} => s \notin In(TBS)
      <4>1. It.then \in {"stopped", "removed"} =>
              InFlight(msgs, reqs, s, {"switched", "stopped", "dstopped", "dupdated", "removed"})
        <5>1. Has(msgs, An(s, {It.then}))
          BY <1>1, <1>4, TailHas DEF Typed
        <5>2. QED
          BY <5>1 DEF InFlight, Has, An, Rq
      <4>2. QED
        BY <1>5, <4>1 DEF Followed, Placed
    <3>2. QED
      BY <1>1, <1>3, <1>4, <2>2, <3>1, AnswerTurned
  <2>3. QED
    BY <1>4, <2>1, <2>2
<1>9. QED
  BY <1>1, <1>3, <1>7, <1>8, ConcernsServing

-----------------------------------------------------------------------------
(* Steps that concern no session.                                              *)

\* A step that changes only the clients that are there, the history and the counts.
LEMMA StillServing ==
  ASSUME Serving, UNCHANGED <<removed, owner, sessions, parkVars, msgs, mSystemPowerState, reqs,
                              modem, events>>
  PROVE  Serving'
<1>1. /\ removed' = removed /\ owner' = owner /\ TBS' = TBS /\ DBS' = DBS
      /\ mIsEngineCapabilitiesKnown' = mIsEngineCapabilitiesKnown /\ mPendingMsgs' = mPendingMsgs
      /\ msgs' = msgs /\ mSystemPowerState' = mSystemPowerState /\ reqs' = reqs
      /\ down' = down /\ tbt' = tbt /\ dbt' = dbt /\ events' = events
  BY DEF sessions, parkVars, modem, TBS, DBS
<1>2. /\ Recovering' <=> Recovering
      /\ Steady' <=> Steady
  BY <1>1 DEF Recovering, Steady
<1>3. Opening'
  BY <1>1, <1>2 DEF Serving, Opening
<1>4. TimeServed'
  BY <1>1, <1>2 DEF Serving, TimeServed
<1>5. ASSUME NEW z \in Sessions PROVE Followed(z)'
  <2>1. Unmoved(z)
    BY <1>1, <1>2 DEF Unmoved
  <2>2. QED
    BY <2>1, UnmovedKept DEF Serving
<1>6. QED
  BY <1>3, <1>4, <1>5 DEF Serving

\* The request to open the modem is about nothing else.
LEMMA OpenFacts ==
  ASSUME NEW r \in Made, r.call = "open"
  PROVE  /\ r \in Opens /\ r \notin Timed /\ \A o : r \notin TimedTo(o)
         /\ \A z : /\ r \notin Dstarts(z) /\ r \notin Dstops(z)
                   /\ \A K : "nothing" \notin K => r \notin Rq(z, K)
BY DEF Opens, Timed, TimedTo, Dstarts, Dstops, Rq, Made

\* The message that the modem is up is about nothing else.
LEMMA EngineUpFacts ==
  /\ EngineUp \in Msgs /\ EngineUp \notin Failed
  /\ \A z : /\ EngineUp \notin Pk(z) /\ EngineUp \notin Starts(z) /\ EngineUp \notin DoneOf(z)
            /\ \A K : EngineUp \notin An(z, K)
BY DEF Msgs, EngineUp, Failed, Pk, Starts, DoneOf, An, Waiting, Replies

\* The modem comes up.
LEMMA OpenServing ==
  ASSUME Typed, Serving, Open
  PROVE  Serving'
<1>1. /\ reqs # <<>> /\ Head(reqs) \in Made /\ Head(reqs).call = "open" /\ reqs' = Tail(reqs)
      /\ ~down' /\ Extended(msgs', msgs, EngineUp)
      /\ removed' = removed /\ owner' = owner /\ TBS' = TBS /\ DBS' = DBS
      /\ mIsEngineCapabilitiesKnown' = mIsEngineCapabilitiesKnown /\ mPendingMsgs' = mPendingMsgs
      /\ mSystemPowerState' = mSystemPowerState /\ tbt' = tbt /\ dbt' = dbt /\ events' = events
  BY HeadFirst DEF Open, Extended, clientVars, sessions, parkVars, counts, TBS, DBS, Typed
<1> DEFINE h == Head(reqs)
           r2 == reqs'
           m2 == msgs'
<1>2. /\ h \in Opens /\ h \notin Timed /\ \A o : h \notin TimedTo(o)
      /\ \A z : /\ h \notin Dstarts(z) /\ h \notin Dstops(z)
                /\ \A K : "nothing" \notin K => h \notin Rq(z, K)
  BY <1>1, OpenFacts
<1>3. /\ r2 \in Seq(Made)
      /\ \A V : Has(reqs, V) <=> h \in V \/ Has(r2, V)
      /\ \A V, W : HasThen(reqs, V, W) <=> HasThen(r2, V, W) \/ (h \in V /\ Has(r2, W))
      /\ \A V, W : EndsIn(reqs, V, W) <=> EndsIn(r2, V, W) \/ (h \in V /\ ~Has(r2, W))
      /\ \A W : Count(reqs, W) = (IF h \in W THEN 1 ELSE 0) + Count(r2, W)
  BY <1>1, TailHas DEF Typed
<1>4. /\ m2 \in Seq(Msgs)
      /\ \A V : Has(m2, V) <=> Has(msgs, V) \/ EngineUp \in V
      /\ \A V, W : HasThen(m2, V, W) <=> HasThen(msgs, V, W) \/ (Has(msgs, V) /\ EngineUp \in W)
      /\ \A V, W : EndsIn(m2, V, W) <=> EngineUp \in V \/ (EndsIn(msgs, V, W) /\ EngineUp \notin W)
      /\ \A W : Count(m2, W) = Count(msgs, W) + (IF EngineUp \in W THEN 1 ELSE 0)
  <2>1. EngineUp \in Msgs /\ msgs \in Seq(Msgs) /\ Extended(m2, msgs, EngineUp)
    BY <1>1, EngineUpFacts DEF Typed
  <2> HIDE DEF m2
  <2>2. QED
    BY <2>1, AppendHas
<1> HIDE DEF h, r2, m2
<1>5. Opening /\ TimeServed /\ \A z \in Sessions : Followed(z)
  BY DEF Serving
<1>6. Count(r2, Opens) = 0 /\ ~Has(r2, Opens) /\ down
  <2>1. Count(r2, Opens) \in Nat /\ (Count(r2, Opens) = 0 <=> ~Has(r2, Opens))
    BY <1>3, CountFacts
  <2>2. Count(reqs, Opens) = 1 + Count(r2, Opens) /\ Count(reqs, Opens) <= 1 /\ Has(reqs, Opens)
    BY <1>2, <1>3, <1>5 DEF Opening
  <2>3. QED
    BY <1>5, <2>1, <2>2 DEF Opening
<1>7. Has(m2, {EngineUp}) /\ Recovering' /\ ~Steady' /\ Recovering
  BY <1>4, <1>6 DEF Recovering, Steady, m2
<1>8. Opening'
  <2>1. ~EndsIn(m2, Failed, {EngineUp}) /\ (Has(m2, Failed) => Has(msgs, Failed))
    BY <1>4, EngineUpFacts
  <2>2. ~Has(msgs, {EngineUp}) => Count(m2, {EngineUp}) = 1
    <3>1. ~Has(msgs, {EngineUp}) => Count(msgs, {EngineUp}) = 0
      BY CountFacts DEF Typed
    <3>2. QED
      BY <1>4, <3>1
  <2>3. QED
    BY <1>1, <1>5, <1>6, <1>7, <2>1, <2>2 DEF Opening, r2, m2
<1>9. TimeServed'
  <2>1. PICK o \in Given \cup {NoOptions} :
          Final(reqs, tbt, o) /\ (events = 0 /\ In(TBS) = {} => o = NoOptions)
    BY <1>5 DEF TimeServed
  <2>2. Final(r2, tbt, o)
    BY <1>2, <1>3, <2>1 DEF Final
  <2>3. QED
    BY <1>1, <1>7, <2>1, <2>2 DEF TimeServed, r2
<1>10. ASSUME NEW z \in Sessions PROVE Followed(z)'
  <2>1. \A K : "nothing" \notin K => (InFlight(m2, r2, z, K) <=> InFlight(msgs, reqs, z, K))
    BY <1>2, <1>3, <1>4, EngineUpFacts DEF InFlight
  <2>2. /\ IsParked(mPendingMsgs, m2, z) <=> IsParked(mPendingMsgs, msgs, z)
        /\ Has(m2, Starts(z)) => Has(msgs, Starts(z))
        /\ ~EndsIn(m2, DoneOf(z), {EngineUp})
    BY <1>4, EngineUpFacts DEF IsParked
  <2>3. Runs(r2, dbt, z) <=> Runs(reqs, dbt, z)
    BY <1>2, <1>3 DEF Runs
  <2>4. RemovedAfter(m2, r2, z) <=> RemovedAfter(msgs, reqs, z)
    BY <1>2, <1>3, <1>4, EngineUpFacts DEF RemovedAfter
  <2>5. Unmoved(z)
    BY <1>1, <1>7, <2>1, <2>2, <2>3, <2>4 DEF Unmoved, r2, m2
  <2>6. QED
    BY <1>5, <2>5, UnmovedKept
<1>11. QED
  BY <1>8, <1>9, <1>10 DEF Serving

\* The modem crashes.
LEMMA DownServing ==
  ASSUME Typed, Serving, handleEngineDownEvent
  PROVE  Serving'
<1> DEFINE r == Request("open", 0, NoOptions, "nothing")
           q == <<r>>
           r2 == reqs'
<1>1. /\ events' # 0 /\ ~down /\ down' /\ tbt' = NoOptions /\ Joined(r2, reqs, q)
      /\ removed' = removed /\ owner' = owner /\ TBS' = TBS /\ DBS' = DBS
      /\ mIsEngineCapabilitiesKnown' = mIsEngineCapabilitiesKnown /\ mPendingMsgs' = mPendingMsgs
      /\ msgs' = msgs /\ mSystemPowerState' = mSystemPowerState
  BY EventBound DEF handleEngineDownEvent, Ask, Joined, clientVars, sessions, parkVars, TBS, DBS
<1>2. /\ r \in Made /\ r \in Opens
      /\ \A z, K : "nothing" \notin K => r \notin Rq(z, K)
  <2>1. r.call = "open" /\ r \in Made
    BY RequestFields DEF Made, Requests, Request, Calls, Thens, OptionRecords, NoOptions
  <2> HIDE DEF r
  <2>2. QED
    BY <2>1, OpenFacts
<1> HIDE DEF r
<1>3. /\ q \in Seq(Made)
      /\ \A V, W : (Has(q, V) <=> r \in V) /\ ~HasThen(q, V, W)
      /\ Count(q, Opens) = 1
  <2>1. q \in Seq(Made)
    BY <1>2
  <2>2. \A V, W : (Has(<<r>>, V) <=> r \in V) /\ ~HasThen(<<r>>, V, W)
    BY ShortHas
  <2>3. Count(<<r>>, Opens) = 1
    BY <1>2, ShortCount
  <2>4. QED
    BY <2>1, <2>2, <2>3 DEF q
<1> HIDE DEF q, r2
<1>4. /\ r2 \in Seq(Made)
      /\ \A V : Has(r2, V) <=> Has(reqs, V) \/ Has(q, V)
      /\ \A V, W : HasThen(r2, V, W) <=>
                     HasThen(reqs, V, W) \/ HasThen(q, V, W) \/ (Has(reqs, V) /\ Has(q, W))
      /\ Count(r2, Opens) = Count(reqs, Opens) + Count(q, Opens)
  BY <1>1, <1>3, JoinHas DEF Typed
<1>5. Opening /\ TimeServed /\ \A z \in Sessions : Followed(z)
  BY DEF Serving
<1>6. Recovering' /\ ~Steady'
  BY <1>1 DEF Recovering, Steady
<1>7. Opening'
  <2>1. Count(reqs, Opens) = 0
    BY <1>1, <1>5, CountFacts DEF Typed, Opening
  <2>2. Has(r2, Opens)
    BY <1>2, <1>3, <1>4
  <2>3. Count(r2, Opens) = 1
    BY <1>3, <1>4, <2>1
  <2>4. QED
    BY <1>1, <1>5, <2>2, <2>3 DEF Opening, r2
<1>8. TimeServed'
  BY <1>1, <1>4, <1>6, AnyServed DEF r2
<1>9. ASSUME NEW z \in Sessions PROVE Followed(z)'
  <2>1. \A K : "nothing" \notin K => (InFlight(msgs, r2, z, K) <=> InFlight(msgs, reqs, z, K))
    BY <1>2, <1>3, <1>4 DEF InFlight
  <2>2. RemovedAfter(msgs, r2, z) <=> RemovedAfter(msgs, reqs, z)
    <3>1. "nothing" \notin {"removed"} /\ "nothing" \notin {"dupdated"}
      OBVIOUS
    <3>2. ~Has(q, Rq(z, {"removed"})) /\ ~Has(q, Rq(z, {"dupdated"}))
      BY <1>2, <1>3, <3>1
    <3>3. QED
      BY <1>3, <1>4, <3>2 DEF RemovedAfter
  <2>3. Unmoved(z)
    BY <1>1, <1>6, <2>1, <2>2 DEF Unmoved, r2
  <2>4. QED
    BY <1>5, <2>3, UnmovedKept
<1>10. QED
  BY <1>7, <1>8, <1>9 DEF Serving

-----------------------------------------------------------------------------
(* LocApi carries out a request.                                               *)

\* What the requests have, with the first and without it.
LEMMA CarryReqs ==
  ASSUME Typed, NEW ok \in BOOLEAN, NEW a, Carried(ok, a)
  PROVE  /\ Head(reqs) \in Made /\ Head(reqs) \notin Opens /\ reqs' \in Seq(Made) /\ reqs # <<>>
         /\ \A V : Has(reqs, V) <=> Head(reqs) \in V \/ Has(reqs', V)
         /\ \A V, W : HasThen(reqs, V, W) <=> HasThen(reqs', V, W) \/ (Head(reqs) \in V /\ Has(reqs', W))
         /\ \A V, W : EndsIn(reqs, V, W) <=> EndsIn(reqs', V, W) \/ (Head(reqs) \in V /\ ~Has(reqs', W))
         /\ \A W : Count(reqs, W) = (IF Head(reqs) \in W THEN 1 ELSE 0) + Count(reqs', W)
<1>1. reqs # <<>> /\ Head(reqs) \in Made /\ Head(reqs).call # "open" /\ reqs' = Tail(reqs)
      /\ reqs \in Seq(Made)
  BY DEF Carried, Typed
<1>2. Head(reqs) \notin Opens
  BY <1>1 DEF Opens
<1> DEFINE r2 == reqs'
<1>3. r2 = Tail(reqs)
  BY <1>1
<1> HIDE DEF r2
<1>4. /\ r2 \in Seq(Made)
      /\ \A V : Has(reqs, V) <=> Head(reqs) \in V \/ Has(r2, V)
      /\ \A V, W : HasThen(reqs, V, W) <=> HasThen(r2, V, W) \/ (Head(reqs) \in V /\ Has(r2, W))
      /\ \A V, W : EndsIn(reqs, V, W) <=> EndsIn(r2, V, W) \/ (Head(reqs) \in V /\ ~Has(r2, W))
      /\ \A W : Count(reqs, W) = (IF Head(reqs) \in W THEN 1 ELSE 0) + Count(r2, W)
  BY <1>1, <1>3, TailHas
<1>5. QED
  BY <1>1, <1>2, <1>4 DEF r2

\* What the messages have with the answer, if there is one.
LEMMA CarryMsgs ==
  ASSUME Typed, NEW ok \in BOOLEAN, NEW a, Carried(ok, a)
  PROVE  /\ msgs' \in Seq(Msgs)
         /\ \A V : Has(msgs', V) <=> Has(msgs, V) \/ (a \in Replies /\ a \in V)
         /\ \A V, W : HasThen(msgs', V, W) <=>
                        HasThen(msgs, V, W) \/ (Has(msgs, V) /\ a \in Replies /\ a \in W)
         /\ \A V, W : EndsIn(msgs', V, W) <=>
                        (a \in Replies /\ a \in V) \/ (EndsIn(msgs, V, W) /\ ~(a \in Replies /\ a \in W))
         /\ \A W : a \notin W => Count(msgs', W) = Count(msgs, W)
         /\ a.ok = ok /\ a.req = Head(reqs) /\ a # EngineUp
         /\ \A z \in Sessions : /\ a \notin Pk(z) /\ a \notin Starts(z)
                                /\ \A K : "nothing" \notin K => (a \in An(z, K) <=> Head(reqs) \in Rq(z, K))
<1>1. /\ Head(reqs) \in Made /\ a = [kind |-> "answer", req |-> Head(reqs), ok |-> ok]
      /\ IF Head(reqs).then = "nothing" THEN msgs' = msgs ELSE Extended(msgs', msgs, a)
      /\ msgs \in Seq(Msgs)
  BY DEF Carried, Typed
<1>2. a \in Replies <=> Head(reqs).then # "nothing"
  BY <1>1 DEF Replies
<1>3. a.ok = ok /\ a.req = Head(reqs) /\ a.kind = "answer"
  BY <1>1
<1>4. a # EngineUp /\ \A z \in Sessions : a \notin Pk(z) /\ a \notin Starts(z)
  BY <1>3 DEF Pk, Starts, Waiting, EngineUp
<1>5. \A K : \A z \in Sessions : "nothing" \notin K => (a \in An(z, K) <=> Head(reqs) \in Rq(z, K))
  BY <1>1, <1>2, <1>3 DEF An, Rq
<1> DEFINE m2 == msgs'
<1>6. /\ m2 \in Seq(Msgs)
      /\ \A V : Has(m2, V) <=> Has(msgs, V) \/ (a \in Replies /\ a \in V)
      /\ \A V, W : HasThen(m2, V, W) <=>
                     HasThen(msgs, V, W) \/ (Has(msgs, V) /\ a \in Replies /\ a \in W)
      /\ \A V, W : EndsIn(m2, V, W) <=>
                     (a \in Replies /\ a \in V) \/ (EndsIn(msgs, V, W) /\ ~(a \in Replies /\ a \in W))
      /\ \A W : a \notin W => Count(m2, W) = Count(msgs, W)
  <2>1. CASE Head(reqs).then = "nothing"
    BY <1>1, <1>2, <2>1
  <2>2. CASE Head(reqs).then # "nothing"
    <3>1. Extended(m2, msgs, a) /\ a \in Msgs /\ a \in Replies
      BY <1>1, <1>2, <2>2 DEF Msgs
    <3> HIDE DEF m2
    <3>2. /\ m2 \in Seq(Msgs)
          /\ \A V : Has(m2, V) <=> Has(msgs, V) \/ a \in V
          /\ \A V, W : HasThen(m2, V, W) <=> HasThen(msgs, V, W) \/ (Has(msgs, V) /\ a \in W)
          /\ \A V, W : EndsIn(m2, V, W) <=> a \in V \/ (EndsIn(msgs, V, W) /\ a \notin W)
          /\ \A W : Count(m2, W) = Count(msgs, W) + (IF a \in W THEN 1 ELSE 0)
      BY <1>1, <3>1, AppendHas
    <3>3. \A W : Count(msgs, W) \in Nat
      BY <1>1, CountFacts
    <3>4. \A W : a \notin W => Count(m2, W) = Count(msgs, W)
      BY <3>2, <3>3
    <3>5. QED
      BY <3>1, <3>2, <3>4
  <2>3. QED
    BY <2>1, <2>2
<1>7. QED
  BY <1>3, <1>4, <1>5, <1>6

\* Without events no request is carried out while the modem is down.
LEMMA CarryOpening ==
  ASSUME Typed, Opening, NEW ok \in BOOLEAN, NEW a, Carried(ok, a)
  PROVE  Opening' /\ (Recovering' <=> Recovering) /\ (Steady' <=> Steady) /\ (~ok => events # 0)
<1>1. /\ ok = ~down /\ down' = down /\ events' = events /\ mSystemPowerState' = mSystemPowerState
      /\ mIsEngineCapabilitiesKnown' = mIsEngineCapabilitiesKnown
  BY DEF Carried, counts, parkVars
<1>2. /\ Has(reqs', Opens) <=> Has(reqs, Opens)
      /\ Count(reqs', Opens) = Count(reqs, Opens)
  <2>1. Head(reqs) \notin Opens /\ reqs' \in Seq(Made)
        /\ Count(reqs, Opens) = (IF Head(reqs) \in Opens THEN 1 ELSE 0) + Count(reqs', Opens)
    BY CarryReqs
  <2>2. Count(reqs', Opens) \in Nat
    BY <2>1, CountFacts
  <2>3. Has(reqs, Opens) <=> Head(reqs) \in Opens \/ Has(reqs', Opens)
    BY CarryReqs
  <2>4. QED
    BY <2>1, <2>2, <2>3
<1>3. /\ Has(msgs', {EngineUp}) <=> Has(msgs, {EngineUp})
      /\ Count(msgs', {EngineUp}) = Count(msgs, {EngineUp})
      /\ Has(msgs', Failed) => Has(msgs, Failed) \/ ~ok
      /\ EndsIn(msgs', Failed, {EngineUp}) => EndsIn(msgs, Failed, {EngineUp}) \/ ~ok
  <2>1. a # EngineUp /\ a.ok = ok /\ a \notin {EngineUp}
    BY CarryMsgs
  <2>2. a \in Failed => ~ok
    BY <2>1 DEF Failed
  <2>3. /\ Has(msgs', {EngineUp}) <=> Has(msgs, {EngineUp}) \/ (a \in Replies /\ a \in {EngineUp})
        /\ Has(msgs', Failed) <=> Has(msgs, Failed) \/ (a \in Replies /\ a \in Failed)
        /\ EndsIn(msgs', Failed, {EngineUp}) =>
             (a \in Replies /\ a \in Failed) \/ EndsIn(msgs, Failed, {EngineUp})
        /\ a \notin {EngineUp} => Count(msgs', {EngineUp}) = Count(msgs, {EngineUp})
    BY CarryMsgs
  <2>4. QED
    BY <2>1, <2>2, <2>3
<1>4. ~ok => events # 0
  <2>1. Head(reqs) \notin Opens
    BY CarryReqs
  <2>2. QED
    BY <1>1, <2>1 DEF Opening
<1>5. (Recovering' <=> Recovering) /\ (Steady' <=> Steady)
  BY <1>1, <1>3 DEF Recovering, Steady
<1>6. Opening'
  BY <1>1, <1>2, <1>3, <1>4, <1>5 DEF Opening
<1>7. QED
  BY <1>4, <1>5, <1>6

\* What the modem will run for the time-based sessions is the same.
LEMMA CarryTimes ==
  ASSUME Typed, Opening, TimeServed, NEW ok \in BOOLEAN, NEW a, Carried(ok, a)
  PROVE  TimeServed'
<1>1. /\ ok = ~down /\ down' = down /\ events' = events /\ TBS' = TBS /\ Carry(Head(reqs), ok)
  BY DEF Carried, counts, sessions, TBS
<1>2. reqs' \in Seq(Made) /\ (Steady' <=> Steady) /\ (~ok => events # 0)
  BY CarryReqs, CarryOpening
<1>3. CASE ~ok
  <2>1. tbt' = tbt /\ ~Steady'
    BY <1>1, <1>3 DEF Carry, Steady, Recovering
  <2>2. QED
    BY <1>1, <1>2, <1>3, <2>1, AnyServed DEF Typed
<1>4. CASE ok
  <2> DEFINE h == Head(reqs)
  <2>1. PICK o \in Given \cup {NoOptions} :
          Final(reqs, tbt, o) /\ (Steady => Serves(o, TBS)) /\ (events = 0 /\ In(TBS) = {} => o = NoOptions)
    BY DEF TimeServed
  <2>2. /\ h \in Made
        /\ Has(reqs, Timed) <=> h \in Timed \/ Has(reqs', Timed)
        /\ EndsIn(reqs, TimedTo(o), Timed) <=>
             EndsIn(reqs', TimedTo(o), Timed) \/ (h \in TimedTo(o) /\ ~Has(reqs', Timed))
    BY CarryReqs
  <2>3. EndsIn(reqs', TimedTo(o), Timed) => Has(reqs', Timed)
    <3>1. EndsIn(reqs', TimedTo(o), Timed) => Has(reqs', TimedTo(o))
      BY EndsFacts
    <3>2. TimedTo(o) \subseteq Timed
      BY DEF TimedTo
    <3>3. QED
      BY <3>1, <3>2, HasMore
  <2>4. tbt' = IF h \in Timed THEN h.options ELSE tbt
    BY <1>1, <1>4, <2>2 DEF Carry, Timed, Made
  <2>5. h \in TimedTo(o) <=> h \in Timed /\ h.options = o
    BY DEF TimedTo
  <2> HIDE DEF h
  <2>6. Final(reqs', tbt', o)
    BY <2>1, <2>2, <2>3, <2>4, <2>5 DEF Final
  <2>7. QED
    BY <1>1, <1>2, <2>1, <2>6 DEF TimeServed
<1>5. QED
  BY <1>3, <1>4

\* Neither is what it will run for the others, unless it is down.
LEMMA CarryRuns ==
  ASSUME Typed, NEW a, Carried(TRUE, a), NEW z \in Sessions
  PROVE  Runs(reqs', dbt', z) <=> Runs(reqs, dbt, z)
<1> DEFINE h == Head(reqs)
<1>1. Carry(h, TRUE) /\ h \in Made
  BY DEF Carried
<1>2. z \in dbt' <=> h \in Dstarts(z) \/ (z \in dbt /\ h \notin Dstops(z))
  BY <1>1 DEF Carry, Dstarts, Dstops, Made
<1>3. /\ Has(reqs, Dstops(z)) <=> h \in Dstops(z) \/ Has(reqs', Dstops(z))
      /\ EndsIn(reqs, Dstarts(z), Dstops(z)) <=>
           EndsIn(reqs', Dstarts(z), Dstops(z)) \/ (h \in Dstarts(z) /\ ~Has(reqs', Dstops(z)))
  <2>1. TRUE \in BOOLEAN
    OBVIOUS
  <2>2. QED
    BY <2>1, CarryReqs
<1> HIDE DEF h
<1>4. QED
  BY <1>2, <1>3 DEF Runs

\* What is in flight of a session is the same, ...
LEMMA CarryFlight ==
  ASSUME Typed, NEW ok \in BOOLEAN, NEW a, Carried(ok, a), NEW z \in Sessions
  PROVE  /\ \A K : "nothing" \notin K => (InFlight(msgs', reqs', z, K) <=> InFlight(msgs, reqs, z, K))
         /\ RemovedAfter(msgs', reqs', z) <=> RemovedAfter(msgs, reqs, z)
<1> DEFINE h == Head(reqs)
<1>1. /\ \A V : Has(reqs, V) <=> h \in V \/ Has(reqs', V)
      /\ \A V, W : HasThen(reqs, V, W) <=> HasThen(reqs', V, W) \/ (h \in V /\ Has(reqs', W))
  BY CarryReqs
<1>2. /\ \A V : Has(msgs', V) <=> Has(msgs, V) \/ (a \in Replies /\ a \in V)
      /\ \A V, W : HasThen(msgs', V, W) <=>
                     HasThen(msgs, V, W) \/ (Has(msgs, V) /\ a \in Replies /\ a \in W)
      /\ \A K : "nothing" \notin K => (a \in An(z, K) <=> h \in Rq(z, K))
  BY CarryMsgs
<1>3. \A K : a \in An(z, K) => a \in Replies
  BY DEF An
<1> HIDE DEF h
<1>4. \A K : "nothing" \notin K => (InFlight(msgs', reqs', z, K) <=> InFlight(msgs, reqs, z, K))
  BY <1>1, <1>2, <1>3 DEF InFlight
<1>5. RemovedAfter(msgs', reqs', z) <=> RemovedAfter(msgs, reqs, z)
  <2> DEFINE Ad == An(z, {"dupdated"})
             Ar == An(z, {"removed"})
             Qd == Rq(z, {"dupdated"})
             Qr == Rq(z, {"removed"})
  <2>1. /\ a \in Ad <=> h \in Qd
        /\ a \in Ar <=> h \in Qr
        /\ a \in Ad \/ a \in Ar => a \in Replies
    <3>1. "nothing" \notin {"dupdated"} /\ "nothing" \notin {"removed"}
      OBVIOUS
    <3>2. QED
      BY <1>2, <1>3, <3>1
  <2> HIDE DEF Ad, Ar, Qd, Qr
  <2>2. /\ Has(msgs', Ad) <=> Has(msgs, Ad) \/ (a \in Replies /\ a \in Ad)
        /\ HasThen(msgs', Ad, Ar) <=> HasThen(msgs, Ad, Ar) \/ (Has(msgs, Ad) /\ a \in Replies /\ a \in Ar)
        /\ Has(reqs, Qr) <=> h \in Qr \/ Has(reqs', Qr)
        /\ HasThen(reqs, Qd, Qr) <=> HasThen(reqs', Qd, Qr) \/ (h \in Qd /\ Has(reqs', Qr))
    BY <1>1, <1>2
  <2>3. \/ HasThen(msgs', Ad, Ar) \/ (Has(msgs', Ad) /\ Has(reqs', Qr)) \/ HasThen(reqs', Qd, Qr)
        <=> \/ HasThen(msgs, Ad, Ar) \/ (Has(msgs, Ad) /\ Has(reqs, Qr)) \/ HasThen(reqs, Qd, Qr)
    BY <2>1, <2>2, Zenon
  <2>4. QED
    BY <2>3 DEF RemovedAfter, Ad, Ar, Qd, Qr
<1>6. QED
  BY <1>4, <1>5

\* ... and the end of an update runs it, unless its removal is asked.
LEMMA CarryDone ==
  ASSUME Typed, Counted, ClientsWait, NEW ok \in BOOLEAN, NEW a, Carried(ok, a), NEW z \in Sessions,
         a \in DoneOf(z)
  PROVE  Runs(reqs', dbt', z) \/ RemovedAfter(msgs', reqs', z)
<1> DEFINE h == Head(reqs)
<1>1. ok /\ h \in Rq(z, {"dupdated"}) /\ a \in An(z, {"dupdated"}) /\ a \in Replies
  <2>1. a.ok = ok /\ "nothing" \notin {"dupdated"}
        /\ (a \in An(z, {"dupdated"}) <=> h \in Rq(z, {"dupdated"}))
    BY CarryMsgs
  <2>2. a.ok /\ a \in An(z, {"dupdated"})
    BY DEF DoneOf
  <2>3. QED
    BY <2>1, <2>2 DEF An
<1>2. h.call = "dstart" /\ h.session = z /\ h.then = "dupdated" /\ h \in Made
  BY <1>1 DEF Rq, Made
<1>3. z \in dbt'
  BY <1>1, <1>2 DEF Carried, Carry
<1>4. CASE ~Has(reqs', Dstops(z))
  BY <1>3, <1>4 DEF Runs
<1>5. CASE Has(reqs', Dstops(z))
  <2>1. ~Has(reqs', Rq(z, ActiveThens))
    <3> DEFINE V == Rq(z, ActiveThens)
    <3>1. h \in V
      BY <1>2 DEF Rq, ActiveThens, ClientThens, Thens
    <3>2. /\ reqs' \in Seq(Made)
          /\ Count(reqs, V) = (IF h \in V THEN 1 ELSE 0) + Count(reqs', V)
      BY CarryReqs
    <3>3. Count(reqs, V) <= 1
      <4>1. Count(mPendingMsgs, Pk(z)) + Count(msgs, Pk(z) \cup An(z, ActiveThens)) + Count(reqs, V) <= 1
        BY DEF Counted, Amount
      <4>2. /\ Count(mPendingMsgs, Pk(z)) \in Nat /\ Count(reqs, V) \in Nat
            /\ Count(msgs, Pk(z) \cup An(z, ActiveThens)) \in Nat
        BY CountFacts DEF Typed
      <4> HIDE DEF V
      <4>3. QED
        BY <4>1, <4>2
    <3>4. Count(reqs', V) \in Nat /\ (Count(reqs', V) = 0 <=> ~Has(reqs', V))
      BY <3>2, CountFacts
    <3> HIDE DEF V
    <3>5. ~Has(reqs', V)
      BY <3>1, <3>2, <3>3, <3>4
    <3>6. QED
      BY <3>5 DEF V
  <2>2. PICK i \in DOMAIN reqs' : reqs'[i] \in Dstops(z)
    BY <1>5 DEF Has
  <2>3. reqs'[i] \notin Rq(z, ActiveThens)
    BY <2>1 DEF Has
  <2>4. reqs'[i] \in Rq(z, {"removed"})
    BY <2>2, <2>3 DEF Dstops, Rq, Made, ActiveThens, ClientThens, Thens
  <2>5. Has(reqs', Rq(z, {"removed"}))
    BY <2>4 DEF Has
  <2>6. Has(msgs', An(z, {"dupdated"}))
    BY <1>1, CarryMsgs
  <2>7. QED
    BY <2>5, <2>6 DEF RemovedAfter
<1>6. QED
  BY <1>4, <1>5

\* A request is carried out.
LEMMA CarryServing ==
  ASSUME Typed, Counted, ClientsWait, Serving, CarryOut
  PROVE  Serving'
<1>0. PICK a : \E ok \in BOOLEAN : Carried(ok, a)
  BY CarriedOut
<1>1. PICK ok \in BOOLEAN : Carried(ok, a)
  BY <1>0
<1>2. /\ ok = ~down /\ down' = down /\ events' = events
      /\ mIsEngineCapabilitiesKnown' = mIsEngineCapabilitiesKnown /\ mPendingMsgs' = mPendingMsgs
      /\ TBS' = TBS /\ DBS' = DBS /\ owner' = owner /\ removed' = removed
  BY <1>1 DEF Carried, counts, sessions, parkVars, clientVars, TBS, DBS
<1>3. Opening /\ TimeServed /\ \A z \in Sessions : Followed(z)
  BY DEF Serving
<1>4. Opening' /\ (Steady' <=> Steady) /\ (~ok => events # 0)
  BY <1>1, <1>3, CarryOpening
<1>5. TimeServed'
  BY <1>1, <1>3, CarryTimes
<1>6. ASSUME NEW z \in Sessions PROVE Followed(z)'
  <2>1. /\ \A K : "nothing" \notin K => (InFlight(msgs', reqs', z, K) <=> InFlight(msgs, reqs, z, K))
        /\ RemovedAfter(msgs', reqs', z) <=> RemovedAfter(msgs, reqs, z)
    BY <1>1, CarryFlight
  <2>2. ok => (Runs(reqs', dbt', z) <=> Runs(reqs, dbt, z))
    BY <1>1, CarryRuns
  <2>3. /\ IsParked(mPendingMsgs', msgs', z) <=> IsParked(mPendingMsgs, msgs, z)
        /\ Has(msgs', Starts(z)) => Has(msgs, Starts(z))
        /\ EndsIn(msgs', DoneOf(z), {EngineUp}) => EndsIn(msgs, DoneOf(z), {EngineUp}) \/ a \in DoneOf(z)
    <3>1. /\ \A V : Has(msgs', V) <=> Has(msgs, V) \/ (a \in Replies /\ a \in V)
          /\ \A V, W : EndsIn(msgs', V, W) <=>
                         (a \in Replies /\ a \in V) \/ (EndsIn(msgs, V, W) /\ ~(a \in Replies /\ a \in W))
          /\ a \notin Pk(z) /\ a \notin Starts(z)
      BY <1>1, CarryMsgs
    <3>2. QED
      BY <1>2, <3>1 DEF IsParked
  <2>4. a \in DoneOf(z) => Runs(reqs', dbt', z) \/ RemovedAfter(msgs', reqs', z)
    BY <1>1, CarryDone
  <2>5. Unmoved(z)
    BY <1>2, <1>4, <2>1, <2>2, <2>3, <2>4 DEF Unmoved
  <2>6. QED
    BY <1>3, <2>5, UnmovedKept
<1>7. QED
  BY <1>4, <1>5, <1>6 DEF Serving

-----------------------------------------------------------------------------
(* Restarts and suspensions.                                                   *)

\* The requests q start again all that the maps have.
Restarts(q) ==
  /\ \A z \in Sessions : Has(q, Dstarts(z)) <=> z \in In(DBS)
  /\ In(TBS) = {} => ~Has(q, Timed)
  /\ In(TBS) # {} => \E o \in Given : EndsIn(q, TimedTo(o), Timed) /\ Serves(o, TBS)

\* So does a restart, and also one that follows a suspension or another restart.
LEMMA RestartsAll ==
  ASSUME Typed, NEW q, \/ q = restartSessions(TBS, DBS)
                       \/ q = suspendSessions(TBS) \o restartSessions(TBS, DBS)
                       \/ q = restartSessions(TBS, DBS) \o restartSessions(TBS, DBS)
  PROVE  Restarts(q)
<1> DEFINE R == restartSessions(TBS, DBS)
           S == suspendSessions(TBS)
<1>1. /\ R \in Seq(Made)
      /\ \A z \in Sessions : Has(R, Dstarts(z)) <=> z \in In(DBS)
      /\ In(TBS) = {} => ~Has(R, Timed)
      /\ In(TBS) # {} => \E o \in Given : EndsIn(R, TimedTo(o), Timed) /\ Serves(o, TBS)
  BY RestartFacts DEF Typed
<1>2. /\ S \in Seq(Made)
      /\ \A z \in Sessions : ~Has(S, Dstarts(z))
      /\ In(TBS) = {} => ~Has(S, Timed)
  <2>1. S \in Seq(Made) /\ \A i \in DOMAIN S : S[i].call = "stop"
    BY SuspendFacts DEF Typed
  <2>2. \A z \in Sessions : ~Has(S, Dstarts(z))
    <3> HIDE DEF S
    <3>1. QED
      BY <2>1 DEF Has, Dstarts
  <2>3. In(TBS) = {} => ~Has(S, Timed)
    BY ShortHas DEF suspendSessions
  <2>4. QED
    BY <2>1, <2>2, <2>3
<1>3. q = R \/ q = S \o R \/ q = R \o R
  OBVIOUS
<1> HIDE DEF R, S
<1>4. CASE q = R
  BY <1>1, <1>4 DEF Restarts
<1>5. ASSUME NEW p \in Seq(Made), Joined(q, p, R),
             \A z \in Sessions : Has(p, Dstarts(z)) => z \in In(DBS),
             In(TBS) = {} => ~Has(p, Timed)
      PROVE  Restarts(q)
  <2>1. /\ \A V : Has(q, V) <=> Has(p, V) \/ Has(R, V)
        /\ \A V, W : EndsIn(q, V, W) <=> EndsIn(R, V, W) \/ (EndsIn(p, V, W) /\ ~Has(R, W))
    BY <1>1, <1>5, JoinHas
  <2>2. \A z \in Sessions : Has(q, Dstarts(z)) <=> z \in In(DBS)
    BY <1>1, <1>5, <2>1
  <2>3. In(TBS) = {} => ~Has(q, Timed)
    BY <1>1, <1>5, <2>1
  <2>4. In(TBS) # {} => \E o \in Given : EndsIn(q, TimedTo(o), Timed) /\ Serves(o, TBS)
    BY <1>1, <2>1
  <2>5. QED
    BY <2>2, <2>3, <2>4 DEF Restarts
<1>6. CASE q = S \o R
  <2>1. Joined(q, S, R)
    BY <1>6 DEF Joined
  <2>2. QED
    BY <1>2, <1>5, <2>1
<1>7. CASE q = R \o R
  <2>1. Joined(q, R, R)
    BY <1>7 DEF Joined
  <2>2. QED
    BY <1>1, <1>5, <2>1
<1>8. QED
  BY <1>3, <1>4, <1>6, <1>7

\* The time-based sessions are served after it.
LEMMA RestartsServed ==
  ASSUME Typed, TimeServed, NEW q \in Seq(Made), Joined(reqs', reqs, q), Restarts(q),
         tbt' = tbt, TBS' = TBS, events' = 0 => events = 0
  PROVE  TimeServed'
<1> DEFINE r2 == reqs'
<1>1. PICK o \in Given \cup {NoOptions} : Final(reqs, tbt, o) /\ (events = 0 /\ In(TBS) = {} => o = NoOptions)
  BY DEF TimeServed
<1>2. reqs \in Seq(Made) /\ Joined(r2, reqs, q)
  BY DEF Typed
<1>3. CASE In(TBS) = {}
  <2>1. ~Has(q, Timed)
    BY <1>3 DEF Restarts
  <2>2. Final(r2, tbt, o)
    <3> HIDE DEF r2
    <3>1. QED
      BY <1>1, <1>2, <2>1, FinalKept
  <2>3. Serves(o, TBS)
    BY <1>3 DEF Serves
  <2>4. QED
    BY <1>1, <2>2, <2>3 DEF TimeServed
<1>4. CASE In(TBS) # {}
  <2>1. PICK p \in Given : EndsIn(q, TimedTo(p), Timed) /\ Serves(p, TBS)
    BY <1>4 DEF Restarts
  <2>2. Has(q, Timed)
    <3>1. TimedTo(p) \subseteq Timed
      BY DEF TimedTo
    <3>2. Has(q, TimedTo(p))
      BY <2>1, EndsFacts
    <3>3. QED
      BY <3>1, <3>2, HasMore
  <2>3. Final(r2, tbt, p)
    <3> HIDE DEF r2
    <3>1. /\ Has(r2, Timed) <=> Has(reqs, Timed) \/ Has(q, Timed)
          /\ EndsIn(r2, TimedTo(p), Timed) <=>
               EndsIn(q, TimedTo(p), Timed) \/ (EndsIn(reqs, TimedTo(p), Timed) /\ ~Has(q, Timed))
      BY <1>2, JoinHas
    <3>2. QED
      BY <2>1, <2>2, <3>1 DEF Final
  <2>4. QED
    BY <1>4, <2>1, <2>3 DEF TimeServed
<1>5. QED
  BY <1>3, <1>4

\* Requests that are nobody's do not change what is in flight, and stop no
\* distance-based session.
LEMMA AsksFacts ==
  ASSUME Typed, NEW q, Asks(q)
  PROVE  /\ q \in Seq(Made) /\ reqs' \in Seq(Made) /\ Joined(reqs', reqs, q)
         /\ Has(reqs', Opens) <=> Has(reqs, Opens)
         /\ Count(reqs', Opens) = Count(reqs, Opens)
         /\ reqs # <<>> => reqs' # <<>> /\ Head(reqs') = Head(reqs)
         /\ \A z \in Sessions :
              /\ \A K : "nothing" \notin K => (Has(reqs', Rq(z, K)) <=> Has(reqs, Rq(z, K)))
              /\ HasThen(reqs', Rq(z, {"dupdated"}), Rq(z, {"removed"}))
                   <=> HasThen(reqs, Rq(z, {"dupdated"}), Rq(z, {"removed"}))
              /\ Runs(reqs', dbt, z) <=> Has(q, Dstarts(z)) \/ Runs(reqs, dbt, z)
<1> DEFINE r2 == reqs'
<1>1. q \in Seq(Made) /\ Joined(r2, reqs, q) /\ reqs \in Seq(Made)
  BY DEF Asks, Typed
<1>2. ~Has(q, Opens) /\ \A z \in Sessions : ~Has(q, Dstops(z)) /\ \A K : "nothing" \notin K => ~Has(q, Rq(z, K))
  BY DEF Asks, Has, Opens, Dstops, Rq
<1> HIDE DEF r2
<1>3. /\ r2 \in Seq(Made)
      /\ \A V : Has(r2, V) <=> Has(reqs, V) \/ Has(q, V)
      /\ \A V, W : HasThen(r2, V, W) <=>
                     HasThen(reqs, V, W) \/ HasThen(q, V, W) \/ (Has(reqs, V) /\ Has(q, W))
      /\ Count(r2, Opens) = Count(reqs, Opens) + Count(q, Opens)
  BY <1>1, JoinHas
<1>4. Count(r2, Opens) = Count(reqs, Opens)
  <2>1. Count(q, Opens) = 0 /\ Count(reqs, Opens) \in Nat
    BY <1>1, <1>2, CountFacts
  <2>2. QED
    BY <1>3, <2>1
<1>5. reqs # <<>> => r2 # <<>> /\ Head(r2) = Head(reqs)
  BY <1>1, HeadJoined
<1>6. ASSUME NEW z \in Sessions
      PROVE  /\ \A K : "nothing" \notin K => (Has(r2, Rq(z, K)) <=> Has(reqs, Rq(z, K)))
             /\ HasThen(r2, Rq(z, {"dupdated"}), Rq(z, {"removed"}))
                  <=> HasThen(reqs, Rq(z, {"dupdated"}), Rq(z, {"removed"}))
             /\ Runs(r2, dbt, z) <=> Has(q, Dstarts(z)) \/ Runs(reqs, dbt, z)
  <2>1. \A K : "nothing" \notin K => (Has(r2, Rq(z, K)) <=> Has(reqs, Rq(z, K)))
    BY <1>2, <1>3
  <2>2. ~Has(q, Rq(z, {"removed"}))
    <3>1. "nothing" \notin {"removed"}
      OBVIOUS
    <3>2. QED
      BY <1>2, <3>1
  <2>3. ~HasThen(q, Rq(z, {"dupdated"}), Rq(z, {"removed"}))
    BY <2>2, EndsFacts
  <2>4. EndsIn(q, Dstarts(z), Dstops(z)) <=> Has(q, Dstarts(z))
    BY <1>2, EndsFacts
  <2>5. Runs(r2, dbt, z) <=>
          EndsIn(q, Dstarts(z), Dstops(z)) \/ (Runs(reqs, dbt, z) /\ ~Has(q, Dstops(z)))
    BY <1>1, RunsAfter
  <2>6. QED
    BY <1>2, <1>3, <2>1, <2>2, <2>3, <2>4, <2>5
<1>7. QED
  BY <1>1, <1>2, <1>3, <1>4, <1>5, <1>6 DEF r2

\* A power event or a configuration: a suspension, or a restart.
LEMMA EventRestarts ==
  ASSUME Typed,
         \/ \E state \in {"suspend", "resume"} : updateSystemPowerState(state)
         \/ UpdateConfig
  PROVE  \E q : /\ Asks(q)
                /\ \/ mSystemPowerState' = "suspend" /\ ~Steady'
                   \/ Restarts(q)
<1>1. CASE UpdateConfig
  <2> DEFINE q == suspendSessions(TBS) \o restartSessions(TBS, DBS)
  <2>1. Ask(q)
    BY <1>1 DEF UpdateConfig
  <2>2. Asks(q)
    BY <2>1, RestartAsks
  <2>3. Restarts(q)
    BY RestartsAll
  <2>4. QED
    BY <2>2, <2>3
<1>2. CASE updateSystemPowerState("suspend")
  <2> DEFINE q == suspendSessions(TBS)
  <2>1. Ask(q) /\ mSystemPowerState' = "suspend"
    BY <1>2 DEF updateSystemPowerState
  <2>2. Asks(q)
    BY <2>1, RestartAsks
  <2>3. QED
    BY <2>1, <2>2 DEF Steady
<1>3. CASE updateSystemPowerState("resume")
  <2> DEFINE q == restartSessions(TBS, DBS)
  <2>1. Ask(q)
    BY <1>3 DEF updateSystemPowerState
  <2>2. Asks(q)
    BY <2>1, RestartAsks
  <2>3. Restarts(q)
    BY RestartsAll
  <2>4. QED
    BY <2>2, <2>3
<1>4. QED
  BY <1>1, <1>2, <1>3

\* A power event or a configuration.
LEMMA EventServing ==
  ASSUME Typed, Serving,
         \/ \E state \in {"suspend", "resume"} : updateSystemPowerState(state)
         \/ UpdateConfig
  PROVE  Serving'
<1>1. PICK q : /\ Asks(q)
               /\ \/ mSystemPowerState' = "suspend" /\ ~Steady'
                  \/ Restarts(q)
  BY EventRestarts
<1>2. /\ events' # 0 /\ TBS' = TBS /\ DBS' = DBS /\ owner' = owner /\ removed' = removed
      /\ mIsEngineCapabilitiesKnown' = mIsEngineCapabilitiesKnown /\ mPendingMsgs' = mPendingMsgs
      /\ msgs' = msgs /\ down' = down /\ tbt' = tbt /\ dbt' = dbt
  <2>1. Event /\ UNCHANGED <<clientVars, sessions, parkVars, msgs, modem>>
    BY DEF updateSystemPowerState, UpdateConfig
  <2>2. QED
    BY <2>1, EventBound DEF clientVars, sessions, parkVars, modem, TBS, DBS
<1>3. Opening /\ TimeServed /\ \A z \in Sessions : Followed(z)
  BY DEF Serving
<1>4. /\ q \in Seq(Made) /\ reqs' \in Seq(Made) /\ Joined(reqs', reqs, q)
      /\ Has(reqs', Opens) <=> Has(reqs, Opens)
      /\ Count(reqs', Opens) = Count(reqs, Opens)
  BY <1>1, AsksFacts
<1>5. Opening'
  BY <1>2, <1>3, <1>4 DEF Opening
<1>6. TimeServed'
  <2>1. CASE ~Steady'
    <3>1. tbt' \in Given \cup {NoOptions}
      BY <1>2 DEF Typed
    <3>2. QED
      BY <1>2, <1>4, <2>1, <3>1, AnyServed
  <2>2. CASE Restarts(q)
    BY <1>2, <1>3, <1>4, <2>2, RestartsServed
  <2>3. QED
    BY <1>1, <2>1, <2>2
<1>7. ASSUME NEW z \in Sessions PROVE Followed(z)'
  <2>1. /\ \A K : "nothing" \notin K => (Has(reqs', Rq(z, K)) <=> Has(reqs, Rq(z, K)))
        /\ HasThen(reqs', Rq(z, {"dupdated"}), Rq(z, {"removed"}))
             <=> HasThen(reqs, Rq(z, {"dupdated"}), Rq(z, {"removed"}))
        /\ Runs(reqs', dbt, z) <=> Has(q, Dstarts(z)) \/ Runs(reqs, dbt, z)
    BY <1>1, AsksFacts
  <2>2. \A K : "nothing" \notin K => (InFlight(msgs, reqs', z, K) <=> InFlight(msgs, reqs, z, K))
    BY <2>1 DEF InFlight
  <2>3. RemovedAfter(msgs, reqs', z) <=> RemovedAfter(msgs, reqs, z)
    <3>1. "nothing" \notin {"removed"}
      OBVIOUS
    <3>2. Has(reqs', Rq(z, {"removed"})) <=> Has(reqs, Rq(z, {"removed"}))
      BY <2>1, <3>1
    <3>3. QED
      BY <2>1, <3>2 DEF RemovedAfter
  <2>4. Steady' => z \notin In(DBS) \/ Runs(reqs', dbt, z)
    BY <1>1, <2>1 DEF Restarts
  <2>5. Unmoved(z)
    BY <1>2, <2>1, <2>2, <2>3, <2>4 DEF Unmoved
  <2>6. QED
    BY <1>3, <2>5, UnmovedKept
<1>8. QED
  BY <1>5, <1>6, <1>7 DEF Serving

\* What was parked is posted after the message that the modem is up.
LEMMA RepostFacts ==
  ASSUME NEW m \in Seq(Msgs), NEW p \in Seq(Waiting), NEW m2, Reposted(m2, m, p)
  PROVE  /\ Has(m, {EngineUp}) /\ Count(m, {EngineUp}) = 1 + Count(m2, {EngineUp})
         /\ Has(m2, {EngineUp}) <=> Count(m2, {EngineUp}) # 0
         /\ Count(m2, {EngineUp}) \in Nat
         /\ Has(m2, Failed) <=> Has(m, Failed)
         /\ EndsIn(m2, Failed, {EngineUp}) => EndsIn(m, Failed, {EngineUp})
         /\ \A z \in Sessions :
              /\ \A K : Has(m2, An(z, K)) <=> Has(m, An(z, K))
              /\ HasThen(m2, An(z, {"dupdated"}), An(z, {"removed"}))
                   <=> HasThen(m, An(z, {"dupdated"}), An(z, {"removed"}))
              /\ Has(m2, Pk(z)) <=> Has(m, Pk(z)) \/ Has(p, Pk(z))
              /\ Has(m2, Starts(z)) <=> Has(m, Starts(z)) \/ Has(p, Starts(z))
              /\ EndsIn(m2, DoneOf(z), {EngineUp}) => EndsIn(m, DoneOf(z), {EngineUp})
<1> DEFINE T == Tail(m)
<1>1. m # <<>> /\ Head(m) = EngineUp /\ Joined(m2, T, p)
  BY DEF Reposted
<1>2. /\ T \in Seq(Msgs)
      /\ \A V : Has(m, V) <=> EngineUp \in V \/ Has(T, V)
      /\ \A V, W : HasThen(m, V, W) <=> HasThen(T, V, W) \/ (EngineUp \in V /\ Has(T, W))
      /\ \A V, W : EndsIn(m, V, W) <=> EndsIn(T, V, W) \/ (EngineUp \in V /\ ~Has(T, W))
      /\ \A W : Count(m, W) = (IF EngineUp \in W THEN 1 ELSE 0) + Count(T, W)
  BY <1>1, TailHas
<1>3. p \in Seq(Msgs)
  BY SeqMonotonic DEF Msgs
<1> HIDE DEF T
<1>4. /\ m2 \in Seq(Msgs)
      /\ \A V : Has(m2, V) <=> Has(T, V) \/ Has(p, V)
      /\ \A V, W : HasThen(m2, V, W) <=>
                     HasThen(T, V, W) \/ HasThen(p, V, W) \/ (Has(T, V) /\ Has(p, W))
      /\ \A V, W : EndsIn(m2, V, W) <=> EndsIn(p, V, W) \/ (EndsIn(T, V, W) /\ ~Has(p, W))
      /\ \A W : Count(m2, W) = Count(T, W) + Count(p, W)
  BY <1>1, <1>2, <1>3, JoinHas
<1>5. \A i \in DOMAIN p : p[i] \in Waiting
  BY LenProperties, ElementOfSeq
<1>6. /\ ~Has(p, {EngineUp}) /\ ~Has(p, Failed)
      /\ \A z \in Sessions : (\A K : ~Has(p, An(z, K))) /\ ~Has(p, DoneOf(z))
  BY <1>5 DEF Has, Waiting, EngineUp, Failed, An, DoneOf, Replies
<1>7. /\ EngineUp \notin Failed
      /\ \A z \in Sessions : /\ EngineUp \notin Pk(z) /\ EngineUp \notin Starts(z)
                             /\ EngineUp \notin DoneOf(z) /\ \A K : EngineUp \notin An(z, K)
  BY EngineUpFacts
<1>8. Count(T, {EngineUp}) \in Nat /\ Count(p, {EngineUp}) = 0
      /\ (Count(m2, {EngineUp}) = 0 <=> ~Has(m2, {EngineUp}))
  BY <1>2, <1>3, <1>4, <1>6, CountFacts
<1>9. /\ Has(m, {EngineUp}) /\ Count(m, {EngineUp}) = 1 + Count(m2, {EngineUp})
      /\ Count(m2, {EngineUp}) \in Nat
  <2>1. Count(m, {EngineUp}) = 1 + Count(T, {EngineUp}) /\ Has(m, {EngineUp})
    BY <1>2
  <2>2. Count(m2, {EngineUp}) = Count(T, {EngineUp}) + Count(p, {EngineUp})
    BY <1>4
  <2>3. QED
    BY <1>8, <2>1, <2>2
<1>10. /\ Has(m2, Failed) <=> Has(m, Failed)
       /\ EndsIn(m2, Failed, {EngineUp}) => EndsIn(m, Failed, {EngineUp})
  <2>1. ~EndsIn(p, Failed, {EngineUp})
    BY <1>6, EndsFacts
  <2>2. QED
    BY <1>2, <1>4, <1>6, <1>7, <2>1
<1>11. ASSUME NEW z \in Sessions
       PROVE  /\ \A K : Has(m2, An(z, K)) <=> Has(m, An(z, K))
              /\ HasThen(m2, An(z, {"dupdated"}), An(z, {"removed"}))
                   <=> HasThen(m, An(z, {"dupdated"}), An(z, {"removed"}))
              /\ Has(m2, Pk(z)) <=> Has(m, Pk(z)) \/ Has(p, Pk(z))
              /\ Has(m2, Starts(z)) <=> Has(m, Starts(z)) \/ Has(p, Starts(z))
              /\ EndsIn(m2, DoneOf(z), {EngineUp}) => EndsIn(m, DoneOf(z), {EngineUp})
  <2>1. ~EndsIn(p, DoneOf(z), {EngineUp}) /\ ~HasThen(p, An(z, {"dupdated"}), An(z, {"removed"}))
    BY <1>6, EndsFacts
  <2>2. \A K : Has(m2, An(z, K)) <=> Has(m, An(z, K))
    BY <1>2, <1>4, <1>6, <1>7
  <2>3. HasThen(m2, An(z, {"dupdated"}), An(z, {"removed"}))
          <=> HasThen(m, An(z, {"dupdated"}), An(z, {"removed"}))
    BY <1>2, <1>4, <1>6, <1>7, <2>1
  <2>4. /\ Has(m2, Pk(z)) <=> Has(m, Pk(z)) \/ Has(p, Pk(z))
        /\ Has(m2, Starts(z)) <=> Has(m, Starts(z)) \/ Has(p, Starts(z))
    BY <1>2, <1>4, <1>7
  <2>5. EndsIn(m2, DoneOf(z), {EngineUp}) => EndsIn(m, DoneOf(z), {EngineUp})
    BY <1>2, <1>4, <2>1
  <2>6. QED
    BY <2>2, <2>3, <2>4, <2>5
<1>12. QED
  BY <1>8, <1>9, <1>10, <1>11

\* The message that the modem is up: a suspension after a suspension, else a restart.
LEMMA UpRestarts ==
  ASSUME Typed, MsgHandleEngineUpEvent
  PROVE  \E q : Asks(q) /\ (mSystemPowerState = "suspend" \/ Restarts(q))
<1> DEFINE R == restartSessions(TBS, DBS)
<1>1. CASE mSystemPowerState = "suspend"
  <2>1. PICK q : Asks(q)
    BY EventAsks
  <2>2. QED
    BY <1>1, <2>1
<1>2. CASE mSystemPowerState = "resume"
  <2>1. Ask(R \o R)
    BY <1>2 DEF MsgHandleEngineUpEvent
  <2>2. Asks(R \o R)
    BY <2>1, RestartAsks
  <2>3. Restarts(R \o R)
    BY RestartsAll
  <2>4. QED
    BY <2>2, <2>3
<1>3. CASE mSystemPowerState = "unknown"
  <2>1. R \in Seq(Made)
    BY RestartFacts DEF Typed
  <2>2. <<>> \o R = R
    <3> HIDE DEF R
    <3>1. QED
      BY <2>1, ConcatEmptySeq
  <2>3. Ask(<<>> \o R)
    BY <1>3 DEF MsgHandleEngineUpEvent
  <2>4. Ask(R)
    BY <2>2, <2>3, Zenon
  <2>5. Asks(R)
    BY <2>4, RestartAsks
  <2>6. Restarts(R)
    BY RestartsAll
  <2>7. QED
    BY <2>5, <2>6
<1>4. QED
  BY <1>1, <1>2, <1>3 DEF Typed

\* The message that the modem is up is handled.
LEMMA UpServing ==
  ASSUME Typed, Serving, MsgHandleEngineUpEvent
  PROVE  Serving'
<1>1. PICK q : Asks(q) /\ (mSystemPowerState = "suspend" \/ Restarts(q))
  BY UpRestarts
<1>2. /\ Reposted(msgs', msgs, mPendingMsgs) /\ mPendingMsgs' = <<>> /\ mIsEngineCapabilitiesKnown'
      /\ TBS' = TBS /\ DBS' = DBS /\ owner' = owner /\ removed' = removed
      /\ mSystemPowerState' = mSystemPowerState /\ down' = down /\ tbt' = tbt /\ dbt' = dbt
      /\ events' = events
  BY UpFacts DEF Reposted, clientVars, sessions, modem, counts, TBS, DBS
<1>3. Opening /\ TimeServed /\ \A z \in Sessions : Followed(z)
  BY DEF Serving
<1>4. /\ q \in Seq(Made) /\ reqs' \in Seq(Made) /\ Joined(reqs', reqs, q)
      /\ Has(reqs', Opens) <=> Has(reqs, Opens)
      /\ Count(reqs', Opens) = Count(reqs, Opens)
      /\ reqs # <<>> => reqs' # <<>> /\ Head(reqs') = Head(reqs)
  BY <1>1, AsksFacts
<1> DEFINE m2 == msgs'
<1>5. msgs \in Seq(Msgs) /\ mPendingMsgs \in Seq(Waiting) /\ Reposted(m2, msgs, mPendingMsgs)
  BY <1>2 DEF Typed
<1> HIDE DEF m2
<1>6. /\ Has(msgs, {EngineUp}) /\ Count(msgs, {EngineUp}) = 1 + Count(m2, {EngineUp})
      /\ Has(m2, {EngineUp}) <=> Count(m2, {EngineUp}) # 0
      /\ Count(m2, {EngineUp}) \in Nat
      /\ Has(m2, Failed) <=> Has(msgs, Failed)
      /\ EndsIn(m2, Failed, {EngineUp}) => EndsIn(msgs, Failed, {EngineUp})
  BY <1>5, RepostFacts
<1>7. /\ Recovering
      /\ events = 0 => /\ ~mIsEngineCapabilitiesKnown /\ mSystemPowerState = "unknown"
                       /\ ~down /\ Count(m2, {EngineUp}) = 0 /\ ~Has(m2, {EngineUp})
  <2>1. Recovering
    BY <1>6 DEF Recovering
  <2>2. events = 0 => Count(msgs, {EngineUp}) <= 1 /\ ~down /\ ~mIsEngineCapabilitiesKnown
                      /\ mSystemPowerState = "unknown"
    BY <1>3, <1>6, <2>1 DEF Opening
  <2>3. events = 0 => Count(m2, {EngineUp}) = 0
    BY <1>6, <2>2
  <2>4. QED
    BY <1>6, <2>1, <2>2, <2>3
<1>8. Opening'
  <2>1. events = 0 => ~Recovering' /\ ~down' /\ Count(m2, {EngineUp}) <= 1
    BY <1>2, <1>7 DEF Recovering, m2
  <2>2. QED
    BY <1>2, <1>3, <1>4, <1>6, <1>7, <2>1 DEF Opening, m2
<1>9. TimeServed'
  <2>1. CASE mSystemPowerState = "suspend"
    <3>1. tbt' \in Given \cup {NoOptions} /\ ~Steady' /\ events' # 0
      BY <1>2, <1>7, <2>1 DEF Typed, Steady
    <3>2. QED
      BY <1>4, <3>1, AnyServed
  <2>2. CASE Restarts(q)
    BY <1>2, <1>3, <1>4, <2>2, RestartsServed
  <2>3. QED
    BY <1>1, <2>1, <2>2
<1>10. ASSUME NEW z \in Sessions PROVE Followed(z)'
  <2>1. /\ \A K : "nothing" \notin K => (Has(reqs', Rq(z, K)) <=> Has(reqs, Rq(z, K)))
        /\ HasThen(reqs', Rq(z, {"dupdated"}), Rq(z, {"removed"}))
             <=> HasThen(reqs, Rq(z, {"dupdated"}), Rq(z, {"removed"}))
        /\ Runs(reqs', dbt, z) <=> Has(q, Dstarts(z)) \/ Runs(reqs, dbt, z)
    BY <1>1, AsksFacts
  <2>2. /\ \A K : Has(m2, An(z, K)) <=> Has(msgs, An(z, K))
        /\ HasThen(m2, An(z, {"dupdated"}), An(z, {"removed"}))
             <=> HasThen(msgs, An(z, {"dupdated"}), An(z, {"removed"}))
        /\ Has(m2, Pk(z)) <=> Has(msgs, Pk(z)) \/ Has(mPendingMsgs, Pk(z))
        /\ Has(m2, Starts(z)) <=> Has(msgs, Starts(z)) \/ Has(mPendingMsgs, Starts(z))
        /\ EndsIn(m2, DoneOf(z), {EngineUp}) => EndsIn(msgs, DoneOf(z), {EngineUp})
    BY <1>5, RepostFacts
  <2>3. \A K : "nothing" \notin K => (InFlight(m2, reqs', z, K) <=> InFlight(msgs, reqs, z, K))
    BY <2>1, <2>2 DEF InFlight
  <2>4. RemovedAfter(m2, reqs', z) <=> RemovedAfter(msgs, reqs, z)
    <3>1. "nothing" \notin {"removed"}
      OBVIOUS
    <3>2. Has(reqs', Rq(z, {"removed"})) <=> Has(reqs, Rq(z, {"removed"}))
      BY <2>1, <3>1
    <3>3. QED
      BY <2>1, <2>2, <3>2 DEF RemovedAfter
  <2>5. /\ IsParked(mPendingMsgs', m2, z) <=> IsParked(mPendingMsgs, msgs, z)
        /\ Has(mPendingMsgs', Starts(z)) \/ Has(m2, Starts(z)) =>
             Has(mPendingMsgs, Starts(z)) \/ Has(msgs, Starts(z))
    <3>1. ~Has(<<>>, Pk(z)) /\ ~Has(<<>>, Starts(z))
      BY ShortHas
    <3>2. ~Has(mPendingMsgs', Pk(z)) /\ ~Has(mPendingMsgs', Starts(z))
      BY <1>2, <3>1
    <3>3. QED
      BY <2>2, <3>2 DEF IsParked
  <2>6. Steady' => z \notin In(DBS) \/ Runs(reqs', dbt, z)
    BY <1>1, <1>2, <2>1 DEF Restarts, Steady
  <2>7. events = 0 => (Runs(reqs', dbt, z) <=> Runs(reqs, dbt, z))
    <3>1. events = 0 => z \notin In(DBS)
      BY <1>3, <1>7 DEF Followed, Placed
    <3>2. events = 0 => Restarts(q)
      BY <1>1, <1>7
    <3>3. QED
      BY <2>1, <3>1, <3>2 DEF Restarts
  <2>8. Unmoved(z)
    BY <1>2, <2>1, <2>2, <2>3, <2>4, <2>5, <2>6, <2>7 DEF Unmoved, m2
  <2>9. QED
    BY <1>3, <2>8, UnmovedKept
<1>11. QED
  BY <1>8, <1>9, <1>10 DEF Serving

-----------------------------------------------------------------------------
(* A client is removed.                                                        *)

\* What it asks stops its distance-based sessions and leaves to the modem what the
\* time-based sessions of the others need.
Leaves(c, t) ==
  /\ t \in Seq(Made) /\ Joined(reqs', reqs, t) /\ Turned(t, TBS, TBS')
  /\ ~Has(t, Opens)
  /\ \A z \in Sessions :
       /\ owner[z] # c => \A K : ~Has(t, Rq(z, K))
       /\ ~Has(t, Rq(z, ActiveThens))
       /\ Has(t, Rq(z, {"removed"})) <=> z \in In(DBS) /\ owner[z] = c
       /\ Has(t, Dstops(z)) <=> z \in In(DBS) /\ owner[z] = c
       /\ ~Has(t, Dstarts(z))

\* The removal of a client does.
LEMMA RemoveLeaves ==
  ASSUME Typed, NEW c, NEW q, NEW p, Removes(c, q, p)
  PROVE  \E t : Leaves(c, t)
<1>1. PICK t : Joined(t, q, p) /\ Joined(reqs', reqs, t)
  BY DEF Removes
<1>2. /\ q \in Seq(Made) /\ p \in Seq(Made) /\ Turned(q, TBS, TBS')
      /\ \A i \in DOMAIN q : q[i] \in Timed /\ q[i].then \in {"started", "respond"}
      /\ \A i \in DOMAIN p : p[i].call = "dstop"
      /\ \A s \in In(DBS) : owner[s] = c => Has(p, Rq(s, {"removed"}))
  BY DEF Removes
<1>3. /\ t \in Seq(Made)
      /\ \A V : Has(t, V) <=> Has(q, V) \/ Has(p, V)
      /\ \A V, W : EndsIn(t, V, W) <=> EndsIn(p, V, W) \/ (EndsIn(q, V, W) /\ ~Has(p, W))
  BY <1>1, <1>2, JoinHas
<1>4. ~Has(q, Opens) /\ ~Has(p, Opens) /\ ~Has(p, Timed)
  BY <1>2 DEF Has, Opens, Timed
<1>5. Turned(t, TBS, TBS')
  <2> DEFINE m2 == TBS'
  <2>1. Turned(q, TBS, m2)
    BY <1>2
  <2> HIDE DEF m2
  <2>2. Turned(t, TBS, m2)
    BY <1>3, <1>4, <2>1 DEF Turned
  <2>3. QED
    BY <2>2 DEF m2
<1>6. ASSUME NEW z \in Sessions
      PROVE  /\ owner[z] # c => \A K : ~Has(t, Rq(z, K))
             /\ ~Has(t, Rq(z, ActiveThens))
             /\ Has(t, Rq(z, {"removed"})) <=> z \in In(DBS) /\ owner[z] = c
             /\ Has(t, Dstops(z)) <=> z \in In(DBS) /\ owner[z] = c
             /\ ~Has(t, Dstarts(z))
  <2>1. /\ ~Has(q, Rq(z, ActiveThens)) /\ ~Has(p, Rq(z, ClientThens))
        /\ owner[z] # c => (\A K : ~Has(q, Rq(z, K)) /\ ~Has(p, Rq(z, K))) /\ ~Has(p, Dstops(z))
        /\ z \notin In(DBS) => (\A K : ~Has(p, Rq(z, K))) /\ ~Has(p, Dstops(z))
        /\ ~Has(q, Dstops(z)) /\ ~Has(q, Dstarts(z)) /\ ~Has(p, Dstarts(z))
        /\ Has(p, Rq(z, {"removed"})) => Has(p, Dstops(z))
    BY RemovesFacts
  <2>2. ~Has(q, Rq(z, {"removed"}))
    BY <1>2 DEF Has, Rq
  <2>3. ~Has(p, Rq(z, ActiveThens))
    <3>1. Rq(z, ActiveThens) \subseteq Rq(z, ClientThens)
      BY DEF Rq, ActiveThens
    <3>2. QED
      BY <2>1, <3>1, HasMore
  <2>4. z \in In(DBS) /\ owner[z] = c => Has(p, Rq(z, {"removed"}))
    BY <1>2
  <2>5. QED
    BY <1>3, <2>1, <2>2, <2>3, <2>4
<1>7. QED
  BY <1>1, <1>3, <1>4, <1>5, <1>6 DEF Leaves

\* What is in flight of its sessions then.
LEMMA LeavesOwn ==
  ASSUME Typed, NEW c, NEW t, Leaves(c, t), NEW z \in Sessions, owner[z] = c,
         ~InFlight(msgs, reqs, z, {"removed"})
  PROVE  /\ \A K : K \subseteq ActiveThens =>
              (InFlight(msgs, reqs', z, K) <=> InFlight(msgs, reqs, z, K))
         /\ InFlight(msgs, reqs', z, {"removed"}) <=> z \in In(DBS)
         /\ z \in In(DBS) => InFlight(msgs, reqs', z, {"stopped", "removed", "dstopped"})
         /\ \A K : K \subseteq ActiveThens =>
              (InFlight(msgs, reqs', z, K \cup {"removed"}) <=>
                 InFlight(msgs, reqs, z, K) \/ z \in In(DBS))
         /\ z \in In(DBS) /\ Has(msgs, An(z, {"dupdated"})) => RemovedAfter(msgs, reqs', z)
         /\ ~RemovedAfter(msgs, reqs, z)
         /\ IF z \in In(DBS) THEN ~Runs(reqs', dbt, z)
            ELSE Runs(reqs', dbt, z) <=> Runs(reqs, dbt, z)
<1> DEFINE r2 == reqs'
<1>1. /\ t \in Seq(Made) /\ reqs \in Seq(Made) /\ Joined(r2, reqs, t)
      /\ ~Has(t, Rq(z, ActiveThens))
      /\ Has(t, Rq(z, {"removed"})) <=> z \in In(DBS)
      /\ Has(t, Dstops(z)) <=> z \in In(DBS)
      /\ ~Has(t, Dstarts(z))
  BY DEF Leaves, Typed
<1> HIDE DEF r2
<1>2. \A V : Has(r2, V) <=> Has(reqs, V) \/ Has(t, V)
  BY <1>1, JoinHas
<1>3. ASSUME NEW K, K \subseteq ActiveThens
      PROVE  InFlight(msgs, r2, z, K) <=> InFlight(msgs, reqs, z, K)
  <2>1. Rq(z, K) \subseteq Rq(z, ActiveThens)
    BY <1>3 DEF Rq
  <2>2. ~Has(t, Rq(z, K))
    BY <1>1, <2>1, HasMore
  <2>3. QED
    BY <1>2, <2>2 DEF InFlight
<1>4. InFlight(msgs, r2, z, {"removed"}) <=> z \in In(DBS)
  BY <1>1, <1>2 DEF InFlight
<1>5. ASSUME NEW K
      PROVE  InFlight(msgs, r2, z, K \cup {"removed"}) <=>
               InFlight(msgs, r2, z, K) \/ InFlight(msgs, r2, z, {"removed"})
  <2>1. /\ Rq(z, K \cup {"removed"}) = Rq(z, K) \cup Rq(z, {"removed"})
        /\ An(z, K \cup {"removed"}) = An(z, K) \cup An(z, {"removed"})
    BY DEF Rq, An
  <2>2. \A x, V, W : Has(x, V \cup W) <=> Has(x, V) \/ Has(x, W)
    BY DEF Has
  <2>3. QED
    BY <2>1, <2>2 DEF InFlight
<1>6. ASSUME NEW K, K \subseteq ActiveThens
      PROVE  InFlight(msgs, r2, z, K \cup {"removed"}) <=> InFlight(msgs, reqs, z, K) \/ z \in In(DBS)
  BY <1>3, <1>4, <1>5, <1>6
<1>7. z \in In(DBS) => InFlight(msgs, r2, z, {"stopped", "removed", "dstopped"})
  <2>1. {"stopped", "dstopped"} \cup {"removed"} = {"stopped", "removed", "dstopped"}
    OBVIOUS
  <2>2. InFlight(msgs, r2, z, {"stopped", "dstopped"} \cup {"removed"}) <=>
          InFlight(msgs, r2, z, {"stopped", "dstopped"}) \/ InFlight(msgs, r2, z, {"removed"})
    BY <1>5
  <2>3. QED
    BY <1>4, <2>1, <2>2
<1>8. z \in In(DBS) /\ Has(msgs, An(z, {"dupdated"})) => RemovedAfter(msgs, r2, z)
  BY <1>1, <1>2 DEF RemovedAfter
<1>9. ~RemovedAfter(msgs, reqs, z)
  BY EndsFacts DEF RemovedAfter, InFlight
<1>10. IF z \in In(DBS) THEN ~Runs(r2, dbt, z) ELSE Runs(r2, dbt, z) <=> Runs(reqs, dbt, z)
  <2>1. ~EndsIn(t, Dstarts(z), Dstops(z))
    BY <1>1, EndsFacts
  <2>2. Runs(r2, dbt, z) <=>
          EndsIn(t, Dstarts(z), Dstops(z)) \/ (Runs(reqs, dbt, z) /\ ~Has(t, Dstops(z)))
    BY <1>1, RunsAfter
  <2>3. QED
    BY <1>1, <2>1, <2>2
<1>11. QED
  BY <1>3, <1>4, <1>6, <1>7, <1>8, <1>9, <1>10 DEF r2

\* The sessions of the others stay followed.
LEMMA RemoveOthers ==
  ASSUME Typed, NEW c, NEW q, NEW p, Removes(c, q, p), NEW t, Leaves(c, t),
         NEW z \in Sessions, owner[z] # c, Followed(z), Steady' <=> Steady
  PROVE  Followed(z)'
<1> DEFINE r2 == reqs'
<1>1. /\ t \in Seq(Made) /\ reqs \in Seq(Made) /\ Joined(r2, reqs, t)
      /\ \A K : ~Has(t, Rq(z, K))
      /\ ~Has(t, Dstops(z)) /\ ~Has(t, Dstarts(z))
  BY DEF Leaves, Typed
<1>2. /\ In(TBS') = {s \in In(TBS) : owner[s] # c} /\ \A s \in In(TBS') : TBS'[s] = TBS[s]
      /\ DBS' = DBS /\ owner' = owner /\ removed' = removed \cup {c}
      /\ mIsEngineCapabilitiesKnown' = mIsEngineCapabilitiesKnown /\ mPendingMsgs' = mPendingMsgs
      /\ msgs' = msgs /\ down' = down /\ dbt' = dbt /\ events' = events
  BY DEF Removes, modem
<1>3. TBS'[z] = TBS[z]
  <2>1. CASE z \in In(TBS)
    BY <1>2, <2>1
  <2>2. CASE z \notin In(TBS)
    <3>1. z \notin In(TBS')
      BY <1>2, <2>2
    <3>2. QED
      BY <2>2, <3>1 DEF In
  <2>3. QED
    BY <2>1, <2>2
<1> HIDE DEF r2
<1>4. /\ \A V : Has(r2, V) <=> Has(reqs, V) \/ Has(t, V)
      /\ \A V, W : HasThen(r2, V, W) <=>
                     HasThen(reqs, V, W) \/ HasThen(t, V, W) \/ (Has(reqs, V) /\ Has(t, W))
  BY <1>1, JoinHas
<1>5. \A K : InFlight(msgs, r2, z, K) <=> InFlight(msgs, reqs, z, K)
  BY <1>1, <1>4 DEF InFlight
<1>6. Runs(r2, dbt, z) <=> Runs(reqs, dbt, z)
  <2>1. ~EndsIn(t, Dstarts(z), Dstops(z))
    BY <1>1, EndsFacts
  <2>2. QED
    BY <1>1, <2>1, RunsAfter
<1>7. RemovedAfter(msgs, r2, z) <=> RemovedAfter(msgs, reqs, z)
  <2>1. ~HasThen(t, Rq(z, {"dupdated"}), Rq(z, {"removed"}))
    BY <1>1, EndsFacts
  <2>2. QED
    BY <1>1, <1>4, <2>1 DEF RemovedAfter
<1>8. Unmoved(z)
  BY <1>2, <1>3, <1>5, <1>6, <1>7 DEF Unmoved, r2
<1>9. QED
  BY <1>8, UnmovedKept

\* So do its own.
LEMMA RemoveOwn ==
  ASSUME Typed, NEW c \in mClientData, NEW q, NEW p, Removes(c, q, p), NEW t, Leaves(c, t),
         NEW z \in Sessions, owner[z] = c, Followed(z)
  PROVE  Followed(z)'
<1> DEFINE r2 == reqs'
<1>1. /\ z \notin In(TBS') /\ DBS' = DBS /\ owner' = owner /\ c \in removed'
      /\ mIsEngineCapabilitiesKnown' = mIsEngineCapabilitiesKnown /\ mPendingMsgs' = mPendingMsgs
      /\ msgs' = msgs /\ down' = down /\ dbt' = dbt /\ events' = events
  BY DEF Removes, modem
<1>2. c # NoClient /\ c \notin removed
  BY ConstantFacts DEF Typed
<1>3. ~InFlight(msgs, reqs, z, {"removed"})
  BY <1>2 DEF Followed, Placed
<1>4. /\ \A K : K \subseteq ActiveThens =>
           (InFlight(msgs, r2, z, K) <=> InFlight(msgs, reqs, z, K))
      /\ InFlight(msgs, r2, z, {"removed"}) <=> z \in In(DBS)
      /\ z \in In(DBS) => InFlight(msgs, r2, z, {"stopped", "removed", "dstopped"})
      /\ z \in In(DBS) /\ Has(msgs, An(z, {"dupdated"})) => RemovedAfter(msgs, r2, z)
      /\ ~RemovedAfter(msgs, reqs, z)
      /\ IF z \in In(DBS) THEN ~Runs(r2, dbt, z)
         ELSE Runs(r2, dbt, z) <=> Runs(reqs, dbt, z)
  BY <1>3, LeavesOwn
<1> HIDE DEF r2
<1>5. /\ InFlight(msgs, r2, z, {"updated", "switched"}) <=> InFlight(msgs, reqs, z, {"updated", "switched"})
      /\ InFlight(msgs, r2, z, {"switched", "updated"}) <=> InFlight(msgs, reqs, z, {"switched", "updated"})
      /\ InFlight(msgs, r2, z, {"dstopped", "dupdated"}) <=> InFlight(msgs, reqs, z, {"dstopped", "dupdated"})
      /\ InFlight(msgs, r2, z, {"dupdated"}) <=> InFlight(msgs, reqs, z, {"dupdated"})
      /\ InFlight(msgs, r2, z, {"stopped", "switched", "dstopped"})
           <=> InFlight(msgs, reqs, z, {"stopped", "switched", "dstopped"})
  <2>1. /\ {"updated", "switched"} \subseteq ActiveThens /\ {"switched", "updated"} \subseteq ActiveThens
        /\ {"dstopped", "dupdated"} \subseteq ActiveThens /\ {"dupdated"} \subseteq ActiveThens
        /\ {"stopped", "switched", "dstopped"} \subseteq ActiveThens
    BY DEF ActiveThens, ClientThens, Thens
  <2>2. QED
    BY <1>4, <2>1
<1>6. InFlight(msgs, reqs, z, {"switched", "updated"}) <=> InFlight(msgs, reqs, z, {"updated", "switched"})
  <2>1. {"switched", "updated"} = {"updated", "switched"}
    OBVIOUS
  <2>2. QED
    BY <2>1
<1>7. Placed(z)'
  BY <1>1, <1>2, <1>4, <1>5, <1>6 DEF Followed, Placed, r2
<1>8. DistanceServed(z)'
  <2>1. Steady' /\ z \in In(DBS') => InFlight(msgs', reqs', z, {"stopped", "removed", "dstopped"})
    BY <1>1, <1>4 DEF r2
  <2>2. ~down' /\ EndsIn(msgs', DoneOf(z), {EngineUp}) =>
          Runs(reqs', dbt', z) \/ RemovedAfter(msgs', reqs', z)
    <3>1. EndsIn(msgs, DoneOf(z), {EngineUp}) => Has(msgs, An(z, {"dupdated"}))
      <4>1. DoneOf(z) \subseteq An(z, {"dupdated"})
        BY DEF DoneOf
      <4>2. QED
        BY <4>1, EndsFacts, HasMore
    <3>2. ~down /\ EndsIn(msgs, DoneOf(z), {EngineUp}) => Runs(reqs, dbt, z)
      BY <1>4 DEF Followed, DistanceServed
    <3>3. QED
      BY <1>1, <1>4, <3>1, <3>2 DEF r2
  <2>3. QED
    BY <2>1, <2>2 DEF DistanceServed
<1>9. NotRun(z)'
  <2>1. ASSUME events' = 0, Runs(reqs', dbt', z)
        PROVE  /\ z \notin In(DBS) /\ InFlight(msgs, reqs, z, {"dupdated"})
               /\ ~InFlight(msgs, reqs, z, {"stopped", "switched", "dstopped"})
    BY <1>1, <1>4, <2>1 DEF Followed, NotRun, r2
  <2>2. QED
    BY <1>1, <1>4, <1>5, <2>1 DEF NotRun, r2
<1>10. QED
  BY <1>7, <1>8, <1>9 DEF Followed

\* A client is removed.
LEMMA RemoveServing ==
  ASSUME Typed, Serving, NEW c \in Clients, removeClientCommand(c)
  PROVE  Serving'
<1>1. PICK q, p : Removes(c, q, p)
  BY RemoveAsks
<1>2. c \in mClientData
  BY RemoveAsks
<1>3. PICK t : Leaves(c, t)
  BY <1>1, RemoveLeaves
<1>4. Opening /\ TimeServed /\ \A z \in Sessions : Followed(z)
  BY DEF Serving
<1>5. /\ msgs' = msgs /\ down' = down /\ tbt' = tbt /\ events' = events
      /\ mIsEngineCapabilitiesKnown' = mIsEngineCapabilitiesKnown
      /\ mSystemPowerState' = mSystemPowerState
  BY <1>1 DEF Removes, modem
<1> DEFINE r2 == reqs'
<1>6. /\ t \in Seq(Made) /\ reqs \in Seq(Made) /\ Joined(r2, reqs, t) /\ ~Has(t, Opens)
      /\ Turned(t, TBS, TBS')
  BY <1>3 DEF Leaves, Typed
<1>7. (Recovering' <=> Recovering) /\ (Steady' <=> Steady)
  BY <1>5 DEF Recovering, Steady
<1>8. Opening'
  <2> HIDE DEF r2
  <2>1. /\ Has(r2, Opens) <=> Has(reqs, Opens) \/ Has(t, Opens)
        /\ Count(r2, Opens) = Count(reqs, Opens) + Count(t, Opens)
    BY <1>6, JoinHas
  <2>2. Count(t, Opens) = 0 /\ Count(reqs, Opens) \in Nat
    BY <1>6, CountFacts
  <2>3. Count(r2, Opens) = Count(reqs, Opens)
    BY <2>1, <2>2
  <2>4. reqs # <<>> => r2 # <<>> /\ Head(r2) = Head(reqs)
    BY <1>6, HeadJoined
  <2>5. QED
    BY <1>4, <1>5, <1>6, <1>7, <2>1, <2>3, <2>4 DEF Opening, r2
<1>9. TimeServed'
  BY <1>4, <1>5, <1>6, <1>7, TurnedServed
<1>10. ASSUME NEW z \in Sessions PROVE Followed(z)'
  <2>1. CASE owner[z] # c
    BY <1>1, <1>3, <1>4, <1>7, <2>1, RemoveOthers
  <2>2. CASE owner[z] = c
    BY <1>1, <1>2, <1>3, <1>4, <2>2, RemoveOwn
  <2>3. QED
    BY <2>1, <2>2
<1>11. QED
  BY <1>8, <1>9, <1>10 DEF Serving

-----------------------------------------------------------------------------
(* The modem serves the sessions.                                              *)

\* The first state.
LEMMA InitServing == Init => Serving
<1> SUFFICES ASSUME Init PROVE Serving
  OBVIOUS
<1> DEFINE r == Request("open", 0, NoOptions, "nothing")
<1>1. /\ mPendingMsgs = <<>> /\ msgs = <<>> /\ reqs = <<r>> /\ down /\ dbt = {} /\ tbt = NoOptions
      /\ ~mIsEngineCapabilitiesKnown /\ mSystemPowerState = "unknown"
      /\ In(TBS) = {} /\ In(DBS) = {}
  BY DEF Init, In, TBS, DBS
<1>2. /\ r \in Opens /\ r \notin Timed
      /\ \A z : /\ r \notin Dstarts(z) /\ \A K : "nothing" \notin K => r \notin Rq(z, K)
  <2>1. r.call = "open" /\ r \in Made
    BY RequestFields DEF Made, Requests, Request, Calls, Thens, OptionRecords, NoOptions
  <2> HIDE DEF r
  <2>2. QED
    BY <2>1, OpenFacts
<1> HIDE DEF r
<1>3. /\ Has(reqs, Opens) /\ Count(reqs, Opens) = 1 /\ ~Has(reqs, Timed)
      /\ reqs # <<>> /\ Head(reqs) \in Opens
  <2>1. Has(<<r>>, Opens) /\ ~Has(<<r>>, Timed)
    BY <1>2, ShortHas
  <2>2. Count(<<r>>, Opens) = 1
    BY <1>2, ShortCount
  <2>3. <<r>> # <<>> /\ Head(<<r>>) = r
    OBVIOUS
  <2>4. QED
    BY <1>1, <1>2, <2>1, <2>2, <2>3
<1>4. /\ \A V, W : ~Has(msgs, V) /\ ~EndsIn(msgs, V, W)
      /\ \A V : ~Has(mPendingMsgs, V)
      /\ Count(msgs, {EngineUp}) = 0
  <2>1. \A V, W : ~Has(<<>>, V) /\ ~EndsIn(<<>>, V, W)
    BY ShortHas
  <2>2. Count(<<>>, {EngineUp}) = 0
    BY ShortCount
  <2>3. QED
    BY <1>1, <2>1, <2>2
<1>5. Recovering /\ ~Steady
  BY <1>1 DEF Recovering, Steady
<1>6. Opening
  BY <1>1, <1>3, <1>4 DEF Opening
<1>7. TimeServed
  BY <1>1, <1>3, <1>5 DEF TimeServed, Final
<1>8. ASSUME NEW z \in Sessions PROVE Followed(z)
  <2>1. /\ \A K : "nothing" \notin K => ~Has(reqs, Rq(z, K))
        /\ ~EndsIn(reqs, Dstarts(z), Dstops(z))
    <3>1. /\ \A K : "nothing" \notin K => ~Has(<<r>>, Rq(z, K))
          /\ ~EndsIn(<<r>>, Dstarts(z), Dstops(z))
      BY <1>2, ShortHas
    <3>2. QED
      BY <1>1, <3>1
  <2>2. \A K : "nothing" \notin K => ~InFlight(msgs, reqs, z, K)
    BY <1>4, <2>1 DEF InFlight
  <2>3. ~IsParked(mPendingMsgs, msgs, z)
    BY <1>4 DEF IsParked
  <2>4. ~Runs(reqs, dbt, z)
    BY <1>1, <2>1 DEF Runs
  <2>5. ~InFlight(msgs, reqs, z, {"removed"}) /\ ~InFlight(msgs, reqs, z, {"dstopped", "dupdated"})
    BY <2>2
  <2>6. Placed(z)
    BY <1>1, <2>3, <2>5 DEF Placed
  <2>7. DistanceServed(z) /\ NotRun(z)
    BY <1>4, <1>5, <2>4 DEF DistanceServed, NotRun
  <2>8. QED
    BY <2>6, <2>7 DEF Followed
<1>9. QED
  BY <1>6, <1>7, <1>8 DEF Serving

\* A client registers; or the step is none of the adapter's.
LEMMA AddServing ==
  ASSUME Serving, UNCHANGED vars \/ \E c \in Clients : addClientCommand(c)
  PROVE  Serving'
<1>1. UNCHANGED <<removed, owner, sessions, parkVars, msgs, mSystemPowerState, reqs, modem, events>>
  BY DEF addClientCommand, vars, clientVars, counts
<1>2. QED
  BY <1>1, StillServing

\* Every step keeps the sessions served.
LEMMA NextServing ==
  ASSUME Sound, Serving, ClientsWait, DbtSupported, [Next]_vars
  PROVE  Serving'
<1>1. Typed /\ Counted
  BY DEF Sound
<1>2. CASE UNCHANGED vars \/ \E c \in Clients : addClientCommand(c)
  BY <1>2, AddServing
<1>3. CASE \E c \in Clients : removeClientCommand(c)
  BY <1>1, <1>3, RemoveServing
<1>4. CASE \E c \in Clients, o \in Options : startTrackingCommand(c, o)
  BY <1>4, StartCallServing
<1>5. CASE \E s \in Sessions : stopTrackingCommand(s)
  BY <1>5, StopCallServing
<1>6. CASE \E s \in Sessions, o \in Options : updateTrackingOptionsCommand(s, o)
  BY <1>6, UpdateCallServing
<1>7. CASE AnswerHandled
  BY <1>7, AnswerServing
<1>8. CASE ParkedMsg
  BY <1>8, ParkedServing
<1>9. CASE Open \/ CarryOut \/ MsgHandleEngineUpEvent \/ handleEngineDownEvent
  BY <1>1, <1>9, OpenServing, CarryServing, UpServing, DownServing
<1>10. CASE (\E state \in {"suspend", "resume"} : updateSystemPowerState(state)) \/ UpdateConfig
  BY <1>1, <1>10, EventServing
<1>11. QED
  BY <1>2, <1>3, <1>4, <1>5, <1>6, <1>7, <1>8, <1>9, <1>10, NextCases

\* What holds in every state.
Served == Sound /\ (ClientsWait /\ DbtSupported => Serving)

\* It does: initially, and after each step of Next.
LEMMA ServedAlways == Spec => []Served
<1>1. Init => Served
  BY InitSound, InitServing DEF Served
<1>2. Served /\ [Next]_vars => Served'
  BY NextSound, NextServing DEF Served
<1>3. QED
  BY <1>1, <1>2, PTL DEF Spec

\* When nothing is on its way, the modem is steady and nothing more will come.
LEMMA SettledFacts ==
  ASSUME Settled
  PROVE  /\ Steady
         /\ \A o : Final(reqs, tbt, o) <=> o = tbt
         /\ \A s : /\ Runs(reqs, dbt, s) <=> s \in dbt
                   /\ \A K : ~InFlight(msgs, reqs, s, K)
<1>1. /\ reqs = <<>> /\ msgs = <<>> /\ ~down /\ mSystemPowerState # "suspend"
  BY DEF Settled
<1>2. \A V, W : ~Has(<<>>, V) /\ ~EndsIn(<<>>, V, W)
  BY ShortHas
<1>3. \A V, W : ~Has(reqs, V) /\ ~EndsIn(reqs, V, W) /\ ~Has(msgs, V)
  BY <1>1, <1>2
<1>4. Steady
  BY <1>1, <1>3 DEF Steady, Recovering
<1>5. QED
  BY <1>3, <1>4 DEF Final, Runs, InFlight

\* The modem serves the sessions of the two maps whenever nothing is on its way:
\* for any clients that wait for responses, any options and any crashes, power
\* events and configurations, with the modem's distance-based tracking
\* (startTimeBasedTrackingMultiplex, restartSessions, GnssAdapter.cpp).
THEOREM ServesCorrect == Spec => [](ClientsWait /\ DbtSupported => EngineServesSessions)
<1>1. Served => (ClientsWait /\ DbtSupported => EngineServesSessions)
  <2> SUFFICES ASSUME Typed, Serving, Settled
               PROVE  /\ \A s \in In(TBS) : tbt # NoOptions /\ tbt.interval <= TBS[s].interval
                      /\ In(DBS) \subseteq dbt
    BY DEF Served, Sound, EngineServesSessions
  <2>1. \A s \in In(TBS) : tbt # NoOptions /\ tbt.interval <= TBS[s].interval
    BY SettledFacts DEF Serving, TimeServed, Serves
  <2>2. In(DBS) \subseteq dbt
    BY SettledFacts DEF Serving, Followed, DistanceServed, In
  <2>3. QED
    BY <2>1, <2>2
<1>2. QED
  BY <1>1, ServedAlways, PTL

\* Without events the modem then runs for no session that is not in the maps
\* (stopTimeBasedTrackingMultiplex, stopClientSessions, GnssAdapter.cpp).
THEOREM ServesNoOtherCorrect == Spec => [](ClientsWait /\ DbtSupported => EngineServesNoOther)
<1>1. Served => (ClientsWait /\ DbtSupported => EngineServesNoOther)
  <2> SUFFICES ASSUME Typed, Serving, Settled, events = 0
               PROVE  /\ In(TBS) = {} => tbt = NoOptions
                      /\ dbt \subseteq In(DBS)
    BY DEF Served, Sound, EngineServesNoOther
  <2>1. In(TBS) = {} => tbt = NoOptions
    BY SettledFacts DEF Serving, TimeServed
  <2>2. ASSUME NEW s \in dbt PROVE s \in In(DBS)
    <3>1. s \in Sessions
      BY DEF Typed
    <3>2. NotRun(s)
      BY <3>1 DEF Serving, Followed
    <3>3. QED
      BY <3>2, SettledFacts DEF NotRun
  <2>3. QED
    BY <2>1, <2>2
<1>2. QED
  BY <1>1, ServedAlways, PTL
=============================================================================
