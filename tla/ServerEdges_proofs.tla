-------------------------- MODULE ServerEdges_proofs -------------------------
(***************************************************************************)
(* The seven edges of the server, for every value of the constants.  Each  *)
(* section has the inductive invariant of one part, the lemmas that its    *)
(* actions keep it, and that it implies what is promised of the part; the  *)
(* last one puts the parts together.                                       *)
(***************************************************************************)
EXTENDS ServerEdges, SequenceTheorems, FiniteSetTheorems, FunctionTheorems, WellFoundedInduction, TLAPS

(* Numbers: a set of them has a least one, and powers of two double.  The  *)
(* prover knows no exponent, but how many subsets a set has.               *)
LEMMA HasLeast ==
  ASSUME NEW T, T \subseteq Nat, T # {} PROVE \E m \in T : \A n \in T : m <= n
<1> DEFINE R == OpToRel(<, Nat)
<1>1. IsWellFoundedOn(R, Nat)
  BY NatLessThanWellFounded
<1>2. \A x, y \in Nat : <<x, y>> \in R <=> x < y
  BY DEF OpToRel
<1> HIDE DEF R
<1>3. \E x \in T : \A y \in T : ~ (<<y, x>> \in R)
  BY <1>1, WFMin
<1>4. PICK m \in T : \A y \in T : ~ (<<y, m>> \in R)
  BY <1>3
<1>5. ASSUME NEW n \in T PROVE m <= n
  <2>1. m \in Nat /\ n \in Nat
    BY <1>4
  <2>2. ~ (n < m)
    BY <2>1, <1>2, <1>4
  <2> QED
    BY <2>1, <2>2
<1> QED
  BY <1>4, <1>5

LEMMA PowerIsCard == ASSUME NEW n \in Nat PROVE IsFiniteSet(SUBSET (1 .. n)) /\ Cardinality(SUBSET (1 .. n)) = 2 ^ n /\ 2 ^ n \in Nat
<1>1. IsFiniteSet(1 .. n) /\ Cardinality(1 .. n) = n
  BY FS_Interval
<1>2. IsFiniteSet(SUBSET (1 .. n)) /\ Cardinality(SUBSET (1 .. n)) = 2 ^ Cardinality(1 .. n)
  BY <1>1, FS_SUBSET
<1> QED
  BY <1>1, <1>2, FS_CardinalityType

LEMMA PowerZero == 2 ^ 0 = 1
<1>1. SUBSET (1 .. 0) = {{}}
  OBVIOUS
<1> QED
  BY <1>1, PowerIsCard, FS_Singleton

LEMMA PowerStep == ASSUME NEW n \in Nat PROVE 2 ^ (n + 1) = 2 * 2 ^ n
<1> DEFINE S == SUBSET (1 .. n)
           T == {t \cup {n + 1} : t \in S}
           f == [t \in S |-> t \cup {n + 1}]
<1>1. SUBSET (1 .. n + 1) = S \cup T
  <2>1. ASSUME NEW u \in SUBSET (1 .. n + 1) PROVE u \in S \cup T
    <3>1. CASE n + 1 \in u
      <4>1. u \ {n + 1} \in S /\ u = (u \ {n + 1}) \cup {n + 1}
        BY <3>1
      <4> QED
        BY <4>1
    <3>2. CASE n + 1 \notin u
      BY <3>2
    <3> QED
      BY <3>1, <3>2
  <2>2. ASSUME NEW u \in S \cup T PROVE u \in SUBSET (1 .. n + 1)
    OBVIOUS
  <2> HIDE DEF S, T
  <2> QED
    BY <2>1, <2>2
<1>2. S \cap T = {}
  OBVIOUS
<1>3. IsFiniteSet(T) /\ Cardinality(T) = Cardinality(S)
  <2>1. \A t, u \in S : f[t] = f[u] => t = u
    <3>1. SUFFICES ASSUME NEW t \in S, NEW u \in S, t \cup {n + 1} = u \cup {n + 1} PROVE t = u
      OBVIOUS
    <3>2. n + 1 \notin t /\ n + 1 \notin u
      OBVIOUS
    <3> QED
      BY <3>1, <3>2
  <2>2. f \in [S -> T] /\ \A v \in T : \E t \in S : f[t] = v
    OBVIOUS
  <2> HIDE DEF f, S, T
  <2>3. f \in Bijection(S, T)
    BY <2>1, <2>2 DEF Bijection, Injection, Surjection, IsInjective
  <2>4. ExistsBijection(S, T)
    BY <2>3 DEF ExistsBijection
  <2>5. IsFiniteSet(S)
    BY PowerIsCard DEF S
  <2> QED
    BY <2>4, <2>5, FS_Bijection
<1>4. IsFiniteSet(S) /\ Cardinality(S) = 2 ^ n /\ 2 ^ n \in Nat
  BY PowerIsCard
<1>5. Cardinality(SUBSET (1 .. n + 1)) = 2 ^ (n + 1) /\ 2 ^ (n + 1) \in Nat
  <2>1. n + 1 \in Nat
    OBVIOUS
  <2> QED
    BY <2>1, PowerIsCard
<1> HIDE DEF S, T, f
<1>6. Cardinality(S \cup T) = Cardinality(S) + Cardinality(T) - Cardinality(S \cap T)
  BY <1>3, <1>4, FS_Union
<1>7. Cardinality(S \cap T) = 0
  BY <1>2, FS_EmptySet
<1>8. Cardinality(T) = 2 ^ n /\ Cardinality(S \cup T) = 2 ^ (n + 1)
  BY <1>1, <1>3, <1>4, <1>5 DEF S
<1> DEFINE a == 2 ^ n
           b == 2 ^ (n + 1)
<1>9. a \in Nat /\ b \in Nat /\ b = a + a - 0
  BY <1>4, <1>5, <1>6, <1>7, <1>8
<1> HIDE DEF a, b
<1>10. b = 2 * a
  BY <1>9
<1> QED
  BY <1>10 DEF a, b

-----------------------------------------------------------------------------
(* The info client (Client): flights, cache and callers                    *)

(* A request is asked again or answered within a trip.                     *)
FlightIsYoung(f) == f.since <= clock /\ (f.pc \in {"sent", "served"} => clock - f.since <= Trip)

(* The queue holds the flights that wait, each once.                       *)
Waits(k) == \E i \in 1 .. Len(queue) : queue[i] = k
QueueInv ==
  /\ clock \in Nat /\ trades \in Nat
  /\ queue \in Seq(Client!Keys)
  /\ \A i, j \in 1 .. Len(queue) : queue[i] = queue[j] => i = j
  /\ inFlight \in [Client!Keys -> Client!FlightRecord \cup {None}]
  /\ \A k \in Client!Keys : Waits(k) => inFlight[k] # None /\ inFlight[k].pc = "queued"
  /\ \A k \in Client!Keys : inFlight[k] # None => FlightIsYoung(inFlight[k])

(* What the cache holds expires so long after it was true at the latest.   *)
CacheRecord == [seen : Nat, served : Nat, expires : Nat]
CacheInv ==
  /\ responseCache \in [Client!Keys -> CacheRecord \cup {None}]
  /\ \A k \in Client!Keys : responseCache[k] # None =>
       responseCache[k].served + Trip + ResponseCacheTtl >= responseCache[k].expires

CallerRecord == [pc : {"idle", "resolving", "resolved", "reading", "answered", "failed", "connecting", "placing"},
                 key : Client!Keys \cup {"order", None}, own : Nat, asked : Nat, got : Nat, served : Nat]
CallerIsRight(w) == w.asked <= clock /\ (w.pc = "answered" => w.served + Trip + ResponseCacheTtl > w.asked)
CallersInv ==
  /\ callers \in [Callers -> CallerRecord]
  /\ \A c \in Callers : CallerIsRight(callers[c])

ClientInv == QueueInv /\ CacheInv /\ CallersInv

LEMMA NoneIsNoFlight == None \notin Client!FlightRecord
  BY ClientIsSound DEF Client!ClientAssumption

LEMMA ClientInit == ASSUME Client!Init PROVE ClientInv
<1>1. queue = <<>> /\ <<>> \in Seq(Client!Keys) /\ Len(<<>>) = 0
  BY EmptySeq DEF Client!Init
<1>2. QueueInv
  BY <1>1 DEF Client!Init, QueueInv, Waits
<1>3. CacheInv
  BY DEF Client!Init, CacheInv
<1>4. Client!Quiet \in CallerRecord /\ CallerIsRight(Client!Quiet)
  BY DEF Client!Quiet, CallerRecord, CallerIsRight, Client!Init
<1>5. CallersInv
  BY <1>4 DEF Client!Init, CallersInv
<1> QED
  BY <1>2, <1>3, <1>5 DEF ClientInv

-----------------------------------------------------------------------------
(* Flights                                                                 *)

LEMMA FlightChanges ==
  ASSUME QueueInv, NEW k \in Client!Keys, ~Waits(k), NEW f \in Client!FlightRecord \cup {None}, f # None => FlightIsYoung(f),
         inFlight' = [inFlight EXCEPT ![k] = f], UNCHANGED <<clock, trades, queue>>
  PROVE  QueueInv'
  BY DEF QueueInv, Waits, FlightIsYoung

LEMMA NotQueued ==
  ASSUME QueueInv, NEW k \in Client!Keys, inFlight[k] = None \/ inFlight[k].pc # "queued"
  PROVE  ~Waits(k)
  BY DEF QueueInv

(* A flight that starts is put at the end of the queue, or at its head.    *)
LEMMA EnqueuedHolds ==
  ASSUME QueueInv, NEW k \in Client!Keys, ~Waits(k), queue' = Client!Enqueued(k)
  PROVE  /\ queue' \in Seq(Client!Keys)
         /\ \A i, j \in 1 .. Len(queue') : queue'[i] = queue'[j] => i = j
         /\ \A l \in Client!Keys : Waits(l)' => l = k \/ Waits(l)
<1>1. queue \in Seq(Client!Keys) /\ Len(queue) \in Nat
  BY LenProperties DEF QueueInv
<1>2. CASE k \in High
  <2>1. queue' = <<k>> \o queue /\ <<k>> \in Seq(Client!Keys) /\ Len(<<k>>) = 1
    BY <1>2 DEF Client!Enqueued
  <2>2. /\ queue' \in Seq(Client!Keys) /\ Len(queue') = 1 + Len(queue)
        /\ \A i \in 1 .. 1 + Len(queue) : queue'[i] = IF i <= 1 THEN <<k>>[i] ELSE queue[i - 1]
    BY <1>1, <2>1, ConcatProperties
  <2>3. queue'[1] = k /\ \A i \in 2 .. Len(queue') : i - 1 \in 1 .. Len(queue) /\ queue'[i] = queue[i - 1]
    BY <1>1, <2>2
  <2>4. ASSUME NEW i \in 1 .. Len(queue'), NEW j \in 1 .. Len(queue'), queue'[i] = queue'[j] PROVE i = j
    <3>1. ASSUME NEW m \in 2 .. Len(queue') PROVE queue'[m] # k
      <4>1. m - 1 \in 1 .. Len(queue) /\ queue'[m] = queue[m - 1]
        BY <2>3
      <4> QED
        BY <4>1 DEF Waits
    <3>2. i = 1 \/ i \in 2 .. Len(queue')
      BY <1>1, <2>2
    <3>3. j = 1 \/ j \in 2 .. Len(queue')
      BY <1>1, <2>2
    <3>4. CASE i = 1
      BY <2>3, <2>4, <3>1, <3>3, <3>4
    <3>5. CASE j = 1
      BY <2>3, <2>4, <3>1, <3>2, <3>5
    <3>6. CASE i # 1 /\ j # 1
      <4>1. i - 1 = j - 1
        BY <2>3, <2>4, <3>2, <3>3, <3>6 DEF QueueInv
      <4> QED
        BY <4>1, <2>2, <1>1
    <3> QED
      BY <3>4, <3>5, <3>6
  <2>5. ASSUME NEW l \in Client!Keys, Waits(l)' PROVE l = k \/ Waits(l)
    <3>1. PICK i \in 1 .. Len(queue') : queue'[i] = l
      BY <2>5 DEF Waits
    <3>2. CASE i = 1
      BY <2>3, <3>1, <3>2
    <3>3. CASE i # 1
      BY <1>1, <2>2, <2>3, <3>1, <3>3 DEF Waits
    <3> QED
      BY <3>2, <3>3
  <2> QED
    BY <2>2, <2>4, <2>5
<1>3. CASE k \notin High
  <2>1. queue' = Append(queue, k)
    BY <1>3 DEF Client!Enqueued
  <2>2. /\ queue' \in Seq(Client!Keys) /\ Len(queue') = Len(queue) + 1
        /\ \A i \in 1 .. Len(queue) : queue'[i] = queue[i]
        /\ queue'[Len(queue) + 1] = k
    BY <1>1, <2>1, AppendProperties
  <2>3. ASSUME NEW i \in 1 .. Len(queue'), NEW j \in 1 .. Len(queue'), queue'[i] = queue'[j] PROVE i = j
    <3>1. CASE i = Len(queue') \/ j = Len(queue')
      BY <1>1, <2>2, <2>3, <3>1 DEF Waits
    <3>2. CASE i # Len(queue') /\ j # Len(queue')
      BY <1>1, <2>2, <2>3, <3>2 DEF QueueInv
    <3> QED
      BY <3>1, <3>2
  <2>4. ASSUME NEW l \in Client!Keys, Waits(l)' PROVE l = k \/ Waits(l)
    BY <1>1, <2>2, <2>4 DEF Waits
  <2> QED
    BY <2>2, <2>3, <2>4
<1> QED
  BY <1>2, <1>3

LEMMA RequestKeeps ==
  ASSUME QueueInv, CacheInv, NEW k \in Client!Keys, Client!Request(k), UNCHANGED <<clock, trades>>
  PROVE  QueueInv' /\ CacheInv'
<1>1. CacheInv'
  BY DEF Client!Request, CacheInv
<1> SUFFICES QueueInv'
  BY <1>1
<1>2. CASE UNCHANGED <<inFlight, queue>>
  BY <1>2 DEF QueueInv, Waits, FlightIsYoung
<1>3. CASE inFlight[k] = None /\ Client!Launch(k)
  <2> DEFINE g(pc) == [pc |-> pc, attempt |-> 0, seen |-> 0, since |-> clock]
  <2>1. \A pc : Client!Flight(pc) = g(pc)
    BY DEF Client!Flight
  <2>2. g("ready") \in Client!FlightRecord /\ FlightIsYoung(g("ready")) /\ g("queued") \in Client!FlightRecord /\ FlightIsYoung(g("queued"))
        /\ g("queued").pc = "queued"
    BY DEF QueueInv, Client!FlightRecord, FlightIsYoung
  <2>3. ~Waits(k)
    BY <1>3, NotQueued
  <2> HIDE DEF g
  <2>4. CASE inFlight' = [inFlight EXCEPT ![k] = g("ready")] /\ UNCHANGED queue
    BY <2>2, <2>3, <2>4, FlightChanges
  <2>5. CASE inFlight' = [inFlight EXCEPT ![k] = g("queued")] /\ queue' = Client!Enqueued(k)
    <3>1. /\ queue' \in Seq(Client!Keys)
          /\ \A i, j \in 1 .. Len(queue') : queue'[i] = queue'[j] => i = j
          /\ \A l \in Client!Keys : Waits(l)' => l = k \/ Waits(l)
      BY <2>3, <2>5, EnqueuedHolds
    <3>2. inFlight' \in [Client!Keys -> Client!FlightRecord \cup {None}]
      BY <2>2, <2>5 DEF QueueInv
    <3>3. ASSUME NEW l \in Client!Keys PROVE /\ Waits(l)' => inFlight'[l] # None /\ inFlight'[l].pc = "queued"
                                             /\ inFlight'[l] # None => FlightIsYoung(inFlight[l])'
      <4>1. CASE l = k
        <5>1. inFlight'[l] = g("queued")
          BY <2>5, <4>1 DEF QueueInv
        <5> QED
          BY <5>1, <2>2, NoneIsNoFlight DEF FlightIsYoung
      <4>2. CASE l # k
        <5>1. inFlight'[l] = inFlight[l]
          BY <2>5, <4>2 DEF QueueInv
        <5> QED
          BY <5>1, <3>1, <4>2 DEF FlightIsYoung, QueueInv
      <4> QED
        BY <4>1, <4>2
    <3> QED
      BY <3>1, <3>2, <3>3 DEF QueueInv
  <2> QED
    BY <1>3, <2>1, <2>4, <2>5 DEF Client!Launch
<1> QED
  BY <1>2, <1>3 DEF Client!Request

(* The slot of a flight that ends goes to the head of the queue.           *)
LEMMA ReleaseKeeps ==
  ASSUME QueueInv, NEW k \in Client!Keys, inFlight[k] # None, inFlight[k].pc # "queued", Client!Release(k),
         UNCHANGED <<clock, trades>>
  PROVE  QueueInv'
<1>1. ~Waits(k)
  BY NotQueued
<1>2. CASE queue = <<>>
  <2>1. inFlight' = [inFlight EXCEPT ![k] = None] /\ UNCHANGED queue
    BY <1>2 DEF Client!Release
  <2> QED
    BY <1>1, <2>1, FlightChanges
<1>3. CASE queue # <<>>
  <2> DEFINE h == Head(queue)
             g == [inFlight[h] EXCEPT !.pc = "ready"]
  <2>1. queue \in Seq(Client!Keys) /\ Len(queue) \in Nat /\ Len(queue) > 0 /\ h = queue[1]
    BY <1>3, EmptySeq, LenProperties DEF QueueInv
  <2>2. /\ h \in Client!Keys /\ Tail(queue) \in Seq(Client!Keys) /\ Len(Tail(queue)) = Len(queue) - 1
        /\ \A i \in 1 .. Len(Tail(queue)) : Tail(queue)[i] = queue[i + 1]
    BY <1>3, <2>1, HeadTailProperties
  <2>3. Waits(h) /\ h # k
    BY <1>1, <2>1 DEF Waits
  <2>4. inFlight[h] \in Client!FlightRecord /\ FlightIsYoung(inFlight[h]) /\ inFlight[h].pc = "queued"
    BY <2>2, <2>3 DEF QueueInv
  <2>5. g \in Client!FlightRecord /\ FlightIsYoung(g)
    BY <2>4 DEF Client!FlightRecord, FlightIsYoung
  <2>6. queue' = Tail(queue) /\ inFlight' = [inFlight EXCEPT ![k] = None, ![h].pc = "ready"]
    BY <1>3 DEF Client!Release
  <2>7. inFlight' = [inFlight EXCEPT ![k] = None, ![h] = g]
    BY <2>2, <2>3, <2>6 DEF QueueInv
  <2> HIDE DEF g
  <2>8. inFlight' \in [Client!Keys -> Client!FlightRecord \cup {None}]
    BY <2>5, <2>7 DEF QueueInv
  <2>9. ASSUME NEW l \in Client!Keys, Waits(l)' PROVE Waits(l) /\ l # h
    <3>1. PICK i \in 1 .. Len(queue') : queue'[i] = l
      BY <2>9 DEF Waits
    <3>2. i + 1 \in 1 .. Len(queue) /\ queue[i + 1] = l /\ i + 1 # 1
      BY <2>1, <2>2, <2>6, <3>1
    <3> QED
      BY <2>1, <3>2 DEF Waits, QueueInv
  <2>10. \A i, j \in 1 .. Len(queue') : queue'[i] = queue'[j] => i = j
    <3>1. SUFFICES ASSUME NEW i \in 1 .. Len(queue'), NEW j \in 1 .. Len(queue'), queue'[i] = queue'[j] PROVE i = j
      OBVIOUS
    <3>2. i + 1 \in 1 .. Len(queue) /\ j + 1 \in 1 .. Len(queue) /\ queue[i + 1] = queue[j + 1]
      BY <2>1, <2>2, <2>6, <3>1
    <3>3. i + 1 = j + 1
      BY <3>2 DEF QueueInv
    <3> QED
      BY <3>3, <2>1, <2>2, <2>6
  <2>11. ASSUME NEW l \in Client!Keys PROVE /\ Waits(l)' => inFlight'[l] # None /\ inFlight'[l].pc = "queued"
                                            /\ inFlight'[l] # None => FlightIsYoung(inFlight[l])'
    <3>1. CASE l = h
      <4>1. inFlight'[l] = g /\ ~Waits(l)'
        BY <2>3, <2>7, <2>9, <3>1 DEF QueueInv
      <4> QED
        BY <2>5, <4>1 DEF FlightIsYoung
    <3>2. CASE l = k
      BY <1>1, <2>3, <2>7, <2>9, <3>2 DEF QueueInv
    <3>3. CASE l # h /\ l # k
      <4>1. inFlight'[l] = inFlight[l]
        BY <2>7, <3>3 DEF QueueInv
      <4> QED
        BY <4>1, <2>9, <3>3 DEF QueueInv, FlightIsYoung
    <3> QED
      BY <3>1, <3>2, <3>3
  <2> QED
    BY <2>2, <2>6, <2>8, <2>10, <2>11 DEF QueueInv
<1> QED
  BY <1>2, <1>3

(* The flight goes on as f.                                                *)
LEMMA FlightGoesOn ==
  ASSUME ClientInv, NEW k \in Client!Keys, inFlight[k] # None, inFlight[k].pc # "queued",
         NEW f \in Client!FlightRecord, FlightIsYoung(f), inFlight' = [inFlight EXCEPT ![k] = f],
         UNCHANGED <<clock, trades, queue, responseCache, callers>>
  PROVE  ClientInv'
<1>1. ~Waits(k)
  BY NotQueued DEF ClientInv
<1>2. QueueInv'
  BY <1>1, FlightChanges DEF ClientInv
<1>3. CacheInv' /\ CallersInv'
  BY DEF ClientInv, CacheInv, CallersInv, CallerIsRight
<1> QED
  BY <1>2, <1>3 DEF ClientInv

LEMMA FlightOf ==
  ASSUME ClientInv, NEW k \in Client!Keys, inFlight[k] # None
  PROVE  inFlight[k] \in Client!FlightRecord /\ FlightIsYoung(inFlight[k]) /\ clock \in Nat /\ trades \in Nat
  BY DEF ClientInv, QueueInv

LEMMA SendKeeps == ASSUME ClientInv, NEW k \in Client!Keys, Client!Send(k) PROVE ClientInv'
<1> DEFINE f == [inFlight[k] EXCEPT !.pc = "sent", !.since = clock]
<1>1. f \in Client!FlightRecord /\ FlightIsYoung(f)
  <2>1. inFlight[k] \in Client!FlightRecord /\ FlightIsYoung(inFlight[k]) /\ clock \in Nat /\ trades \in Nat
    BY FlightOf DEF Client!Send
  <2>2. f \in Client!FlightRecord /\ f.pc = "sent" /\ f.since = clock
    BY <2>1 DEF Client!FlightRecord
  <2> HIDE DEF f
  <2> QED
    BY <2>1, <2>2, ClientIsSound DEF Client!ClientAssumption, FlightIsYoung
<1>2. inFlight' = [inFlight EXCEPT ![k] = f]
  BY DEF Client!Send, ClientInv, QueueInv
<1> HIDE DEF f
<1> QED
  BY <1>1, <1>2, FlightGoesOn DEF Client!Send

LEMMA ServeKeeps == ASSUME ClientInv, NEW k \in Client!Keys, Client!Serve(k) PROVE ClientInv'
<1> DEFINE f == [inFlight[k] EXCEPT !.pc = "served", !.seen = trades, !.since = clock]
<1>1. f \in Client!FlightRecord /\ FlightIsYoung(f)
  <2>1. inFlight[k] \in Client!FlightRecord /\ FlightIsYoung(inFlight[k]) /\ clock \in Nat /\ trades \in Nat
    BY FlightOf DEF Client!Serve
  <2>2. f \in Client!FlightRecord /\ f.pc = "served" /\ f.since = clock
    BY <2>1 DEF Client!FlightRecord
  <2> HIDE DEF f
  <2> QED
    BY <2>1, <2>2, ClientIsSound DEF Client!ClientAssumption, FlightIsYoung
<1>2. inFlight' = [inFlight EXCEPT ![k] = f]
  BY DEF Client!Serve, ClientInv, QueueInv
<1> HIDE DEF f
<1> QED
  BY <1>1, <1>2, FlightGoesOn DEF Client!Serve

LEMMA RetryKeeps == ASSUME ClientInv, NEW k \in Client!Keys, Client!Retry(k) PROVE ClientInv'
<1> DEFINE n == inFlight[k].attempt + 1
           f == [inFlight[k] EXCEPT !.pc = "pausing", !.attempt = n]
<1>1. f \in Client!FlightRecord /\ FlightIsYoung(f)
  <2>1. inFlight[k] \in Client!FlightRecord /\ FlightIsYoung(inFlight[k])
    BY FlightOf DEF Client!Retry
  <2>2. n \in Nat
    BY <2>1 DEF Client!FlightRecord
  <2> HIDE DEF n
  <2>3. f \in Client!FlightRecord /\ f.pc = "pausing" /\ f.since = inFlight[k].since
    BY <2>1, <2>2 DEF Client!FlightRecord
  <2> HIDE DEF f
  <2> QED
    BY <2>1, <2>3 DEF FlightIsYoung
<1>2. inFlight' = [inFlight EXCEPT ![k] = f]
  BY DEF Client!Retry, ClientInv, QueueInv
<1> HIDE DEF f
<1> QED
  BY <1>1, <1>2, FlightGoesOn DEF Client!Retry

LEMMA ResumeKeeps == ASSUME ClientInv, NEW k \in Client!Keys, Client!Resume(k) PROVE ClientInv'
<1> DEFINE f == [inFlight[k] EXCEPT !.pc = "ready"]
<1>1. f \in Client!FlightRecord /\ FlightIsYoung(f)
  <2>1. inFlight[k] \in Client!FlightRecord /\ FlightIsYoung(inFlight[k]) /\ clock \in Nat /\ trades \in Nat
    BY FlightOf DEF Client!Resume
  <2>2. f \in Client!FlightRecord /\ f.pc = "ready" /\ f.since = inFlight[k].since
    BY <2>1 DEF Client!FlightRecord
  <2> HIDE DEF f
  <2> QED
    BY <2>1, <2>2, ClientIsSound DEF Client!ClientAssumption, FlightIsYoung
<1>2. inFlight' = [inFlight EXCEPT ![k] = f]
  BY DEF Client!Resume, ClientInv, QueueInv
<1> HIDE DEF f
<1> QED
  BY <1>1, <1>2, FlightGoesOn DEF Client!Resume

-----------------------------------------------------------------------------
(* Callers                                                                 *)

LEMMA CallerChanges ==
  ASSUME CallersInv, NEW c \in Callers, NEW w \in CallerRecord, CallerIsRight(w),
         callers' = [callers EXCEPT ![c] = w], UNCHANGED clock
  PROVE  CallersInv'
  BY DEF CallersInv, CallerIsRight

(* Some of them change, each to one that is right.                         *)
LEMMA CallersChange ==
  ASSUME CallersInv, UNCHANGED clock, callers' = [c \in Callers |-> callers'[c]],
         \A c \in Callers : callers'[c] \in CallerRecord /\ CallerIsRight(callers'[c])
  PROVE  CallersInv'
  BY DEF CallersInv, CallerIsRight

(* The answer that arrives was true on the exchange at most a trip ago.    *)
LEMMA ArriveKeeps == ASSUME ClientInv, NEW k \in Client!Keys, Client!Arrive(k) PROVE ClientInv'
<1> DEFINE f == inFlight[k]
<1>1. f \in Client!FlightRecord /\ f.since \in Nat /\ f.seen \in Nat /\ f.since <= clock /\ clock - f.since <= Trip
  BY FlightOf DEF Client!Arrive, FlightIsYoung, Client!FlightRecord
<1>2. clock \in Nat /\ Trip \in Nat /\ ResponseCacheTtl \in Nat /\ ResponseCacheTtl >= 1 /\ UNCHANGED clock
  BY ClientIsSound DEF Client!ClientAssumption, ClientInv, QueueInv, Client!Arrive
<1> HIDE DEF f
<1>3. QueueInv'
  BY ReleaseKeeps DEF ClientInv, Client!Arrive
<1>4. CacheInv'
  <2> DEFINE e == [seen |-> f.seen, served |-> f.since, expires |-> clock + ResponseCacheTtl]
  <2>1. e \in CacheRecord /\ e.served + Trip + ResponseCacheTtl >= e.expires
    BY <1>1, <1>2 DEF CacheRecord
  <2>2. responseCache' = [responseCache EXCEPT ![k] = e]
    BY DEF Client!Arrive, f
  <2> HIDE DEF e
  <2> QED
    BY <2>1, <2>2 DEF ClientInv, CacheInv
<1>5. CallersInv'
  <2>1. CallersInv /\ callers \in [Callers -> CallerRecord]
    BY DEF ClientInv, CallersInv
  <2>2. callers' = [c \in Callers |-> callers'[c]]
    BY DEF Client!Arrive, Client!Resolved, Client!Answered
  <2>3. ASSUME NEW c \in Callers PROVE callers'[c] \in CallerRecord /\ CallerIsRight(callers'[c])
    <3>0. callers[c] \in CallerRecord /\ CallerIsRight(callers[c])
      BY <2>1 DEF CallersInv
    <3>1. CASE callers'[c] = callers[c]
      BY <3>0, <3>1
    <3>2. CASE callers'[c] = [callers[c] EXCEPT !.pc = "resolved"]
      BY <3>0, <3>2 DEF CallerRecord, CallerIsRight
    <3>3. CASE callers'[c] = [callers[c] EXCEPT !.pc = "answered", !.got = f.seen, !.served = f.since]
      <4>1. callers[c].asked \in Nat /\ callers[c].asked <= clock
        BY <3>0 DEF CallerRecord, CallerIsRight
      <4>2. /\ callers'[c] \in CallerRecord /\ callers'[c].asked = callers[c].asked /\ callers'[c].served = f.since
        BY <1>1, <3>0, <3>3 DEF CallerRecord
      <4> QED
        BY <1>1, <1>2, <4>1, <4>2 DEF CallerIsRight
    <3> QED
      BY <3>1, <3>2, <3>3 DEF Client!Arrive, Client!Resolved, Client!Answered, f
  <2> QED
    BY <1>2, <2>1, <2>2, <2>3, CallersChange
<1> QED
  BY <1>3, <1>4, <1>5 DEF ClientInv

LEMMA FailKeeps == ASSUME ClientInv, NEW k \in Client!Keys, Client!Fail(k) PROVE ClientInv'
<1>1. QueueInv' /\ CacheInv'
  BY ReleaseKeeps DEF ClientInv, Client!Fail, CacheInv
<1>2. callers' = [c \in Callers |-> callers'[c]]
  BY DEF Client!Fail, Client!FailedFor
<1>3. ASSUME NEW c \in Callers PROVE callers'[c] \in CallerRecord /\ CallerIsRight(callers'[c])
  <2>1. callers[c] \in CallerRecord /\ CallerIsRight(callers[c])
    BY DEF ClientInv, CallersInv
  <2>2. callers'[c] = callers[c] \/ callers'[c] = [callers[c] EXCEPT !.pc = "failed"]
    BY DEF Client!Fail, Client!FailedFor
  <2> QED
    BY <2>1, <2>2 DEF CallerRecord, CallerIsRight
<1>4. CallersInv'
  BY <1>2, <1>3, CallersChange DEF ClientInv, Client!Fail
<1> QED
  BY <1>1, <1>4 DEF ClientInv

LEMMA ConnectedKeeps == ASSUME ClientInv, NEW ok \in BOOLEAN, Client!Connected(ok) PROVE ClientInv'
<1>1. QueueInv' /\ CacheInv'
  BY DEF ClientInv, Client!Connected, Client!transport, QueueInv, Waits, FlightIsYoung, CacheInv
<1>2. callers' = [c \in Callers |-> callers'[c]]
  BY DEF Client!Connected
<1>3. ASSUME NEW c \in Callers PROVE callers'[c] \in CallerRecord /\ CallerIsRight(callers'[c])
  <2>1. callers[c] \in CallerRecord /\ CallerIsRight(callers[c])
    BY DEF ClientInv, CallersInv
  <2>2. \/ callers'[c] = callers[c] \/ callers'[c] = [callers[c] EXCEPT !.pc = "failed"]
        \/ callers'[c] = [callers[c] EXCEPT !.pc = "placing"]
    BY DEF Client!Connected
  <2> QED
    BY <2>1, <2>2 DEF CallerRecord, CallerIsRight
<1>4. CallersInv'
  BY <1>2, <1>3, CallersChange DEF ClientInv, Client!Connected
<1> QED
  BY <1>1, <1>4 DEF ClientInv

(* A call that waits or goes on, and has not been answered.                *)
LEMMA CallKeeps ==
  ASSUME CallersInv, clock \in Nat, NEW c \in Callers, NEW k \in Client!Keys \cup {"order"},
         NEW pc \in {"resolving", "resolved", "failed", "reading"},
         callers' = [callers EXCEPT ![c] = [@ EXCEPT !.pc = pc, !.key = k, !.asked = clock]], UNCHANGED clock
  PROVE  CallersInv'
<1> DEFINE w == [callers[c] EXCEPT !.pc = pc, !.key = k, !.asked = clock]
<1>1. callers[c] \in CallerRecord
  BY DEF CallersInv
<1>2. w \in CallerRecord /\ w.pc = pc /\ w.asked = clock
  BY <1>1 DEF CallerRecord
<1>3. CallerIsRight(w)
  BY <1>2 DEF CallerIsRight
<1>4. callers' = [callers EXCEPT ![c] = w]
  BY DEF CallersInv
<1> HIDE DEF w
<1> QED
  BY <1>2, <1>3, <1>4, CallerChanges

LEMMA ResolveEffectiveUserKeeps ==
  ASSUME ClientInv, NEW c \in Callers, NEW k \in Account \cup {"order"}, Client!ResolveEffectiveUser(c, k)
  PROVE  ClientInv'
<1>1. k \in Client!Keys \cup {"order"} /\ "userRole" \in Client!Keys /\ Client!Role = "userRole"
  BY DEF Client!Keys, Client!Role
<1>2. QueueInv' /\ CacheInv'
  <2>1. CASE Client!Request(Client!Role)
    BY <1>1, <2>1, RequestKeeps DEF ClientInv, Client!ResolveEffectiveUser
  <2>2. CASE UNCHANGED Client!transport
    BY <2>2 DEF ClientInv, Client!ResolveEffectiveUser, Client!transport, QueueInv, Waits, FlightIsYoung, CacheInv
  <2> QED
    BY <2>1, <2>2 DEF Client!ResolveEffectiveUser
<1>3. PICK pc \in {"resolving", "resolved", "failed"} : Client!Calls(c, pc, k)
  BY DEF Client!ResolveEffectiveUser
<1>4. CallersInv'
  BY <1>1, <1>3, CallKeeps DEF ClientInv, QueueInv, Client!Calls, Client!ResolveEffectiveUser
<1> QED
  BY <1>2, <1>4 DEF ClientInv

(* What the cache answers with was served lately.                          *)
LEMMA ReadKeeps ==
  ASSUME ClientInv, NEW c \in Callers, NEW k \in Client!Keys, Client!Read(c, k), UNCHANGED <<clock, trades>>
  PROVE  ClientInv'
<1>1. QueueInv' /\ CacheInv'
  BY RequestKeeps DEF ClientInv, Client!Read
<1>2. callers[c] \in CallerRecord /\ CallersInv /\ clock \in Nat
  BY DEF ClientInv, CallersInv, QueueInv
<1>3. CASE ~Client!Fresh(k)
  <2>1. callers' = [callers EXCEPT ![c] = [@ EXCEPT !.pc = "reading", !.key = k, !.asked = clock]]
    BY <1>3 DEF Client!Read
  <2>2. CallersInv'
    BY <1>2, <2>1, CallKeeps
  <2> QED
    BY <1>1, <2>2 DEF ClientInv
<1>4. CASE Client!Fresh(k)
  <2> DEFINE e == responseCache[k]
             w == [callers[c] EXCEPT !.pc = "answered", !.key = k, !.asked = clock, !.got = e.seen, !.served = e.served]
  <2>1. e \in CacheRecord /\ e.expires > clock /\ e.served + Trip + ResponseCacheTtl >= e.expires
    BY <1>4 DEF Client!Fresh, ClientInv, CacheInv
  <2>2. e.seen \in Nat /\ e.served \in Nat /\ e.expires \in Nat
    BY <2>1 DEF CacheRecord
  <2> HIDE DEF e
  <2>3. w \in CallerRecord /\ w.asked = clock /\ w.served = e.served
    BY <1>2, <2>2 DEF CallerRecord
  <2>4. CallerIsRight(w)
    BY <1>2, <2>1, <2>2, <2>3, ClientIsSound DEF CallerIsRight, Client!ClientAssumption
  <2>5. callers' = [callers EXCEPT ![c] = w]
    BY <1>2, <1>4 DEF Client!Read, e, CallersInv
  <2> HIDE DEF w
  <2>6. CallersInv'
    BY <1>2, <2>3, <2>4, <2>5, CallerChanges
  <2> QED
    BY <1>1, <2>6 DEF ClientInv
<1> QED
  BY <1>3, <1>4

LEMMA GetTradingClientKeeps ==
  ASSUME ClientInv, NEW c \in Callers, Client!GetTradingClient(c) PROVE ClientInv'
<1>1. QueueInv' /\ CacheInv'
  BY DEF ClientInv, Client!GetTradingClient, Client!transport, QueueInv, Waits, FlightIsYoung, CacheInv
<1>2. PICK pc \in {"placing", "connecting"} : callers' = [callers EXCEPT ![c].pc = pc]
  BY DEF Client!GetTradingClient
<1> DEFINE w == [callers[c] EXCEPT !.pc = pc]
<1>3. w \in CallerRecord /\ CallerIsRight(w)
  BY DEF ClientInv, CallersInv, CallerRecord, CallerIsRight
<1>4. callers' = [callers EXCEPT ![c] = w]
  BY <1>2 DEF ClientInv, CallersInv
<1> HIDE DEF w
<1> QED
  BY <1>1, <1>3, <1>4, CallerChanges DEF ClientInv, Client!GetTradingClient

LEMMA PlaceKeeps == ASSUME ClientInv, NEW c \in Callers, Client!Place(c) PROVE ClientInv'
<1>1. QueueInv' /\ CacheInv' /\ trades + 1 \in Nat
  BY DEF ClientInv, Client!Place, Client!transport, QueueInv, Waits, FlightIsYoung, CacheInv
<1> DEFINE w == [callers[c] EXCEPT !.pc = "idle", !.own = trades + 1]
<1>2. w \in CallerRecord /\ CallerIsRight(w)
  BY <1>1 DEF ClientInv, CallersInv, CallerRecord, CallerIsRight
<1>3. callers' = [callers EXCEPT ![c] = w]
  BY DEF Client!Place, ClientInv, CallersInv
<1> HIDE DEF w
<1> QED
  BY <1>1, <1>2, <1>3, CallerChanges DEF ClientInv, Client!Place

LEMMA ClientTickKeeps == ASSUME ClientInv, Client!Tick PROVE ClientInv'
<1>1. clock' = clock + 1 /\ clock \in Nat /\ UNCHANGED <<trades, responseCache, inFlight, queue, callers>>
  BY DEF Client!Tick, Client!transport, ClientInv, QueueInv
<1>2. ASSUME NEW k \in Client!Keys, inFlight[k] # None PROVE FlightIsYoung(inFlight[k])'
  <2>1. inFlight[k] \in Client!FlightRecord /\ FlightIsYoung(inFlight[k])
    BY <1>2, FlightOf
  <2>2. inFlight[k].pc \in {"sent", "served"} => clock - inFlight[k].since < Trip
    BY <1>2 DEF Client!Tick
  <2> QED
    BY <1>1, <2>1, <2>2, ClientIsSound DEF FlightIsYoung, Client!FlightRecord, Client!ClientAssumption
<1>3. ASSUME NEW c \in Callers PROVE CallerIsRight(callers[c])'
  BY <1>1 DEF ClientInv, CallersInv, CallerIsRight, CallerRecord
<1>4. CallersInv'
  BY <1>1, <1>3 DEF ClientInv, CallersInv
<1>5. QueueInv'
  BY <1>1, <1>2 DEF ClientInv, QueueInv, Waits
<1>6. CacheInv'
  BY <1>1 DEF ClientInv, CacheInv
<1> QED
  BY <1>4, <1>5, <1>6 DEF ClientInv

LEMMA ClientKept == ASSUME ClientInv, Client!Next \/ UNCHANGED Client!vars PROVE ClientInv'
<1>1. CASE UNCHANGED Client!vars
  BY <1>1 DEF Client!vars, ClientInv, QueueInv, Waits, FlightIsYoung, CacheInv, CallersInv, CallerIsRight
<1>2. ASSUME NEW c \in Callers, Client!GetCandles(c) \/ Client!ReadAccount(c) PROVE ClientInv'
  <2>1. PICK k \in Client!Keys : Client!Read(c, k) /\ UNCHANGED <<clock, trades>>
    BY <1>2 DEF Client!GetCandles, Client!ReadAccount, Client!Keys
  <2> QED
    BY <2>1, ReadKeeps
<1> QED
  BY <1>1, <1>2, SendKeeps, ServeKeeps, ArriveKeeps, RetryKeeps, ResumeKeeps, FailKeeps, ResolveEffectiveUserKeeps,
     GetTradingClientKeeps, PlaceKeeps, ConnectedKeeps, ClientTickKeeps DEF Client!Next

LEMMA ClientImplies == ASSUME ClientInv PROVE Client!AnswersAreRecent
  BY DEF ClientInv, CallersInv, CallerIsRight, Client!AnswersAreRecent

-----------------------------------------------------------------------------
(* The price stream (Stream): what the gate sees, and the socket           *)

(* What is under way was asked for at most a trip ago and has become a     *)
(* price since; a tick was one at most a trip before it was stored.        *)
FetchIsYoung(f) ==
  /\ f.since <= clock /\ clock - f.since <= Trip
  /\ f.price # None => f.since <= f.price /\ f.price <= clock
PricesInv ==
  /\ clock \in Nat /\ passed \in Nat
  /\ tick \in [price : Nat, at : Nat] \cup {None}
  /\ fetches \subseteq [since : Nat, price : Nat \cup {None}, by : {"fallback", "gate"}]
  /\ tick # None => tick.at <= clock /\ tick.at - tick.price <= Trip
  /\ \A f \in fetches : FetchIsYoung(f)
  /\ Stream!GateIsFresh

FetchRecord == [since : Nat, price : Nat \cup {None}, by : {"fallback", "gate"}]

LEMMA PricesInit == ASSUME Stream!Init PROVE PricesInv
  BY StreamIsSound DEF Stream!StreamAssumption, Stream!Init, PricesInv, Stream!GateIsFresh

LEMMA NewFetch ==
  ASSUME PricesInv, NEW by \in {"fallback", "gate"}
  PROVE  Stream!Fetch(by) \in FetchRecord /\ FetchIsYoung(Stream!Fetch(by))
<1>1. Stream!Fetch(by) = [since |-> clock, price |-> None, by |-> by]
  BY DEF Stream!Fetch
<1> QED
  BY <1>1, StreamIsSound DEF Stream!StreamAssumption, PricesInv, FetchRecord, FetchIsYoung

(* One more under way, or some less, and nothing else.                     *)
LEMMA FetchAdded ==
  ASSUME PricesInv, NEW f \in FetchRecord, FetchIsYoung(f), fetches' \subseteq fetches \cup {f},
         UNCHANGED <<clock, tick, passed>>
  PROVE  PricesInv'
  BY DEF PricesInv, FetchRecord, FetchIsYoung, Stream!GateIsFresh

LEMMA FetchesEnd ==
  ASSUME PricesInv, fetches' \subseteq fetches, UNCHANGED <<clock, tick, passed>>
  PROVE  PricesInv'
  BY DEF PricesInv, FetchIsYoung, Stream!GateIsFresh

LEMMA FetchStarts ==
  ASSUME PricesInv, NEW by \in {"fallback", "gate"}, fetches' \subseteq fetches \cup {Stream!Fetch(by)},
         UNCHANGED <<clock, tick, passed>>
  PROVE  PricesInv'
  BY NewFetch, FetchAdded

LEMMA PricesKept ==
  ASSUME PricesInv, Stream!Next \/ UNCHANGED Stream!vars
  PROVE  PricesInv'
<1>1. CASE UNCHANGED <<clock, tick, fetches, passed>>
  BY <1>1 DEF PricesInv, FetchIsYoung, Stream!GateIsFresh
<1>2. CASE Stream!Boot
  BY <1>2, FetchStarts DEF Stream!Boot, Stream!ticks
<1>3. CASE Stream!FallbackFires
  BY <1>3, FetchStarts DEF Stream!FallbackFires, Stream!ticks
<1>4. CASE Stream!EnsureFreshTick
  <2>1. CASE tick # None /\ clock - tick.at <= Stale
    <3>1. clock - tick.price <= Stale + Trip /\ clock - tick.price \in Int
      BY <2>1, StreamIsSound DEF Stream!StreamAssumption, PricesInv
    <3>2. passed' = Stream!Oldest(tick.price) /\ UNCHANGED <<clock, tick, fetches>>
      BY <1>4, <2>1 DEF Stream!EnsureFreshTick, Stream!ticks
    <3>3. passed' \in Nat /\ passed' <= Stale + Trip
      BY <3>1, <3>2 DEF Stream!Oldest, PricesInv, Stream!GateIsFresh
    <3> QED
      BY <3>2, <3>3 DEF PricesInv, FetchIsYoung, Stream!GateIsFresh
  <2>2. CASE ~(tick # None /\ clock - tick.at <= Stale)
    BY <1>4, <2>2, FetchStarts DEF Stream!EnsureFreshTick, Stream!ticks
  <2> QED
    BY <2>1, <2>2
<1>5. ASSUME NEW price, Stream!Mid(price) PROVE PricesInv'
  <2>1. price \in Nat /\ clock - price <= Trip /\ tick' = [price |-> price, at |-> clock]
    BY <1>5, StreamIsSound DEF Stream!StreamAssumption, Stream!Mid, Stream!IngestPrice, PricesInv
  <2>2. UNCHANGED <<clock, fetches, passed>>
    BY <1>5 DEF Stream!Mid
  <2> QED
    BY <2>1, <2>2 DEF PricesInv, FetchIsYoung, Stream!GateIsFresh
<1>6. ASSUME NEW f \in fetches, Stream!Serve(f) PROVE PricesInv'
  <2> DEFINE g == [f EXCEPT !.price = clock]
  <2>1. f \in FetchRecord /\ FetchIsYoung(f) /\ clock \in Nat
    BY DEF PricesInv, FetchRecord
  <2>2. g \in FetchRecord /\ g.price = clock /\ g.since = f.since
    BY <2>1 DEF FetchRecord
  <2>3. FetchIsYoung(g)
    BY <2>1, <2>2 DEF FetchIsYoung, FetchRecord
  <2>4. fetches' \subseteq fetches \cup {g} /\ UNCHANGED <<clock, tick, passed>>
    BY <1>6 DEF Stream!Serve, Stream!ticks
  <2> HIDE DEF g
  <2> QED
    BY <2>2, <2>3, <2>4, FetchAdded
<1>7. ASSUME NEW f \in fetches, Stream!Arrive(f) PROVE PricesInv'
  <2>1. f \in FetchRecord /\ FetchIsYoung(f) /\ clock \in Nat /\ f.price # None
    BY <1>7 DEF PricesInv, FetchRecord, Stream!Arrive
  <2>2. f.price \in Nat /\ f.price <= clock /\ clock - f.price <= Trip
    BY <2>1, StreamIsSound DEF Stream!StreamAssumption, FetchIsYoung, FetchRecord
  <2>3. tick' = [price |-> f.price, at |-> clock] /\ fetches' \subseteq fetches /\ UNCHANGED clock
    BY <1>7 DEF Stream!Arrive, Stream!IngestPrice
  <2>4. passed' \in Nat /\ passed' <= Stale + Trip
    BY <1>7, <2>2, StreamIsSound DEF Stream!StreamAssumption, Stream!Arrive, Stream!Oldest, PricesInv, Stream!GateIsFresh
  <2>5. tick' \in [price : Nat, at : Nat] /\ tick'.at = clock /\ tick'.price = f.price
    BY <2>1, <2>2, <2>3
  <2> QED
    BY <2>2, <2>3, <2>4, <2>5 DEF PricesInv, FetchIsYoung, Stream!GateIsFresh
<1>8. ASSUME NEW f \in fetches, Stream!FetchFails(f) PROVE PricesInv'
  BY <1>8, FetchesEnd DEF Stream!FetchFails, Stream!ticks
<1>9. CASE Stream!Exit
  BY <1>9, FetchesEnd DEF Stream!Exit, Stream!ticks
<1>10. CASE Stream!Tick
  BY <1>10, StreamIsSound DEF Stream!StreamAssumption, Stream!Tick, Stream!ticks, PricesInv, FetchIsYoung, Stream!GateIsFresh
<1>11. Stream!ReconnectFires \/ Stream!Open \/ Stream!Close \/ Stream!Stored \/ Stream!Shutdown \/ UNCHANGED Stream!vars
       => UNCHANGED <<clock, tick, fetches, passed>>
  BY DEF Stream!ReconnectFires, Stream!Open, Stream!Close, Stream!Stored, Stream!Shutdown, Stream!vars, Stream!ticks
<1> QED
  BY <1>1, <1>2, <1>3, <1>4, <1>5, <1>6, <1>7, <1>8, <1>9, <1>10, <1>11 DEF Stream!Next

(* Unless a socket could not be constructed, a handle belongs to a socket  *)
(* that is alive, a timer to one that is closed, and there is one or the   *)
(* other; the delay has doubled with every socket that closed.             *)
BackoffFits ==
  /\ failed \in 0 .. BackoffMax /\ 2 ^ failed > failed
  /\ backoff = Stream!Least(2 ^ failed * BackoffInitial, BackoffMax)
SocketInv ==
  /\ server \in {"off", "on", "stopping", "gone"}
  /\ handle \in BOOLEAN /\ reconnect \in BOOLEAN /\ threw \in BOOLEAN
  /\ server \in {"off", "stopping", "gone"} => ~handle
  /\ ~threw =>
       /\ handle => socket \in {"connecting", "open"}
       /\ server = "on" => handle \/ reconnect
       /\ reconnect => socket = "closed"
       /\ BackoffFits

LEMMA LeastDoubles ==
  ASSUME NEW a \in Nat, NEW b \in Nat PROVE Stream!Least(2 * Stream!Least(a, b), b) = Stream!Least(2 * a, b)
  BY DEF Stream!Least

(* The delay after one more socket that closed                             *)
LEMMA BackoffDoubles ==
  ASSUME BackoffFits,
         backoff' = Stream!Least(2 * backoff, BackoffMax), failed' = Stream!Least(failed + 1, BackoffMax)
  PROVE  BackoffFits'
<1> USE DEF BackoffFits
<1> DEFINE power == 2 ^ failed
           product == power * BackoffInitial
<1>1. power \in Nat /\ power > failed /\ 2 ^ (failed + 1) = 2 * power
  BY PowerStep
<1>2. BackoffInitial \in Nat /\ BackoffInitial >= 1 /\ BackoffMax \in Nat
  BY StreamIsSound DEF Stream!StreamAssumption
<1> HIDE DEF power
<1>3. product \in Nat /\ (2 * power) * BackoffInitial = 2 * product /\ product >= power
  BY <1>1, <1>2
<1>4. backoff = Stream!Least(product, BackoffMax)
  BY DEF power
<1> HIDE DEF product
<1>5. backoff' = Stream!Least(2 * product, BackoffMax)
  BY <1>2, <1>3, <1>4, LeastDoubles
<1>6. CASE failed < BackoffMax
  <2>1. failed' = failed + 1
    BY <1>2, <1>6 DEF Stream!Least
  <2>2. 2 ^ failed' = 2 * power
    BY <1>1, <2>1
  <2>3. 2 ^ failed' * BackoffInitial = 2 * product
    BY <1>3, <2>2
  <2>4. 2 * power > failed + 1
    BY <1>1
  <2> QED
    BY <1>2, <1>5, <1>6, <2>1, <2>2, <2>3, <2>4
<1>7. CASE failed = BackoffMax
  <2>1. failed' = failed
    BY <1>2, <1>7 DEF Stream!Least
  <2>2. product >= BackoffMax /\ backoff' = BackoffMax /\ Stream!Least(product, BackoffMax) = BackoffMax
    BY <1>1, <1>2, <1>3, <1>5, <1>7 DEF Stream!Least
  <2>3. 2 ^ failed' = power /\ 2 ^ failed' * BackoffInitial = product
    BY <2>1 DEF power, product
  <2> QED
    BY <1>1, <1>2, <1>7, <2>1, <2>2, <2>3
<1> QED
  BY <1>2, <1>6, <1>7

LEMMA SocketInit == ASSUME Stream!Init PROVE SocketInv
<1>1. BackoffInitial \in Nat /\ BackoffMax \in Nat /\ BackoffInitial <= BackoffMax
  BY StreamIsSound DEF Stream!StreamAssumption
<1>2. 2 ^ 0 * BackoffInitial = BackoffInitial /\ 2 ^ 0 > 0
  BY <1>1, PowerZero
<1>3. Stream!Least(BackoffInitial, BackoffMax) = BackoffInitial
  BY <1>1 DEF Stream!Least
<1>4. BackoffFits
  BY <1>1, <1>2, <1>3 DEF Stream!Init, BackoffFits
<1> QED
  BY <1>4 DEF Stream!Init, SocketInv

(* A socket that opens starts the count again.                             *)
LEMMA OpenResets == ASSUME SocketInv, Stream!Open PROVE SocketInv'
<1>1. BackoffInitial \in Nat /\ BackoffMax \in Nat /\ BackoffInitial <= BackoffMax
  BY StreamIsSound DEF Stream!StreamAssumption
<1>2. 2 ^ 0 * BackoffInitial = BackoffInitial /\ 2 ^ 0 > 0
  BY <1>1, PowerZero
<1>3. Stream!Least(BackoffInitial, BackoffMax) = BackoffInitial
  BY <1>1 DEF Stream!Least
<1>4. failed' = 0 /\ backoff' = BackoffInitial
  BY DEF Stream!Open
<1>5. BackoffFits'
  BY <1>1, <1>2, <1>3, <1>4 DEF BackoffFits
<1> QED
  BY <1>5 DEF Stream!Open, SocketInv

LEMMA StartKeeps ==
  ASSUME SocketInv, Stream!StartLiveMidStream, server' = "on"
  PROVE  SocketInv'
<1>1. CASE handle \/ ~threw'
  <2>1. UNCHANGED <<failed, backoff, threw>>
    BY <1>1 DEF Stream!StartLiveMidStream, SocketInv
  <2>2. BackoffFits => BackoffFits'
    BY <2>1 DEF BackoffFits
  <2> QED
    BY <1>1, <2>1, <2>2 DEF Stream!StartLiveMidStream, SocketInv
<1>2. CASE ~handle /\ threw'
  BY <1>2 DEF Stream!StartLiveMidStream, Stream!ScheduleWsReconnect, SocketInv
<1> QED
  BY <1>1, <1>2

LEMMA CloseKeeps == ASSUME SocketInv, Stream!Close PROVE SocketInv'
<1>1. socket \in {"connecting", "open"} /\ server = "on" /\ server' = "on" /\ threw' = threw
  BY DEF Stream!Close
<1>2. socket' = "closed" /\ handle' = FALSE /\ reconnect' = TRUE
  BY DEF Stream!Close, Stream!ScheduleWsReconnect
<1>3. CASE threw
  BY <1>1, <1>2, <1>3 DEF SocketInv
<1>4. CASE ~threw
  <2>1. ~reconnect
    BY <1>1, <1>4 DEF SocketInv
  <2>2. backoff' = Stream!Least(2 * backoff, BackoffMax) /\ failed' = Stream!Least(failed + 1, BackoffMax)
    BY <2>1 DEF Stream!Close, Stream!ScheduleWsReconnect
  <2>3. BackoffFits'
    BY <1>4, <2>2, BackoffDoubles DEF SocketInv
  <2> QED
    BY <1>1, <1>2, <2>3 DEF SocketInv
<1> QED
  BY <1>3, <1>4 DEF SocketInv

LEMMA SocketKept == ASSUME SocketInv, Stream!Next \/ UNCHANGED Stream!vars PROVE SocketInv'
<1>1. CASE UNCHANGED <<server, socket, handle, reconnect, backoff, failed, threw>>
  BY <1>1 DEF SocketInv, BackoffFits
<1>2. CASE Stream!Boot \/ Stream!ReconnectFires
  BY <1>2, StartKeeps DEF Stream!Boot, Stream!ReconnectFires
<1>3. CASE Stream!Shutdown \/ Stream!Exit
  <2>1. /\ UNCHANGED <<failed, backoff, threw>> /\ handle' = FALSE
        /\ server' \in {"stopping", "gone"} /\ (reconnect' => reconnect /\ socket' = socket)
    BY <1>3 DEF Stream!Shutdown, Stream!Exit, Stream!stream, SocketInv
  <2>2. BackoffFits => BackoffFits'
    BY <2>1 DEF BackoffFits
  <2>3. reconnect' \in BOOLEAN
    BY <1>3 DEF Stream!Shutdown, Stream!Exit, Stream!stream, SocketInv
  <2> QED
    BY <2>1, <2>2, <2>3 DEF SocketInv
<1>4. CASE Stream!Stored \/ Stream!FallbackFires \/ Stream!EnsureFreshTick \/ Stream!Tick
  BY <1>1, <1>4 DEF Stream!Stored, Stream!FallbackFires, Stream!EnsureFreshTick, Stream!Tick, Stream!stream
<1>5. ASSUME NEW price, Stream!Mid(price) PROVE SocketInv'
  BY <1>1, <1>5 DEF Stream!Mid, Stream!stream
<1>6. ASSUME NEW f, Stream!Serve(f) \/ Stream!Arrive(f) \/ Stream!FetchFails(f) PROVE SocketInv'
  BY <1>1, <1>6 DEF Stream!Serve, Stream!Arrive, Stream!FetchFails, Stream!stream
<1> QED
  BY <1>1, <1>2, <1>3, <1>4, <1>5, <1>6, OpenResets, CloseKeeps DEF Stream!Next, Stream!vars

LEMMA SocketImplies == ASSUME SocketInv PROVE Stream!StreamIsTended
  BY DEF SocketInv, BackoffFits, Stream!StreamIsTended

-----------------------------------------------------------------------------
(* Positions and open orders (Views)                                       *)

(* A discovery that went well found all dexes filled before it.            *)
DiscoveryIsRight(k) ==
  /\ k.at \in Nat /\ k.at <= clock
  /\ ~k.failed => \A d \in Views!Dexes : filled[d] < k.at => d \in k.dexes
(* Every position had its fill; what a read returned is all on the dexes   *)
(* it knew of, and it knew of them from a discovery that is not too old.   *)
DiscoveryInv ==
  /\ clock \in Nat /\ positions \subseteq Markets /\ filled \in [Views!Dexes -> Nat]
  /\ \A m \in positions : m.dex # "" => filled[m.dex] <= clock
  /\ known # None => DiscoveryIsRight(known)
  /\ seen # None => /\ DiscoveryIsRight(known) /\ clock - known.at < DiscoveryTtl
                    /\ \A m \in positions : m.dex \in {""} \cup known.dexes => m \in seen

Order == [market : Markets, side : {"buy", "sell"}, price : Int, kind : {t.kind : t \in OrderTypes},
          reduceOnly : {t.reduceOnly : t \in OrderTypes}]
OrdersInv == \A i \in DOMAIN orders : orders[i] \in Order

ViewsInv == DiscoveryInv /\ OrdersInv

LEMMA ViewsInit == ASSUME Views!Init PROVE ViewsInv
  BY ViewsAreSound DEF Views!ViewsAssumption, Views!Init, Views!Never, ViewsInv, DiscoveryInv, OrdersInv

LEMMA TtlIsPositive == DiscoveryTtl \in Nat /\ DiscoveryTtl > 0
  BY ViewsAreSound DEF Views!ViewsAssumption

LEMMA DiscoveryFinds ==
  ASSUME DiscoveryInv, NEW fails \in BOOLEAN
  PROVE  DiscoveryIsRight(Views!KnownDexes(fails)) /\ clock - Views!KnownDexes(fails).at < DiscoveryTtl
<1>1. CASE known # None /\ clock - known.at < DiscoveryTtl
  BY <1>1 DEF Views!KnownDexes, DiscoveryInv
<1>2. CASE ~(known # None /\ clock - known.at < DiscoveryTtl)
  <2> DEFINE found == ExtraDexes \cup IF fails THEN {} ELSE {d \in Views!Dexes : filled[d] <= clock}
             k == [at |-> clock, failed |-> fails, dexes |-> found]
  <2>1. Views!KnownDexes(fails) = k
    BY <1>2 DEF Views!KnownDexes
  <2>2. ASSUME ~fails, NEW d \in Views!Dexes, filled[d] < clock PROVE d \in found
    <3>1. filled[d] \in Nat /\ clock \in Nat
      BY DEF DiscoveryInv
    <3>2. filled[d] <= clock
      BY <2>2, <3>1
    <3> QED
      BY <2>2, <3>2
  <2> HIDE DEF found
  <2>3. k.at = clock /\ k.failed = fails /\ k.dexes = found
    OBVIOUS
  <2>4. ~k.failed => ~fails
    BY <2>3, Zenon
  <2> HIDE DEF k
  <2>5. clock \in Nat /\ clock <= clock /\ clock - clock < DiscoveryTtl
    <3>1. clock \in Nat
      BY DEF DiscoveryInv
    <3> QED
      BY <3>1, TtlIsPositive
  <2>6. DiscoveryIsRight(k)
    BY <2>2, <2>3, <2>4, <2>5 DEF DiscoveryIsRight
  <2> QED
    BY <2>1, <2>3, <2>5, <2>6
<1> QED
  BY <1>1, <1>2

LEMMA OpenPositionKeeps == ASSUME ViewsInv, NEW m \in Markets, Views!OpenPosition(m) PROVE ViewsInv'
<1>1. OrdersInv'
  BY DEF Views!OpenPosition, ViewsInv, OrdersInv
<1>2. /\ positions' = positions \cup {m} /\ seen' = None /\ UNCHANGED <<clock, known>>
      /\ clock \in Nat /\ filled \in [Views!Dexes -> Nat]
  BY DEF Views!OpenPosition, ViewsInv, DiscoveryInv
<1>3. filled' \in [Views!Dexes -> Nat] /\ (m.dex # "" => m.dex \in Views!Dexes)
  BY <1>2 DEF Views!OpenPosition, Views!Dexes
<1>4. ASSUME NEW d \in Views!Dexes PROVE /\ filled'[d] <= filled[d] /\ (filled'[d] # filled[d] => filled'[d] = clock)
                                         /\ d = m.dex => filled'[d] <= clock
  <2>1. filled[d] \in Nat
    BY <1>2
  <2>0. d # ""
    BY DEF Views!Dexes
  <2>2. CASE d = m.dex
    <3>1. filled'[d] = IF clock < filled[d] THEN clock ELSE filled[d]
      BY <1>2, <2>0, <2>2 DEF Views!OpenPosition
    <3> DEFINE a == filled[d]
               b == filled'[d]
    <3>2. a \in Nat /\ clock \in Nat /\ b = IF clock < a THEN clock ELSE a
      BY <1>2, <2>1, <3>1
    <3> HIDE DEF a, b
    <3>3. b <= a /\ (b # a => b = clock) /\ b <= clock
      BY <3>2
    <3> QED
      BY <3>3 DEF a, b
  <2>3. CASE d # m.dex
    <3>1. filled'[d] = filled[d]
      BY <1>2, <2>3 DEF Views!OpenPosition
    <3> DEFINE a == filled[d]
    <3>2. a \in Nat /\ a <= a
      BY <2>1
    <3> QED
      BY <2>3, <3>1, <3>2
  <2> QED
    BY <2>2, <2>3
<1>5. ASSUME NEW n \in positions', n.dex # "" PROVE filled'[n.dex] <= clock
  <2>1. n \in Markets /\ n.dex \in Views!Dexes
    BY <1>2, <1>5 DEF Views!Dexes, ViewsInv, DiscoveryInv
  <2> DEFINE d == n.dex
  <2>2. filled[d] \in Nat /\ filled'[d] \in Nat
    BY <1>2, <1>3, <2>1
  <2>3. n = m \/ filled[d] <= clock
    BY <1>2, <1>5 DEF ViewsInv, DiscoveryInv
  <2>4. filled'[d] <= filled[d] /\ (d = m.dex => filled'[d] <= clock)
    BY <1>4, <2>1
  <2> HIDE DEF d
  <2>5. CASE n = m
    BY <2>4, <2>5 DEF d
  <2>6. CASE filled[d] <= clock
    <3>1. filled'[d] <= clock
      BY <1>2, <2>2, <2>4, <2>6
    <3> QED
      BY <3>1 DEF d
  <2> QED
    BY <2>3, <2>5, <2>6
(* A fill that is dated back to now is not before the discovery.           *)
<1>6. ASSUME DiscoveryIsRight(known) PROVE DiscoveryIsRight(known)'
  <2>1. known.at \in Nat /\ known.at <= clock
    BY <1>6 DEF DiscoveryIsRight
  <2>2. ASSUME ~known.failed, NEW d \in Views!Dexes, filled'[d] < known.at PROVE d \in known.dexes
    <3>1. filled'[d] = filled[d]
      <4>1. filled'[d] \in Nat /\ filled[d] \in Nat
        BY <1>2, <1>3
      <4>2. filled'[d] # clock
        BY <1>2, <2>1, <2>2, <4>1
      <4> QED
        BY <1>4, <4>2
    <3> QED
      BY <1>6, <2>2, <3>1 DEF DiscoveryIsRight
  <2> QED
    BY <1>2, <2>1, <2>2 DEF DiscoveryIsRight
<1>7. DiscoveryInv'
  BY <1>2, <1>3, <1>5, <1>6 DEF ViewsInv, DiscoveryInv
<1> QED
  BY <1>1, <1>7 DEF ViewsInv

LEMMA PlaceOrderKeeps ==
  ASSUME ViewsInv, NEW i \in 1 .. MaxOrders, NEW m \in Markets, NEW side \in {"buy", "sell"}, NEW offset \in Offsets,
         NEW type \in OrderTypes, Views!PlaceOrder(i, m, side, offset, type)
  PROVE  ViewsInv'
<1>1. DiscoveryInv'
  BY DEF Views!PlaceOrder, ViewsInv, DiscoveryInv, DiscoveryIsRight
<1> DEFINE o == [market |-> m, side |-> side, price |-> Entry + offset, kind |-> type.kind, reduceOnly |-> type.reduceOnly]
<1>2. o \in Order
  <2>1. Entry + offset \in Int
    BY ViewsAreSound DEF Views!ViewsAssumption
  <2> QED
    BY <2>1 DEF Order
<1>3. /\ DOMAIN orders' = DOMAIN orders \cup {i}
      /\ orders'[i] = o /\ \A j \in DOMAIN orders \ {i} : orders'[j] = orders[j]
  BY DEF Views!PlaceOrder
<1> HIDE DEF o
<1>4. OrdersInv'
  BY <1>2, <1>3 DEF ViewsInv, OrdersInv
<1> QED
  BY <1>1, <1>4 DEF ViewsInv

LEMMA CancelKeeps == ASSUME OrdersInv, NEW hit, Views!Cancel(hit) PROVE OrdersInv'
  BY DEF OrdersInv, Views!Cancel

(* A cancel, too, looks at the known dexes.                                *)
LEMMA DiscoveryKeeps ==
  ASSUME DiscoveryInv, NEW fails \in BOOLEAN, known' = Views!KnownDexes(fails), UNCHANGED <<clock, positions, filled>>,
         seen' = None \/ seen' = Views!GetOpenExposures(None, Views!KnownDexes(fails))
  PROVE  DiscoveryInv'
<1>1. DiscoveryIsRight(known)' /\ clock' - known'.at < DiscoveryTtl
  BY DiscoveryFinds DEF DiscoveryIsRight
<1>2. seen' # None => \A m \in positions : m.dex \in {""} \cup known'.dexes => m \in seen'
  BY DEF Views!GetOpenExposures
<1> QED
  BY <1>1, <1>2 DEF DiscoveryInv

LEMMA ViewsTickKeeps == ASSUME ViewsInv, Views!Tick PROVE ViewsInv'
<1>1. clock' = clock + 1 /\ clock \in Nat /\ seen' = None /\ UNCHANGED <<positions, filled, orders, known>>
  BY DEF Views!Tick, ViewsInv, DiscoveryInv
<1>2. ASSUME NEW m \in positions, m.dex # "" PROVE filled[m.dex] <= clock'
  <2>1. m.dex \in Views!Dexes
    BY <1>2 DEF Views!Dexes, ViewsInv, DiscoveryInv
  <2>2. filled[m.dex] \in Nat /\ filled[m.dex] <= clock
    BY <1>2, <2>1 DEF ViewsInv, DiscoveryInv
  <2> QED
    BY <1>1, <2>2
<1>3. ASSUME DiscoveryIsRight(known) PROVE DiscoveryIsRight(known)'
  <2>1. known.at \in Nat /\ known.at <= clock'
    BY <1>1, <1>3 DEF DiscoveryIsRight
  <2> QED
    BY <1>1, <1>3, <2>1 DEF DiscoveryIsRight
<1>4. clock' \in Nat /\ positions' \subseteq Markets /\ filled' \in [Views!Dexes -> Nat]
  <2>1. positions \subseteq Markets /\ filled \in [Views!Dexes -> Nat]
    BY DEF ViewsInv, DiscoveryInv
  <2>2. clock' \in Nat
    BY <1>1
  <2> QED
    BY <1>1, <2>1, <2>2
<1>5. DiscoveryInv'
  BY <1>1, <1>2, <1>3, <1>4 DEF ViewsInv, DiscoveryInv
<1>6. OrdersInv'
  BY <1>1 DEF ViewsInv, OrdersInv
<1> QED
  BY <1>5, <1>6 DEF ViewsInv

LEMMA ViewsKept == ASSUME ViewsInv, Views!Next \/ UNCHANGED Views!vars PROVE ViewsInv'
<1>1. ASSUME NEW m \in Markets, NEW fails \in BOOLEAN, Views!CancelAll(m, fails) PROVE ViewsInv'
  BY <1>1, DiscoveryKeeps, CancelKeeps DEF Views!CancelAll, ViewsInv
<1>2. ASSUME NEW i, NEW fails \in BOOLEAN, Views!CancelOrder(i, fails) PROVE ViewsInv'
  BY <1>2, DiscoveryKeeps, CancelKeeps DEF Views!CancelOrder, ViewsInv
<1>3. ASSUME NEW fails \in BOOLEAN, Views!ReadPositions(fails) PROVE ViewsInv'
  BY <1>3, DiscoveryKeeps DEF Views!ReadPositions, ViewsInv, OrdersInv
<1>4. CASE Views!Tick
  BY <1>4, ViewsTickKeeps
<1>5. CASE UNCHANGED Views!vars
  BY <1>5 DEF Views!vars, ViewsInv, DiscoveryInv, DiscoveryIsRight, OrdersInv
<1> QED
  BY <1>1, <1>2, <1>3, <1>4, <1>5, OpenPositionKeeps, PlaceOrderKeeps DEF Views!Next

LEMMA PositionsHold == ASSUME ViewsInv PROVE Views!OldPositionsAreSeen
<1>1. SUFFICES ASSUME seen # None, NEW m \in positions \ seen
               PROVE  m.dex # "" /\ (known.failed \/ clock - filled[m.dex] < DiscoveryTtl)
  BY DEF Views!OldPositionsAreSeen
<1>2. m.dex # "" /\ m.dex \notin known.dexes /\ DiscoveryIsRight(known) /\ clock - known.at < DiscoveryTtl
  BY <1>1 DEF ViewsInv, DiscoveryInv
<1>3. m.dex \in Views!Dexes /\ filled[m.dex] \in Nat /\ clock \in Nat
  BY <1>2 DEF Views!Dexes, ViewsInv, DiscoveryInv
<1>4. CASE ~known.failed
  <2>1. ~(filled[m.dex] < known.at)
    BY <1>2, <1>3, <1>4 DEF DiscoveryIsRight
  <2>2. known.at \in Nat /\ DiscoveryTtl \in Nat
    BY <1>2, TtlIsPositive DEF DiscoveryIsRight
  <2> DEFINE a == known.at
             f == filled[m.dex]
  <2>3. a \in Nat /\ f \in Nat /\ ~(f < a) /\ clock \in Nat /\ clock - a < DiscoveryTtl
    BY <1>2, <1>3, <2>1, <2>2
  <2> HIDE DEF a, f
  <2>4. clock - f < DiscoveryTtl
    BY <2>2, <2>3
  <2> QED
    BY <1>2, <2>4 DEF f
<1> QED
  BY <1>2, <1>4

-----------------------------------------------------------------------------
(* Mirror images                                                           *)

LEMMA MirrorOf ==
  ASSUME OrdersInv, NEW i \in DOMAIN orders
  PROVE  LET o == orders[i]
             n == Views!MirroredOrders[i]
         IN  /\ n.market = o.market /\ n.kind = o.kind /\ n.reduceOnly = o.reduceOnly
             /\ n.side = "buy" <=> o.side = "sell"
             /\ n.price = Views!Mirrored(o.price) /\ o.price \in Int
             /\ Views!Distance(n) = Views!Distance(o)
             /\ \A kind \in {"tp", "sl"} : Views!PriceSide(n, "short", kind) <=> Views!PriceSide(o, "long", kind)
<1> DEFINE o == orders[i]
           n == Views!MirroredOrders[i]
           p == o.price
           q == n.price
<1>1. o \in Order
  BY DEF OrdersInv
<1>2. n = [o EXCEPT !.side = IF o.side = "buy" THEN "sell" ELSE "buy", !.price = Views!Mirrored(o.price)]
  BY DEF Views!MirroredOrders
<1>3. /\ n.market = o.market /\ n.kind = o.kind /\ n.reduceOnly = o.reduceOnly
      /\ n.side = IF o.side = "buy" THEN "sell" ELSE "buy"
      /\ n.price = Views!Mirrored(o.price) /\ o.price \in Int /\ o.side \in {"buy", "sell"}
  BY <1>1, <1>2 DEF Order
<1>4. p \in Int /\ Entry \in Int /\ q = 2 * Entry - p
  BY <1>3, ViewsAreSound DEF Views!Mirrored, Views!ViewsAssumption
<1> HIDE DEF p, q
<1>5. (q >= Entry <=> p <= Entry) /\ (q <= Entry <=> p >= Entry)
  BY <1>4
<1>6. (IF q > Entry THEN q - Entry ELSE Entry - q) = (IF p > Entry THEN p - Entry ELSE Entry - p)
  BY <1>4
<1>7. Views!Distance(n) = Views!Distance(o)
  BY <1>6 DEF Views!Distance, p, q
<1>8. \A kind \in {"tp", "sl"} : Views!PriceSide(n, "short", kind) <=> Views!PriceSide(o, "long", kind)
  BY <1>5 DEF Views!PriceSide, p, q
<1> HIDE DEF o, n
<1>9. n.side = "buy" <=> o.side = "sell"
  BY <1>3
<1> QED
  BY <1>3, <1>7, <1>8, <1>9 DEF o, n

LEMMA NearestMirrored ==
  ASSUME OrdersInv, NEW S \in SUBSET DOMAIN orders, NEW n
  PROVE  Views!Nearest(Views!MirroredOrders, S, n) = Views!Nearest(orders, S, n)
<1> DEFINE Closer(os, i) == {j \in S : Views!Distance(os[j]) < Views!Distance(os[i])
                                       \/ (Views!Distance(os[j]) = Views!Distance(os[i]) /\ j < i)}
<1>1. \A j \in S : Views!Distance(Views!MirroredOrders[j]) = Views!Distance(orders[j])
  BY MirrorOf
<1>2. ASSUME NEW i \in S PROVE Closer(Views!MirroredOrders, i) = Closer(orders, i)
  BY <1>1
<1>3. \A os : Views!Nearest(os, S, n) = {i \in S : Views!Cardinality(Closer(os, i)) < n}
  BY DEF Views!Nearest
<1> HIDE DEF Closer
<1>4. {i \in S : Views!Cardinality(Closer(Views!MirroredOrders, i)) < n} = {i \in S : Views!Cardinality(Closer(orders, i)) < n}
  BY <1>2
<1> QED
  BY <1>3, <1>4

LEMMA PricesMirrored ==
  ASSUME OrdersInv, NEW S \in SUBSET DOMAIN orders
  PROVE  {Views!MirroredOrders[i].price : i \in S} = {Views!Mirrored(p) : p \in {orders[i].price : i \in S}}
<1>1. \A i \in S : Views!MirroredOrders[i].price = Views!Mirrored(orders[i].price)
  BY MirrorOf
<1> QED
  BY <1>1

LEMMA LevelsHold == ASSUME ViewsInv PROVE Views!LevelsAreMirrored
<1> USE DEF ViewsInv
<1>1. SUFFICES ASSUME NEW m \in Markets
               PROVE  LET long  == Views!PickLevels(orders, m, "long")
                          short == Views!PickLevels(Views!MirroredOrders, m, "short")
                      IN  /\ short.takeProfits = {Views!Mirrored(p) : p \in long.takeProfits}
                          /\ short.stopLoss = {Views!Mirrored(p) : p \in long.stopLoss}
  BY DEF Views!LevelsAreMirrored
<1> DEFINE Candidates(os, side) ==
             {i \in DOMAIN os : /\ Views!SymbolsMatch(os[i].market, m) /\ os[i].reduceOnly
                                /\ os[i].side = IF side = "long" THEN "sell" ELSE "buy"}
           Explicit(os, side, kind) == {i \in Candidates(os, side) : os[i].kind = kind}
           Fallback(os, side, kind) ==
             {i \in Candidates(os, side) : os[i].kind = None /\ Views!PriceSide(os[i], side, kind)}
           Targets(os, side) == Explicit(os, side, "tp") \cup Fallback(os, side, "tp")
           Stops(os, side) == IF Explicit(os, side, "sl") # {} THEN Explicit(os, side, "sl") ELSE Fallback(os, side, "sl")
           mirror == Views!MirroredOrders
<1>2. \A os, side : Views!PickLevels(os, m, side) =
        [takeProfits |-> {os[i].price : i \in Views!Nearest(os, Targets(os, side), 3)},
         stopLoss    |-> {os[i].price : i \in Views!Nearest(os, Stops(os, side), 1)}]
  BY DEF Views!PickLevels
<1>3. Candidates(mirror, "short") = Candidates(orders, "long")
  <2>1. DOMAIN mirror = DOMAIN orders
    BY DEF Views!MirroredOrders
  <2>2. ASSUME NEW i \in DOMAIN orders
        PROVE  /\ mirror[i].market = orders[i].market /\ mirror[i].reduceOnly = orders[i].reduceOnly
               /\ mirror[i].side = "buy" <=> orders[i].side = "sell"
    BY MirrorOf
  <2> QED
    BY <2>1, <2>2
<1>4. Candidates(orders, "long") \subseteq DOMAIN orders
  OBVIOUS
<1> HIDE DEF Candidates
<1>5. ASSUME NEW kind \in {"tp", "sl"}
      PROVE  /\ Explicit(mirror, "short", kind) = Explicit(orders, "long", kind)
             /\ Fallback(mirror, "short", kind) = Fallback(orders, "long", kind)
  <2>1. ASSUME NEW i \in Candidates(orders, "long")
        PROVE  /\ mirror[i].kind = orders[i].kind
               /\ Views!PriceSide(mirror[i], "short", kind) <=> Views!PriceSide(orders[i], "long", kind)
    BY <1>4, MirrorOf
  <2> QED
    BY <1>3, <2>1
<1>6. /\ Targets(mirror, "short") = Targets(orders, "long") /\ Targets(orders, "long") \subseteq DOMAIN orders
      /\ Stops(mirror, "short") = Stops(orders, "long") /\ Stops(orders, "long") \subseteq DOMAIN orders
  BY <1>4, <1>5
<1> HIDE DEF Targets, Stops, mirror
<1> DEFINE near == Views!Nearest(orders, Targets(orders, "long"), 3)
           stop == Views!Nearest(orders, Stops(orders, "long"), 1)
<1>7. near \subseteq DOMAIN orders /\ stop \subseteq DOMAIN orders
  BY <1>6 DEF Views!Nearest
<1>8. Views!Nearest(mirror, Targets(mirror, "short"), 3) = near /\ Views!Nearest(mirror, Stops(mirror, "short"), 1) = stop
  BY <1>6, NearestMirrored DEF mirror
<1>9. Views!PickLevels(orders, m, "long") =
        [takeProfits |-> {orders[i].price : i \in near}, stopLoss |-> {orders[i].price : i \in stop}]
  BY <1>2
<1>10. Views!PickLevels(mirror, m, "short") =
        [takeProfits |-> {mirror[i].price : i \in near}, stopLoss |-> {mirror[i].price : i \in stop}]
  BY <1>2, <1>8
<1> HIDE DEF near, stop
<1>11. /\ {mirror[i].price : i \in near} = {Views!Mirrored(p) : p \in {orders[i].price : i \in near}}
       /\ {mirror[i].price : i \in stop} = {Views!Mirrored(p) : p \in {orders[i].price : i \in stop}}
  BY <1>7, PricesMirrored DEF mirror
<1>12. /\ Views!PickLevels(mirror, m, "short").takeProfits = {mirror[i].price : i \in near}
       /\ Views!PickLevels(mirror, m, "short").stopLoss = {mirror[i].price : i \in stop}
       /\ Views!PickLevels(orders, m, "long").takeProfits = {orders[i].price : i \in near}
       /\ Views!PickLevels(orders, m, "long").stopLoss = {orders[i].price : i \in stop}
  BY <1>9, <1>10
<1> QED
  BY <1>11, <1>12 DEF mirror

-----------------------------------------------------------------------------
(* The trading rules: stored, cached and exported (Rules)                  *)

(* The timer of the cache is never late.                                   *)
OnTime == refreshed <= clock /\ clock - refreshed <= Interval

(* A coin of the cache that is disabled was disabled since it was read.    *)
DisabledSince == \A c \in cached \ rules : disabled[c] \in Nat /\ disabled[c] >= refreshed

(* A cache that was read differs only during a save or after a failure.    *)
CacheFollows == cached \notin {{}, rules} => unread \/ ~Rules!Quiet

(* Without strays saves follow each other; the one under way stored the    *)
(* rules there are, and its first file holds them once it is half through. *)
OneSave ==
  \A q \in Saves : saves[q].pc # "idle" =>
    /\ saves[q].pc # "applied" /\ saves[q].rules = rules
    /\ saves[q].pc = "half" => exported.rules = rules
    /\ \A p \in Saves \ {q} : saves[p].pc = "idle"
Orderly ==
  ~strayed => OneSave /\ (Rules!Quiet => exported = [rules |-> rules, pairs |-> rules])

RulesInv == Rules!TypeOK /\ OnTime /\ DisabledSince /\ CacheFollows /\ Orderly

LEMMA RulesInit == ASSUME Rules!Init PROVE RulesInv
<1>1. Rules!TypeOK
  BY DEF Rules!Init, Rules!TypeOK, Rules!Idle
<1>2. OnTime /\ DisabledSince /\ CacheFollows
  BY RulesAreSound DEF Rules!RulesAssumption, Rules!Init, OnTime, DisabledSince, CacheFollows
<1>3. Orderly
  <2>1. \A q \in Saves : saves[q].pc = "idle"
    BY DEF Rules!Init, Rules!Idle
  <2> QED
    BY <2>1 DEF Rules!Init, Orderly, OneSave
<1> QED
  BY <1>1, <1>2, <1>3 DEF RulesInv

(* A cache that has just been read is right whatever was before.           *)
LEMMA RefreshKeeps ==
  ASSUME RulesInv, Rules!Refresh, UNCHANGED <<clock, rules, disabled>>
  PROVE  OnTime' /\ DisabledSince' /\ CacheFollows' /\ cached' \in SUBSET Coins /\ refreshed' \in Nat /\ unread' \in BOOLEAN
<1>1. refreshed' = clock /\ cached' = rules /\ unread' = FALSE /\ clock' = clock /\ rules' = rules
  BY DEF Rules!Refresh
<1>2. clock - clock <= Interval
  BY RulesAreSound DEF Rules!RulesAssumption, RulesInv, Rules!TypeOK
<1>3. OnTime'
  BY <1>1, <1>2 DEF RulesInv, Rules!TypeOK, OnTime
<1> QED
  BY <1>1, <1>3 DEF RulesInv, Rules!TypeOK, DisabledSince, CacheFollows

(* New rules: whatever they take out of the cache was taken out now.       *)
LEMMA AssignKeeps ==
  ASSUME RulesInv, NEW new \in SUBSET Coins, Rules!Assign(new), UNCHANGED <<clock, cached, refreshed>>
  PROVE  OnTime' /\ DisabledSince' /\ rules' \in SUBSET Coins /\ disabled' \in [Coins -> Nat \cup {None}]
  BY RulesAreSound DEF Rules!RulesAssumption, RulesInv, Rules!TypeOK, OnTime, DisabledSince, Rules!Assign

LEMMA RefreshFiresKeeps == ASSUME RulesInv, Rules!RefreshFires PROVE RulesInv'
<1>1. OnTime' /\ DisabledSince' /\ CacheFollows' /\ Rules!TypeOK'
  BY RefreshKeeps DEF Rules!RefreshFires, RulesInv, Rules!TypeOK
<1>2. Orderly'
  BY DEF Rules!RefreshFires, RulesInv, Orderly, OneSave, Rules!Quiet
<1> QED
  BY <1>1, <1>2 DEF RulesInv

LEMMA PutRulesKeeps ==
  ASSUME RulesInv, NEW q \in Saves, NEW new \in SUBSET Coins, Rules!PutRules(q, new)
  PROVE  RulesInv'
<1>1. saves' \in [Saves -> [pc : {"idle", "stored", "half", "applied"}, rules : SUBSET Coins]]
  BY DEF Rules!PutRules, RulesInv, Rules!TypeOK
<1>2. OnTime' /\ DisabledSince' /\ Rules!TypeOK'
  BY <1>1, AssignKeeps DEF Rules!PutRules, RulesInv, Rules!TypeOK
<1>3. saves'[q].pc = "stored" /\ saves'[q].rules = new /\ \A p \in Saves \ {q} : saves'[p] = saves[p]
  BY DEF Rules!PutRules, RulesInv, Rules!TypeOK
<1>4. CacheFollows'
  BY <1>3 DEF CacheFollows, Rules!Quiet
<1>5. Orderly'
  <2>1. ~strayed' => \A p \in Saves \ {q} : saves'[p].pc = "idle"
    BY <1>3 DEF Rules!PutRules, Rules!Quiet, RulesInv, Rules!TypeOK
  <2>2. rules' = new
    BY DEF Rules!PutRules, Rules!Assign
  <2> QED
    BY <1>3, <2>1, <2>2 DEF Orderly, OneSave, Rules!Quiet
<1> QED
  BY <1>2, <1>4, <1>5 DEF RulesInv

LEMMA ApplyKeeps ==
  ASSUME RulesInv, NEW q \in Saves, NEW new \in SUBSET Coins, Rules!Apply(q, new)
  PROVE  RulesInv'
<1>1. saves' \in [Saves -> [pc : {"idle", "stored", "half", "applied"}, rules : SUBSET Coins]]
  BY DEF Rules!Apply, RulesInv, Rules!TypeOK
<1>2. OnTime' /\ DisabledSince' /\ Rules!TypeOK'
  BY <1>1, AssignKeeps DEF Rules!Apply, RulesInv, Rules!TypeOK
<1>3. saves'[q].pc = "applied"
  BY DEF Rules!Apply, RulesInv, Rules!TypeOK
<1>4. CacheFollows' /\ Orderly'
  BY <1>3 DEF Rules!Apply, CacheFollows, Orderly, Rules!Quiet
<1> QED
  BY <1>2, <1>4 DEF RulesInv

LEMMA ApplyEndsKeeps == ASSUME RulesInv, NEW q \in Saves, Rules!ApplyEnds(q) PROVE RulesInv'
<1>1. saves' \in [Saves -> [pc : {"idle", "stored", "half", "applied"}, rules : SUBSET Coins]]
  BY DEF Rules!ApplyEnds, Rules!Idle, RulesInv, Rules!TypeOK
<1>2. OnTime' /\ DisabledSince' /\ CacheFollows' /\ Rules!TypeOK'
  BY <1>1, RefreshKeeps DEF Rules!ApplyEnds, RulesInv, Rules!TypeOK
<1>3. strayed'
  BY DEF Rules!ApplyEnds, RulesInv, Orderly, OneSave, Rules!TypeOK
<1> QED
  BY <1>2, <1>3 DEF RulesInv, Orderly

LEMMA ExportRulesKeeps == ASSUME RulesInv, NEW q \in Saves, Rules!ExportRules(q) PROVE RulesInv'
<1>1. /\ saves' \in [Saves -> [pc : {"idle", "stored", "half", "applied"}, rules : SUBSET Coins]]
      /\ saves'[q].pc = "half" /\ saves'[q].rules = saves[q].rules
      /\ \A p \in Saves \ {q} : saves'[p] = saves[p]
  BY DEF Rules!ExportRules, RulesInv, Rules!TypeOK
<1>2. exported' \in [rules : SUBSET Coins, pairs : SUBSET Coins] /\ exported'.rules = saves[q].rules
  BY DEF Rules!ExportRules, RulesInv, Rules!TypeOK
<1>3. Rules!TypeOK' /\ OnTime' /\ DisabledSince'
  BY <1>1, <1>2 DEF Rules!ExportRules, RulesInv, Rules!TypeOK, OnTime, DisabledSince
<1>4. CacheFollows'
  BY <1>1 DEF CacheFollows, Rules!Quiet
<1>5. Orderly'
  BY <1>1, <1>2 DEF Rules!ExportRules, RulesInv, Orderly, OneSave, Rules!Quiet
<1> QED
  BY <1>3, <1>4, <1>5 DEF RulesInv

(* The second file holds what the first one does.                          *)
LEMMA ExportPairsKeeps == ASSUME RulesInv, NEW q \in Saves, Rules!ExportPairs(q) PROVE RulesInv'
<1>1. /\ saves' \in [Saves -> [pc : {"idle", "stored", "half", "applied"}, rules : SUBSET Coins]]
      /\ saves'[q].pc = "idle" /\ \A p \in Saves \ {q} : saves'[p] = saves[p]
  BY DEF Rules!ExportPairs, Rules!Idle, RulesInv, Rules!TypeOK
<1>2. exported' = [rules |-> exported.rules, pairs |-> saves[q].rules]
  BY DEF Rules!ExportPairs, RulesInv, Rules!TypeOK
<1>3. exported' \in [rules : SUBSET Coins, pairs : SUBSET Coins]
  BY <1>2 DEF RulesInv, Rules!TypeOK
<1>4. Rules!TypeOK' /\ OnTime' /\ DisabledSince' /\ CacheFollows'
  BY <1>1, <1>3, RefreshKeeps DEF Rules!ExportPairs, RulesInv, Rules!TypeOK
<1>5. Orderly'
  <2>1. ~strayed => \A p \in Saves : saves'[p].pc = "idle"
    BY <1>1 DEF Rules!ExportPairs, RulesInv, Orderly, OneSave
  <2>2. ~strayed => exported' = [rules |-> rules, pairs |-> rules]
    BY <1>2 DEF Rules!ExportPairs, RulesInv, Orderly, OneSave
  <2> QED
    BY <2>1, <2>2 DEF Rules!ExportPairs, Orderly, OneSave, Rules!Quiet
<1> QED
  BY <1>4, <1>5 DEF RulesInv

LEMMA SaveFailsKeeps == ASSUME RulesInv, NEW q \in Saves, Rules!SaveFails(q) PROVE RulesInv'
<1>1. saves' \in [Saves -> [pc : {"idle", "stored", "half", "applied"}, rules : SUBSET Coins]]
  BY DEF Rules!SaveFails, Rules!Idle, RulesInv, Rules!TypeOK
<1> QED
  BY <1>1 DEF Rules!SaveFails, RulesInv, Rules!TypeOK, OnTime, DisabledSince, CacheFollows, Orderly

LEMMA TickKeeps == ASSUME RulesInv, Rules!Tick PROVE RulesInv'
<1>1. Rules!TypeOK' /\ OnTime'
  BY RulesAreSound DEF Rules!RulesAssumption, Rules!Tick, RulesInv, Rules!TypeOK, OnTime
<1>2. DisabledSince' /\ CacheFollows' /\ Orderly'
  BY DEF Rules!Tick, RulesInv, DisabledSince, CacheFollows, Orderly, OneSave, Rules!Quiet
<1> QED
  BY <1>1, <1>2 DEF RulesInv

LEMMA RulesNext == ASSUME RulesInv, Rules!Next \/ UNCHANGED Rules!vars PROVE RulesInv'
<1>1. CASE UNCHANGED Rules!vars
  BY <1>1 DEF Rules!vars, RulesInv, Rules!TypeOK, OnTime, DisabledSince, CacheFollows, Orderly, OneSave, Rules!Quiet
<1>2. CASE Rules!Next
  BY <1>2, RefreshFiresKeeps, TickKeeps, PutRulesKeeps, ApplyKeeps, ExportRulesKeeps, ExportPairsKeeps,
     ApplyEndsKeeps, SaveFailsKeeps DEF Rules!Next
<1> QED
  BY <1>1, <1>2

LEMMA RulesImply == ASSUME RulesInv PROVE Rules!RulesGovern
<1>1. Rules!RulesAreInForce
  BY DEF RulesInv, CacheFollows, Orderly, Rules!RulesAreInForce
<1>2. Rules!CachedIsRecent
  BY RulesAreSound DEF Rules!RulesAssumption, RulesInv, Rules!TypeOK, OnTime, DisabledSince, Rules!CachedIsRecent, Rules!Covered
<1> QED
  BY <1>1, <1>2 DEF Rules!RulesGovern

-----------------------------------------------------------------------------
(* Signals sent to the server (Signals)                                    *)

(* A rank is taken by one, so that every rank is: those of the list that   *)
(* compactRadarSignals makes are those of the list there was.              *)
LEMMA CompactHolds ==
  ASSUME NEW R, NEW s \in Seq(R), \A i \in DOMAIN s : s[i].updated \in Nat
  PROVE  /\ Signals!Compact(s) \in Seq(R)
         /\ \A k \in DOMAIN Signals!Compact(s) : \E j \in DOMAIN s : Signals!Compact(s)[k] = s[j]
<1> DEFINE n == Len(s)
           D == 1 .. n
           Before(j) == {i \in D : Signals!Ahead(s, i, j)}
           place == [j \in D |-> Cardinality(Before(j)) + 1]
<1>1. n \in Nat /\ DOMAIN s = D /\ \A i \in D : s[i] \in R
  BY LenProperties, ElementOfSeq
<1>2. IsFiniteSet(D) /\ Cardinality(D) = n
  <2>1. n \in Nat
    BY <1>1
  <2> HIDE DEF n
  <2> QED
    BY <2>1, FS_Interval
<1>3. ASSUME NEW j \in D
      PROVE  /\ IsFiniteSet(Before(j)) /\ Cardinality(Before(j)) \in Nat /\ Cardinality(Before(j)) + 1 \in D
             /\ Signals!Place(s, j) = place[j]
  <2>1. s[j].updated \in Nat
    BY <1>1
  <2>2. j \notin Before(j)
    BY <2>1 DEF Signals!Ahead
  <2>3. Before(j) \in SUBSET (D \ {j})
    BY <2>2
  <2>4. IsFiniteSet(D \ {j}) /\ Cardinality(D \ {j}) = n - 1
    BY <1>2, FS_RemoveElement
  <2>5. IsFiniteSet(Before(j)) /\ Cardinality(Before(j)) <= n - 1
    BY <2>3, <2>4, FS_Subset
  <2>6. Cardinality(Before(j)) \in Nat
    BY <2>5, FS_CardinalityType
  <2>7. Signals!Place(s, j) = Cardinality(Before(j)) + 1
    BY <1>1 DEF Signals!Place, Signals!Cardinality, Cardinality
  <2> HIDE DEF Before
  <2>8. Cardinality(Before(j)) + 1 \in D
    BY <1>1, <2>5, <2>6
  <2> QED
    BY <2>5, <2>6, <2>7, <2>8
<1>4. ASSUME NEW i \in D, NEW j \in D, Signals!Ahead(s, i, j) PROVE place[i] # place[j]
  <2>1. s[i].updated \in Nat /\ s[j].updated \in Nat /\ i \in Nat /\ j \in Nat
    BY <1>1
  <2>2. ASSUME NEW h \in Before(i) PROVE h \in Before(j)
    <3>1. s[h].updated \in Nat /\ h \in Nat
      BY <1>1
    <3> QED
      BY <1>4, <2>1, <2>2, <3>1 DEF Signals!Ahead
  <2>3. i \in Before(j) /\ i \notin Before(i)
    BY <1>4, <2>1 DEF Signals!Ahead
  <2>4. Before(i) \in SUBSET Before(j) /\ Before(i) # Before(j)
    BY <2>2, <2>3
  <2> HIDE DEF Before
  <2>5. Cardinality(Before(i)) # Cardinality(Before(j))
    BY <1>3, <2>4, FS_Subset
  <2> QED
    BY <1>3, <2>5
<1>5. ASSUME NEW i \in D, NEW j \in D, i # j PROVE Signals!Ahead(s, i, j) \/ Signals!Ahead(s, j, i)
  BY <1>1, <1>5 DEF Signals!Ahead
<1>6. place \in [D -> D]
  BY <1>3
<1>7. \A i, j \in D : place[i] = place[j] => i = j
  BY <1>4, <1>5
<1> HIDE DEF place, Before, D
<1>8. place \in Injection(D, D)
  BY <1>6, <1>7 DEF Injection, IsInjective
<1>9. place \in Surjection(D, D)
  BY <1>2, <1>8, FS_Injection
<1> DEFINE kept == IF n < HistoryLimit THEN n ELSE HistoryLimit
           from(k) == CHOOSE j \in DOMAIN s : Signals!Place(s, j) = k
<1>10. kept \in Nat /\ 1 .. kept \subseteq D
  BY <1>1, SignalsAreSound DEF Signals!SignalsAssumption, D
<1>11. ASSUME NEW k \in 1 .. kept PROVE from(k) \in D
  <2>1. \E j \in D : place[j] = k
    BY <1>9, <1>10 DEF Surjection
  <2>2. \E j \in DOMAIN s : Signals!Place(s, j) = k
    BY <1>1, <1>3, <2>1
  <2> QED
    BY <1>1, <2>2
<1>12. Signals!Compact(s) = [k \in 1 .. kept |-> s[from(k)]]
  BY DEF Signals!Compact
<1> HIDE DEF kept, from
<1>13. Signals!Compact(s) \in [1 .. kept -> R]
  BY <1>1, <1>11, <1>12
<1>14. Signals!Compact(s) \in Seq(R)
  BY <1>10, <1>13, SeqDef
<1> QED
  BY <1>1, <1>11, <1>12, <1>14

Statuses == {"ignored", "rejected", "auto_order_placed", "pending_confirmation"}
SignalRecord == [id : Nat \ {0}, content : Contents, at : Nat, updated : Nat, status : Statuses, pending : Nat, late : BOOLEAN]
PendingRecord == [coin : {CoinOf[c] : c \in Contents}, open : BOOLEAN, outcome : {"none", "auto_order_placed", "rejected"}]
EntryRecord == [id : Nat \ {0}, content : Contents, at : Nat, forgotten : SUBSET Nat]
Deciding == [pc : {"gate", "handoff"}, signal : SignalRecord, forgotten : SUBSET Nat]
Queueing == [pc : {"queued"}, signal : SignalRecord, pending : Nat]

(* What has been or may yet be handed off                                  *)
EntryOf(w) == [id |-> w.signal.id, content |-> w.signal.content, at |-> w.signal.at, forgotten |-> w.forgotten]
Sent == handed \cup {EntryOf(senders[r]) : r \in {q \in Senders : senders[q].pc = "gate"}}

(* Records with one id are of one signal; of two signals that say the same *)
(* the later one was received when the earlier was off the list, or late.  *)
Agrees(x, g) == x.id = g.id => x.content = g.content /\ x.at = g.at
Apart(g, h) == g.content = h.content /\ g.id < h.id /\ h.at - g.at <= DedupWindow => g.id \in h.forgotten
HeardIn(x, list) == x.pending # 0 /\ list[x.pending].outcome # "none" => x.status = list[x.pending].outcome

RecordIsRight(x, n, list, sent) ==
  /\ x.id <= n /\ x.pending <= Len(list) /\ (x.late \/ HeardIn(x, list))
  /\ \A g \in sent : Agrees(x, g)
SenderIsRight(w, n, list, sent) ==
  /\ w.pc # "idle" => w.signal.id <= n /\ \A g \in sent : Agrees(w.signal, g)
  /\ w.pc = "queued" => w.pending \in 1 .. Len(list)
EntryIsRight(g, n, sent) == g \in EntryRecord /\ g.id <= n /\ \A h \in sent : Apart(h, g)

SignalsInv ==
  /\ clock \in Nat /\ received \in Nat
  /\ signals \in Seq(SignalRecord) /\ pendings \in Seq(PendingRecord)
  /\ senders \in [Senders -> {Signals!Idle} \cup Deciding \cup Queueing]
  /\ \A i \in DOMAIN signals : RecordIsRight(signals[i], received, pendings, Sent)
  /\ \A r \in Senders : SenderIsRight(senders[r], received, pendings, Sent)
  /\ \A g \in Sent : EntryIsRight(g, received, Sent)

LEMMA SignalsInit == ASSUME Signals!Init PROVE SignalsInv
<1>1. <<>> \in Seq(SignalRecord) /\ <<>> \in Seq(PendingRecord) /\ DOMAIN <<>> = {}
  BY EmptySeq, LenProperties
<1>2. Signals!Idle.pc = "idle"
  BY DEF Signals!Idle
<1>3. \A r \in Senders : senders[r].pc = "idle" /\ senders[r] = Signals!Idle
  BY <1>2 DEF Signals!Init
<1>4. Sent = {}
  BY <1>3 DEF Signals!Init, Sent
<1> QED
  BY <1>1, <1>3, <1>4 DEF Signals!Init, SignalsInv, SenderIsRight

(* The list is made of records that are right.                             *)
LEMMA ListKeeps ==
  ASSUME NEW s \in Seq(SignalRecord), signals' = Signals!Compact(s),
         \A j \in DOMAIN s : RecordIsRight(s[j], received', pendings', Sent')
  PROVE  /\ signals' \in Seq(SignalRecord)
         /\ \A i \in DOMAIN signals' : RecordIsRight(signals'[i], received', pendings', Sent')
<1>1. ASSUME NEW i \in DOMAIN s PROVE s[i].updated \in Nat
  <2>1. s[i] \in SignalRecord
    BY LenProperties, ElementOfSeq
  <2> QED
    BY <2>1 DEF SignalRecord
<1> QED
  BY <1>1, CompactHolds

(* Nothing new is to be handed off.                                        *)
LEMMA SentShrinks ==
  ASSUME SignalsInv, Sent' \subseteq Sent, received' = received
  PROVE  /\ \A g \in Sent' : EntryIsRight(g, received', Sent')
         /\ \A x, list : RecordIsRight(x, received, list, Sent) => RecordIsRight(x, received', list, Sent')
         /\ \A w, list : SenderIsRight(w, received, list, Sent) => SenderIsRight(w, received', list, Sent')
  BY DEF SignalsInv, EntryIsRight, RecordIsRight, SenderIsRight

LEMMA SenderOf ==
  ASSUME SignalsInv, NEW r \in Senders
  PROVE  /\ senders[r].pc \in {"gate", "handoff"} => senders[r] \in Deciding
         /\ senders[r].pc = "queued" => senders[r] \in Queueing
         /\ senders[r].pc \in {"gate", "handoff", "queued"} => senders[r].signal \in SignalRecord
         /\ senders[r].pc \in {"idle", "gate", "handoff", "queued"}
  BY DEF SignalsInv, Signals!Idle, Deciding, Queueing

-----------------------------------------------------------------------------
(* A signal is received.                                                   *)

LEMMA ReceiveKeeps ==
  ASSUME SignalsInv, NEW r \in Senders, NEW content \in Contents, Signals!Receive(r, content)
  PROVE  SignalsInv'
<1> DEFINE n == received + 1
           rec == Signals!Record(content)
           forgot == Signals!Forgotten
           gate == [pc |-> "gate", signal |-> rec, forgotten |-> forgot]
           new == [id |-> n, content |-> content, at |-> clock, forgotten |-> forgot]
<1>1. /\ clock \in Nat /\ received \in Nat /\ n \in Nat \ {0} /\ received < n
      /\ received' = n /\ UNCHANGED <<clock, pendings, handed>>
  BY DEF SignalsInv, Signals!Receive
<1>2. /\ rec \in SignalRecord /\ rec.id = n /\ rec.content = content /\ rec.at = clock /\ rec.pending = 0
  BY <1>1 DEF Signals!Record, SignalRecord, Statuses
<1>3. forgot \in SUBSET Nat
  BY <1>1 DEF Signals!Forgotten
<1>4. gate \in Deciding /\ gate.pc = "gate" /\ gate.signal = rec /\ EntryOf(gate) = new
  BY <1>2, <1>3 DEF Deciding, EntryOf
<1>5. new \in EntryRecord /\ new.id = n /\ new.content = content /\ new.at = clock /\ new.forgotten = forgot
  BY <1>1, <1>3 DEF EntryRecord
<1>6. /\ senders[r].pc = "idle" /\ signals' = Signals!Compact(<<rec>> \o signals)
      /\ \/ Signals!Duplicate(content) /\ senders' = senders
         \/ ~Signals!Duplicate(content) /\ senders' = [senders EXCEPT ![r] = gate]
  BY DEF Signals!Receive
<1> HIDE DEF rec, gate, new, forgot, n
<1>7. Sent' \subseteq Sent \cup {new} /\ (Signals!Duplicate(content) => Sent' \subseteq Sent)
  BY <1>1, <1>4, <1>6 DEF Sent, SignalsInv
<1>8. ASSUME NEW g \in Sent PROVE g \in EntryRecord /\ g.id \in Nat /\ g.id # 0 /\ g.id <= received /\ g.id # n /\ ~(n < g.id)
  BY <1>1 DEF SignalsInv, EntryIsRight, EntryRecord
<1>9. ASSUME NEW x \in SignalRecord, RecordIsRight(x, received, pendings, Sent)
      PROVE  RecordIsRight(x, received', pendings', Sent')
  <2>1. x.id \in Nat /\ x.id <= received /\ x.id <= n /\ x.id # n
    BY <1>1, <1>9 DEF RecordIsRight, SignalRecord
  <2> QED
    BY <1>1, <1>5, <1>7, <1>9, <2>1 DEF RecordIsRight, Agrees
<1>10. RecordIsRight(rec, received', pendings', Sent')
  <2>1. Len(pendings) \in Nat /\ n <= n
    BY <1>1, LenProperties DEF SignalsInv
  <2>2. \A g \in Sent' : Agrees(rec, g)
    BY <1>2, <1>5, <1>7, <1>8 DEF Agrees
  <2>3. HeardIn(rec, pendings')
    BY <1>2 DEF HeardIn
  <2> QED
    BY <1>1, <1>2, <2>1, <2>2, <2>3 DEF RecordIsRight
<1>11. /\ signals' \in Seq(SignalRecord)
       /\ \A i \in DOMAIN signals' : RecordIsRight(signals'[i], received', pendings', Sent')
  <2> DEFINE s == <<rec>> \o signals
  <2>1. signals \in Seq(SignalRecord) /\ Len(signals) \in Nat /\ DOMAIN signals = 1 .. Len(signals)
    BY LenProperties DEF SignalsInv
  <2>2. <<rec>> \in Seq(SignalRecord) /\ Len(<<rec>>) = 1 /\ <<rec>>[1] = rec
    BY <1>2
  <2>3. /\ s \in Seq(SignalRecord) /\ Len(s) = 1 + Len(signals)
        /\ \A i \in 1 .. 1 + Len(signals) : s[i] = IF i <= 1 THEN <<rec>>[i] ELSE signals[i - 1]
    BY <2>1, <2>2, ConcatProperties
  <2> HIDE DEF s
  <2>4. ASSUME NEW j \in DOMAIN s PROVE s[j] = rec \/ \E i \in DOMAIN signals : s[j] = signals[i]
    <3>1. DOMAIN s = 1 .. 1 + Len(signals)
      BY <2>3, LenProperties
    <3>2. CASE j = 1
      BY <2>1, <2>2, <2>3, <3>1, <3>2
    <3>3. CASE j # 1
      <4>1. j - 1 \in DOMAIN signals /\ s[j] = signals[j - 1]
        BY <2>1, <2>3, <3>1, <3>3
      <4> QED
        BY <4>1
    <3> QED
      BY <3>2, <3>3
  <2>5. ASSUME NEW i \in DOMAIN signals PROVE RecordIsRight(signals[i], received', pendings', Sent')
    <3>1. signals[i] \in SignalRecord
      BY <2>1, ElementOfSeq
    <3> QED
      BY <1>9, <3>1 DEF SignalsInv
  <2>6. \A j \in DOMAIN s : RecordIsRight(s[j], received', pendings', Sent')
    BY <1>10, <2>4, <2>5
  <2>7. signals' = Signals!Compact(s)
    BY <1>6 DEF s
  <2> QED
    BY <2>3, <2>6, <2>7, ListKeeps
<1>12. ASSUME NEW q \in Senders PROVE SenderIsRight(senders'[q], received', pendings', Sent')
  <2>1. CASE senders'[q] = senders[q]
    <3>1. SenderIsRight(senders[q], received, pendings, Sent)
      BY DEF SignalsInv
    <3>2. CASE senders[q].pc = "idle"
      BY <2>1, <3>2 DEF SenderIsRight
    <3>3. CASE senders[q].pc # "idle"
      <4>1. senders[q].signal \in SignalRecord
        BY <3>3, SenderOf
      <4>2. senders[q].signal.id <= n /\ senders[q].signal.id # n
        BY <1>1, <3>1, <3>3, <4>1 DEF SenderIsRight, SignalRecord
      <4> QED
        BY <1>1, <1>5, <1>7, <2>1, <3>1, <3>3, <4>2 DEF SenderIsRight, Agrees
    <3> QED
      BY <3>2, <3>3
  <2>2. CASE senders'[q] = gate
    <3>1. n <= n
      BY <1>1
    <3> QED
      BY <1>1, <1>2, <1>4, <1>10, <2>2, <3>1 DEF SenderIsRight, RecordIsRight
  <2> QED
    BY <1>6, <2>1, <2>2 DEF SignalsInv
<1>13. ASSUME ~Signals!Duplicate(content), NEW h \in Sent PROVE Apart(h, new)
  <2>1. SUFFICES ASSUME h.content = content, clock - h.at <= DedupWindow, h.id \notin forgot PROVE FALSE
    BY <1>5 DEF Apart
  <2>2. h.id \in 1 .. received
    BY <1>1, <1>8
  <2>3. PICK i \in DOMAIN signals : signals[i].id = h.id
    BY <2>1, <2>2 DEF forgot, Signals!Forgotten
  <2>4. signals[i].content = h.content /\ signals[i].at = h.at
    BY <2>3 DEF SignalsInv, RecordIsRight, Agrees
  <2> QED
    BY <1>13, <2>1, <2>3, <2>4 DEF Signals!Duplicate
<1>14. ASSUME NEW g \in Sent' PROVE EntryIsRight(g, received', Sent')
  <2>1. CASE g \in Sent
    <3>1. g.id <= n /\ EntryIsRight(g, received, Sent)
      BY <1>1, <1>8, <2>1 DEF SignalsInv
    <3>2. Apart(new, g)
      BY <1>5, <1>8, <2>1 DEF Apart
    <3> QED
      BY <1>1, <1>7, <3>1, <3>2 DEF EntryIsRight
  <2>2. CASE g = new /\ g \notin Sent
    <3>1. n <= n /\ ~(n < n)
      BY <1>1
    <3>2. ~Signals!Duplicate(content)
      BY <1>7, <2>2
    <3>3. Apart(new, new)
      BY <1>5, <3>1 DEF Apart
    <3> QED
      BY <1>1, <1>5, <1>7, <1>13, <2>2, <3>1, <3>2, <3>3 DEF EntryIsRight
  <2> QED
    BY <1>7, <2>1, <2>2
<1>15. senders' \in [Senders -> {Signals!Idle} \cup Deciding \cup Queueing]
  BY <1>4, <1>6 DEF SignalsInv
<1>16. clock' \in Nat /\ received' \in Nat /\ pendings' \in Seq(PendingRecord)
  BY <1>1 DEF SignalsInv
<1> QED
  BY <1>11, <1>12, <1>14, <1>15, <1>16 DEF SignalsInv

-----------------------------------------------------------------------------
(* What becomes of a signal                                                *)

(* The list as it is written, each of its records as it was or as x.       *)
LEMMA ListRewritten ==
  ASSUME SignalsInv, NEW x \in SignalRecord, NEW s, UNCHANGED <<clock, received, pendings>>, Sent' \subseteq Sent,
         RecordIsRight(x, received, pendings, Sent),
         s = [i \in DOMAIN signals |-> s[i]], \A i \in DOMAIN signals : s[i] \in {signals[i], x},
         signals' = Signals!Compact(s)
  PROVE  /\ signals' \in Seq(SignalRecord)
         /\ \A i \in DOMAIN signals' : RecordIsRight(signals'[i], received', pendings', Sent')
<1>1. /\ DOMAIN signals = 1 .. Len(signals) /\ Len(signals) \in Nat
      /\ \A i \in DOMAIN signals : signals[i] \in SignalRecord
  BY LenProperties, ElementOfSeq DEF SignalsInv
<1>2. s \in Seq(SignalRecord)
  <2>1. s \in [1 .. Len(signals) -> SignalRecord]
    BY <1>1
  <2> QED
    BY <1>1, <2>1, SeqDef
<1>3. ASSUME NEW j \in DOMAIN s PROVE RecordIsRight(s[j], received', pendings', Sent')
  <2>1. RecordIsRight(s[j], received, pendings, Sent)
    BY DEF SignalsInv
  <2> QED
    BY <2>1, SentShrinks
<1> QED
  BY <1>2, <1>3, ListKeeps

(* A sender is done with its signal.                                       *)
LEMMA EndsKeeps ==
  ASSUME SignalsInv, NEW r \in Senders, senders[r].pc \in {"gate", "handoff", "queued"}, NEW status \in Statuses,
         NEW pending \in 0 .. Len(pendings), Signals!Ends(r, status, pending),
         UNCHANGED <<clock, received, pendings, handed>>
  PROVE  SignalsInv'
<1> DEFINE old == senders[r].signal
           late == pending # 0 /\ pendings[pending].outcome # "none"
           x == [old EXCEPT !.status = status, !.updated = clock, !.pending = pending, !.late = late]
           s == [i \in DOMAIN signals |-> IF signals[i].id = x.id THEN x ELSE signals[i]]
<1>1. old \in SignalRecord /\ clock \in Nat
  BY SenderOf DEF SignalsInv
<1>2. Len(pendings) \in Nat /\ pending \in Nat
  BY LenProperties DEF SignalsInv
<1>3. senders' = [senders EXCEPT ![r] = Signals!Idle] /\ signals' = Signals!Compact(s)
  BY DEF Signals!Ends, Signals!Written
<1>4. late \in BOOLEAN
  OBVIOUS
<1>5. late \/ (pending # 0 /\ pendings[pending].outcome # "none" => status = pendings[pending].outcome)
  OBVIOUS
<1> HIDE DEF late, old
<1>6. /\ x \in SignalRecord /\ x.id = old.id /\ x.content = old.content /\ x.at = old.at
      /\ x.pending = pending /\ x.status = status /\ x.late = late
  BY <1>1, <1>2, <1>4 DEF SignalRecord
<1> HIDE DEF x
<1>7. x.late \/ HeardIn(x, pendings)
  <2>1. CASE late
    <3>1. x.late
      BY <1>6, <2>1, Zenon
    <3> QED
      BY <3>1
  <2>2. CASE ~late
    BY <1>5, <1>6, <2>2 DEF HeardIn
  <2> QED
    BY <2>1, <2>2
<1>8. RecordIsRight(x, received, pendings, Sent)
  <2>1. SenderIsRight(senders[r], received, pendings, Sent) /\ senders[r].pc # "idle"
    BY DEF SignalsInv
  <2>2. old.id <= received /\ \A g \in Sent : Agrees(old, g)
    BY <2>1 DEF SenderIsRight, old
  <2>3. \A g \in Sent : Agrees(x, g)
    BY <1>6, <2>2 DEF Agrees
  <2>4. pending <= Len(pendings)
    BY <1>2
  <2> QED
    BY <1>6, <1>7, <2>2, <2>3, <2>4 DEF RecordIsRight
<1>9. Signals!Idle.pc = "idle"
  BY DEF Signals!Idle
<1>10. Sent' \subseteq Sent
  BY <1>3, <1>9 DEF Sent, SignalsInv
<1>11. /\ signals' \in Seq(SignalRecord)
       /\ \A i \in DOMAIN signals' : RecordIsRight(signals'[i], received', pendings', Sent')
  <2>1. s = [i \in DOMAIN signals |-> s[i]] /\ \A i \in DOMAIN signals : s[i] \in {signals[i], x}
    OBVIOUS
  <2> HIDE DEF s
  <2> QED
    BY <1>3, <1>6, <1>8, <1>10, <2>1, ListRewritten
<1>12. ASSUME NEW q \in Senders PROVE SenderIsRight(senders'[q], received', pendings', Sent')
  <2>1. CASE q = r
    BY <1>3, <1>9, <2>1 DEF SenderIsRight, SignalsInv
  <2>2. CASE q # r
    BY <1>3, <1>10, <2>2, SentShrinks DEF SignalsInv
  <2> QED
    BY <2>1, <2>2
<1>13. \A g \in Sent' : EntryIsRight(g, received', Sent')
  BY <1>10, SentShrinks
<1>14. senders' \in [Senders -> {Signals!Idle} \cup Deciding \cup Queueing]
  BY <1>3 DEF SignalsInv
<1> QED
  BY <1>11, <1>12, <1>13, <1>14 DEF SignalsInv

LEMMA RefuseKeeps == ASSUME SignalsInv, NEW r \in Senders, Signals!Refuse(r) PROVE SignalsInv'
<1>1. PICK status \in {"ignored", "rejected"} : Signals!Ends(r, status, 0)
  BY DEF Signals!Refuse
<1>2. 0 \in 0 .. Len(pendings) /\ status \in Statuses
  BY LenProperties DEF SignalsInv, Statuses
<1> QED
  BY <1>1, <1>2, EndsKeeps DEF Signals!Refuse

LEMMA HandoffEndsKeeps == ASSUME SignalsInv, NEW r \in Senders, Signals!HandoffEnds(r) PROVE SignalsInv'
<1>1. PICK status \in {"rejected", "ignored", "auto_order_placed"} : Signals!Ends(r, status, 0)
  BY DEF Signals!HandoffEnds
<1>2. 0 \in 0 .. Len(pendings) /\ status \in Statuses
  BY LenProperties DEF SignalsInv, Statuses
<1> QED
  BY <1>1, <1>2, EndsKeeps DEF Signals!HandoffEnds

LEMMA QueueEndsKeeps == ASSUME SignalsInv, NEW r \in Senders, Signals!QueueEnds(r) PROVE SignalsInv'
<1>1. senders[r].pending \in 1 .. Len(pendings)
  BY DEF Signals!QueueEnds, SignalsInv, SenderIsRight
<1>2. senders[r].pending \in 0 .. Len(pendings) /\ "pending_confirmation" \in Statuses
  BY <1>1, LenProperties DEF SignalsInv, Statuses
<1> QED
  BY <1>2, EndsKeeps DEF Signals!QueueEnds

(* What is handed off was to be handed off.                                *)
LEMMA HandoffKeeps == ASSUME SignalsInv, NEW r \in Senders, Signals!Handoff(r) PROVE SignalsInv'
<1> DEFINE w == [senders[r] EXCEPT !.pc = "handoff"]
<1>1. /\ senders[r].pc = "gate" /\ UNCHANGED <<clock, signals, received, pendings>>
      /\ handed' = handed \cup {EntryOf(senders[r])}
  BY DEF Signals!Handoff, Signals!Handed, EntryOf
<1>2. senders' = [senders EXCEPT ![r] = w]
  BY DEF Signals!Handoff, SignalsInv
<1>3. w \in Deciding /\ w.pc = "handoff" /\ w.signal = senders[r].signal
  BY <1>1, SenderOf DEF Deciding
<1> HIDE DEF w
<1>4. Sent' \subseteq Sent
  BY <1>1, <1>2, <1>3 DEF Sent, SignalsInv
<1>5. ASSUME NEW q \in Senders PROVE SenderIsRight(senders'[q], received', pendings', Sent')
  <2>1. SenderIsRight(senders[q], received, pendings, Sent)
    BY DEF SignalsInv
  <2>2. CASE q = r
    <3>1. SenderIsRight(w, received, pendings, Sent)
      BY <1>1, <1>3, <2>1, <2>2 DEF SenderIsRight
    <3>2. SenderIsRight(w, received', pendings, Sent')
      BY <1>1, <1>4, <3>1, SentShrinks
    <3> QED
      BY <1>1, <1>2, <2>2, <3>2 DEF SignalsInv
  <2>3. CASE q # r
    <3>1. SenderIsRight(senders[q], received', pendings, Sent')
      BY <1>1, <1>4, <2>1, SentShrinks
    <3> QED
      BY <1>1, <1>2, <2>3, <3>1 DEF SignalsInv
  <2> QED
    BY <2>2, <2>3
<1>6. \A i \in DOMAIN signals' : RecordIsRight(signals'[i], received', pendings', Sent')
  BY <1>1, <1>4, SentShrinks DEF SignalsInv
<1>7. \A g \in Sent' : EntryIsRight(g, received', Sent')
  BY <1>1, <1>4, SentShrinks
<1>8. senders' \in [Senders -> {Signals!Idle} \cup Deciding \cup Queueing]
  BY <1>2, <1>3 DEF SignalsInv
<1> QED
  BY <1>1, <1>5, <1>6, <1>7, <1>8 DEF SignalsInv

-----------------------------------------------------------------------------
(* Pending confirmations                                                   *)

(* One of the list, or one more, is e.                                     *)
LEMMA PendingChanges ==
  ASSUME NEW list \in Seq(PendingRecord), NEW p \in 1 .. Len(list), NEW e \in PendingRecord
  PROVE  LET new == [list EXCEPT ![p] = e]
         IN  /\ new \in Seq(PendingRecord) /\ Len(new) = Len(list) /\ new[p] = e
             /\ \A q \in 1 .. Len(list) : q # p => new[q] = list[q]
  BY ExceptSeq

LEMMA PendingOf ==
  ASSUME SignalsInv, NEW p \in 1 .. Len(pendings) PROVE pendings[p] \in PendingRecord
  BY ElementOfSeq DEF SignalsInv

(* Nobody has to hear of a pending that has no outcome.                    *)
LEMMA PendingForgets ==
  ASSUME NEW x \in SignalRecord, NEW n, NEW sent, NEW list \in Seq(PendingRecord), NEW new \in Seq(PendingRecord),
         RecordIsRight(x, n, list, sent), Len(list) <= Len(new),
         \A q \in 1 .. Len(list) : new[q] = list[q] \/ new[q].outcome = "none",
         \A q \in 1 .. Len(new) : q > Len(list) => new[q].outcome = "none"
  PROVE  RecordIsRight(x, n, new, sent)
<1>1. Len(list) \in Nat /\ Len(new) \in Nat /\ x.pending \in Nat /\ x.pending <= Len(list)
  BY LenProperties DEF SignalRecord, RecordIsRight
<1>2. x.pending <= Len(new)
  BY <1>1
<1>3. HeardIn(x, list) => HeardIn(x, new)
  <2>1. CASE x.pending = 0
    BY <2>1 DEF HeardIn
  <2>2. CASE x.pending # 0
    <3>1. x.pending \in 1 .. Len(list)
      BY <1>1, <2>2
    <3> QED
      BY <3>1 DEF HeardIn
  <2> QED
    BY <2>1, <2>2
<1> QED
  BY <1>2, <1>3 DEF RecordIsRight

LEMMA QueueKeeps == ASSUME SignalsInv, NEW r \in Senders, Signals!Queue(r) PROVE SignalsInv'
<1>1. /\ senders[r].pc = "handoff" /\ senders[r].signal \in SignalRecord
      /\ UNCHANGED <<clock, signals, received, handed>>
      /\ Len(pendings) \in Nat /\ pendings \in Seq(PendingRecord) /\ DOMAIN pendings = 1 .. Len(pendings)
  BY SenderOf, LenProperties DEF Signals!Queue, SignalsInv
<1>2. /\ pendings' \in Seq(PendingRecord) /\ Len(pendings) <= Len(pendings')
      /\ \A q \in 1 .. Len(pendings) : pendings'[q] = pendings[q] \/ pendings'[q].outcome = "none"
      /\ \A q \in 1 .. Len(pendings') : q > Len(pendings) => pendings'[q].outcome = "none"
      /\ \E p \in 1 .. Len(pendings') : Signals!Queued(r, p)
  <2>1. ASSUME NEW p \in 1 .. Len(pendings), pendings' = [pendings EXCEPT ![p].outcome = "none"], Signals!Queued(r, p)
        PROVE  <1>2!:
    <3> DEFINE e == [pendings[p] EXCEPT !.outcome = "none"]
    <3>1. e \in PendingRecord /\ e.outcome = "none"
      BY PendingOf DEF PendingRecord
    <3>2. pendings' = [pendings EXCEPT ![p] = e]
      BY <1>1, <2>1
    <3> HIDE DEF e
    <3>3. /\ pendings' \in Seq(PendingRecord) /\ Len(pendings') = Len(pendings) /\ pendings'[p] = e
          /\ \A q \in 1 .. Len(pendings) : q # p => pendings'[q] = pendings[q]
      BY <1>1, <3>1, <3>2, PendingChanges
    <3>4. \A q \in 1 .. Len(pendings') : ~(q > Len(pendings))
      BY <1>1, <3>3
    <3>5. Len(pendings) <= Len(pendings')
      BY <1>1, <3>3
    <3> QED
      BY <2>1, <3>1, <3>3, <3>4, <3>5
  <2>2. ASSUME pendings' = Append(pendings, [coin |-> Signals!CoinFor(r), open |-> TRUE, outcome |-> "none"]),
               Signals!Queued(r, Len(pendings) + 1)
        PROVE  <1>2!:
    <3> DEFINE e == [coin |-> Signals!CoinFor(r), open |-> TRUE, outcome |-> "none"]
    <3>1. e \in PendingRecord /\ e.outcome = "none"
      BY <1>1 DEF PendingRecord, Signals!CoinFor, SignalRecord
    <3>2. pendings' = Append(pendings, e)
      BY <2>2
    <3> HIDE DEF e
    <3>3. /\ pendings' \in Seq(PendingRecord) /\ Len(pendings') = Len(pendings) + 1
          /\ \A q \in 1 .. Len(pendings) : pendings'[q] = pendings[q]
          /\ pendings'[Len(pendings) + 1] = e
      BY <1>1, <3>1, <3>2, AppendProperties
    <3>4. ASSUME NEW q \in 1 .. Len(pendings'), q > Len(pendings) PROVE pendings'[q].outcome = "none"
      <4>1. q = Len(pendings) + 1
        BY <1>1, <3>3, <3>4
      <4> QED
        BY <3>1, <3>3, <4>1
    <3>5. Len(pendings) <= Len(pendings') /\ Len(pendings) + 1 \in 1 .. Len(pendings')
      BY <1>1, <3>3
    <3> QED
      BY <2>2, <3>3, <3>4, <3>5
  <2> QED
    BY <1>1, <2>1, <2>2 DEF Signals!Queue, Signals!OpenFor
<1>3. PICK p \in 1 .. Len(pendings') : Signals!Queued(r, p)
  BY <1>2
<1> DEFINE w == [pc |-> "queued", signal |-> senders[r].signal, pending |-> p]
<1>4. Len(pendings') \in Nat /\ p \in Nat
  BY <1>2, LenProperties
<1>5. w \in Queueing /\ w.pc = "queued" /\ w.signal = senders[r].signal /\ w.pending = p
  BY <1>1, <1>4 DEF Queueing
<1>6. senders' = [senders EXCEPT ![r] = w]
  BY <1>3 DEF Signals!Queued, SignalsInv
<1> HIDE DEF w
<1>7. Sent' \subseteq Sent
  BY <1>1, <1>5, <1>6 DEF Sent, SignalsInv
<1>8. \A i \in DOMAIN signals' : RecordIsRight(signals'[i], received', pendings', Sent')
  <2>1. SUFFICES ASSUME NEW i \in DOMAIN signals PROVE RecordIsRight(signals[i], received', pendings', Sent')
    BY <1>1
  <2>2. signals[i] \in SignalRecord /\ RecordIsRight(signals[i], received, pendings, Sent)
    BY ElementOfSeq, LenProperties DEF SignalsInv
  <2>3. RecordIsRight(signals[i], received, pendings', Sent)
    BY <1>1, <1>2, <2>2, PendingForgets
  <2> QED
    BY <1>1, <1>7, <2>3, SentShrinks
<1>9. ASSUME NEW q \in Senders PROVE SenderIsRight(senders'[q], received', pendings', Sent')
  <2>1. SenderIsRight(senders[q], received, pendings, Sent)
    BY DEF SignalsInv
  <2>2. CASE q = r
    <3>1. SenderIsRight(w, received, pendings', Sent)
      BY <1>1, <1>3, <1>5, <2>1, <2>2 DEF SenderIsRight
    <3>2. SenderIsRight(w, received', pendings', Sent')
      BY <1>1, <1>7, <3>1, SentShrinks
    <3> QED
      BY <1>6, <2>2, <3>2 DEF SignalsInv
  <2>3. CASE q # r
    <3>1. 1 .. Len(pendings) \subseteq 1 .. Len(pendings')
      BY <1>1, <1>2, <1>4
    <3>2. SenderIsRight(senders[q], received, pendings', Sent)
      BY <2>1, <3>1 DEF SenderIsRight
    <3>3. SenderIsRight(senders[q], received', pendings', Sent')
      BY <1>1, <1>7, <3>2, SentShrinks
    <3> QED
      BY <1>6, <2>3, <3>3 DEF SignalsInv
  <2> QED
    BY <2>2, <2>3
<1>10. \A g \in Sent' : EntryIsRight(g, received', Sent')
  BY <1>1, <1>7, SentShrinks
<1>11. senders' \in [Senders -> {Signals!Idle} \cup Deciding \cup Queueing]
  BY <1>5, <1>6 DEF SignalsInv
<1> QED
  BY <1>1, <1>2, <1>8, <1>9, <1>10, <1>11 DEF SignalsInv

(* All that belong to the pending are told.                                *)
LEMMA ReconcileKeeps ==
  ASSUME SignalsInv, NEW p \in DOMAIN pendings, NEW status \in {"auto_order_placed", "rejected"}, NEW closes \in BOOLEAN,
         Signals!Reconcile(p, status, closes)
  PROVE  SignalsInv'
<1> DEFINE e == [pendings[p] EXCEPT !.open = ~closes, !.outcome = status]
           Told(i) == [signals[i] EXCEPT !.status = status, !.updated = clock]
           s == [i \in DOMAIN signals |-> IF signals[i].pending = p THEN Told(i) ELSE signals[i]]
<1>1. /\ UNCHANGED <<clock, received, senders, handed>> /\ clock \in Nat
      /\ Len(pendings) \in Nat /\ pendings \in Seq(PendingRecord) /\ DOMAIN pendings = 1 .. Len(pendings)
      /\ Len(signals) \in Nat /\ signals \in Seq(SignalRecord) /\ DOMAIN signals = 1 .. Len(signals)
      /\ p \in 1 .. Len(pendings) /\ signals' = Signals!Compact(s)
  BY LenProperties DEF Signals!Reconcile, SignalsInv
<1>0. Len(pendings) \in Nat /\ p \in Nat /\ p <= Len(pendings)
  <2>1. Len(pendings) \in Nat /\ DOMAIN pendings = 1 .. Len(pendings)
    BY LenProperties DEF SignalsInv
  <2> QED
    BY <2>1
<1>2. e \in PendingRecord /\ e.outcome = status
  BY <1>1, PendingOf DEF PendingRecord
<1>3. pendings' = [pendings EXCEPT ![p] = e]
  BY <1>1 DEF Signals!Reconcile
<1> HIDE DEF e
<1>4. /\ pendings' \in Seq(PendingRecord) /\ Len(pendings') = Len(pendings) /\ pendings'[p] = e
      /\ \A q \in 1 .. Len(pendings) : q # p => pendings'[q] = pendings[q]
  BY <1>1, <1>2, <1>3, PendingChanges
<1>5. Sent' = Sent
  BY <1>1 DEF Sent
<1>6. ASSUME NEW i \in DOMAIN signals
      PROVE  s[i] \in SignalRecord /\ RecordIsRight(s[i], received', pendings', Sent')
  <2> DEFINE x == signals[i]
  <2>1. s[i] = IF x.pending = p THEN Told(i) ELSE x
    OBVIOUS
  <2>2. x \in SignalRecord /\ RecordIsRight(x, received, pendings, Sent)
    BY <1>1, ElementOfSeq DEF SignalsInv
  <2>3. CASE x.pending = p
    <3> DEFINE y == Told(i)
    <3>1. y \in SignalRecord /\ y.id = x.id /\ y.content = x.content /\ y.at = x.at /\ y.pending = p /\ y.status = status
      BY <1>1, <2>2, <2>3 DEF SignalRecord, Statuses
    <3>2. s[i] = y
      BY <2>1, <2>3
    <3> HIDE DEF y, x
    <3>3. HeardIn(y, pendings')
      BY <1>2, <1>4, <3>1 DEF HeardIn
    <3>5. RecordIsRight(y, received', pendings', Sent')
      BY <1>0, <1>1, <1>4, <1>5, <2>2, <3>1, <3>3 DEF RecordIsRight, Agrees
    <3> QED
      BY <3>1, <3>2, <3>5
  <2>4. CASE x.pending # p
    <3>1. s[i] = x /\ x.pending \in Nat
      BY <2>1, <2>2, <2>4 DEF SignalRecord
    <3> HIDE DEF x
    <3>2. x.pending # 0 => x.pending \in 1 .. Len(pendings)
      <4>1. x.pending <= Len(pendings)
        BY <2>2 DEF RecordIsRight
      <4> QED
        BY <1>0, <3>1, <4>1
    <3>3. HeardIn(x, pendings) => HeardIn(x, pendings')
      BY <1>4, <2>4, <3>2 DEF HeardIn
    <3>4. RecordIsRight(x, received', pendings', Sent')
      BY <1>1, <1>4, <1>5, <2>2, <3>3 DEF RecordIsRight
    <3> QED
      BY <2>2, <3>1, <3>4
  <2> QED
    BY <2>3, <2>4
<1>7. s \in Seq(SignalRecord) /\ DOMAIN s = DOMAIN signals
  <2>1. s \in [1 .. Len(signals) -> SignalRecord]
    BY <1>1, <1>6
  <2>2. DOMAIN s = DOMAIN signals /\ Len(signals) \in Nat
    BY <1>1
  <2> HIDE DEF s
  <2> QED
    BY <2>1, <2>2, SeqDef
<1> HIDE DEF s, Told
<1>8. /\ signals' \in Seq(SignalRecord)
      /\ \A i \in DOMAIN signals' : RecordIsRight(signals'[i], received', pendings', Sent')
  BY <1>1, <1>6, <1>7, ListKeeps
<1>9. \A r \in Senders : SenderIsRight(senders'[r], received', pendings', Sent')
  BY <1>1, <1>4, <1>5 DEF SignalsInv, SenderIsRight
<1> QED
  BY <1>1, <1>4, <1>5, <1>8, <1>9 DEF SignalsInv

LEMMA SignalsKept == ASSUME SignalsInv, Signals!Next \/ UNCHANGED Signals!vars PROVE SignalsInv'
<1>1. CASE Signals!Tick
  <2>1. clock' \in Nat /\ UNCHANGED <<signals, received, senders, pendings, handed>> /\ Sent' = Sent
    BY <1>1 DEF Signals!Tick, SignalsInv, Sent
  <2> QED
    BY <2>1 DEF SignalsInv
<1>2. CASE UNCHANGED Signals!vars
  <2>1. UNCHANGED <<clock, signals, received, senders, pendings, handed>> /\ Sent' = Sent
    BY <1>2 DEF Signals!vars, Sent
  <2> QED
    BY <2>1 DEF SignalsInv
<1> QED
  BY <1>1, <1>2, ReceiveKeeps, RefuseKeeps, HandoffKeeps, HandoffEndsKeeps, QueueKeeps, QueueEndsKeeps, ReconcileKeeps
     DEF Signals!Next

LEMMA SignalsImply == ASSUME SignalsInv PROVE Signals!HandedOffOnce /\ Signals!OutcomesAreHeard
<1>1. Signals!HandedOffOnce
  BY DEF SignalsInv, Sent, EntryIsRight, Apart, Signals!HandedOffOnce
<1>2. Signals!OutcomesAreHeard
  BY DEF SignalsInv, RecordIsRight, HeardIn, Signals!Heard, Signals!OutcomesAreHeard
<1> QED
  BY <1>1, <1>2

-----------------------------------------------------------------------------
(* The Telegram outbox (Outbox)                                            *)

Letter == [st : {"queued", "sent", "failed"}, att : Nat, wait : BOOLEAN, old : BOOLEAN]
BoxIsRight(box, u) ==
  /\ box \in [Msgs -> Letter \cup {None}]
  /\ \A m \in Msgs : box[m] # None => m \in u

BoxesInv ==
  /\ BoxIsRight(mem, used) /\ BoxIsRight(stored, used)
  /\ reader # None => BoxIsRight(reader, used)
  /\ rl # None => BoxIsRight(rl, used)
  /\ linked \in BOOLEAN /\ troubles \in Nat /\ delivered \in [Msgs -> Nat]
  /\ sending \subseteq used /\ used \subseteq Msgs
  /\ \A n \in used : \A m \in Msgs : m < n => m \in used

(* A letter that is queued, or in the hands of the tick, can still be sent *)
(* once; one that the tick holds beside memory has cost a trouble.         *)
DeliveriesFit(m) ==
  /\ delivered[m] <= 1 + troubles
  /\ mem[m] # None /\ mem[m].st = "queued" => delivered[m] <= troubles
  /\ m \in sending => delivered[m] <= troubles /\ (~linked => delivered[m] + 1 <= troubles)
  /\ delivered[m] > 0 => m \in used

(* Without trouble memory knows what was sent, and what is to be; and a    *)
(* letter of the key of a later one has failed or is gone.                 *)
MemoryKnows(m) ==
  troubles = 0 =>
    /\ linked
    /\ delivered[m] > 0 /\ mem[m] # None => mem[m].st = "sent"
    /\ m \in sending /\ mem[m] # None => mem[m].st = "queued"
    /\ \A n \in used : m < n /\ Key[m] = Key[n] => mem[m] = None \/ mem[m].st = "failed"

OutboxInv == BoxesInv /\ \A m \in Msgs : DeliveriesFit(m) /\ MemoryKnows(m)

LEMMA OutboxInit == ASSUME Outbox!Init PROVE OutboxInv
<1>1. BoxIsRight(Outbox!Nothing, {})
  BY DEF BoxIsRight, Outbox!Nothing
<1>2. BoxesInv
  BY <1>1 DEF Outbox!Init, BoxesInv
<1>3. ASSUME NEW m \in Msgs PROVE DeliveriesFit(m) /\ MemoryKnows(m)
  <2>1. delivered[m] = 0 /\ mem[m] = None /\ sending = {} /\ used = {} /\ linked /\ troubles = 0
    BY DEF Outbox!Init, Outbox!Nothing
  <2> QED
    BY <2>1 DEF DeliveriesFit, MemoryKnows
<1> QED
  BY <1>2, <1>3 DEF OutboxInv

LEMMA CompactRemoves ==
  ASSUME NEW box, NEW u, BoxIsRight(box, u)
  PROVE  BoxIsRight(Outbox!Compact(box), u) /\ \A m \in Msgs : Outbox!Compact(box)[m] \in {box[m], None}
  BY DEF BoxIsRight, Outbox!Compact

LEMMA WriteKeeps ==
  ASSUME NEW box, NEW u, BoxIsRight(box, u), BoxIsRight(stored, u), Outbox!Write(box)
  PROVE  BoxIsRight(stored', u)
  BY DEF BoxIsRight, Outbox!Write

LEMMA CurrentIsSending == ASSUME BoxesInv, sending # {} PROVE Outbox!Current \in sending
<1>1. sending \subseteq Nat
  BY OutboxIsSound DEF BoxesInv, Outbox!OutboxAssumption
<1>2. \E m \in sending : \A n \in sending : m <= n
  BY <1>1, HasLeast
<1> QED
  BY <1>2 DEF Outbox!Current

(* Memory loses messages, and no other variable that matters changes.      *)
LEMMA MessagesLeave ==
  ASSUME NEW m \in Msgs, DeliveriesFit(m), MemoryKnows(m), mem'[m] \in {mem[m], None},
         UNCHANGED <<delivered, troubles, sending, linked, used>>
  PROVE  DeliveriesFit(m)' /\ MemoryKnows(m)'
  BY DEF DeliveriesFit, MemoryKnows

LEMMA EnqueueKeeps == ASSUME OutboxInv, NEW m \in Msgs, Outbox!Enqueue(m) PROVE OutboxInv'
<1> DEFINE box == [mem EXCEPT ![m] = Outbox!New]
<1>1. /\ m \notin used /\ used' = used \cup {m} /\ mem' = Outbox!Compact(box) /\ Outbox!Write(mem')
      /\ UNCHANGED <<reader, rl, sending, linked, delivered, troubles>>
      /\ \A n \in Msgs \ used : m <= n
  BY DEF Outbox!Enqueue
<1>2. Outbox!New \in Letter /\ Outbox!New.st = "queued"
  BY DEF Outbox!New, Letter
<1>3. \A b : BoxIsRight(b, used) => BoxIsRight(b, used')
  BY <1>1 DEF BoxIsRight
<1>4. BoxIsRight(box, used')
  BY <1>1, <1>2 DEF OutboxInv, BoxesInv, BoxIsRight
<1>5. \A n \in Msgs : n # m => box[n] = mem[n]
  BY DEF OutboxInv, BoxesInv, BoxIsRight
<1>6. box[m] = Outbox!New
  BY DEF OutboxInv, BoxesInv, BoxIsRight
<1> HIDE DEF box
<1>7. BoxIsRight(mem', used') /\ \A n \in Msgs : mem'[n] \in {box[n], None}
  BY <1>1, <1>4, CompactRemoves
<1>8. BoxIsRight(stored', used')
  BY <1>1, <1>3, <1>7, WriteKeeps DEF OutboxInv, BoxesInv
<1>9. \A n \in used' : \A k \in Msgs : k < n => k \in used'
  <2>1. SUFFICES ASSUME NEW k \in Msgs, k < m, k \notin used PROVE FALSE
    BY <1>1 DEF OutboxInv, BoxesInv
  <2>2. m <= k /\ m \in Nat /\ k \in Nat
    BY <1>1, <2>1, OutboxIsSound DEF Outbox!OutboxAssumption
  <2> QED
    BY <2>1, <2>2
<1>10. BoxesInv'
  BY <1>1, <1>3, <1>7, <1>8, <1>9 DEF OutboxInv, BoxesInv
<1>11. ASSUME NEW n \in Msgs PROVE DeliveriesFit(n)' /\ MemoryKnows(n)'
  <2>1. CASE n = m
    <3>1. m \notin sending /\ delivered[m] \in Nat /\ troubles \in Nat /\ ~(delivered[m] > 0)
      BY <1>1 DEF OutboxInv, BoxesInv, DeliveriesFit
    <3>2. delivered[m] = 0 /\ delivered[m] <= 1 + troubles /\ delivered[m] <= troubles
      BY <3>1
    <3>3. ASSUME NEW k \in used' PROVE ~(m < k)
      <4>1. k = m \/ k \in used
        BY <1>1
      <4>2. CASE k = m
        BY <4>2, OutboxIsSound DEF Outbox!OutboxAssumption
      <4>3. CASE k \in used
        BY <1>1, <4>3 DEF OutboxInv, BoxesInv
      <4> QED
        BY <4>1, <4>2, <4>3
    <3>4. MemoryKnows(m) => (troubles = 0 => linked)
      BY DEF MemoryKnows
    <3>5. DeliveriesFit(m)'
      BY <1>1, <3>1, <3>2 DEF DeliveriesFit
    <3>6. MemoryKnows(m)'
      BY <1>1, <3>1, <3>2, <3>3, <3>4 DEF MemoryKnows, OutboxInv
    <3> QED
      BY <2>1, <3>5, <3>6
  <2>2. CASE n # m
    <3>1. mem'[n] \in {mem[n], None}
      BY <1>5, <1>7, <2>2
    <3>2. DeliveriesFit(n)'
      BY <1>1, <2>2, <3>1 DEF OutboxInv, DeliveriesFit
    <3>3. ASSUME Key[n] = Key[m] PROVE mem[n] = None \/ mem[n].st = "failed"
      BY <3>3 DEF Outbox!Enqueue, Outbox!Duplicate, Outbox!In
    <3>4. MemoryKnows(n)'
      BY <1>1, <2>2, <3>1, <3>3 DEF OutboxInv, MemoryKnows
    <3> QED
      BY <3>2, <3>4
  <2> QED
    BY <2>1, <2>2
<1> QED
  BY <1>10, <1>11 DEF OutboxInv

LEMMA TickStartKeeps == ASSUME OutboxInv, Outbox!TickStart PROVE OutboxInv'
<1>1. /\ sending' \subseteq Outbox!Due /\ linked' = TRUE
      /\ UNCHANGED <<mem, stored, reader, rl, used, delivered, troubles>>
  BY DEF Outbox!TickStart
<1>2. ASSUME NEW m \in Outbox!Due PROVE m \in Msgs /\ m \in used /\ mem[m] # None /\ mem[m].st = "queued"
  BY DEF Outbox!Due, Outbox!In, OutboxInv, BoxesInv, BoxIsRight
<1>3. BoxesInv'
  BY <1>1, <1>2 DEF OutboxInv, BoxesInv
<1>4. ASSUME NEW m \in Msgs PROVE DeliveriesFit(m)' /\ MemoryKnows(m)'
  BY <1>1, <1>2 DEF OutboxInv, DeliveriesFit, MemoryKnows
<1> QED
  BY <1>3, <1>4 DEF OutboxInv

(* The object that the tick holds, and what becomes of it.                 *)
LEMMA HeldIsLetter == ASSUME OutboxInv, NEW m \in Msgs PROVE Outbox!Held(m) \in Letter
<1>1. Outbox!New \in Letter
  BY DEF Outbox!New, Letter
<1>2. mem[m] \in Letter \cup {None}
  BY DEF OutboxInv, BoxesInv, BoxIsRight
<1> QED
  BY <1>1, <1>2 DEF Outbox!Held

LEMMA SentIsLetter ==
  ASSUME NEW o \in Letter PROVE [o EXCEPT !.st = "sent"] \in Letter /\ [o EXCEPT !.st = "sent"].st = "sent"
  BY DEF Letter

LEMMA FailedIsLetter ==
  ASSUME OutboxInv, NEW m \in Msgs, NEW permanent
  PROVE  Outbox!Failed(m, permanent) \in Letter
<1> DEFINE o == Outbox!Held(m)
           k == o.att + 1
<1>1. o \in Letter
  BY HeldIsLetter
<1>2. k \in Nat
  BY <1>1 DEF Letter
<1>3. Outbox!Failed(m, permanent) = [o EXCEPT !.att = k, !.st = "failed"]
      \/ Outbox!Failed(m, permanent) = [o EXCEPT !.att = k, !.wait = TRUE]
  BY DEF Outbox!Failed
<1> HIDE DEF o, k
<1>4. [o EXCEPT !.att = k, !.st = "failed"] \in Letter
  BY <1>1, <1>2 DEF Letter
<1>5. [o EXCEPT !.att = k, !.wait = TRUE] \in Letter
  BY <1>1, <1>2 DEF Letter
<1> QED
  BY <1>3, <1>4, <1>5

(* Only the message of the turn changes, if memory still has it and the    *)
(* tick holds its object; every other one stays or is dropped.             *)
LEMMA TurnMoves ==
  ASSUME OutboxInv, NEW r \in Letter, sending # {}, Outbox!Turn(r)
  PROVE  /\ Outbox!Current \in sending /\ Outbox!Current \in Msgs
         /\ sending' = sending \ {Outbox!Current}
         /\ BoxIsRight(mem', used) /\ BoxIsRight(stored', used)
         /\ \A m \in Msgs : m # Outbox!Current => mem'[m] \in {mem[m], None}
         /\ linked /\ mem[Outbox!Current] # None => mem'[Outbox!Current] \in {r, None}
         /\ ~(linked /\ mem[Outbox!Current] # None) => mem'[Outbox!Current] \in {mem[Outbox!Current], None}
<1> DEFINE c     == Outbox!Current
           after == IF linked /\ mem[c] # None THEN [mem EXCEPT ![c] = r] ELSE mem
<1>1. c \in sending /\ c \in Msgs /\ c \in used
  BY CurrentIsSending DEF OutboxInv, BoxesInv
<1>2. /\ sending' = sending \ {c}
      /\ (mem' = Outbox!Compact(after) /\ Outbox!Write(mem')) \/ (mem' = after /\ stored' = stored)
  BY DEF Outbox!Turn
<1> HIDE DEF c
<1>3. BoxIsRight(mem, used) /\ BoxIsRight(stored, used)
  BY DEF OutboxInv, BoxesInv
<1>4. BoxIsRight(after, used)
  BY <1>1, <1>3 DEF BoxIsRight
<1>5. /\ \A m \in Msgs : m # c => after[m] = mem[m]
      /\ linked /\ mem[c] # None => after[c] = r
      /\ ~(linked /\ mem[c] # None) => after[c] = mem[c]
  BY <1>1, <1>3 DEF BoxIsRight
<1> HIDE DEF after
<1>6. BoxIsRight(mem', used) /\ \A m \in Msgs : mem'[m] \in {after[m], None}
  BY <1>2, <1>4, CompactRemoves
<1>7. BoxIsRight(stored', used)
  BY <1>2, <1>3, <1>6, WriteKeeps
<1> QED
  BY <1>1, <1>2, <1>5, <1>6, <1>7 DEF c

LEMMA SendsKeeps == ASSUME OutboxInv, Outbox!Sends PROVE OutboxInv'
<1> DEFINE c == Outbox!Current
           r == [Outbox!Held(c) EXCEPT !.st = "sent"]
<1>1. /\ sending # {} /\ delivered' = [delivered EXCEPT ![c] = @ + 1]
      /\ Outbox!Turn(r) /\ UNCHANGED <<reader, rl, linked, used, troubles>>
  BY DEF Outbox!Sends
<1>2. c \in sending /\ c \in Msgs /\ c \in used
  BY <1>1, CurrentIsSending DEF OutboxInv, BoxesInv
<1>3. r \in Letter /\ r.st = "sent"
  BY <1>2, HeldIsLetter, SentIsLetter
<1> HIDE DEF r
<1>4. /\ sending' = sending \ {c} /\ BoxIsRight(mem', used) /\ BoxIsRight(stored', used)
      /\ \A m \in Msgs : m # c => mem'[m] \in {mem[m], None}
      /\ linked /\ mem[c] # None => mem'[c] \in {r, None}
      /\ ~(linked /\ mem[c] # None) => mem'[c] \in {mem[c], None}
  BY <1>1, <1>3, TurnMoves
<1> HIDE DEF c
<1>5. /\ delivered' \in [Msgs -> Nat] /\ delivered'[c] = delivered[c] + 1 /\ delivered[c] \in Nat
      /\ \A m \in Msgs : m # c => delivered'[m] = delivered[m]
  BY <1>1, <1>2 DEF OutboxInv, BoxesInv
<1>6. BoxesInv'
  BY <1>1, <1>4, <1>5 DEF OutboxInv, BoxesInv
<1>7. ASSUME NEW m \in Msgs PROVE DeliveriesFit(m)' /\ MemoryKnows(m)'
  <2>1. DeliveriesFit(m) /\ MemoryKnows(m) /\ troubles \in Nat
    BY DEF OutboxInv, BoxesInv
  <2>2. CASE m = c
    <3>1. mem'[c] = None \/ (mem'[c] = mem[c] /\ ~(linked /\ mem[c] # None)) \/ (mem'[c] = r /\ linked /\ mem[c] # None)
      BY <1>4
    <3>2. delivered'[c] <= 1 + troubles /\ (~linked => delivered'[c] <= troubles)
      BY <1>2, <1>5, <2>1, <2>2 DEF DeliveriesFit
    <3>3. DeliveriesFit(m)'
      BY <1>1, <1>2, <1>3, <1>4, <2>2, <3>1, <3>2 DEF DeliveriesFit
    <3>4. MemoryKnows(m)'
      BY <1>1, <1>2, <1>3, <1>4, <2>1, <2>2, <3>1 DEF MemoryKnows
    <3> QED
      BY <3>3, <3>4
  <2>3. CASE m # c
    <3>1. mem'[m] \in {mem[m], None} /\ delivered'[m] = delivered[m] /\ (m \in sending' <=> m \in sending)
      BY <1>4, <1>5, <2>3
    <3> QED
      BY <1>1, <2>1, <3>1 DEF DeliveriesFit, MemoryKnows
  <2> QED
    BY <2>2, <2>3
<1> QED
  BY <1>6, <1>7 DEF OutboxInv

LEMMA SendFailsKeeps == ASSUME OutboxInv, NEW permanent, Outbox!SendFails(permanent) PROVE OutboxInv'
<1> DEFINE c == Outbox!Current
           r == Outbox!Failed(c, permanent)
<1>1. sending # {} /\ Outbox!Turn(r) /\ UNCHANGED <<reader, rl, linked, used, delivered, troubles>>
  BY DEF Outbox!SendFails
<1>2. c \in sending /\ c \in Msgs /\ c \in used
  BY <1>1, CurrentIsSending DEF OutboxInv, BoxesInv
<1>3. r \in Letter
  BY <1>2, FailedIsLetter
<1> HIDE DEF r
<1>4. /\ sending' = sending \ {c} /\ BoxIsRight(mem', used) /\ BoxIsRight(stored', used)
      /\ \A m \in Msgs : m # c => mem'[m] \in {mem[m], None}
      /\ linked /\ mem[c] # None => mem'[c] \in {r, None}
      /\ ~(linked /\ mem[c] # None) => mem'[c] \in {mem[c], None}
  BY <1>1, <1>3, TurnMoves
<1> HIDE DEF c
<1>5. BoxesInv'
  BY <1>1, <1>4 DEF OutboxInv, BoxesInv
<1>6. ASSUME NEW m \in Msgs PROVE DeliveriesFit(m)' /\ MemoryKnows(m)'
  <2>1. DeliveriesFit(m) /\ MemoryKnows(m) /\ troubles \in Nat /\ delivered[m] \in Nat
    BY DEF OutboxInv, BoxesInv
  <2>2. CASE m = c
    <3>1. mem'[c] = None \/ mem'[c] = mem[c] \/ (mem'[c] = r /\ mem[c] # None)
      BY <1>4
    <3>2. delivered[c] <= troubles
      BY <1>2, <2>1, <2>2 DEF DeliveriesFit
    <3>3. DeliveriesFit(m)'
      BY <1>1, <1>2, <1>4, <2>1, <2>2, <3>2 DEF DeliveriesFit
    <3>4. troubles = 0 => ~(delivered[c] > 0) /\ (mem[c] # None => mem[c].st = "queued")
      BY <1>2, <2>1, <2>2, <3>2 DEF MemoryKnows
    <3>5. MemoryKnows(m)'
      BY <1>1, <1>4, <2>1, <2>2, <3>1, <3>4 DEF MemoryKnows
    <3> QED
      BY <3>3, <3>5
  <2>3. CASE m # c
    <3>1. mem'[m] \in {mem[m], None} /\ (m \in sending' <=> m \in sending)
      BY <1>4, <2>3
    <3> QED
      BY <1>1, <2>1, <3>1 DEF DeliveriesFit, MemoryKnows
  <2> QED
    BY <2>2, <2>3
<1> QED
  BY <1>5, <1>6 DEF OutboxInv

(* A step that costs a trouble, and delivers nothing new or one message of *)
(* the tick: what memory knows is no longer asked.                         *)
LEMMA TroubleKeeps ==
  ASSUME OutboxInv, troubles' = troubles + 1, BoxesInv',
         NEW c, delivered' = delivered \/ (c \in sending /\ c \notin sending' /\ delivered' = [delivered EXCEPT ![c] = @ + 1]),
         sending' \subseteq sending, used' = used
  PROVE  OutboxInv'
<1>1. troubles \in Nat /\ delivered \in [Msgs -> Nat]
  BY DEF OutboxInv, BoxesInv
<1>2. ASSUME NEW m \in Msgs PROVE DeliveriesFit(m)' /\ MemoryKnows(m)'
  <2>1. DeliveriesFit(m) /\ delivered[m] \in Nat
    BY <1>1 DEF OutboxInv
  <2>2. delivered'[m] = delivered[m] \/ (m = c /\ m \in sending /\ m \notin sending' /\ delivered'[m] = delivered[m] + 1)
    BY <1>1
  <2>3. troubles' # 0
    BY <1>1
  <2>4. m \in sending => m \in used
    BY DEF OutboxInv, BoxesInv
  <2>5. /\ delivered'[m] <= troubles + 1
        /\ m \in sending' => delivered'[m] + 1 <= troubles + 1
        /\ delivered'[m] > 0 => m \in used
        /\ delivered'[m] \in Nat
    BY <1>1, <2>1, <2>2, <2>4 DEF DeliveriesFit
  <2>6. DeliveriesFit(m)'
    BY <1>1, <2>5 DEF DeliveriesFit
  <2> QED
    BY <2>3, <2>6 DEF MemoryKnows
<1> QED
  BY <1>2 DEF OutboxInv

LEMMA AnswerLostKeeps == ASSUME OutboxInv, Outbox!AnswerLost PROVE OutboxInv'
<1> DEFINE c == Outbox!Current
           r == Outbox!Failed(c, FALSE)
<1>1. /\ sending # {} /\ delivered' = [delivered EXCEPT ![c] = @ + 1] /\ troubles' = troubles + 1
      /\ Outbox!Turn(r) /\ UNCHANGED <<reader, rl, linked, used>>
  BY DEF Outbox!AnswerLost, Outbox!Trouble
<1>2. c \in sending /\ c \in Msgs /\ c \in used
  BY <1>1, CurrentIsSending DEF OutboxInv, BoxesInv
<1>3. r \in Letter
  BY <1>2, FailedIsLetter
<1> HIDE DEF r
<1>4. sending' = sending \ {c} /\ BoxIsRight(mem', used) /\ BoxIsRight(stored', used)
  BY <1>1, <1>3, TurnMoves
<1> HIDE DEF c
<1>5. BoxesInv'
  BY <1>1, <1>2, <1>4 DEF OutboxInv, BoxesInv
<1> QED
  BY <1>1, <1>2, <1>4, <1>5, TroubleKeeps

(* Time passes over one letter.                                            *)
LEMMA AgesKeeps ==
  ASSUME OutboxInv, NEW m \in Msgs, NEW r \in Letter, mem[m] # None, r.st = mem[m].st,
         mem' = [mem EXCEPT ![m] = r],
         UNCHANGED <<stored, reader, rl, sending, linked, used, delivered, troubles>>
  PROVE  OutboxInv'
<1>1. mem \in [Msgs -> Letter \cup {None}] /\ m \in used
  BY DEF OutboxInv, BoxesInv, BoxIsRight
<1>2. \A n \in Msgs : n # m => mem'[n] = mem[n]
  BY <1>1
<1>3. mem'[m] = r
  BY <1>1
<1>4. BoxIsRight(mem', used)
  BY <1>1, <1>2, <1>3 DEF BoxIsRight, OutboxInv, BoxesInv
<1>5. BoxesInv'
  BY <1>4 DEF OutboxInv, BoxesInv
<1>6. ASSUME NEW n \in Msgs PROVE DeliveriesFit(n)' /\ MemoryKnows(n)'
  <2>1. CASE n # m
    BY <1>2, <2>1 DEF OutboxInv, DeliveriesFit, MemoryKnows
  <2>2. CASE n = m
    BY <1>3, <2>2 DEF OutboxInv, DeliveriesFit, MemoryKnows
  <2> QED
    BY <2>1, <2>2
<1> QED
  BY <1>5, <1>6 DEF OutboxInv

LEMMA BackoffEndsKeeps == ASSUME OutboxInv, NEW m \in Msgs, Outbox!BackoffEnds(m) PROVE OutboxInv'
<1> DEFINE r == [mem[m] EXCEPT !.wait = FALSE]
<1>1. /\ mem[m] # None /\ mem' = [mem EXCEPT ![m] = r]
      /\ UNCHANGED <<stored, reader, rl, sending, linked, used, delivered, troubles>>
  BY DEF Outbox!BackoffEnds
<1>2. mem[m] \in Letter
  BY <1>1 DEF OutboxInv, BoxesInv, BoxIsRight
<1>3. r \in Letter /\ r.st = mem[m].st
  BY <1>2 DEF Letter
<1> HIDE DEF r
<1> QED
  BY <1>1, <1>3, AgesKeeps

LEMMA RetentionEndsKeeps == ASSUME OutboxInv, NEW m \in Msgs, Outbox!RetentionEnds(m) PROVE OutboxInv'
<1> DEFINE r == [mem[m] EXCEPT !.old = TRUE]
<1>1. /\ mem[m] # None /\ mem' = [mem EXCEPT ![m] = r]
      /\ UNCHANGED <<stored, reader, rl, sending, linked, used, delivered, troubles>>
  BY DEF Outbox!RetentionEnds
<1>2. mem[m] \in Letter
  BY <1>1 DEF OutboxInv, BoxesInv, BoxIsRight
<1>3. r \in Letter /\ r.st = mem[m].st
  BY <1>2 DEF Letter
<1> HIDE DEF r
<1> QED
  BY <1>1, <1>3, AgesKeeps

LEMMA StoreMovesKeeps ==
  ASSUME OutboxInv,
         UNCHANGED <<mem, stored, sending, linked, used, delivered, troubles>>,
         reader' \in {reader, stored}, rl' \in {rl, stored}
  PROVE  OutboxInv'
<1>1. BoxesInv'
  BY DEF OutboxInv, BoxesInv
<1>2. ASSUME NEW m \in Msgs PROVE DeliveriesFit(m)' /\ MemoryKnows(m)'
  BY DEF OutboxInv, DeliveriesFit, MemoryKnows
<1> QED
  BY <1>1, <1>2 DEF OutboxInv

LEMMA ReloadEndKeeps == ASSUME OutboxInv, Outbox!ReloadEnd PROVE OutboxInv'
<1>1. /\ rl # None /\ troubles' = troubles + 1 /\ mem' = rl /\ rl' = None /\ linked' = FALSE
      /\ UNCHANGED <<stored, reader, sending, used, delivered>>
  BY DEF Outbox!ReloadEnd, Outbox!Trouble
<1>2. BoxIsRight(mem', used') /\ BoxIsRight(stored', used') /\ (reader' # None => BoxIsRight(reader', used'))
  BY <1>1 DEF OutboxInv, BoxesInv
<1>3. /\ troubles' \in Nat /\ delivered' \in [Msgs -> Nat]
      /\ sending' \subseteq used' /\ used' \subseteq Msgs
      /\ \A n \in used' : \A m \in Msgs : m < n => m \in used'
  BY <1>1 DEF OutboxInv, BoxesInv
<1>4. rl' = None /\ linked' \in BOOLEAN
  <2>1. linked' = FALSE
    BY <1>1
  <2> QED
    BY <1>1, <2>1
<1>5. BoxesInv'
  BY <1>2, <1>3, <1>4 DEF BoxesInv
<1> QED
  BY <1>1, <1>5, TroubleKeeps

LEMMA WorkerWritesKeeps == ASSUME OutboxInv, Outbox!WorkerWrites PROVE OutboxInv'
<1>1. /\ reader # None /\ troubles' = troubles + 1 /\ Outbox!Write(reader) /\ reader' = None
      /\ UNCHANGED <<mem, rl, sending, linked, used, delivered>>
  BY DEF Outbox!WorkerWrites, Outbox!Trouble
<1>2. BoxIsRight(stored', used)
  BY <1>1, WriteKeeps DEF OutboxInv, BoxesInv
<1>3. BoxesInv'
  BY <1>1, <1>2 DEF OutboxInv, BoxesInv
<1> QED
  BY <1>1, <1>3, TroubleKeeps

LEMMA CrashKeeps == ASSUME OutboxInv, Outbox!Crash PROVE OutboxInv'
<1>1. /\ troubles' = troubles + 1 /\ mem' = stored /\ rl' = None /\ sending' = {} /\ linked' = TRUE
      /\ UNCHANGED <<stored, reader, used, delivered>>
  BY DEF Outbox!Crash, Outbox!Trouble
<1>2. BoxesInv'
  BY <1>1 DEF OutboxInv, BoxesInv
<1> QED
  BY <1>1, <1>2, TroubleKeeps

(* Every step of the outbox keeps the invariant.                           *)
LEMMA OutboxKept == ASSUME OutboxInv, Outbox!Next \/ UNCHANGED Outbox!vars PROVE OutboxInv'
<1>1. CASE UNCHANGED Outbox!vars
  <2>1. UNCHANGED <<mem, stored, sending, linked, used, delivered, troubles, reader, rl>>
    BY <1>1 DEF Outbox!vars
  <2> QED
    BY <2>1, StoreMovesKeeps
<1>2. CASE Outbox!ReloadStart
  BY <1>2, StoreMovesKeeps DEF Outbox!ReloadStart
<1>3. CASE Outbox!WorkerLoads
  BY <1>3, StoreMovesKeeps DEF Outbox!WorkerLoads
<1> QED
  BY <1>1, <1>2, <1>3, EnqueueKeeps, TickStartKeeps, SendsKeeps, SendFailsKeeps, AnswerLostKeeps, BackoffEndsKeeps,
     RetentionEndsKeeps, ReloadEndKeeps, WorkerWritesKeeps, CrashKeeps DEF Outbox!Next, Outbox!SendEnds

(* Two messages of one key are never both delivered while memory has the   *)
(* older one, and no message more often than the troubles allow.           *)
LEMMA OutboxImplies == ASSUME OutboxInv PROVE Outbox!OncePerTrouble /\ Outbox!OneMessagePerKey
<1>1. Outbox!OncePerTrouble
  BY DEF OutboxInv, DeliveriesFit, Outbox!OncePerTrouble
<1>2. Outbox!OneMessagePerKey
  BY DEF OutboxInv, DeliveriesFit, MemoryKnows, Outbox!OneMessagePerKey
<1> QED
  BY <1>1, <1>2

-----------------------------------------------------------------------------
(* The rule engine (Engine)                                                *)

(* Rules are ordered by tier and id, so that every queue has a first.      *)
LEMMA BeforeOrders ==
  ASSUME NEW r \in Engine!Rules, NEW s \in Engine!Rules
  PROVE  /\ ~(Engine!Before(r, s) /\ Engine!Before(s, r))
         /\ r # s => Engine!Before(r, s) \/ Engine!Before(s, r)
<1>1. Tier[r] \in Int /\ Tier[s] \in Int /\ r \in Int /\ s \in Int
  BY EngineIsSound DEF Engine!EngineAssumption, Engine!Rules
<1> QED
  BY <1>1 DEF Engine!Before

LEMMA QueueHasFirst ==
  ASSUME NEW S \in SUBSET Engine!Rules, S # {}
  PROVE  Engine!First(S) \in S /\ \A s \in S \ {Engine!First(S)} : Engine!Before(Engine!First(S), s)
<1>1. Engine!Rules \subseteq Nat /\ \A r \in S : Tier[r] \in {100, 200, 300}
  BY EngineIsSound DEF Engine!EngineAssumption, Engine!Rules
<1>2. \E r \in S : \A s \in S \ {r} : Engine!Before(r, s)
  <2>1. ASSUME NEW t \in {100, 200, 300}, \E r \in S : Tier[r] = t, \A r \in S : Tier[r] <= t
        PROVE  \E r \in S : \A s \in S \ {r} : Engine!Before(r, s)
    <3>1. {r \in S : Tier[r] = t} \subseteq Nat /\ {r \in S : Tier[r] = t} # {}
      BY <1>1, <2>1
    <3>2. PICK r \in {x \in S : Tier[x] = t} : \A s \in {x \in S : Tier[x] = t} : r <= s
      BY <3>1, HasLeast
    <3>3. ASSUME NEW s \in S \ {r} PROVE Engine!Before(r, s)
      <4>1. Tier[s] \in {100, 200, 300} /\ Tier[s] <= t /\ Tier[r] = t /\ r \in Nat /\ s \in Nat /\ r # s
        BY <1>1, <2>1, <3>2
      <4>2. CASE Tier[s] = t
        BY <3>2, <4>1, <4>2 DEF Engine!Before
      <4>3. CASE Tier[s] # t
        BY <4>1, <4>3 DEF Engine!Before
      <4> QED
        BY <4>2, <4>3
    <3> QED
      BY <3>2, <3>3
  <2>2. CASE \E r \in S : Tier[r] = 300
    BY <1>1, <2>1, <2>2
  <2>3. CASE ~(\E r \in S : Tier[r] = 300) /\ \E r \in S : Tier[r] = 200
    BY <1>1, <2>1, <2>3
  <2>4. CASE \A r \in S : Tier[r] = 100
    <3>1. (\E r \in S : Tier[r] = 100) /\ \A r \in S : Tier[r] <= 100
      BY <2>4
    <3> QED
      BY <2>1, <3>1
  <2> QED
    BY <1>1, <2>2, <2>3, <2>4
<1> QED
  BY <1>2 DEF Engine!First

(* What is left of a queue starts with an action that needs its executor.  *)
LEMMA LeftNeeds ==
  ASSUME NEW log, NEW at, NEW q \in SUBSET Engine!Rules, Engine!Left(log, q, at) # {}
  PROVE  Engine!Left(log, q, at) \in SUBSET Engine!Rules /\ Engine!Needs(log, Engine!First(Engine!Left(log, q, at)), at)
<1> DEFINE needy == {r \in q : Engine!Needs(log, r, at)}
           left  == Engine!Left(log, q, at)
           f     == Engine!First(needy)
           g     == Engine!First(left)
<1>1. needy # {} /\ left = {r \in q : ~Engine!Before(r, f)}
  BY DEF Engine!Left
<1>2. left \in SUBSET Engine!Rules /\ needy \in SUBSET Engine!Rules
  BY <1>1
<1>3. f \in needy
  BY <1>1, <1>2, QueueHasFirst
<1>4. f \in left
  BY <1>1, <1>2, <1>3, BeforeOrders
<1>5. g \in left /\ \A s \in left \ {g} : Engine!Before(g, s)
  BY <1>2, <1>4, QueueHasFirst
<1> HIDE DEF f, g
<1>6. g = f
  BY <1>1, <1>4, <1>5
<1> QED
  BY <1>2, <1>3, <1>6 DEF g

-----------------------------------------------------------------------------
Told == [rule : Engine!Rules, status : {"DEDUPED", "SKIPPED", "OK", "RETRIED_OK", "FAILED"}]
CycleRecord ==
  [pc : {"idle", "executing", "sleeping", "audited"}, at : Nat, queue : SUBSET Engine!Rules, attempts : Nat,
   fired : SUBSET Engine!Rules, outcomes : SUBSET Told]
Acting(cy) == cy.pc \in {"executing", "sleeping"}

LEMMA OutcomeIsTold ==
  ASSUME NEW r \in Engine!Rules, NEW s \in {"DEDUPED", "SKIPPED", "OK", "RETRIED_OK", "FAILED"}
  PROVE  Engine!Outcome(r, s) \in Told
  BY DEF Engine!Outcome, Told

LEMMA AdvancedNeeds ==
  ASSUME NEW cy \in CycleRecord, NEW log, NEW q \in SUBSET Engine!Rules, NEW outs \in SUBSET Told
  PROVE  LET new == Engine!Advanced(cy, log, q, outs)
         IN  /\ new \in CycleRecord /\ new.at = cy.at /\ new.fired = cy.fired /\ new.pc # "idle"
             /\ Acting(new) => /\ new.queue # {}
                               /\ ~Engine!Has(log, Engine!KeyOf(Engine!First(new.queue), new.at), new.at)
<1> DEFINE left == Engine!Left(log, q, cy.at)
           pc   == IF left = {} THEN "audited" ELSE "executing"
           Skipped(r) == Engine!Outcome(r, IF Engine!Has(log, Engine!KeyOf(r, cy.at), cy.at) THEN "DEDUPED" ELSE "SKIPPED")
           told == outs \cup {Skipped(r) : r \in q \ left}
           new  == Engine!Advanced(cy, log, q, outs)
<1>1. left \in SUBSET Engine!Rules
  BY DEF Engine!Left
<1>2. \A r \in q : Skipped(r) \in Told
  BY OutcomeIsTold
<1>3. told \in SUBSET Told
  BY <1>2
<1>4. pc \in {"audited", "executing"} /\ (pc = "executing" => left # {})
  OBVIOUS
<1>5. new = [cy EXCEPT !.queue = left, !.attempts = 1, !.outcomes = told, !.pc = pc]
  BY DEF Engine!Advanced
<1>6. left # {} => Engine!Needs(log, Engine!First(left), cy.at)
  BY LeftNeeds
<1> HIDE DEF left, pc, told, new
<1>7. new \in CycleRecord /\ new.at = cy.at /\ new.fired = cy.fired /\ new.pc = pc /\ new.queue = left
  BY <1>1, <1>3, <1>4, <1>5 DEF CycleRecord
<1>8. Acting(new) => new.queue # {} /\ ~Engine!Has(log, Engine!KeyOf(Engine!First(new.queue), new.at), new.at)
  BY <1>4, <1>6, <1>7 DEF Acting, Engine!Needs
<1>9. new.pc # "idle"
  BY <1>4, <1>7
<1> QED
  BY <1>7, <1>8, <1>9 DEF new

-----------------------------------------------------------------------------
CyclesInv ==
  /\ clock \in Nat
  /\ cycles \in [Cycles -> CycleRecord]
  /\ \A c \in Cycles : cycles[c].at <= clock
  /\ \A c \in Cycles : Acting(cycles[c]) => cycles[c].queue # {}

(* A rule has fired last when it says so, and before that with its pauses. *)
SpacingInv ==
  /\ lastFired \in [Engine!Rules -> Nat \cup {Engine!Never}]
  /\ \A f \in fired : /\ f.rule \in Engine!Rules /\ f.at \in Nat
                      /\ f.at <= clock /\ f.at <= lastFired[f.rule]
  /\ Engine!FiringsAreSpaced

(* What was done is in the log, and no later than in the log, or older     *)
(* than the ttl.                                                           *)
Remembered(log, d) == (\E e \in log : e.key = d.key /\ d.at <= e.at) \/ clock - d.at > Ttl
(* What a cycle is about to do was not done before it, within the ttl.     *)
IsNew(c, d) == d.key = Engine!KeyOf(Engine!Current(c), cycles[c].at) /\ d.at < cycles[c].at => clock - d.at > Ttl
LogInv ==
  /\ \A e \in actionLog : e.at \in Nat /\ e.at <= clock
  /\ \A d \in done : /\ d.at \in Nat /\ d.at <= clock /\ d.cycle \in Cycles /\ cycles[d.cycle].pc # "idle"
                     /\ Remembered(actionLog, d)
                     /\ \A c \in Cycles : Acting(cycles[c]) => IsNew(c, d)
  /\ Engine!TwiceOnlyIfOverlapping

EngineInv == CyclesInv /\ SpacingInv /\ LogInv

LEMMA EngineInit == ASSUME Engine!Init PROVE EngineInv
<1>1. Engine!Idle \in CycleRecord /\ Engine!Idle.pc = "idle" /\ Engine!Idle.at = 0 /\ Engine!Idle.fired = {}
  BY DEF Engine!Idle, CycleRecord
<1>2. CyclesInv
  BY <1>1 DEF Engine!Init, CyclesInv, Acting
<1>3. SpacingInv
  BY <1>1 DEF Engine!Init, SpacingInv, Engine!FiringsAreSpaced
<1>4. LogInv
  BY DEF Engine!Init, LogInv, Engine!TwiceOnlyIfOverlapping
<1> QED
  BY <1>2, <1>3, <1>4 DEF EngineInv

-----------------------------------------------------------------------------
(* A cycle moves on: what it does next is new to the log.                  *)
LEMMA MovesKeep ==
  ASSUME EngineInv, NEW c \in Cycles, NEW new \in CycleRecord, NEW log,
         new.at <= clock, new.pc # "idle",
         Acting(new) => /\ new.queue # {}
                        /\ ~Engine!Has(log, Engine!KeyOf(Engine!First(new.queue), new.at), new.at),
         cycles' = [cycles EXCEPT ![c] = new], actionLog' = log, clock' = clock,
         \A e \in log : e.at \in Nat /\ e.at <= clock,
         \A d \in done' : Remembered(log, d),
         \/ done' = done /\ (cycles[c].pc = "idle" \/ new.at = cycles[c].at)
         \/ /\ Acting(cycles[c]) /\ new.at = cycles[c].at
            /\ done' = done \cup {[key |-> Engine!KeyOf(Engine!Current(c), new.at), cycle |-> c, at |-> clock]}
  PROVE  CyclesInv' /\ LogInv'
<1> DEFINE mine == [key |-> Engine!KeyOf(Engine!Current(c), new.at), cycle |-> c, at |-> clock]
<1>1. cycles'[c] = new /\ (\A x \in Cycles : x # c => cycles'[x] = cycles[x]) /\ cycles' \in [Cycles -> CycleRecord]
  BY DEF EngineInv, CyclesInv
<1>2. CyclesInv'
  BY <1>1 DEF EngineInv, CyclesInv
<1>3. clock \in Nat /\ Ttl \in Nat /\ new.at \in Nat
  BY EngineIsSound DEF Engine!EngineAssumption, EngineInv, CyclesInv, CycleRecord
<1>4. mine.at = clock /\ mine.cycle = c /\ mine.key = Engine!KeyOf(Engine!Current(c), new.at)
  OBVIOUS
<1>5. done \subseteq done' /\ \A d \in done' : d \in done \/ (d = mine /\ Acting(cycles[c]) /\ new.at = cycles[c].at)
  OBVIOUS
<1> HIDE DEF mine
<1>6. ASSUME NEW d \in done' PROVE d.at \in Nat /\ d.at <= clock /\ d.cycle \in Cycles /\ cycles'[d.cycle].pc # "idle"
  <2>1. CASE d \in done
    BY <1>1, <2>1 DEF EngineInv, LogInv
  <2>2. CASE d = mine
    BY <1>1, <1>3, <1>4, <2>2
  <2> QED
    BY <1>5, <2>1, <2>2
<1>7. ASSUME NEW d \in done', NEW x \in Cycles, Acting(cycles'[x]) PROVE IsNew(x, d)'
  <2>1. CASE x = c
    <3>1. /\ d.at \in Nat /\ Remembered(log, d)
          /\ ~Engine!Has(log, Engine!KeyOf(Engine!First(new.queue), new.at), new.at)
      BY <1>1, <1>6, <1>7, <2>1
    <3>2. ASSUME d.key = Engine!KeyOf(Engine!First(new.queue), new.at), d.at < new.at PROVE clock - d.at > Ttl
      <4>1. CASE \E e \in log : e.key = d.key /\ d.at <= e.at
        <5>1. PICK e \in log : e.key = d.key /\ d.at <= e.at
          BY <4>1
        <5>2. e.at \in Nat /\ ~(new.at - e.at <= Ttl)
          BY <3>1, <3>2, <5>1 DEF Engine!Has
        <5> QED
          BY <1>3, <3>1, <5>1, <5>2
      <4> QED
        BY <3>1, <4>1 DEF Remembered
    <3>3. Engine!Current(x)' = Engine!First(new.queue) /\ cycles'[x].at = new.at
      BY <1>1, <2>1 DEF Engine!Current
    <3> QED
      BY <3>2, <3>3 DEF IsNew
  <2>2. CASE x # c
    <3>1. cycles'[x] = cycles[x] /\ Acting(cycles[x])
      BY <1>1, <1>7, <2>2
    <3>2. Engine!Current(x)' = Engine!Current(x)
      BY <3>1 DEF Engine!Current
    <3>3. CASE d \in done
      <4>1. IsNew(x, d)
        BY <3>1, <3>3 DEF EngineInv, LogInv
      <4> QED
        BY <3>1, <3>2, <4>1 DEF IsNew
    <3>4. CASE d = mine
      <4>1. ~(d.at < cycles[x].at)
        BY <1>3, <1>4, <3>4 DEF EngineInv, CyclesInv, CycleRecord
      <4> QED
        BY <3>1, <4>1 DEF IsNew
    <3> QED
      BY <1>5, <3>3, <3>4
  <2> QED
    BY <2>1, <2>2
<1>8. ASSUME NEW d \in done', NEW e \in done', Engine!SameAction(d, e) PROVE cycles'[e.cycle].at <= d.at
  <2>1. d.at \in Nat /\ e.at \in Nat /\ d.key = e.key /\ d.cycle # e.cycle /\ d.at <= e.at /\ e.at - d.at <= Ttl
    BY <1>6, <1>8 DEF Engine!SameAction
  <2>2. ASSUME e \in done PROVE cycles'[e.cycle].at = cycles[e.cycle].at /\ e.cycle \in Cycles
    <3>1. e.cycle \in Cycles /\ cycles[e.cycle].pc # "idle"
      BY <2>2 DEF EngineInv, LogInv
    <3>2. e.cycle = c => new.at = cycles[c].at
      BY <3>1
    <3> QED
      BY <1>1, <3>1, <3>2
  <2>3. CASE e \in done /\ d \in done
    BY <1>8, <2>2, <2>3 DEF EngineInv, LogInv, Engine!TwiceOnlyIfOverlapping
  <2>4. CASE e \in done /\ d = mine
    <3>1. e.at <= clock /\ cycles[e.cycle].at <= clock
      BY <2>2, <2>4 DEF EngineInv, LogInv, CyclesInv
    <3> QED
      BY <1>4, <2>2, <2>4, <3>1
  <2>5. CASE e = mine /\ d \in done /\ Acting(cycles[c]) /\ new.at = cycles[c].at
    <3>1. IsNew(c, d)
      BY <2>5 DEF EngineInv, LogInv
    <3>2. d.key = Engine!KeyOf(Engine!Current(c), cycles[c].at) /\ clock - d.at <= Ttl /\ e.cycle = c
      BY <1>4, <2>1, <2>5
    <3>3. ~(d.at < cycles[c].at)
      BY <1>3, <2>1, <3>1, <3>2 DEF IsNew
    <3>4. cycles'[e.cycle].at = cycles[c].at
      BY <1>1, <2>5, <3>2
    <3> QED
      BY <1>3, <2>1, <2>5, <3>3, <3>4
  <2> QED
    BY <1>4, <1>5, <2>1, <2>3, <2>4, <2>5
<1>9. LogInv'
  <2>1. \A d \in done' : Remembered(log, d)'
    BY DEF Remembered
  <2>2. Engine!TwiceOnlyIfOverlapping'
    BY <1>8 DEF Engine!TwiceOnlyIfOverlapping, Engine!SameAction
  <2> QED
    BY <1>6, <1>7, <2>1, <2>2 DEF LogInv, Remembered
<1> QED
  BY <1>2, <1>9

(* What fires may fire: no rule of a tier preempted by another's.          *)
LEMMA RunKeeps == ASSUME EngineInv, NEW c \in Cycles, NEW met \in SUBSET Engine!Rules, Engine!Run(c, met) PROVE EngineInv'
<1> DEFINE fires == Engine!Fires(met)
           log   == {e \in actionLog : clock - e.at <= Ttl}
           start == [Engine!Idle EXCEPT !.at = clock, !.fired = fires]
           new   == Engine!Advanced(start, log, fires, {})
           shots == {[rule |-> r, at |-> clock, cycle |-> c] : r \in fires}
<1>1. /\ cycles[c].pc = "idle" /\ lastFired' = [r \in Engine!Rules |-> IF r \in fires THEN clock ELSE lastFired[r]]
      /\ actionLog' = log /\ fired' = fired \cup shots /\ cycles' = [cycles EXCEPT ![c] = new]
      /\ clock' = clock /\ done' = done
  BY DEF Engine!Run
<1>2. fires \in SUBSET Engine!Rules /\ (\A r \in fires : ~Engine!Cooling(r)) /\ \A r, s \in fires : Tier[r] >= Engine!Preempts(s)
  BY DEF Engine!Fires
<1> HIDE DEF fires
<1>3. clock \in Nat /\ Ttl \in Nat /\ cycles \in [Cycles -> CycleRecord]
  BY EngineIsSound DEF Engine!EngineAssumption, EngineInv, CyclesInv
<1>4. start \in CycleRecord /\ start.at = clock /\ start.fired = fires
  BY <1>2, <1>3 DEF Engine!Idle, CycleRecord
<1> HIDE DEF start
<1>5. /\ new \in CycleRecord /\ new.at = clock /\ new.fired = fires /\ new.pc # "idle"
      /\ Acting(new) => /\ new.queue # {}
                        /\ ~Engine!Has(log, Engine!KeyOf(Engine!First(new.queue), new.at), new.at)
  <2>1. {} \in SUBSET Told
    OBVIOUS
  <2> HIDE DEF log
  <2> QED
    BY <1>2, <1>4, <2>1, AdvancedNeeds
<1> HIDE DEF new
<1>6. \A e \in log : e.at \in Nat /\ e.at <= clock
  BY DEF EngineInv, LogInv
<1>7. ASSUME NEW d \in done PROVE Remembered(log, d)
  <2>1. Remembered(actionLog, d) /\ d.at \in Nat
    BY DEF EngineInv, LogInv
  <2>2. ASSUME NEW e \in actionLog, e.key = d.key, d.at <= e.at, ~(clock - e.at <= Ttl) PROVE clock - d.at > Ttl
    <3>1. e.at \in Nat
      BY DEF EngineInv, LogInv
    <3> QED
      BY <1>3, <2>1, <2>2, <3>1
  <2> QED
    BY <2>1, <2>2 DEF Remembered
<1>8. CyclesInv' /\ LogInv'
  <2>1. new.at <= clock
    BY <1>3, <1>5
  <2> HIDE DEF log
  <2> QED
    BY <1>1, <1>5, <1>6, <1>7, <2>1, MovesKeep
<1>9. ASSUME NEW f \in fired
      PROVE  /\ f.rule \in Engine!Rules /\ f.at \in Nat /\ f.at <= clock /\ f.at <= lastFired[f.rule]
             /\ lastFired[f.rule] \in Int /\ f.at <= lastFired'[f.rule]
  <2>1. /\ f.rule \in Engine!Rules /\ f.at \in Nat /\ f.at <= clock /\ f.at <= lastFired[f.rule]
        /\ lastFired[f.rule] \in Nat \cup {-1}
    BY DEF EngineInv, SpacingInv, Engine!Never
  <2>2. lastFired'[f.rule] = clock \/ lastFired'[f.rule] = lastFired[f.rule]
    BY <1>1, <2>1
  <2> QED
    BY <2>1, <2>2
<1>10. ASSUME NEW f \in shots PROVE f.rule \in fires /\ f.at = clock /\ f.cycle = c /\ lastFired'[f.rule] = clock
  <2>1. PICK r \in fires : f = [rule |-> r, at |-> clock, cycle |-> c]
    OBVIOUS
  <2>2. f.rule = r /\ f.at = clock /\ f.cycle = c
    BY <2>1
  <2> QED
    BY <1>1, <1>2, <2>2
<1> HIDE DEF shots
<1>11. ASSUME NEW f \in fired, NEW g \in shots, f.rule = g.rule, Cooldown[g.rule] > 0
       PROVE  g.at - f.at >= Cooldown[g.rule]
  <2>1. ~Engine!Cooling(g.rule) /\ g.rule \in Engine!Rules
    BY <1>2, <1>10
  <2>2. lastFired[g.rule] # Engine!Never /\ lastFired[g.rule] \in Int /\ f.at \in Nat /\ f.at <= lastFired[g.rule]
    BY <1>9, <1>11 DEF Engine!Never
  <2>3. clock - lastFired[g.rule] >= Cooldown[g.rule] /\ Cooldown[g.rule] \in Nat
    BY <1>3, <1>11, <2>1, <2>2, EngineIsSound DEF Engine!Cooling, Engine!EngineAssumption
  <2> QED
    BY <1>3, <1>10, <2>2, <2>3
<1>12. Engine!FiringsAreSpaced'
  <2>1. ASSUME NEW f \in fired', NEW g \in fired', f.rule = g.rule, f.cycle # g.cycle, Cooldown[f.rule] > 0
        PROVE  f.at - g.at >= Cooldown[f.rule] \/ g.at - f.at >= Cooldown[f.rule]
    <3>1. CASE f \in fired /\ g \in fired
      BY <2>1, <3>1 DEF EngineInv, SpacingInv, Engine!FiringsAreSpaced
    <3>2. CASE f \in fired /\ g \in shots
      BY <1>11, <2>1, <3>2
    <3>3. CASE f \in shots /\ g \in fired
      BY <1>11, <2>1, <3>3
    <3>4. CASE f \in shots /\ g \in shots
      BY <1>10, <2>1, <3>4
    <3> QED
      BY <1>1, <3>1, <3>2, <3>3, <3>4
  <2>2. ASSUME NEW x \in Cycles, NEW r \in cycles'[x].fired, NEW s \in cycles'[x].fired PROVE Tier[r] >= Engine!Preempts(s)
    <3>1. CASE x = c
      BY <1>1, <1>2, <1>3, <1>5, <2>2, <3>1
    <3>2. CASE x # c
      <4>1. cycles'[x] = cycles[x]
        BY <1>1, <1>3, <3>2
      <4> QED
        BY <2>2, <4>1 DEF EngineInv, SpacingInv, Engine!FiringsAreSpaced
    <3> QED
      BY <3>1, <3>2
  <2> QED
    BY <2>1, <2>2 DEF Engine!FiringsAreSpaced, Engine!Preempts
<1>13. lastFired' \in [Engine!Rules -> Nat \cup {Engine!Never}]
  BY <1>1, <1>3 DEF EngineInv, SpacingInv
<1>14. SpacingInv'
  <2>1. \A f \in fired' : f.rule \in Engine!Rules /\ f.at \in Nat /\ f.at <= clock /\ f.at <= lastFired'[f.rule]
    BY <1>1, <1>2, <1>3, <1>9, <1>10
  <2> QED
    BY <1>1, <1>12, <1>13, <2>1 DEF SpacingInv
<1> QED
  BY <1>8, <1>14 DEF EngineInv

(* The action that a cycle is at ends, and it goes on with the next.       *)
LEMMA ContinuesKeep ==
  ASSUME EngineInv, NEW c \in Cycles, NEW log, NEW outs \in SUBSET Told, cycles[c].pc = "executing",
         Engine!Continues(c, log, outs), UNCHANGED <<clock, lastFired, fired>>,
         log \in {actionLog, Engine!Set(actionLog, Engine!KeyOf(Engine!Current(c), cycles[c].at))},
         \/ done' = done
         \/ /\ log = Engine!Set(actionLog, Engine!KeyOf(Engine!Current(c), cycles[c].at))
            /\ done' = done \cup {[key |-> Engine!KeyOf(Engine!Current(c), cycles[c].at), cycle |-> c, at |-> clock]}
  PROVE  EngineInv'
<1> DEFINE key  == Engine!KeyOf(Engine!Current(c), cycles[c].at)
           rest == cycles[c].queue \ {Engine!Current(c)}
           new  == Engine!Advanced(cycles[c], log, rest, outs)
           more == [key |-> key, at |-> clock]
           mine == [key |-> key, cycle |-> c, at |-> clock]
<1>1. /\ actionLog' = log /\ cycles' = [cycles EXCEPT ![c] = new] /\ clock' = clock
      /\ lastFired' = lastFired /\ fired' = fired
  BY DEF Engine!Continues
<1>2. clock \in Nat /\ cycles[c] \in CycleRecord /\ cycles \in [Cycles -> CycleRecord] /\ cycles[c].at <= clock
  BY DEF EngineInv, CyclesInv
<1>3. rest \in SUBSET Engine!Rules /\ Acting(cycles[c])
  BY <1>2 DEF CycleRecord, Acting
<1> HIDE DEF rest
<1>4. /\ new \in CycleRecord /\ new.at = cycles[c].at /\ new.fired = cycles[c].fired /\ new.pc # "idle"
      /\ Acting(new) => /\ new.queue # {}
                        /\ ~Engine!Has(log, Engine!KeyOf(Engine!First(new.queue), new.at), new.at)
  BY <1>2, <1>3, AdvancedNeeds
<1> HIDE DEF new
<1>5. log = actionLog \/ log = {e \in actionLog : e.key # key} \cup {more}
  BY DEF Engine!Set
<1>6. more.at = clock /\ more.key = key /\ mine.at = clock /\ mine.key = key
  OBVIOUS
<1>7. done' = done \/ (log = {e \in actionLog : e.key # key} \cup {more} /\ done' = done \cup {mine})
  BY DEF Engine!Set
<1> HIDE DEF more, mine, key
<1>8. \A e \in log : e.at \in Nat /\ e.at <= clock
  BY <1>2, <1>5, <1>6 DEF EngineInv, LogInv
<1>9. ASSUME NEW d \in done PROVE Remembered(log, d)
  <2>1. Remembered(actionLog, d) /\ d.at \in Nat /\ d.at <= clock
    BY DEF EngineInv, LogInv
  <2>2. CASE log = actionLog
    BY <2>1, <2>2
  <2>3. CASE log = {e \in actionLog : e.key # key} \cup {more}
    <3>1. CASE d.key = key
      BY <1>6, <2>1, <2>3, <3>1 DEF Remembered
    <3>2. CASE d.key # key
      BY <2>1, <2>3, <3>2 DEF Remembered
    <3> QED
      BY <3>1, <3>2
  <2> QED
    BY <1>5, <2>2, <2>3
<1>10. \A d \in done' : Remembered(log, d)
  <2>1. ASSUME log = {e \in actionLog : e.key # key} \cup {more} PROVE Remembered(log, mine)
    BY <1>2, <1>6, <2>1 DEF Remembered
  <2> QED
    BY <1>7, <1>9, <2>1
<1>11. CyclesInv' /\ LogInv'
  <2>1. \/ done' = done
        \/ done' = done \cup {[key |-> Engine!KeyOf(Engine!Current(c), new.at), cycle |-> c, at |-> clock]}
    BY <1>4, <1>7 DEF mine, key
  <2>2. new.at <= clock
    BY <1>2, <1>4
  <2> QED
    BY <1>1, <1>3, <1>4, <1>8, <1>10, <2>1, <2>2, MovesKeep
<1>12. \A x \in Cycles : cycles'[x].fired = cycles[x].fired
  BY <1>1, <1>2, <1>4
<1>13. SpacingInv'
  BY <1>1, <1>12 DEF EngineInv, SpacingInv, Engine!FiringsAreSpaced, Engine!Preempts
<1> QED
  BY <1>11, <1>13 DEF EngineInv

LEMMA SucceedsKeeps == ASSUME EngineInv, NEW c \in Cycles, Engine!Succeeds(c) PROVE EngineInv'
<1> DEFINE status == IF cycles[c].attempts > 1 THEN "RETRIED_OK" ELSE "OK"
           outs   == cycles[c].outcomes \cup {Engine!Outcome(Engine!Current(c), status)}
           log    == Engine!Set(actionLog, Engine!KeyOf(Engine!Current(c), cycles[c].at))
<1>1. /\ cycles[c].pc = "executing" /\ Engine!Continues(c, log, outs) /\ UNCHANGED <<clock, lastFired, fired>>
      /\ done' = done \cup {[key |-> Engine!KeyOf(Engine!Current(c), cycles[c].at), cycle |-> c, at |-> clock]}
  BY DEF Engine!Succeeds
<1>2. status \in {"DEDUPED", "SKIPPED", "OK", "RETRIED_OK", "FAILED"}
  OBVIOUS
<1> HIDE DEF status
<1>3. cycles[c] \in CycleRecord /\ cycles[c].queue # {}
  BY <1>1 DEF EngineInv, CyclesInv, Acting
<1>4. Engine!Current(c) \in Engine!Rules
  BY <1>3, QueueHasFirst DEF CycleRecord, Engine!Current
<1>5. outs \in SUBSET Told
  BY <1>2, <1>3, <1>4, OutcomeIsTold DEF CycleRecord
<1> HIDE DEF outs
<1> QED
  BY <1>1, <1>5, ContinuesKeep

LEMMA FailsKeeps == ASSUME EngineInv, NEW c \in Cycles, NEW message \in BOOLEAN, Engine!Fails(c, message) PROVE EngineInv'
<1> DEFINE told == IF message THEN {Engine!Outcome(Engine!Current(c), "FAILED")} ELSE {}
           outs == cycles[c].outcomes \cup told
           log  == IF message THEN Engine!Set(actionLog, Engine!KeyOf(Engine!Current(c), cycles[c].at)) ELSE actionLog
<1>1. /\ cycles[c].pc = "executing" /\ Engine!Continues(c, log, outs)
      /\ UNCHANGED <<clock, lastFired, fired>> /\ done' = done
  BY DEF Engine!Fails
<1>2. log \in {actionLog, Engine!Set(actionLog, Engine!KeyOf(Engine!Current(c), cycles[c].at))}
  OBVIOUS
<1> HIDE DEF log
<1>3. cycles[c] \in CycleRecord /\ cycles[c].queue # {}
  BY <1>1 DEF EngineInv, CyclesInv, Acting
<1>4. Engine!Current(c) \in Engine!Rules
  BY <1>3, QueueHasFirst DEF CycleRecord, Engine!Current
<1>5. outs \in SUBSET Told
  BY <1>3, <1>4, OutcomeIsTold DEF CycleRecord
<1> HIDE DEF outs
<1> QED
  BY <1>1, <1>2, <1>5, ContinuesKeep

(* A pause between two attempts changes neither the queue nor the time.    *)
LEMMA PausesKeep ==
  ASSUME EngineInv, NEW c \in Cycles, Acting(cycles[c]), NEW pc \in {"executing", "sleeping"}, NEW n \in Nat,
         cycles' = [cycles EXCEPT ![c] = [cycles[c] EXCEPT !.pc = pc, !.attempts = n]],
         UNCHANGED <<clock, lastFired, actionLog, fired, done>>
  PROVE  EngineInv'
<1> DEFINE new == [cycles[c] EXCEPT !.pc = pc, !.attempts = n]
<1>1. cycles \in [Cycles -> CycleRecord]
  BY DEF EngineInv, CyclesInv
<1>2. /\ new \in CycleRecord /\ new.at = cycles[c].at /\ new.queue = cycles[c].queue
      /\ new.fired = cycles[c].fired /\ new.pc = pc
  BY <1>1 DEF CycleRecord
<1> HIDE DEF new
<1>3. cycles' = [cycles EXCEPT ![c] = new]
  BY DEF new
<1>4. ASSUME NEW x \in Cycles
      PROVE  /\ cycles'[x].at = cycles[x].at /\ cycles'[x].queue = cycles[x].queue
             /\ cycles'[x].fired = cycles[x].fired /\ (Acting(cycles'[x]) <=> Acting(cycles[x]))
             /\ cycles[x].pc # "idle" => cycles'[x].pc # "idle"
  BY <1>1, <1>2, <1>3 DEF Acting
<1>5. cycles' \in [Cycles -> CycleRecord]
  BY <1>1, <1>2, <1>3
<1> HIDE DEF new
<1>6. CyclesInv'
  BY <1>4, <1>5 DEF EngineInv, CyclesInv
<1>7. SpacingInv'
  BY <1>4 DEF EngineInv, SpacingInv, Engine!FiringsAreSpaced, Engine!Preempts
<1>8. ASSUME NEW d \in done, NEW x \in Cycles, Acting(cycles'[x]) PROVE IsNew(x, d)'
  <2>1. IsNew(x, d)
    BY <1>4, <1>8 DEF EngineInv, LogInv
  <2>2. Engine!Current(x)' = Engine!Current(x)
    BY <1>4 DEF Engine!Current
  <2> QED
    BY <1>4, <2>1, <2>2 DEF IsNew
<1>9. ASSUME NEW d \in done PROVE d.cycle \in Cycles /\ cycles'[d.cycle].pc # "idle" /\ cycles'[d.cycle].at = cycles[d.cycle].at
  BY <1>4 DEF EngineInv, LogInv
<1>10. Engine!TwiceOnlyIfOverlapping'
  BY <1>9 DEF EngineInv, LogInv, Engine!TwiceOnlyIfOverlapping, Engine!SameAction
<1>11. LogInv'
  BY <1>8, <1>9, <1>10 DEF EngineInv, LogInv, Remembered
<1> QED
  BY <1>6, <1>7, <1>11 DEF EngineInv

LEMMA RetriesKeeps == ASSUME EngineInv, NEW c \in Cycles, Engine!Retries(c) PROVE EngineInv'
<1> DEFINE pc == IF Pauses[Engine!Current(c)] THEN "sleeping" ELSE cycles[c].pc
           n  == cycles[c].attempts + 1
<1>1. /\ cycles[c].pc = "executing" /\ UNCHANGED <<clock, lastFired, actionLog, fired, done>>
      /\ cycles' = [cycles EXCEPT ![c].pc = pc, ![c].attempts = n]
  BY DEF Engine!Retries
<1>2. cycles \in [Cycles -> CycleRecord] /\ n \in Nat
  BY DEF EngineInv, CyclesInv, CycleRecord
<1>3. pc \in {"executing", "sleeping"}
  BY <1>1
<1> HIDE DEF pc, n
<1>4. cycles' = [cycles EXCEPT ![c] = [cycles[c] EXCEPT !.pc = pc, !.attempts = n]]
  BY <1>1, <1>2
<1>5. Acting(cycles[c])
  BY <1>1 DEF Acting
<1>6. UNCHANGED <<clock, lastFired, actionLog, fired, done>>
  BY <1>1
<1> QED
  BY <1>2, <1>3, <1>4, <1>5, <1>6, PausesKeep

LEMMA WakesKeeps == ASSUME EngineInv, NEW c \in Cycles, Engine!Wakes(c) PROVE EngineInv'
<1> DEFINE n == cycles[c].attempts
<1>1. /\ cycles[c].pc = "sleeping" /\ UNCHANGED <<clock, lastFired, actionLog, fired, done>>
      /\ cycles' = [cycles EXCEPT ![c].pc = "executing"]
  BY DEF Engine!Wakes
<1>2. cycles \in [Cycles -> CycleRecord] /\ cycles[c] \in CycleRecord
  BY DEF EngineInv, CyclesInv
<1>3. n \in Nat
  BY <1>2 DEF CycleRecord
<1>4. cycles[c] = [cycles[c] EXCEPT !.attempts = n]
  BY <1>2 DEF CycleRecord
<1>5. cycles' = [cycles EXCEPT ![c] = [cycles[c] EXCEPT !.pc = "executing", !.attempts = n]]
  <2>1. [cycles[c] EXCEPT !.pc = "executing"] = [cycles[c] EXCEPT !.pc = "executing", !.attempts = n]
    BY <1>2 DEF CycleRecord
  <2> QED
    BY <1>1, <1>2, <2>1
<1> HIDE DEF n
<1>6. Acting(cycles[c])
  BY <1>1 DEF Acting
<1> QED
  BY <1>1, <1>3, <1>5, <1>6, PausesKeep

LEMMA EngineTickKeeps == ASSUME EngineInv, Engine!Tick PROVE EngineInv'
<1>1. clock' = clock + 1 /\ clock \in Nat /\ UNCHANGED <<lastFired, actionLog, cycles, fired, done>>
  BY DEF Engine!Tick, EngineInv, CyclesInv
<1>2. CyclesInv'
  BY <1>1 DEF EngineInv, CyclesInv, CycleRecord
<1>3. SpacingInv'
  BY <1>1 DEF EngineInv, SpacingInv, Engine!FiringsAreSpaced, Engine!Preempts
<1>4. Ttl \in Nat
  BY EngineIsSound DEF Engine!EngineAssumption
<1>5. ASSUME NEW d \in done
      PROVE  /\ d.at \in Nat /\ d.at <= clock' /\ Remembered(actionLog, d)'
             /\ \A c \in Cycles : Acting(cycles[c]) => IsNew(c, d)'
  <2>1. /\ d.at \in Nat /\ d.at <= clock /\ Remembered(actionLog, d)
        /\ \A c \in Cycles : Acting(cycles[c]) => IsNew(c, d)
    BY DEF EngineInv, LogInv
  <2>2. d.at <= clock' /\ (clock - d.at > Ttl => clock' - d.at > Ttl)
    BY <1>1, <1>4, <2>1
  <2>3. \A c \in Cycles : Engine!Current(c)' = Engine!Current(c)
    BY <1>1 DEF Engine!Current
  <2>4. Remembered(actionLog, d)'
    BY <1>1, <2>1, <2>2 DEF Remembered
  <2>5. \A c \in Cycles : Acting(cycles[c]) => IsNew(c, d)'
    BY <1>1, <2>1, <2>2, <2>3 DEF IsNew
  <2> QED
    BY <2>1, <2>2, <2>4, <2>5
<1>6. \A e \in actionLog : e.at \in Nat /\ e.at <= clock'
  BY <1>1 DEF EngineInv, LogInv
<1>7. Engine!TwiceOnlyIfOverlapping'
  BY <1>1 DEF EngineInv, LogInv, Engine!TwiceOnlyIfOverlapping, Engine!SameAction
<1>8. \A d \in done : d.cycle \in Cycles /\ cycles[d.cycle].pc # "idle"
  BY DEF EngineInv, LogInv
<1>9. LogInv'
  BY <1>1, <1>5, <1>6, <1>7, <1>8 DEF LogInv
<1> QED
  BY <1>2, <1>3, <1>9 DEF EngineInv

LEMMA EngineKept == ASSUME EngineInv, Engine!Next \/ UNCHANGED Engine!vars PROVE EngineInv'
<1>1. CASE UNCHANGED Engine!vars
  <2>1. UNCHANGED <<clock, lastFired, actionLog, cycles, fired, done>>
    BY <1>1 DEF Engine!vars
  <2>2. \A x \in Cycles : Engine!Current(x)' = Engine!Current(x)
    BY <2>1 DEF Engine!Current
  <2>3. CyclesInv' /\ SpacingInv'
    BY <2>1 DEF EngineInv, CyclesInv, SpacingInv, Engine!FiringsAreSpaced, Engine!Preempts
  <2>4. LogInv'
    BY <2>1, <2>2 DEF EngineInv, LogInv, Remembered, IsNew, Engine!TwiceOnlyIfOverlapping, Engine!SameAction
  <2> QED
    BY <2>3, <2>4 DEF EngineInv
<1> QED
  BY <1>1, RunKeeps, SucceedsKeeps, FailsKeeps, RetriesKeeps, WakesKeeps, EngineTickKeeps DEF Engine!Next

(* What fires is spaced, and only cycles that overlap act twice.           *)
LEMMA EngineImplies == ASSUME EngineInv PROVE Engine!FiringsAreSpaced /\ Engine!TwiceOnlyIfOverlapping
  BY DEF EngineInv, SpacingInv, LogInv

-----------------------------------------------------------------------------
(* The parts together                                                      *)

EdgesInv ==
  /\ part = "client" => ClientInv
  /\ part = "stream" => PricesInv /\ SocketInv
  /\ part = "views" => ViewsInv
  /\ part = "rules" => RulesInv
  /\ part = "signals" => SignalsInv
  /\ part = "outbox" => OutboxInv
  /\ part = "engine" => EngineInv

(* A behaviour is one of one part: each step of it is a step of that part, *)
(* or leaves it alone.                                                     *)
LEMMA OnePart ==
  ASSUME Next \/ UNCHANGED vars
  PROVE  /\ part' = part
         /\ part = "client" => Client!Next \/ UNCHANGED Client!vars
         /\ part = "stream" => Stream!Next \/ UNCHANGED Stream!vars
         /\ part = "views" => Views!Next \/ UNCHANGED Views!vars
         /\ part = "rules" => Rules!Next \/ UNCHANGED Rules!vars
         /\ part = "signals" => Signals!Next \/ UNCHANGED Signals!vars
         /\ part = "outbox" => Outbox!Next \/ UNCHANGED Outbox!vars
         /\ part = "engine" => Engine!Next \/ UNCHANGED Engine!vars
<1>1. CASE UNCHANGED vars
  <2>1. UNCHANGED <<part, clock, client, stream, views, book, inbox, outbox, engine>>
    BY <1>1 DEF vars
  <2>2. UNCHANGED Client!vars /\ UNCHANGED Stream!vars
    BY <2>1 DEF client, stream, Client!vars, Stream!vars
  <2>3. UNCHANGED Views!vars /\ UNCHANGED Rules!vars
    BY <2>1 DEF views, book, Views!vars, Rules!vars
  <2>4. UNCHANGED Signals!vars /\ UNCHANGED Outbox!vars /\ UNCHANGED Engine!vars
    BY <2>1 DEF inbox, outbox, engine, Signals!vars, Outbox!vars, Engine!vars
  <2> QED
    BY <2>1, <2>2, <2>3, <2>4
<1>2. CASE Next
  <2>1. \/ part = "client" /\ Client!Next
        \/ part = "stream" /\ Stream!Next
        \/ part = "views" /\ Views!Next
        \/ part = "rules" /\ Rules!Next
        \/ part = "signals" /\ Signals!Next
        \/ part = "outbox" /\ Outbox!Next
        \/ part = "engine" /\ Engine!Next
    BY <1>2 DEF Next, InClient
  <2>2. part' = part
    BY <1>2 DEF Next, InClient
  <2> QED
    BY <2>1, <2>2
<1> QED
  BY <1>1, <1>2

LEMMA EdgesInit == ASSUME Init PROVE EdgesInv
  BY ClientInit, PricesInit, SocketInit, ViewsInit, RulesInit, SignalsInit, OutboxInit, EngineInit DEF Init, EdgesInv

LEMMA EdgesKept == ASSUME EdgesInv, [Next]_vars PROVE EdgesInv'
<1>1. CASE part = "client"
  <2>1. ClientInv'
    BY <1>1, OnePart, ClientKept DEF EdgesInv
  <2> QED
    BY <1>1, <2>1, OnePart DEF EdgesInv
<1>2. CASE part = "stream"
  <2>1. PricesInv' /\ SocketInv'
    BY <1>2, OnePart, PricesKept, SocketKept DEF EdgesInv
  <2> QED
    BY <1>2, <2>1, OnePart DEF EdgesInv
<1>3. CASE part = "views"
  <2>1. ViewsInv'
    BY <1>3, OnePart, ViewsKept DEF EdgesInv
  <2> QED
    BY <1>3, <2>1, OnePart DEF EdgesInv
<1>4. CASE part = "rules"
  <2>1. RulesInv'
    BY <1>4, OnePart, RulesNext DEF EdgesInv
  <2> QED
    BY <1>4, <2>1, OnePart DEF EdgesInv
<1>5. CASE part = "signals"
  <2>1. SignalsInv'
    BY <1>5, OnePart, SignalsKept DEF EdgesInv
  <2> QED
    BY <1>5, <2>1, OnePart DEF EdgesInv
<1>6. CASE part = "outbox"
  <2>1. OutboxInv'
    BY <1>6, OnePart, OutboxKept DEF EdgesInv
  <2> QED
    BY <1>6, <2>1, OnePart DEF EdgesInv
<1>7. CASE part = "engine"
  <2>1. EngineInv'
    BY <1>7, OnePart, EngineKept DEF EdgesInv
  <2> QED
    BY <1>7, <2>1, OnePart DEF EdgesInv
<1>8. CASE part \notin {"client", "stream", "views", "rules", "signals", "outbox", "engine"}
  BY <1>8, OnePart DEF EdgesInv
<1> QED
  BY <1>1, <1>2, <1>3, <1>4, <1>5, <1>6, <1>7, <1>8

(* Every part keeps its invariant.                                         *)
THEOREM EdgesCorrect == Spec => []EdgesInv
<1>1. Init => EdgesInv
  BY EdgesInit
<1>2. EdgesInv /\ [Next]_vars => EdgesInv'
  BY EdgesKept
<1> QED
  BY <1>1, <1>2, PTL DEF Spec

(* An answer of the info client was true no longer before it was asked     *)
(* than the cache keeps answers and a request travels, and an order passes *)
(* the gate on a price no older than the limit and a request               *)
(* (exchangeClient.ts and the price stream of server/index.ts).            *)
THEOREM ReadsRecent == Spec => []ReadsAreRecent
<1>1. EdgesInv => ReadsAreRecent
  BY ClientImplies DEF EdgesInv, PricesInv, ReadsAreRecent
<1> QED
  BY <1>1, EdgesCorrect, PTL

(* A server that is up has a socket or a timer that will open one, and the *)
(* delay of the timer is the initial one doubled per socket that closed,   *)
(* up to its maximum (server/index.ts), unless a socket could not be       *)
(* constructed.                                                            *)
THEOREM StreamTended == Spec => []StreamIsTended
<1>1. EdgesInv => StreamIsTended
  BY SocketImplies DEF EdgesInv, StreamIsTended
<1> QED
  BY <1>1, EdgesCorrect, PTL

(* The views miss no position but one on a dex that is new or that a       *)
(* failed discovery left out (hyperliquid/client.ts).                      *)
THEOREM PositionsSeen == Spec => []OldPositionsAreSeen
<1>1. EdgesInv => OldPositionsAreSeen
  BY PositionsHold DEF EdgesInv, OldPositionsAreSeen
<1> QED
  BY <1>1, EdgesCorrect, PTL

(* Stops and targets of a short are told apart as those of a long are,     *)
(* seen in a mirror, whatever orders there are (server/index.ts).          *)
THEOREM LevelsMirrored == Spec => []LevelsAreMirrored
<1>1. EdgesInv => LevelsAreMirrored
  BY LevelsHold DEF EdgesInv, LevelsAreMirrored
<1> QED
  BY <1>1, EdgesCorrect, PTL

(* The cache differs from the stored rules only during a save or after a   *)
(* failed one, the two files of Freqtrade agree with the stored rules if   *)
(* saves followed each other, and no coin trades longer than an interval   *)
(* after it was disabled (runtimeTradingRules.ts).                         *)
THEOREM RulesInForce == Spec => []RulesGovern
<1>1. EdgesInv => RulesGovern
  BY RulesImply DEF EdgesInv, RulesGovern
<1> QED
  BY <1>1, EdgesCorrect, PTL

(* Of two equal signals within the window one is handed off, while the     *)
(* history remembers it, and every signal of a confirmation hears its      *)
(* outcome (server/index.ts).                                              *)
THEOREM SignalsHandedOnce == Spec => []SignalsAreHandedOnce
<1>1. EdgesInv => SignalsAreHandedOnce
  BY SignalsImply DEF EdgesInv, SignalsAreHandedOnce
<1> QED
  BY <1>1, EdgesCorrect, PTL

(* A message reaches the chat once, and once more per reload, stale write, *)
(* crash or lost answer; without these, of two messages with one key the   *)
(* second is sent only when the first is past its retention                *)
(* (server/index.ts).                                                      *)
THEOREM MessagesOnce == Spec => []DeliveredOnce
<1>1. EdgesInv => DeliveredOnce
  BY OutboxImplies DEF EdgesInv, DeliveredOnce
<1> QED
  BY <1>1, EdgesCorrect, PTL

(* However cycles overlap and actions fail, a rule fires once per          *)
(* cooldown, none beside one that preempts it, and only cycles that        *)
(* overlap carry an action out twice within the ttl of the log             *)
(* (engine/*.ts).                                                          *)
THEOREM FiringsSpaced == Spec => []FiringsAreSpaced
<1>1. EdgesInv => FiringsAreSpaced
  BY EngineImplies DEF EdgesInv, FiringsAreSpaced
<1> QED
  BY <1>1, EdgesCorrect, PTL
=============================================================================
