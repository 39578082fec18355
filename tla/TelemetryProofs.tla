--------------------------- MODULE TelemetryProofs ---------------------------
(***************************************************************************)
(* Theorems about the way from the devices' registers to the controller's  *)
(* snapshot, for any devices, points, timings and register maps: what is   *)
(* read as GOOD is recent whatever fails, and once nothing fails any more  *)
(* everything is read again, within a bounded time.  And of the split of a *)
(* setpoint over any number of units, with the lemmas about sums it needs: *)
(* a fold is a recursive function, which exists and is unique by counting  *)
(* up the sizes of the sets it sums over.                                  *)
(* Then of the read plan: every point of a map is read once.               *)
(***************************************************************************)
EXTENDS Telemetry, FiniteSetTheorems, WellFoundedInduction, TLAPS

-----------------------------------------------------------------------------
(* Least and greatest elements *)

\* The greater and the lesser of two numbers.
LEMMA OfTwo ==
    ASSUME NEW a \in Int, NEW b \in Int
    PROVE  /\ Max({a, b}) \in {a, b} /\ Max({a, b}) >= a /\ Max({a, b}) >= b
           /\ Min({a, b}) \in {a, b} /\ Min({a, b}) <= a /\ Min({a, b}) <= b
<1>1. \E x \in {a, b} : \A y \in {a, b} : x >= y
  OBVIOUS
<1>2. \E x \in {a, b} : \A y \in {a, b} : x <= y
  OBVIOUS
<1> QED
  BY <1>1, <1>2 DEF Max, Min

\* A set of natural numbers has a least one.
LEMMA HasMin ==
    ASSUME NEW S \in SUBSET Nat, S # {}
    PROVE  Min(S) \in S /\ \A y \in S : Min(S) <= y
<1>1. PICK x \in S : \A y \in S : ~(<<y, x>> \in OpToRel(<, Nat))
  BY NatLessThanWellFounded, WFMin
<1>2. \A y \in S : x <= y
  <2> TAKE y \in S
  <2>1. y \in Nat /\ x \in Nat
    OBVIOUS
  <2>2. ~(y < x)
    BY <1>1, <2>1, Zenon DEF OpToRel
  <2> QED
    BY <2>1, <2>2
<1> QED
  BY <1>2 DEF Min

\* A set of numbers that has zero, and the next with each, has all.
LEMMA CountsUp ==
    ASSUME NEW S, 0 \in S, \A n \in Nat : n \in S => n + 1 \in S
    PROVE  Nat \subseteq S
<1> SUFFICES ASSUME Nat \ S # {} PROVE FALSE
  OBVIOUS
<1> DEFINE m == Min(Nat \ S)
<1>1. m \in Nat \ S /\ \A y \in Nat \ S : m <= y
  BY HasMin
<1> HIDE DEF m
<1>2. m # 0 /\ m - 1 \in Nat
  BY <1>1
<1>3. m - 1 \in S
  BY <1>1, <1>2
<1>4. (m - 1) + 1 \in S
  BY <1>2, <1>3
<1> QED
  BY <1>1, <1>4

\* A bounded set of natural numbers has a greatest one.
LEMMA HasMax ==
    ASSUME NEW n \in Nat, NEW S \in SUBSET (0 .. n), S # {}
    PROVE  Max(S) \in S /\ \A y \in S : y <= Max(S)
<1> DEFINE T == {n - x : x \in S}
<1>1. T \in SUBSET Nat /\ T # {}
  <2>1. \A x \in S : n - x \in Nat
    OBVIOUS
  <2> QED
    BY <2>1, Zenon
<1>2. Min(T) \in T /\ \A y \in T : Min(T) <= y
  BY <1>1, HasMin
<1>3. PICK x \in S : Min(T) = n - x
  BY <1>2
<1>4. \A y \in S : y <= x
  <2> TAKE y \in S
  <2>1. n - x <= n - y
    BY <1>2, <1>3
  <2> QED
    BY <2>1
<1> QED
  BY <1>4 DEF Max

-----------------------------------------------------------------------------
(* Time *)

\* Counting up to a bound, and down to zero.
LEMMA CountUp ==
    ASSUME NEW a \in Nat, NEW d \in Nat, NEW cap \in Nat
    PROVE  Up(a, d, cap) \in 0 .. cap /\ Up(a, d, cap) <= a + d
<1> DEFINE b == a + d
<1>1. b \in Nat /\ b \in Int /\ cap \in Int
  OBVIOUS
<1> HIDE DEF b
<1>2. Min({b, cap}) \in {b, cap} /\ Min({b, cap}) <= b /\ Min({b, cap}) <= cap
  BY <1>1, OfTwo, Zenon
<1>3. Up(a, d, cap) = Min({b, cap})
  BY DEF Up, b
<1> QED
  BY <1>1, <1>2, <1>3 DEF b

LEMMA CountDown ==
    ASSUME NEW a \in Nat, NEW d \in Nat
    PROVE  Max({a - d, 0}) \in 0 .. a
<1> DEFINE b == a - d
<1>1. b \in Int /\ b <= a /\ 0 \in Int
  OBVIOUS
<1> HIDE DEF b
<1>2. Max({b, 0}) \in {b, 0} /\ Max({b, 0}) >= 0
  BY <1>1, OfTwo, Zenon
<1> QED
  BY <1>1, <1>2 DEF b

\* The bounds, one by one.
LEMMA Bounds ==
    /\ MaxBackoff \in Nat /\ MaxBackoff > 0
    /\ Period \in Nat /\ VisitTime \in Nat /\ Disturbances \in Nat
    /\ Timeout \in Nat /\ Window \in Nat /\ Timeout <= Window
    /\ Len(Order) \in Nat /\ Len(Order) > 0
    /\ MaxPoll \in Nat /\ Enough \in Nat
<1>1. Len(Order) \in Nat /\ Len(Order) > 0
  <2>1. Order \in Seq(Devices) /\ Devices # {}
    BY TelemetryAssumption
  <2> QED
    BY <2>1 DEF Devices, Range
<1>2. MaxPoll \in Nat
  BY <1>1, TelemetryAssumption DEF MaxPoll
<1>3. Enough \in Nat
  <2>1. MaxBackoff \in Int /\ Window \in Int /\ Period \in Nat /\ MaxBackoff >= 0 /\ Window >= 0
    BY TelemetryAssumption
  <2>2. Max({MaxBackoff, Window}) \in {MaxBackoff, Window}
    BY <2>1, OfTwo
  <2> QED
    BY <2>1, <2>2 DEF Enough
<1> QED
  BY <1>1, <1>2, <1>3, TelemetryAssumption

\* The visits of a poll, one at a time.
LEMMA Visit ==
    ASSUME NEW k \in Nat \ {0}
    PROVE  /\ VisitTime * (k - 1) \in Nat
           /\ VisitTime * (k - 1) + VisitTime = VisitTime * k
           /\ k <= Len(Order) => VisitTime * k <= MaxPoll
<1>1. VisitTime * (k - 1) \in Nat /\ VisitTime * (k - 1) + VisitTime = VisitTime * k
  BY Bounds
<1>2. ASSUME k <= Len(Order) PROVE VisitTime * k <= MaxPoll
  <2> DEFINE m == Len(Order) - k
  <2>1. m \in Nat /\ Len(Order) = k + m
    BY <1>2, Bounds
  <2>2. VisitTime * (k + m) = VisitTime * k + VisitTime * m /\ VisitTime * m \in Nat
    BY <2>1, Bounds
  <2> HIDE DEF m
  <2> QED
    BY <2>1, <2>2, Bounds DEF MaxPoll
<1> QED
  BY <1>1, <1>2

\* A reading that grows older by one visit, within the time of the poll.
LEMMA OlderReading ==
    ASSUME NEW r \in ReadingType \cup {None}, NEW d \in 0 .. VisitTime,
           NEW k \in Nat, k + d <= MaxPoll, r # None => r.age <= k
    PROVE  /\ Older(r, d) \in ReadingType \cup {None}
           /\ Older(r, d) # None => Older(r, d).age <= k + d
<1>1. CASE r = None
  BY <1>1 DEF Older
<1>2. CASE r # None
  <2>1. r \in ReadingType /\ r.age \in 0 .. MaxPoll /\ r.age <= k
    BY <1>2 DEF ReadingType
  <2>2. Up(r.age, d, MaxPoll + 1) \in 0 .. k + d
    <3>1. r.age \in Nat /\ d \in Nat /\ MaxPoll + 1 \in Nat
      BY <2>1, Bounds
    <3>2. /\ Up(r.age, d, MaxPoll + 1) \in 0 .. MaxPoll + 1
          /\ Up(r.age, d, MaxPoll + 1) <= r.age + d
      BY <3>1, CountUp, Zenon
    <3> QED
      BY <2>1, <3>2, Bounds
  <2>3. Older(r, d) = [r EXCEPT !.age = Up(r.age, d, MaxPoll + 1)]
    BY <1>2 DEF Older
  <2> QED
    BY <2>1, <2>2, <2>3, Bounds DEF ReadingType
<1> QED
  BY <1>1, <1>2

\* A row's value is older than its stamp by a poll at most.
Trails(row) == row # None => row.read <= row.ts + MaxPoll

\* A row that grows older stays so, or leaves the window.
LEMMA OlderRows ==
    ASSUME NEW row \in RowType \cup {None}, Trails(row), NEW d \in Nat
    PROVE  OlderRow(row, d) \in RowType \cup {None} /\ Trails(OlderRow(row, d))
<1>1. CASE row = None
  BY <1>1 DEF OlderRow, Trails
<1>2. CASE row # None
  <2> DEFINE read == Up(row.read, d, Window + MaxPoll + 1)
             new == [row EXCEPT !.ts = @ + d, !.read = read]
  <2>1. row \in RowType /\ row.ts \in 0 .. Window /\ row.read \in Nat /\ row.read <= row.ts + MaxPoll
    BY <1>2, Bounds DEF RowType, Ages, Trails
  <2>2. read \in Nat /\ read <= row.ts + d + MaxPoll
    <3>1. Window + MaxPoll + 1 \in Nat
      BY Bounds
    <3>2. read \in 0 .. Window + MaxPoll + 1 /\ read <= row.read + d
      BY <2>1, <3>1, CountUp, Zenon
    <3> HIDE DEF read
    <3> QED
      BY <2>1, <3>2, Bounds
  <2>3. OlderRow(row, d) = InWindow(new)
    BY <1>2 DEF OlderRow
  <2>4. new.ts = row.ts + d /\ new.read = read
    BY <2>1 DEF RowType
  <2>5. ASSUME row.ts + d <= Window PROVE new \in RowType
    <3>1. row.ts + d \in 0 .. Window /\ read \in Ages
      <4> HIDE DEF read
      <4> QED
        BY <2>1, <2>2, <2>5, Bounds DEF Ages
    <3> HIDE DEF read
    <3> QED
      BY <2>1, <3>1 DEF RowType
  <2> HIDE DEF read, new
  <2> QED
    BY <2>1, <2>2, <2>3, <2>4, <2>5, Bounds DEF InWindow, Trails
<1> QED
  BY <1>1, <1>2

\* Pauses run out.
LEMMA OlderLink ==
    ASSUME NEW l \in [Devices -> LinkType], NEW d \in Nat, link = l
    PROVE  OlderLinks(d) \in [Devices -> LinkType]
<1>1. ASSUME NEW u \in Devices PROVE [link[u] EXCEPT !.wait = Max({@ - d, 0})] \in LinkType
  <2>1. link[u] \in LinkType /\ link[u].wait \in 0 .. MaxBackoff
    BY DEF LinkType
  <2>2. Max({link[u].wait - d, 0}) \in 0 .. MaxBackoff
    <3>1. Max({link[u].wait - d, 0}) \in 0 .. link[u].wait
      BY <2>1, CountDown
    <3> QED
      BY <2>1, <3>1, Bounds
  <2> QED
    BY <2>1, <2>2 DEF LinkType
<1> QED
  BY <1>1 DEF OlderLinks

\* Ticks without a disturbance are counted up to the bound.
LEMMA CountsCalm ==
    ASSUME NEW d \in Nat, calm \in 0 .. Enough, left \in 0 .. Disturbances, Calmer(d)
    PROVE  calm' \in 0 .. Enough /\ left' \in 0 .. Disturbances
<1>1. Up(calm, d, Enough) \in 0 .. Enough
  <2>1. calm \in Nat /\ Enough \in Nat
    BY Bounds
  <2> QED
    BY <2>1, CountUp, Zenon
<1> QED
  BY <1>1, Bounds DEF Calmer

LEMMA CountsDisturbed ==
    ASSUME calm \in 0 .. Enough, left \in 0 .. Disturbances, Disturbed
    PROVE  calm' \in 0 .. Enough /\ left' \in 0 .. Disturbances
  BY Bounds DEF Disturbed

-----------------------------------------------------------------------------
(* The inductive invariant *)

\* While devices are polled, a reading is as old as the visits since at most.
PollAges ==
    phase = "poll" =>
        \A u \in Devices, p \in Points :
            readings[u][p] # None => readings[u][p].age <= VisitTime * (turn - 1)

RowsTrail == \A s \in Sources, q \in Qualities, p \in Points : Trails(db[s][q][p])

\* Between two rounds core begins with the first device.
TurnRests == phase \in {"write", "sleep", "down"} => turn = 1

IInv == TypeOK /\ PollAges /\ RowsTrail /\ TurnRests

DbType == [Sources -> [Qualities -> [Points -> RowType \cup {None}]]]
ReadingsType == [Devices -> [Points -> ReadingType \cup {None}]]

\* The series grow older.
LEMMA OlderSeries ==
    ASSUME IInv, NEW d \in Nat, db' = OlderDb(d)
    PROVE  db' \in DbType /\ RowsTrail'
<1>1. ASSUME NEW s \in Sources, NEW q \in Qualities, NEW p \in Points
      PROVE  /\ OlderRow(db[s][q][p], d) \in RowType \cup {None}
             /\ Trails(OlderRow(db[s][q][p], d))
  <2>1. db[s][q][p] \in RowType \cup {None} /\ Trails(db[s][q][p])
    BY DEF IInv, TypeOK, RowsTrail
  <2> QED
    BY <2>1, OlderRows
<1>2. \A s \in Sources, q \in Qualities, p \in Points :
         db'[s][q][p] = OlderRow(db[s][q][p], d)
  BY DEF OlderDb
<1>3. db' \in DbType
  BY <1>1 DEF OlderDb, DbType
<1>4. RowsTrail'
  BY <1>1, <1>2 DEF RowsTrail, Trails
<1> QED
  BY <1>3, <1>4

\* No reading at all is a reading of every point.
LEMMA NoReadings == NoPoints \in [Points -> ReadingType \cup {None}]
  BY DEF NoPoints

\* Whatever a connection attempt comes to, the link has its type.
LEMMA ConnectionLink ==
    ASSUME TypeOK, NEW u \in Devices
    PROVE  Connection(u).link \in LinkType /\ Connection(u).took \in {0, VisitTime}
<1> DEFINE l == link[u]
           Took == IF dev[u] = "hung" THEN VisitTime ELSE 0
           up == [l EXCEPT !.connected = TRUE, !.backoff = 1]
           down == [l EXCEPT !.wait = Max({l.backoff - Took, 0}), !.backoff = NextBackoff(@)]
<1>1. l \in LinkType /\ l.backoff \in 1 .. MaxBackoff /\ l.wait \in 0 .. MaxBackoff
  BY DEF TypeOK, LinkType
<1>2. Took \in {0, VisitTime} /\ Took \in Nat
  BY Bounds
<1>3. Max({l.backoff - Took, 0}) \in 0 .. MaxBackoff
  <2>1. Max({l.backoff - Took, 0}) \in 0 .. l.backoff
    <3>1. l.backoff \in Nat
      BY <1>1
    <3> QED
      BY <1>2, <3>1, CountDown, Zenon
  <2> QED
    BY <1>1, <2>1, Bounds
<1>4. NextBackoff(l.backoff) \in 1 .. MaxBackoff
  <2> DEFINE b == 2 * l.backoff
  <2>1. b \in Int /\ MaxBackoff \in Int /\ b >= 1 /\ MaxBackoff >= 1
    BY <1>1, Bounds
  <2> HIDE DEF b
  <2>2. Min({b, MaxBackoff}) \in {b, MaxBackoff} /\ Min({b, MaxBackoff}) <= MaxBackoff
    BY <2>1, OfTwo, Zenon
  <2> QED
    BY <2>1, <2>2 DEF NextBackoff, b
<1>5. up \in LinkType /\ down \in LinkType
  <2> DEFINE w == Max({l.backoff - Took, 0})
             b == NextBackoff(l.backoff)
  <2>1. w \in 0 .. MaxBackoff /\ b \in 1 .. MaxBackoff /\ 1 \in 1 .. MaxBackoff
    BY <1>3, <1>4, Bounds
  <2>2. down = [l EXCEPT !.wait = w, !.backoff = b]
    BY DEF LinkType
  <2> HIDE DEF w, b, down, Took
  <2> QED
    BY <1>1, <2>1, <2>2 DEF LinkType
<1> HIDE DEF up, down
<1>6. Connection(u) \in {[link |-> l, ok |-> TRUE, took |-> 0],
                         [link |-> l, ok |-> FALSE, took |-> 0],
                         [link |-> up, ok |-> TRUE, took |-> 0],
                         [link |-> down, ok |-> FALSE, took |-> Took]}
  BY DEF Connection, up, down
<1> QED
  BY <1>1, <1>2, <1>5, <1>6

\* Nor do scale factors that were read change its type.
LEMMA CachedLink ==
    ASSUME NEW l \in LinkType, NEW u \in Devices,
           NEW got \in SUBSET NeededSf(u, Requested(u))
    PROVE  Cached(l, got) \in LinkType
<1>1. Requested(u) \subseteq Points \cup {Setpoint}
  BY TelemetryAssumption DEF Requested
<1>2. got \subseteq SfRegisters
  BY <1>1 DEF NeededSf, SfRegisters
<1>3. l.sf \cup got \subseteq SfRegisters
  BY <1>2 DEF LinkType
<1> QED
  BY <1>3 DEF LinkType, Cached

-----------------------------------------------------------------------------
(* The steps *)

\* A visit of a device preserves the invariant: every reading grows older by
\* the time of this visit and the next turn has one visit more.
LEMMA VisitKeeps ==
    ASSUME IInv, phase \in {"poll", "send"}, NEW u \in Devices, NEW l \in LinkType,
           NEW took \in {0, VisitTime}, NEW failed \in BOOLEAN,
           NEW values \in [Points -> ReadingType \cup {None}],
           \A p \in Points : values[p] # None => values[p].age <= VisitTime,
           Visited(u, l, values, took, failed)
    PROVE  IInv'
<1> USE DEF IInv
<1>0. took \in 0 .. VisitTime /\ took \in Nat
  BY Bounds
<1>1. db' \in DbType /\ RowsTrail'
  BY <1>0, OlderSeries DEF Visited
<1>2. link' \in [Devices -> LinkType]
  BY <1>0, OlderLink DEF Visited, TypeOK
<1>3. calm' \in 0 .. Enough /\ left' \in 0 .. Disturbances
  BY <1>0, CountsCalm, CountsDisturbed DEF Visited, TypeOK
<1>4. turn' \in Nat \ {0} /\ phase' \in {"poll", "write", "send", "sleep"} /\ TurnRests'
  BY DEF Visited, TypeOK, TurnRests
<1>5. phase' = "poll" => phase = "poll" /\ turn' = turn + 1 /\ turn < Len(Order)
  BY DEF Visited, Route
<1>6. dev' = dev
  BY DEF Visited
<1>7. CASE phase = "poll"
  <2>1. turn \in Nat \ {0} /\ turn <= Len(Order) /\ readings \in ReadingsType
    BY <1>7 DEF TypeOK, ReadingsType
  <2>2. /\ VisitTime * (turn - 1) \in Nat
        /\ VisitTime * (turn - 1) + VisitTime = VisitTime * turn
        /\ VisitTime * turn <= MaxPoll
    BY <2>1, Visit
  <2>3. readings' = [OlderReadings(took) EXCEPT ![u] = values]
    BY <1>7 DEF Visited
  <2>4. ASSUME NEW v \in Devices, NEW p \in Points
        PROVE  /\ readings'[v][p] \in ReadingType \cup {None}
               /\ readings'[v][p] # None => readings'[v][p].age <= VisitTime * turn
    <3>1. CASE v = u
      <4>1. readings'[v][p] = values[p]
        BY <2>3, <3>1 DEF OlderReadings
      <4>2. values[p] # None => values[p].age \in Nat
        BY DEF ReadingType
      <4> QED
        BY <2>2, <4>1, <4>2, Bounds
    <3>2. CASE v # u
      <4>1. readings'[v][p] = Older(readings[v][p], took)
        BY <2>3, <3>2 DEF OlderReadings
      <4>2. readings[v][p] \in ReadingType \cup {None}
        BY <2>1 DEF ReadingsType
      <4>3. readings[v][p] # None => readings[v][p].age <= VisitTime * (turn - 1)
        BY <1>7 DEF PollAges
      <4>4. VisitTime * (turn - 1) + took <= MaxPoll
        BY <1>0, <2>2, Bounds
      <4>5. /\ Older(readings[v][p], took) \in ReadingType \cup {None}
            /\ Older(readings[v][p], took) # None =>
                  Older(readings[v][p], took).age <= VisitTime * (turn - 1) + took
        BY <1>0, <2>2, <4>2, <4>3, <4>4, OlderReading
      <4>6. Older(readings[v][p], took) # None => Older(readings[v][p], took).age \in Nat
        BY <4>5 DEF ReadingType
      <4> QED
        BY <1>0, <2>2, <4>1, <4>5, <4>6, Bounds
    <3> QED
      BY <3>1, <3>2
  <2>5. readings' \in ReadingsType
    BY <2>3, <2>4 DEF ReadingsType, OlderReadings
  <2>6. PollAges'
    BY <1>5, <2>1, <2>4 DEF PollAges
  <2> QED
    BY <1>1, <1>2, <1>3, <1>4, <1>5, <1>6, <2>1, <2>5, <2>6
       DEF TypeOK, DbType, ReadingsType
<1>8. CASE phase = "send"
  <2>1. readings' = readings /\ phase' # "poll"
    BY <1>5, <1>8 DEF Visited
  <2> QED
    BY <1>1, <1>2, <1>3, <1>4, <1>6, <2>1 DEF TypeOK, DbType, PollAges
<1> QED
  BY <1>7, <1>8

\* A value read during a visit is as old as the visit at most.
LEMMA ReadPointsFresh ==
    ASSUME NEW u \in Devices, NEW l \in LinkType, NEW lost,
           NEW took \in {0, VisitTime}
    PROVE  LET values == ReadPoints(u, l, lost, took)
           IN  /\ values \in [Points -> ReadingType \cup {None}]
               /\ \A p \in Points : values[p] # None => values[p].age <= VisitTime
<1>1. took \in 0 .. MaxPoll /\ took <= VisitTime
  <2>1. VisitTime * 1 <= MaxPoll /\ VisitTime \in Nat
    BY Visit, Bounds
  <2> QED
    BY <2>1, Bounds
<1>2. \A p \in Points : Reading(l, p, took) \in ReadingType /\ Reading(l, p, took).age = took
  BY <1>1 DEF Reading, ReadingType
<1>3. ReadPoints(u, l, lost, took) \in [Points -> ReadingType \cup {None}]
  BY <1>2 DEF ReadPoints
<1>4. \A p \in Points : ReadPoints(u, l, lost, took)[p] # None =>
                             ReadPoints(u, l, lost, took)[p] = Reading(l, p, took)
  BY DEF ReadPoints
<1> QED
  BY <1>1, <1>2, <1>3, <1>4

\* What a poll of class s brings for point p, once all devices were visited.
LEMMA RecordKeeps ==
    ASSUME IInv, NEW s \in Sources, NEW q \in Qualities, NEW p \in Points
    PROVE  Record(s, q, p) \in RowType \cup {None} /\ Trails(Record(s, q, p))
<1> USE DEF IInv
<1>1. ASSUME NEW x \in Points, Values(s)[x] # None
      PROVE  /\ Values(s)[x] = [ts |-> Values(s)[x].ts, read |-> Values(s)[x].read,
                                from |-> Values(s)[x].from, scaled |-> Values(s)[x].scaled]
             /\ Values(s)[x].ts \in Nat /\ Values(s)[x].read \in 0 .. MaxPoll
             /\ Values(s)[x].from \subseteq Devices /\ Values(s)[x].scaled \in BOOLEAN
  <2>1. CASE s = "aggregate"
    <3> DEFINE good == {u \in Members : readings[u][x] # None}
               ages == {readings[u][x].age : u \in good}
               row == [ts |-> 0, read |-> Max(ages), from |-> good,
                       scaled |-> \A u \in good : readings[u][x].scaled]
    <3>1. good # {} /\ Values(s)[x] = row
      BY <1>1, <2>1 DEF Values, AggregatePoint
    <3>2. good \subseteq Devices
      BY TelemetryAssumption
    <3>3. \A u \in good : readings[u][x].age \in 0 .. MaxPoll
      BY <3>2 DEF TypeOK, ReadingType
    <3>4. ages \in SUBSET (0 .. MaxPoll) /\ ages # {}
      BY <3>1, <3>3, Zenon
    <3>5. Max(ages) \in ages
      BY <3>4, Bounds, HasMax
    <3>6. Max(ages) \in 0 .. MaxPoll
      BY <3>4, <3>5
    <3> HIDE DEF good, ages
    <3> QED
      BY <3>1, <3>2, <3>6
  <2>2. CASE s # "aggregate"
    <3>1. s \in Devices
      BY <2>2 DEF Sources
    <3>2. readings[s][x] # None /\ Values(s)[x] = [ts |-> readings[s][x].age,
             read |-> readings[s][x].age, from |-> {s}, scaled |-> readings[s][x].scaled]
      BY <1>1, <2>2 DEF Values, AssetPoint
    <3>3. readings[s][x] \in ReadingType
      BY <3>1, <3>2 DEF TypeOK
    <3> QED
      BY <3>1, <3>2, <3>3 DEF ReadingType
  <2> QED
    BY <2>1, <2>2
<1>2. CASE p \in Good(Values(s)) /\ q = Quality(s, Values(s))
  <2> DEFINE values == Values(s)
             stamps == {values[x].ts : x \in Good(values)}
             row == [values[p] EXCEPT !.ts = Min(stamps)]
  <2>1. \A x \in Good(values) : x \in Points /\ values[x] # None
    BY DEF Good
  <2>2. stamps \in SUBSET Nat /\ stamps # {}
    BY <1>1, <1>2, <2>1, Zenon
  <2>3. Min(stamps) \in Nat
    BY <2>2, HasMin
  <2>4. Record(s, q, p) = InWindow(row)
    BY <1>2 DEF Record, Row
  <2>5. values[p] # None
    BY <1>2, <2>1
  <2> HIDE DEF stamps, values
  <2>6. /\ row = [ts |-> Min(stamps), read |-> values[p].read, from |-> values[p].from,
                  scaled |-> values[p].scaled]
        /\ values[p].read \in 0 .. MaxPoll /\ values[p].from \subseteq Devices
        /\ values[p].scaled \in BOOLEAN
    <3>1. /\ values[p] = [ts |-> values[p].ts, read |-> values[p].read,
                          from |-> values[p].from, scaled |-> values[p].scaled]
          /\ values[p].read \in 0 .. MaxPoll /\ values[p].from \subseteq Devices
          /\ values[p].scaled \in BOOLEAN
      BY <1>1, <2>5, Zenon DEF values
    <3> DEFINE m == Min(stamps)
               v == values[p]
    <3>2. [v EXCEPT !.ts = m] = [ts |-> m, read |-> v.read, from |-> v.from, scaled |-> v.scaled]
      <4>1. v = [ts |-> v.ts, read |-> v.read, from |-> v.from, scaled |-> v.scaled]
        BY <3>1
      <4> HIDE DEF m, v
      <4> QED
        BY <4>1
    <3> QED
      BY <3>1, <3>2
  <2> HIDE DEF row
  <2> QED
    BY <2>3, <2>4, <2>6, Bounds DEF InWindow, RowType, Ages, Trails
<1>3. CASE ~(p \in Good(Values(s)) /\ q = Quality(s, Values(s)))
  <2>1. Record(s, q, p) = db[s][q][p]
    BY <1>3 DEF Record
  <2> QED
    BY <2>1 DEF TypeOK, RowsTrail
<1> QED
  BY <1>2, <1>3

\* A new connection.
LEMMA FreshLink == ASSUME NEW u \in Devices PROVE Fresh(u) \in LinkType
  BY Bounds DEF Fresh, LinkType

\* Every step preserves the invariant.
LEMMA StepKeeps == ASSUME IInv, [Next]_vars PROVE IInv'
<1> USE DEF IInv
<1>1. ASSUME NEW u \in Devices, VisitUp(u) PROVE IInv'
  <2>1. PICK got \in SUBSET NeededSf(u, Requested(u)), lost \in SUBSET Requests(u) :
          \E took \in IF lost = {} THEN {0} ELSE {0, VisitTime} :
              Visited(u, Cached(Connection(u).link, got),
                      ReadPoints(u, Cached(Connection(u).link, got), lost, took), took,
                      lost # {} \/ got # NeededSf(u, Requested(u)))
    BY <1>1 DEF VisitUp
  <2>2. PICK took \in {0, VisitTime} :
              Visited(u, Cached(Connection(u).link, got),
                      ReadPoints(u, Cached(Connection(u).link, got), lost, took), took,
                      lost # {} \/ got # NeededSf(u, Requested(u)))
    BY <2>1
  <2> DEFINE l == Cached(Connection(u).link, got)
             values == ReadPoints(u, l, lost, took)
             failed == lost # {} \/ got # NeededSf(u, Requested(u))
  <2>3. phase \in {"poll", "send"}
    BY <1>1 DEF VisitUp, Visits
  <2>4. l \in LinkType
    BY ConnectionLink, CachedLink
  <2>5. /\ values \in [Points -> ReadingType \cup {None}]
        /\ \A p \in Points : values[p] # None => values[p].age <= VisitTime
    BY <2>4, ReadPointsFresh
  <2>6. Visited(u, l, values, took, failed) /\ failed \in BOOLEAN
    BY <2>2
  <2> HIDE DEF l, values, failed
  <2> QED
    BY <2>3, <2>4, <2>5, <2>6, VisitKeeps
<1>2. ASSUME NEW u \in Devices, VisitSilent(u) PROVE IInv'
  <2>1. PICK alive \in BOOLEAN :
           Visited(u, [link[u] EXCEPT !.connected = alive], NoPoints, VisitTime, FALSE)
    BY <1>2 DEF VisitSilent
  <2>2. phase \in {"poll", "send"}
    BY <1>2 DEF VisitSilent, Visits
  <2>3. [link[u] EXCEPT !.connected = alive] \in LinkType
    BY DEF TypeOK, LinkType
  <2>4. \A p \in Points : NoPoints[p] # None => NoPoints[p].age <= VisitTime
    BY DEF NoPoints
  <2> QED
    BY <2>1, <2>2, <2>3, <2>4, NoReadings, VisitKeeps
<1>3. ASSUME NEW u \in Devices, VisitDown(u) PROVE IInv'
  <2>1. Visited(u, Connection(u).link, NoPoints, Connection(u).took, FALSE)
    BY <1>3 DEF VisitDown
  <2>2. phase \in {"poll", "send"}
    BY <1>3 DEF VisitDown, Visits
  <2>3. \A p \in Points : NoPoints[p] # None => NoPoints[p].age <= VisitTime
    BY DEF NoPoints
  <2> QED
    BY <2>1, <2>2, <2>3, NoReadings, ConnectionLink, VisitKeeps
<1>4. ASSUME NEW u \in Devices, DeviceChange(u) PROVE IInv'
  <2>1. PICK d \in {"up", "gone", "hung"} :
          /\ dev' = [dev EXCEPT ![u] = d]
          /\ link' = IF d = "hung" THEN link ELSE [link EXCEPT ![u].connected = FALSE]
    BY <1>4 DEF DeviceChange
  <2>2. dev' \in [Devices -> {"up", "gone", "hung"}]
    BY <2>1 DEF TypeOK
  <2>3. link' \in [Devices -> LinkType]
    BY <2>1 DEF TypeOK, LinkType
  <2>4. calm' \in 0 .. Enough /\ left' \in 0 .. Disturbances
    BY <1>4, CountsDisturbed DEF DeviceChange, TypeOK
  <2> QED
    BY <1>4, <2>2, <2>3, <2>4 DEF DeviceChange, TypeOK, PollAges, RowsTrail, Trails, TurnRests
<1>5. CASE WriteCycle
  <2>1. db' = [s \in Sources |-> [q \in Qualities |-> [p \in Points |-> Record(s, q, p)]]]
    BY <1>5 DEF WriteCycle
  <2>2. db' \in DbType
    BY <2>1, RecordKeeps DEF DbType
  <2>3. RowsTrail'
    <3>1. ASSUME NEW s \in Sources, NEW q \in Qualities, NEW p \in Points
          PROVE  db'[s][q][p] = Record(s, q, p) /\ Trails(Record(s, q, p))
      BY <2>1, RecordKeeps
    <3> QED
      BY <3>1 DEF RowsTrail, Trails
  <2>4. TypeOK'
    BY <1>5, <2>2 DEF WriteCycle, TypeOK, DbType
  <2> QED
    BY <1>5, <2>3, <2>4 DEF WriteCycle, PollAges, TurnRests
<1>6. CASE WriteFails
  <2>1. calm' \in 0 .. Enough /\ left' \in 0 .. Disturbances
    BY <1>6, CountsDisturbed DEF WriteFails, TypeOK
  <2> QED
    BY <1>6, <2>1 DEF WriteFails, TypeOK, PollAges, RowsTrail, Trails, TurnRests
<1>7. ASSUME phase \in {"sleep", "down"}, readings' = [u \in Devices |-> NoPoints],
             phase' = "poll", turn' = 1, db' = OlderDb(Period), Calmer(Period), dev' = dev,
             link' \in [Devices -> LinkType]
      PROVE  IInv'
  <2>1. db' \in DbType /\ RowsTrail'
    BY <1>7, OlderSeries, Bounds
  <2>2. calm' \in 0 .. Enough /\ left' \in 0 .. Disturbances
    BY <1>7, CountsCalm, Bounds DEF TypeOK
  <2>3. readings' \in ReadingsType
    BY <1>7, NoReadings DEF ReadingsType
  <2>4. PollAges'
    BY <1>7 DEF PollAges, NoPoints
  <2> QED
    BY <1>7, <2>1, <2>2, <2>3, <2>4, Bounds DEF TypeOK, DbType, ReadingsType, TurnRests
<1>8. CASE Sleep
  <2>1. turn' = 1
    BY <1>8 DEF Sleep, TurnRests
  <2>2. link' \in [Devices -> LinkType]
    BY <1>8, OlderLink, Bounds DEF Sleep, TypeOK
  <2> QED
    BY <1>7, <1>8, <2>1, <2>2 DEF Sleep
<1>9. CASE Restart
  <2>1. link' \in [Devices -> LinkType]
    BY <1>9, FreshLink DEF Restart
  <2> QED
    BY <1>7, <1>9, <2>1 DEF Restart
<1>10. CASE UNCHANGED vars
  BY <1>10 DEF vars, TypeOK, PollAges, RowsTrail, Trails, TurnRests
<1> QED
  BY <1>1, <1>2, <1>3, <1>4, <1>5, <1>6, <1>8, <1>9, <1>10 DEF Next

LEMMA Starts == Init => IInv
<1> SUFFICES ASSUME Init PROVE IInv
  OBVIOUS
<1>1. link \in [Devices -> LinkType] /\ readings \in ReadingsType
  BY FreshLink, NoReadings DEF Init, ReadingsType
<1>2. db \in DbType /\ RowsTrail
  BY DEF Init, DbType, RowsTrail, Trails
<1>3. PollAges /\ TurnRests
  BY DEF Init, PollAges, TurnRests, NoPoints
<1> QED
  BY <1>1, <1>2, <1>3, Bounds DEF Init, IInv, TypeOK, DbType, ReadingsType

-----------------------------------------------------------------------------
(* The theorems *)

LEMMA Invariant == Spec => []IInv
  BY Starts, StepKeeps, PTL DEF Spec

\* Every variable has its type in every reachable state.
THEOREM SpecTypeOK == Spec => []TypeOK
<1>1. IInv => TypeOK
  BY DEF IInv
<1> QED
  BY <1>1, Invariant, PTL

\* What the controller reads as GOOD left the devices within the timeout and
\* the time one poll may take, however many devices hang, whatever fails and
\* whichever row comes last.
THEOREM SpecGoodIsRecent == Spec => []GoodIsRecent
<1>1. ASSUME IInv PROVE GoodIsRecent
  <2>1. ASSUME NEW s \in Sources, NEW p \in Points, NEW row \in Rows(s, p), ReadGood(row)
        PROVE  row.read <= Timeout + MaxPoll
    <3>1. PICK q \in Qualities : row = db[s][q][p] /\ row # None
      BY DEF Rows
    <3>2. row \in RowType /\ row.read <= row.ts + MaxPoll
      BY <1>1, <3>1 DEF IInv, TypeOK, RowsTrail, Trails
    <3> QED
      BY <2>1, <3>2, Bounds DEF ReadGood, RowType, Ages
  <2> QED
    BY <2>1 DEF GoodIsRecent
<1> QED
  BY <1>1, Invariant, PTL


-----------------------------------------------------------------------------
(***************************************************************************)
(* Mending.  While nothing fails, time passes between the rounds only.     *)
(* Pauses run out within MaxBackoff (Waits); from then on every visit      *)
(* reads everything (Polled), every round writes it (Written) and the next *)
(* finds it one period old (Kept).  What failures left in the series of    *)
(* degraded records is as old as the calm (Failing), for a calm round      *)
(* reads a device whole or not at all (Unbroken).                          *)
(***************************************************************************)
Waits == \A u \in Devices : link[u].wait = 0 \/ link[u].wait + calm <= MaxBackoff
Calms == calm > 0 => AllUp /\ phase # "down"
Unbroken == calm > 0 => \A u \in Devices : Good(readings[u]) \in {{}, Exposed[u]}

\* All points of device u, just read.
Whole(u) == [p \in Points |-> IF p \in Exposed[u] THEN [age |-> 0, scaled |-> TRUE] ELSE None]
Polled ==
    calm >= MaxBackoff =>
        \A i \in DOMAIN Order :
            phase = "write" \/ (phase = "poll" /\ i < turn) => readings[Order[i]] = Whole(Order[i])

\* The good row of a series, no older than d.
Sound(row, s, d) == row # None /\ row.ts <= d /\ row.scaled /\ row.from = Contributors(s)
Written ==
    calm >= MaxBackoff /\ phase \in {"send", "sleep"} =>
        \A s \in Sources : \A p \in Expected(s) : Sound(db[s]["GOOD"][p], s, 0)
Kept ==
    calm = Enough => \A s \in Sources : \A p \in Expected(s) : Sound(db[s]["GOOD"][p], s, Period)
Failing ==
    \A s \in Sources, p \in Points :
        db[s]["COMM_FAIL"][p] # None => db[s]["COMM_FAIL"][p].ts >= calm

Mending == Waits /\ Calms /\ Unbroken /\ Polled /\ Written /\ Kept /\ Failing

\* Exact counting.
LEMMA UpExact ==
    ASSUME NEW a \in Nat, NEW d \in Nat, NEW cap \in Nat
    PROVE  Up(a, d, cap) = IF a + d <= cap THEN a + d ELSE cap
<1> DEFINE b == a + d
<1>1. b \in Nat /\ b \in Int /\ cap \in Int
  OBVIOUS
<1> HIDE DEF b
<1>2. Min({b, cap}) \in {b, cap} /\ Min({b, cap}) <= b /\ Min({b, cap}) <= cap
  BY <1>1, OfTwo, Zenon
<1>3. Up(a, d, cap) = Min({b, cap})
  BY DEF Up, b
<1>4. Min({b, cap}) = IF b <= cap THEN b ELSE cap
  BY <1>1, <1>2
<1> QED
  BY <1>3, <1>4 DEF b

LEMMA UpByNothing ==
    ASSUME NEW a \in Nat, NEW cap \in Nat, a <= cap
    PROVE  Up(a, 0, cap) = a
<1> DEFINE z == 0
<1>1. z \in Nat /\ a + z = a
  OBVIOUS
<1> HIDE DEF z
<1>2. Up(a, z, cap) = IF a + z <= cap THEN a + z ELSE cap
  BY <1>1, UpExact
<1> QED
  BY <1>1, <1>2 DEF z

LEMMA DownExact ==
    ASSUME NEW a \in Nat, NEW d \in Nat
    PROVE  Max({a - d, 0}) = IF a <= d THEN 0 ELSE a - d
<1> DEFINE b == a - d
<1>1. b \in Int /\ b <= a /\ 0 \in Int
  OBVIOUS
<1> HIDE DEF b
<1>2. Max({b, 0}) \in {b, 0} /\ Max({b, 0}) >= 0 /\ Max({b, 0}) >= b
  BY <1>1, OfTwo, Zenon
<1>3. Max({b, 0}) = IF b <= 0 THEN 0 ELSE b
  BY <1>1, <1>2
<1> QED
  BY <1>3 DEF b

LEMMA DownByNothing == ASSUME NEW a \in Nat PROVE Max({a - 0, 0}) = a
<1> DEFINE z == 0
<1>1. z \in Nat /\ (IF a <= z THEN 0 ELSE a - z) = a
  OBVIOUS
<1> HIDE DEF z
<1>2. Max({a - z, 0}) = IF a <= z THEN 0 ELSE a - z
  BY <1>1, DownExact
<1> QED
  BY <1>1, <1>2 DEF z

\* The longest pause and the window fit before the last period of a calm.
LEMMA EnoughIs ==
    /\ Enough \in Nat /\ MaxBackoff < Enough /\ Window < Enough /\ Period < Enough
    /\ \A n \in Nat : n + Period >= Enough => n >= MaxBackoff
<1>1. MaxBackoff \in Int /\ Window \in Int /\ MaxBackoff > 0 /\ Period > 0 /\ Period \in Nat
  BY Bounds, TelemetryAssumption
<1> DEFINE m == Max({MaxBackoff, Window})
<1>2. m \in {MaxBackoff, Window} /\ m >= MaxBackoff /\ m >= Window
  BY <1>1, OfTwo, Zenon
<1>3. Enough = m + Period
  BY DEF Enough
<1> HIDE DEF m
<1> QED
  BY <1>1, <1>2, <1>3, Bounds

\* While no time passes nothing grows older.
LEMMA OlderNot ==
    ASSUME TypeOK
    PROVE  /\ \A u \in Devices : OlderLinks(0)[u].wait = link[u].wait
           /\ OlderReadings(0) = readings
           /\ OlderDb(0) = db
<1>1. ASSUME NEW u \in Devices PROVE OlderLinks(0)[u].wait = link[u].wait
  <2>1. link[u] \in LinkType /\ link[u].wait \in Nat
    BY Bounds DEF TypeOK, LinkType
  <2>2. Max({link[u].wait - 0, 0}) = link[u].wait
    BY <2>1, DownByNothing, Zenon
  <2> QED
    BY <2>1, <2>2 DEF OlderLinks, LinkType
<1>2. ASSUME NEW r \in ReadingType \cup {None} PROVE Older(r, 0) = r
  <2>1. CASE r = None
    BY <2>1 DEF Older
  <2>2. CASE r # None
    <3>1. r = [age |-> r.age, scaled |-> r.scaled] /\ r.age \in Nat /\ r.age <= MaxPoll
      BY <2>2, Bounds DEF ReadingType
    <3> DEFINE cap == MaxPoll + 1
    <3>2. cap \in Nat /\ r.age \in Nat /\ r.age <= cap
      BY <3>1, Bounds
    <3> HIDE DEF cap
    <3>3. Up(r.age, 0, cap) = r.age
      BY <3>2, UpByNothing, Zenon
    <3> QED
      BY <2>2, <3>1, <3>3 DEF Older, cap
  <2> QED
    BY <2>1, <2>2
<1>3. ASSUME NEW row \in RowType \cup {None} PROVE OlderRow(row, 0) = row
  <2>1. CASE row = None
    BY <2>1 DEF OlderRow
  <2>2. CASE row # None
    <3>1. /\ row = [ts |-> row.ts, read |-> row.read, from |-> row.from, scaled |-> row.scaled]
          /\ row.ts \in Nat /\ row.ts <= Window /\ row.read \in Nat /\ row.read <= Window + MaxPoll
      BY <2>2, Bounds DEF RowType, Ages
    <3> DEFINE cap == Window + MaxPoll + 1
               read == Up(row.read, 0, cap)
    <3>2. cap \in Nat /\ row.read \in Nat /\ row.read <= cap
      BY <3>1, Bounds
    <3> HIDE DEF cap
    <3>3. read = row.read
      BY <3>2, UpByNothing, Zenon
    <3>4. row.ts + 0 = row.ts
      BY <3>1
    <3> HIDE DEF read
    <3>5. [row EXCEPT !.ts = @ + 0, !.read = read] = row
      BY <3>1, <3>3, <3>4
    <3>6. [row EXCEPT !.ts = @ + 0, !.read = Up(@, 0, Window + MaxPoll + 1)] = row
      BY <3>5 DEF read, cap
    <3> QED
      BY <2>2, <3>1, <3>6, Bounds DEF OlderRow, InWindow
  <2> QED
    BY <2>1, <2>2
<1>4. OlderReadings(0) = readings
  BY <1>2 DEF OlderReadings, TypeOK
<1>5. OlderDb(0) = db
  <2>1. \A s \in Sources, q \in Qualities, p \in Points : OlderRow(db[s][q][p], 0) = db[s][q][p]
    BY <1>3 DEF TypeOK
  <2> QED
    BY <2>1 DEF OlderDb, TypeOK
<1> QED
  BY <1>1, <1>4, <1>5

\* Where something failed just now, nothing is claimed but the types.
LEMMA MendingAtZero == ASSUME TypeOK', calm' = 0 PROVE Mending'
<1>1. Waits'
  <2>1. \A u \in Devices : link'[u].wait \in Nat /\ link'[u].wait <= MaxBackoff
    BY Bounds DEF TypeOK, LinkType
  <2> QED
    BY <2>1 DEF Waits
<1>2. Failing'
  <2>1. ASSUME NEW s \in Sources, NEW p \in Points, db'[s]["COMM_FAIL"][p] # None
        PROVE  db'[s]["COMM_FAIL"][p].ts >= 0
    <3>1. db'[s]["COMM_FAIL"][p] \in RowType
      BY <2>1 DEF TypeOK, Qualities
    <3> QED
      BY <3>1, Bounds DEF RowType
  <2> QED
    BY <2>1 DEF Failing
<1> QED
  BY <1>1, <1>2, Bounds, EnoughIs DEF Mending, Calms, Unbroken, Polled, Written, Kept


\* Counting the calm: not at all while something is down, or the time that passed.
LEMMA CalmerCounts ==
    ASSUME TypeOK, NEW d \in Nat, Calmer(d), calm' > 0
    PROVE  AllUp /\ calm' = Up(calm, d, Enough) /\ calm' <= calm + d
<1>1. AllUp /\ calm' = Up(calm, d, Enough)
  BY DEF Calmer
<1>2. calm \in Nat /\ Enough \in Nat
  BY Bounds DEF TypeOK
<1>3. Up(calm, d, Enough) <= calm + d
  BY <1>2, CountUp
<1> QED
  BY <1>1, <1>3

\* A visit that ends in calm took no time.  It read and wrote all it wanted to,
\* or there was a pause to keep.
LEMMA CalmVisit ==
    ASSUME TypeOK, NEW u \in Devices, VisitUp(u) \/ VisitSilent(u) \/ VisitDown(u), calm' > 0
    PROVE  /\ AllUp /\ calm' = calm
           /\ \E l \in LinkType, values \in {NoPoints, Whole(u)} :
                 /\ Visited(u, l, values, 0, FALSE) /\ l.wait = link[u].wait
                 /\ values # Whole(u) => link[u].wait > 0
<1>0. calm \in Nat /\ calm <= Enough /\ Enough \in Nat
  BY Bounds DEF TypeOK
<1>1. ASSUME NEW l \in LinkType, NEW values, NEW took \in Nat, NEW failed \in BOOLEAN,
             Visited(u, l, values, took, failed)
      PROVE  ~failed /\ AllUp /\ (took = 0 => calm' = calm)
  <2>1. ~failed /\ Calmer(took)
    BY <1>1, <1>0 DEF Visited, Disturbed
  <2>2. AllUp /\ calm' = Up(calm, took, Enough)
    BY <2>1, CalmerCounts
  <2>3. Up(calm, 0, Enough) = calm
    BY <1>0, UpByNothing, Zenon
  <2> QED
    BY <2>1, <2>2, <2>3
<1>2. link[u] \in LinkType /\ link[u].wait \in Nat
  BY Bounds DEF TypeOK, LinkType
<1>3. CASE VisitUp(u)
  <2> DEFINE c == Connection(u)
  <2>1. c.link \in LinkType
    BY ConnectionLink
  <2>2. c.link.wait = link[u].wait
    BY <1>2, <1>3 DEF VisitUp, Connection, LinkType
  <2> HIDE DEF c
  <2>3. PICK got \in SUBSET NeededSf(u, Requested(u)), lost \in SUBSET Requests(u) :
          \E took \in IF lost = {} THEN {0} ELSE {0, VisitTime} :
              Visited(u, Cached(c.link, got),
                      ReadPoints(u, Cached(c.link, got), lost, took), took,
                      lost # {} \/ got # NeededSf(u, Requested(u)))
    BY <1>3 DEF VisitUp, c
  <2>4. PICK took \in IF lost = {} THEN {0} ELSE {0, VisitTime} :
              Visited(u, Cached(c.link, got),
                      ReadPoints(u, Cached(c.link, got), lost, took), took,
                      lost # {} \/ got # NeededSf(u, Requested(u)))
    BY <2>3
  <2> DEFINE l == Cached(c.link, got)
             failed == lost # {} \/ got # NeededSf(u, Requested(u))
  <2>5. l \in LinkType
    BY <2>1, CachedLink
  <2>6. l.wait = link[u].wait
    BY <2>1, <2>2 DEF Cached, LinkType
  <2>7. took \in Nat
    BY <2>4, Bounds
  <2>8. ~failed /\ AllUp /\ (took = 0 => calm' = calm)
    BY <1>1, <2>4, <2>5, <2>7
  <2>9. took = 0 /\ lost = {} /\ got = NeededSf(u, Requested(u))
    BY <2>4, <2>8
  <2>10. Visited(u, l, ReadPoints(u, l, {}, 0), 0, FALSE)
    <3>1. Visited(u, l, ReadPoints(u, l, lost, took), took, failed) /\ failed = FALSE
      BY <2>4, <2>8
    <3> QED
      BY <2>9, <3>1
  <2>11. CASE phase = "poll"
    <3>1. ASSUME NEW p \in Exposed[u] PROVE Sf[p] = None \/ Sf[p] \in l.sf
      <4>1. l.sf = c.link.sf \cup NeededSf(u, Exposed[u])
        BY <2>1, <2>9, <2>11 DEF Cached, LinkType, Requested
      <4>2. c.link.sf = link[u].sf
        BY <1>2, <1>3 DEF c, VisitUp, Connection, LinkType
      <4> QED
        BY <4>1, <4>2 DEF NeededSf
    <3>2. ReadPoints(u, l, {}, 0) = Whole(u)
      <4>1. UNION {} = {}
        OBVIOUS
      <4>2. \A p \in Exposed[u] : Reading(l, p, 0) = [age |-> 0, scaled |-> TRUE]
        BY <3>1 DEF Reading
      <4> QED
        BY <4>1, <4>2 DEF ReadPoints, Whole
    <3> QED
      BY <2>5, <2>6, <2>8, <2>9, <2>10, <3>2
  <2>12. CASE phase # "poll"
    <3>1. Visited(u, l, Whole(u), 0, FALSE)
      BY <2>10, <2>12 DEF Visited
    <3> QED
      BY <2>5, <2>6, <2>8, <2>9, <3>1
  <2> QED
    BY <2>11, <2>12
<1>4. CASE VisitSilent(u)
  <2>1. PICK alive \in BOOLEAN :
           Visited(u, [link[u] EXCEPT !.connected = alive], NoPoints, VisitTime, FALSE)
    BY <1>4 DEF VisitSilent
  <2>2. [link[u] EXCEPT !.connected = alive] \in LinkType
    BY <1>2 DEF LinkType
  <2>3. AllUp
    BY <1>1, <2>1, <2>2, Bounds
  <2> QED
    BY <1>4, <2>3 DEF AllUp, VisitSilent
<1>5. CASE VisitDown(u)
  <2>1. Visited(u, Connection(u).link, NoPoints, Connection(u).took, FALSE)
    BY <1>5 DEF VisitDown
  <2>2. Connection(u).link \in LinkType /\ Connection(u).took \in Nat
    BY ConnectionLink, Bounds
  <2>3. AllUp /\ (Connection(u).took = 0 => calm' = calm)
    BY <1>1, <2>1, <2>2
  <2>4. dev[u] = "up"
    BY <2>3 DEF AllUp
  <2>5. link[u].wait > 0 /\ Connection(u) = [link |-> link[u], ok |-> FALSE, took |-> 0]
    BY <1>5, <2>4 DEF VisitDown, Connection
  <2>6. Connection(u).link = link[u] /\ Connection(u).took = 0
    BY <2>5
  <2>7. Visited(u, link[u], NoPoints, 0, FALSE)
    BY <2>1, <2>6, Zenon
  <2> QED
    BY <1>2, <2>3, <2>5, <2>6, <2>7
<1> QED
  BY <1>3, <1>4, <1>5


LEMMA JustRead == [age |-> 0, scaled |-> TRUE] # None
<1>1. [age |-> 0, scaled |-> TRUE] \in [age : Nat, scaled : BOOLEAN]
  OBVIOUS
<1> QED
  BY <1>1, NoneAssumption

LEMMA WholeIsGood == ASSUME NEW u \in Devices PROVE Good(Whole(u)) = Exposed[u]
<1>1. [age |-> 0, scaled |-> TRUE] # None
  BY JustRead
<1>2. Exposed[u] \subseteq Points
  BY TelemetryAssumption
<1> QED
  BY <1>1, <1>2 DEF Good, Whole

\* A visit that ends in calm keeps what is claimed.
LEMMA VisitMends ==
    ASSUME IInv, Mending, NEW u \in Devices, phase \in {"poll", "send"}, u = Route[turn],
           VisitUp(u) \/ VisitSilent(u) \/ VisitDown(u), calm' > 0
    PROVE  Mending'
<1>0. TypeOK
  BY DEF IInv
<1>1. AllUp /\ calm' = calm
  BY <1>0, CalmVisit
<1>2. PICK l \in LinkType, values \in {NoPoints, Whole(u)} :
         /\ Visited(u, l, values, 0, FALSE) /\ l.wait = link[u].wait
         /\ values # Whole(u) => link[u].wait > 0
  BY <1>0, CalmVisit
<1>3. dev' = dev /\ db' = db
  BY <1>0, <1>2, OlderNot DEF Visited
<1>4. ASSUME NEW v \in Devices PROVE link'[v].wait = link[v].wait
  <2>1. link' = [OlderLinks(0) EXCEPT ![u] = l]
    BY <1>2 DEF Visited
  <2>2. OlderLinks(0)[v].wait = link[v].wait
    BY <1>0, OlderNot
  <2> QED
    BY <1>2, <2>1, <2>2 DEF OlderLinks
<1>5. phase = "poll" => readings' = [readings EXCEPT ![u] = values]
  BY <1>0, <1>2, OlderNot DEF Visited
<1>6. phase = "send" => readings' = readings
  BY <1>2 DEF Visited
<1>7. turn \in Nat \ {0} /\ Len(Order) \in Nat
  BY <1>0, Bounds DEF TypeOK
<1>8. /\ phase' # "down"
      /\ phase = "poll" => u = Order[turn] /\ turn <= Len(Order)
      /\ phase' = "poll" => phase = "poll" /\ turn' = turn + 1
      /\ phase' = "write" => phase = "poll" /\ turn = Len(Order)
      /\ phase' \in {"send", "sleep"} => phase = "send"
  BY <1>0, <1>2, <1>7 DEF Visited, Route, TypeOK
<1>9. Waits'
  BY <1>1, <1>4 DEF Waits, Mending
<1>10. Calms'
  BY <1>1, <1>3, <1>8 DEF Calms, AllUp
<1>11. Unbroken'
  <2>1. Good(values) \in {{}, Exposed[u]}
    BY <1>2, WholeIsGood DEF Good, NoPoints
  <2>2. ASSUME NEW v \in Devices PROVE Good(readings'[v]) \in {{}, Exposed[v]}
    <3>1. Good(readings[v]) \in {{}, Exposed[v]}
      BY <1>1 DEF Mending, Unbroken
    <3>2. readings'[v] = readings[v] \/ (v = u /\ readings'[v] = values)
      BY <1>0, <1>5, <1>6 DEF TypeOK
    <3> QED
      BY <2>1, <3>1, <3>2
  <2> QED
    BY <2>2 DEF Unbroken
<1>12. Polled'
  <2>1. SUFFICES ASSUME calm' >= MaxBackoff, NEW i \in DOMAIN Order,
                        phase' = "write" \/ (phase' = "poll" /\ i < turn')
                 PROVE  readings'[Order[i]] = Whole(Order[i])
    BY DEF Polled
  <2>2. i \in 1 .. Len(Order) /\ Order[i] \in Devices /\ phase = "poll"
    BY <1>8, <2>1, TelemetryAssumption
  <2>3. values = Whole(u)
    <3>1. calm >= MaxBackoff /\ calm \in Nat /\ link[u].wait \in Nat
      BY <1>0, <1>1, <2>1, Bounds DEF TypeOK, LinkType
    <3>2. link[u].wait = 0 \/ link[u].wait + calm <= MaxBackoff
      BY DEF Mending, Waits
    <3> QED
      BY <1>2, <3>1, <3>2, Bounds
  <2>4. readings' = [readings EXCEPT ![u] = Whole(u)]
    BY <1>5, <2>2, <2>3
  <2>5. CASE Order[i] = u
    BY <1>0, <2>4, <2>5 DEF TypeOK
  <2>6. CASE Order[i] # u
    <3>1. i < turn
      BY <1>7, <1>8, <2>1, <2>2, <2>6
    <3>2. readings[Order[i]] = Whole(Order[i])
      BY <1>1, <2>1, <2>2, <3>1 DEF Mending, Polled
    <3> QED
      BY <1>0, <2>2, <2>4, <2>6, <3>2 DEF TypeOK
  <2> QED
    BY <2>5, <2>6
<1>13. Written' /\ Kept' /\ Failing'
  BY <1>1, <1>3, <1>8 DEF Mending, Written, Kept, Failing, Sound
<1> QED
  BY <1>9, <1>10, <1>11, <1>12, <1>13 DEF Mending


\* Nothing that is written is None.
AnyRow == [ts : Nat, read : Nat, from : SUBSET Devices, scaled : BOOLEAN]

LEMMA NotNone == None \notin AnyRow /\ RowType \subseteq AnyRow
<1>1. ASSUME NEW row \in RowType PROVE row \in AnyRow
  BY Bounds DEF RowType, Ages, AnyRow
<1> QED
  BY <1>1, NoneAssumption DEF AnyRow

\* What becomes of a row as time passes.
LEMMA RowOlder ==
    ASSUME NEW row \in RowType, Trails(row), NEW d \in Nat
    PROVE  LET older == OlderRow(row, d)
           IN  /\ older # None => older.ts = row.ts + d
               /\ row.ts + d <= Window =>
                     /\ older # None /\ older.ts = row.ts + d
                     /\ older.scaled = row.scaled /\ older.from = row.from
<1> DEFINE read == Up(row.read, d, Window + MaxPoll + 1)
           t == row.ts + d
           new == [row EXCEPT !.ts = @ + d, !.read = read]
<1>1. row # None
  BY NotNone
<1>2. t \in Nat
  BY Bounds DEF RowType
<1>3. new.ts = t /\ new.scaled = row.scaled /\ new.from = row.from
  BY DEF RowType
<1>4. OlderRow(row, d) = IF t > Window THEN None ELSE new
  <2>1. OlderRow(row, d) = InWindow(new)
    BY <1>1 DEF OlderRow
  <2> HIDE DEF new, t
  <2> QED
    BY <1>3, <2>1 DEF InWindow
<1>5. ASSUME t <= Window PROVE new # None
  <2>1. OlderRow(row, d) \in RowType \cup {None}
    BY OlderRows
  <2>2. read \in Nat /\ read <= t + MaxPoll
    <3>1. row.read \in Nat /\ Window + MaxPoll + 1 \in Nat /\ row.ts \in Nat
      BY Bounds DEF RowType, Ages
    <3>2. read \in 0 .. Window + MaxPoll + 1 /\ read <= row.read + d
      BY <3>1, CountUp, Zenon
    <3> HIDE DEF read
    <3>3. row.read <= row.ts + MaxPoll
      BY <1>1 DEF Trails
    <3> QED
      BY <3>1, <3>2, <3>3, Bounds
  <2>3. t \in 0 .. Window /\ read \in Ages
    <3> HIDE DEF read
    <3> QED
      BY <1>2, <1>5, <2>2, Bounds DEF Ages
  <2> HIDE DEF read
  <2>4. new \in RowType
    BY <2>3 DEF RowType
  <2> QED
    BY <2>4, NotNone
<1> HIDE DEF new, t
<1> QED
  BY <1>2, <1>3, <1>4, <1>5, Bounds DEF t

\* A unit that answered gives the aggregate a value; without one there is none.
LEMMA AggregateValue ==
    ASSUME TypeOK, NEW p \in Points
    PROVE  LET good == {u \in Members : readings[u][p] # None}
           IN  /\ good = {} => AggregatePoint(p) = None
               /\ good # {} =>
                     /\ AggregatePoint(p) \in RowType /\ AggregatePoint(p).ts = 0
                     /\ AggregatePoint(p).from = good
                     /\ AggregatePoint(p).scaled = (\A u \in good : readings[u][p].scaled)
<1> DEFINE good == {u \in Members : readings[u][p] # None}
           ages == {readings[u][p].age : u \in good}
           scaled == \A u \in good : readings[u][p].scaled
           row == [ts |-> 0, read |-> Max(ages), from |-> good, scaled |-> scaled]
<1>1. AggregatePoint(p) = IF good = {} THEN None ELSE row
  BY DEF AggregatePoint
<1>2. ASSUME good # {} PROVE row \in RowType
  <2>1. good \subseteq Devices
    BY TelemetryAssumption
  <2>2. \A u \in good : readings[u][p].age \in 0 .. MaxPoll
    BY <2>1 DEF TypeOK, ReadingType
  <2>3. ages \in SUBSET (0 .. MaxPoll) /\ ages # {}
    BY <1>2, <2>2, Zenon
  <2>4. Max(ages) \in ages
    BY <2>3, Bounds, HasMax
  <2>5. Max(ages) \in 0 .. MaxPoll
    BY <2>3, <2>4
  <2>6. Max(ages) \in Ages /\ 0 \in 0 .. Window /\ scaled \in BOOLEAN
    BY <2>5, Bounds DEF Ages
  <2> HIDE DEF good, ages, scaled
  <2> QED
    BY <2>1, <2>6 DEF RowType
<1>3. row.ts = 0 /\ row.from = good /\ row.scaled = scaled
  OBVIOUS
<1> HIDE DEF row
<1> QED
  BY <1>1, <1>2, <1>3

\* The value of an asset is its reading.
LEMMA AssetValue ==
    ASSUME TypeOK, NEW u \in Devices, NEW p \in Points
    PROVE  /\ readings[u][p] = None => AssetPoint(u, p) = None
           /\ readings[u][p] # None =>
                 /\ AssetPoint(u, p) \in AnyRow /\ AssetPoint(u, p).ts = readings[u][p].age
                 /\ AssetPoint(u, p).from = {u}
                 /\ AssetPoint(u, p).scaled = readings[u][p].scaled
<1> DEFINE r == readings[u][p]
           row == [ts |-> r.age, read |-> r.age, from |-> {u}, scaled |-> r.scaled]
<1>1. AssetPoint(u, p) = IF r = None THEN None ELSE row
  BY DEF AssetPoint
<1>2. ASSUME r # None PROVE row \in AnyRow
  <2>1. r.age \in Nat /\ r.scaled \in BOOLEAN
    BY <1>2, Bounds DEF TypeOK, ReadingType
  <2> HIDE DEF r
  <2> QED
    BY <2>1 DEF AnyRow
<1>3. row.ts = r.age /\ row.from = {u} /\ row.scaled = r.scaled
  OBVIOUS
<1> HIDE DEF row
<1> QED
  BY <1>1, <1>2, <1>3

\* When every device was read whole or not at all, so is every record; with all
\* points the class has.
LEMMA RecordUnbroken ==
    ASSUME TypeOK, Uniform, NEW s \in Sources,
           \A u \in Devices : Good(readings[u]) \in {{}, Exposed[u]}
    PROVE  Good(Values(s)) \in {{}, Expected(s)}
<1>0. Members \subseteq Devices /\ \A u \in Devices : Exposed[u] \subseteq Points
  BY TelemetryAssumption
<1>1. CASE s = "aggregate"
  <2>1. CASE \A u \in Members : Good(readings[u]) = {}
    <3>1. \A p \in Points : Values(s)[p] = None
      <4> SUFFICES ASSUME NEW p \in Points PROVE AggregatePoint(p) = None
        BY <1>1 DEF Values
      <4>1. {u \in Members : readings[u][p] # None} = {}
        BY <2>1 DEF Good
      <4> QED
        BY <4>1, AggregateValue
    <3> QED
      BY <3>1 DEF Good
  <2>2. CASE \E u \in Members : Good(readings[u]) # {}
    <3>1. PICK u \in Members : Good(readings[u]) = Points
      BY <1>0, <2>2 DEF Uniform
    <3>2. \A p \in Points : Values(s)[p] # None
      <4> SUFFICES ASSUME NEW p \in Points PROVE AggregatePoint(p) # None
        BY <1>1 DEF Values
      <4>1. u \in {v \in Members : readings[v][p] # None}
        BY <3>1 DEF Good
      <4>2. AggregatePoint(p) \in RowType
        BY <4>1, AggregateValue
      <4> QED
        BY <4>2, NotNone
    <3> QED
      BY <1>1, <3>2 DEF Good, Expected
  <2> QED
    BY <2>1, <2>2
<1>2. CASE s # "aggregate"
  <2>1. s \in Devices
    BY <1>2 DEF Sources
  <2>2. \A p \in Points : Values(s)[p] # None <=> readings[s][p] # None
    BY <1>2, <2>1, AssetValue, NotNone DEF Values
  <2>3. Good(Values(s)) = Good(readings[s])
    BY <2>2 DEF Good
  <2> QED
    BY <1>2, <2>1, <2>3 DEF Expected
<1> QED
  BY <1>1, <1>2

\* When every device was read whole just now, every record is sound.
LEMMA RecordSound ==
    ASSUME IInv, Uniform, NEW s \in Sources, NEW p \in Expected(s),
           \A u \in Devices : readings[u] = Whole(u)
    PROVE  Sound(Record(s, "GOOD", p), s, 0)
<1> DEFINE values == Values(s)
<1>0. /\ Members \subseteq Devices /\ Members # {}
      /\ \A u \in Devices : Exposed[u] \subseteq Points
      /\ [age |-> 0, scaled |-> TRUE] # None /\ TypeOK
  BY TelemetryAssumption, JustRead DEF IInv
<1>1. ASSUME NEW x \in Expected(s)
      PROVE  /\ x \in Points /\ values[x] \in AnyRow /\ values[x].ts = 0 /\ values[x].scaled
             /\ values[x].from = Contributors(s)
  <2>1. CASE s = "aggregate"
    <3>1. x \in Points /\ values[x] = AggregatePoint(x)
      BY <2>1 DEF Values, Expected
    <3>2. ASSUME NEW u \in Members PROVE readings[u][x] = [age |-> 0, scaled |-> TRUE]
      <4>1. u \in Devices /\ x \in Exposed[u] /\ readings[u] = Whole(u)
        BY <1>0, <3>1 DEF Uniform
      <4> QED
        BY <3>1, <4>1 DEF Whole
    <3>3. {u \in Members : readings[u][x] # None} = Members
      BY <1>0, <3>2
    <3>4. /\ AggregatePoint(x) \in RowType /\ AggregatePoint(x).ts = 0
          /\ AggregatePoint(x).from = Members
          /\ AggregatePoint(x).scaled = (\A u \in Members : readings[u][x].scaled)
      BY <1>0, <3>1, <3>3, AggregateValue
    <3>5. AggregatePoint(x).scaled
      BY <3>2, <3>4
    <3> QED
      BY <2>1, <3>1, <3>4, <3>5, NotNone DEF Contributors
  <2>2. CASE s # "aggregate"
    <3>1. s \in Devices /\ x \in Exposed[s]
      BY <2>2 DEF Sources, Expected
    <3>2. x \in Points /\ values[x] = AssetPoint(s, x)
      BY <1>0, <2>2, <3>1 DEF Values
    <3>3. readings[s][x] = [age |-> 0, scaled |-> TRUE]
      BY <3>1, <3>2 DEF Whole
    <3> QED
      BY <1>0, <2>2, <3>1, <3>2, <3>3, AssetValue DEF Contributors
  <2> QED
    BY <2>1, <2>2
<1>2. Good(values) = Expected(s)
  <2>1. Good(values) \in {{}, Expected(s)}
    <3>1. \A u \in Devices : Good(readings[u]) \in {{}, Exposed[u]}
      BY WholeIsGood
    <3> QED
      BY <1>0, <3>1, RecordUnbroken
  <2>2. p \in Good(values)
    BY <1>1, NotNone DEF Good
  <2> QED
    BY <2>1, <2>2
<1>3. Record(s, "GOOD", p) = InWindow(Row(values, p))
  BY <1>2 DEF Record, Quality
<1>4. Min({values[x].ts : x \in Good(values)}) = 0
  <2> DEFINE stamps == {values[x].ts : x \in Good(values)}
  <2>1. \A x \in Good(values) : values[x].ts = 0
    BY <1>1, <1>2
  <2>2. stamps = {0}
    BY <1>2, <2>1, Zenon
  <2>3. Min({0}) = 0
    BY HasMin
  <2> QED
    BY <2>2, <2>3
<1>5. Row(values, p) = [values[p] EXCEPT !.ts = 0]
  BY <1>4 DEF Row
<1> DEFINE v == values[p]
           row == [v EXCEPT !.ts = 0]
<1>6. v.ts = 0 /\ v.scaled /\ v.from = Contributors(s) /\ v \in AnyRow
  BY <1>1
<1> HIDE DEF v
<1>7. row = v
  BY <1>6 DEF AnyRow
<1>8. Record(s, "GOOD", p) = v
  <2>1. Record(s, "GOOD", p) = InWindow(v)
    BY <1>3, <1>5, <1>7 DEF v
  <2> QED
    BY <1>6, <2>1, Bounds DEF InWindow
<1> QED
  BY <1>6, <1>8, NotNone DEF Sound


\* The series after a round or a pause: what failures left is still as old as the
\* calm, and sound rows stay so.
LEMMA FailingOlder ==
    ASSUME IInv, Failing, NEW d \in Nat, db' = OlderDb(d), calm' <= calm + d, calm' \in Nat
    PROVE  Failing'
<1> SUFFICES ASSUME NEW s \in Sources, NEW p \in Points, db'[s]["COMM_FAIL"][p] # None
             PROVE  db'[s]["COMM_FAIL"][p].ts >= calm'
  BY DEF Failing
<1> DEFINE row == db[s]["COMM_FAIL"][p]
<1>1. db'[s]["COMM_FAIL"][p] = OlderRow(row, d)
  BY DEF OlderDb, Qualities
<1>2. row # None
  BY <1>1 DEF OlderRow
<1>3. row \in RowType /\ Trails(row) /\ row.ts >= calm
  BY <1>2 DEF IInv, TypeOK, RowsTrail, Failing, Qualities
<1>4. OlderRow(row, d).ts = row.ts + d
  BY <1>1, <1>3, RowOlder
<1>5. row.ts \in Nat /\ calm \in Nat
  BY <1>3, Bounds DEF RowType, IInv, TypeOK
<1> HIDE DEF row
<1> QED
  BY <1>1, <1>3, <1>4, <1>5

LEMMA SoundOlder ==
    ASSUME IInv, NEW s \in Sources, NEW p \in Expected(s), NEW d \in Nat, d <= Window,
           db' = OlderDb(d), Sound(db[s]["GOOD"][p], s, 0)
    PROVE  Sound(db'[s]["GOOD"][p], s, d)
<1> DEFINE row == db[s]["GOOD"][p]
<1>0. p \in Points
  BY TelemetryAssumption DEF Expected, Sources
<1>1. db'[s]["GOOD"][p] = OlderRow(row, d)
  BY <1>0 DEF OlderDb, Qualities
<1>2. row \in RowType /\ Trails(row) /\ row.ts <= 0 /\ row.scaled /\ row.from = Contributors(s)
  BY <1>0 DEF IInv, TypeOK, RowsTrail, Sound, Qualities
<1>3. row.ts = 0 /\ row.ts + d <= Window /\ row.ts + d = d
  <2>1. row.ts \in Nat
    BY <1>2, Bounds DEF RowType
  <2> HIDE DEF row
  <2> QED
    BY <1>2, <2>1, Bounds
<1> HIDE DEF row
<1> QED
  BY <1>1, <1>2, <1>3, RowOlder DEF Sound

\* What a pause takes from a wait it adds to the calm at most.
LEMMA PausesPass ==
    ASSUME NEW before \in Nat, NEW after \in Nat, NEW d \in Nat, NEW c \in Nat, NEW e \in Nat,
           NEW bound \in Nat, after = before - d, before + c <= bound, e <= c + d
    PROVE  after + e <= bound
  OBVIOUS

\* A pause between two rounds, or a restart.
LEMMA PauseMends ==
    ASSUME IInv, Mending, PeriodFits, phase \in {"sleep", "down"},
           readings' = [u \in Devices |-> NoPoints], phase' = "poll", turn' = 1,
           db' = OlderDb(Period), Calmer(Period), dev' = dev,
           \A u \in Devices : link'[u].wait = 0 \/ link'[u].wait = link[u].wait - Period,
           TypeOK', calm' > 0
    PROVE  Mending'
<1>0. TypeOK /\ Period \in Nat /\ Period <= Window /\ calm \in Nat
  BY Bounds DEF IInv, TypeOK, PeriodFits
<1>1. AllUp /\ calm' <= calm + Period /\ calm' \in Nat
  BY <1>0, CalmerCounts, Bounds DEF TypeOK
<1>2. Waits'
  <2>1. ASSUME NEW u \in Devices, link'[u].wait # 0 PROVE link'[u].wait + calm' <= MaxBackoff
    <3>1. link[u].wait \in Nat /\ link'[u].wait \in Nat
      BY <1>0, Bounds DEF TypeOK, LinkType
    <3>2. link'[u].wait = link[u].wait - Period /\ link[u].wait # 0
      BY <1>0, <2>1, <3>1
    <3>3. link[u].wait + calm <= MaxBackoff
      BY <3>2 DEF Mending, Waits
    <3>4. MaxBackoff \in Nat
      BY Bounds
    <3> QED
      BY <1>0, <1>1, <3>1, <3>2, <3>3, <3>4, PausesPass
  <2> QED
    BY <2>1 DEF Waits
<1>3. Calms' /\ Unbroken' /\ Polled' /\ Written'
  BY <1>1, TelemetryAssumption DEF Calms, AllUp, Unbroken, Good, NoPoints, Polled, Written
<1>4. Failing'
  BY <1>0, <1>1, FailingOlder DEF Mending
<1>5. Kept'
  <2> SUFFICES ASSUME calm' = Enough, NEW s \in Sources, NEW p \in Expected(s)
               PROVE  Sound(db'[s]["GOOD"][p], s, Period)
    BY DEF Kept
  <2>1. calm >= MaxBackoff
    BY <1>0, <1>1, EnoughIs
  <2>2. phase = "sleep"
    BY <1>0, <2>1, Bounds DEF Mending, Calms
  <2>3. Sound(db[s]["GOOD"][p], s, 0)
    BY <2>1, <2>2 DEF Mending, Written
  <2> QED
    BY <1>0, <2>3, SoundOlder
<1> QED
  BY <1>2, <1>3, <1>4, <1>5 DEF Mending

\* A round's records, written in calm.
LEMMA WriteMends ==
    ASSUME IInv, Mending, Uniform, WriteCycle, calm' > 0
    PROVE  Mending'
<1>0. /\ TypeOK /\ calm' = calm /\ link' = link /\ dev' = dev /\ readings' = readings
      /\ phase = "write" /\ phase' \in {"send", "sleep"}
  BY DEF WriteCycle, IInv
<1>1. ASSUME NEW s \in Sources, NEW q \in Qualities, NEW p \in Points
      PROVE  db'[s][q][p] = Record(s, q, p)
  BY DEF WriteCycle
<1>2. Waits' /\ Calms' /\ Unbroken' /\ Polled'
  BY <1>0 DEF Mending, Waits, Calms, AllUp, Unbroken, Polled
<1>3. Written'
  <2> SUFFICES ASSUME calm' >= MaxBackoff, NEW s \in Sources, NEW p \in Expected(s)
               PROVE  Sound(db'[s]["GOOD"][p], s, 0)
    BY DEF Written
  <2>1. ASSUME NEW u \in Devices PROVE readings[u] = Whole(u)
    <3>1. PICK i \in DOMAIN Order : u = Order[i]
      BY DEF Devices, Range
    <3> QED
      BY <1>0, <3>1 DEF Mending, Polled
  <2>2. p \in Points
    BY TelemetryAssumption DEF Expected, Sources
  <2> QED
    BY <1>1, <2>1, <2>2, RecordSound DEF Qualities
<1>4. Kept'
  <2> SUFFICES ASSUME calm' = Enough, NEW s \in Sources, NEW p \in Expected(s)
               PROVE  Sound(db'[s]["GOOD"][p], s, Period)
    BY DEF Kept
  <2>1. Sound(db'[s]["GOOD"][p], s, 0)
    BY <1>0, <1>3, Bounds, EnoughIs DEF Written
  <2>2. p \in Points
    BY TelemetryAssumption DEF Expected, Sources
  <2>3. db'[s]["GOOD"][p] \in RowType \cup {None}
    BY <1>1, <2>2, RecordKeeps DEF Qualities
  <2>4. db'[s]["GOOD"][p].ts \in Nat
    BY <2>1, <2>3, Bounds DEF Sound, RowType
  <2> QED
    BY <2>1, <2>4, Bounds DEF Sound
<1>5. Failing'
  <2> SUFFICES ASSUME NEW s \in Sources, NEW p \in Points, db'[s]["COMM_FAIL"][p] # None
               PROVE  db'[s]["COMM_FAIL"][p].ts >= calm'
    BY DEF Failing
  <2>1. Good(Values(s)) \in {{}, Expected(s)}
    BY <1>0, RecordUnbroken DEF Mending, Unbroken
  <2>2. p \in Good(Values(s)) => Quality(s, Values(s)) = "GOOD"
    BY <2>1 DEF Quality
  <2>3. Record(s, "COMM_FAIL", p) = db[s]["COMM_FAIL"][p]
    BY <2>2 DEF Record
  <2>4. db'[s]["COMM_FAIL"][p] = db[s]["COMM_FAIL"][p]
    BY <1>1, <2>3 DEF Qualities
  <2> QED
    BY <1>0, <2>4 DEF Mending, Failing
<1> QED
  BY <1>2, <1>3, <1>4, <1>5 DEF Mending

\* Every step keeps what is claimed.
LEMMA StepMends ==
    ASSUME IInv, IInv', Mending, Uniform, PeriodFits, [Next]_vars
    PROVE  Mending'
<1>0. TypeOK /\ TypeOK'
  BY DEF IInv
<1>1. CASE calm' = 0
  BY <1>0, <1>1, MendingAtZero
<1>2. CASE calm' # 0
  <2>0. calm' > 0
    BY <1>0, <1>2, Bounds DEF TypeOK
  <2>1. ASSUME NEW u \in Devices, VisitUp(u) \/ VisitSilent(u) \/ VisitDown(u) PROVE Mending'
    <3>1. phase \in {"poll", "send"} /\ u = Route[turn]
      BY <2>1 DEF VisitUp, VisitSilent, VisitDown, Visits
    <3> QED
      BY <2>0, <2>1, <3>1, VisitMends
  <2>2. ~WriteFails /\ \A u \in Devices : ~DeviceChange(u)
    BY <1>2 DEF WriteFails, DeviceChange, Disturbed
  <2>3. CASE WriteCycle
    BY <2>0, <2>3, WriteMends
  <2>4. CASE Sleep
    <3>1. turn' = 1
      BY <2>4 DEF Sleep, IInv, TurnRests
    <3>2. ASSUME NEW u \in Devices
          PROVE  link'[u].wait = 0 \/ link'[u].wait = link[u].wait - Period
      <4>1. link[u] \in LinkType /\ link[u].wait \in Nat
        BY <1>0, Bounds DEF TypeOK, LinkType
      <4>2. link'[u].wait = Max({link[u].wait - Period, 0})
        BY <2>4, <4>1 DEF Sleep, OlderLinks, LinkType
      <4>3. Max({link[u].wait - Period, 0}) \in {0, link[u].wait - Period}
        BY <4>1, Bounds, DownExact
      <4> QED
        BY <4>2, <4>3
    <3> QED
      BY <1>0, <2>0, <2>4, <3>1, <3>2, PauseMends DEF Sleep
  <2>5. CASE Restart
    <3>1. \A u \in Devices : link'[u].wait = 0
      BY <2>5 DEF Restart, Fresh
    <3> QED
      BY <1>0, <2>0, <2>5, <3>1, PauseMends DEF Restart
  <2>6. CASE UNCHANGED vars
    BY <2>6 DEF vars, Mending, Waits, Calms, AllUp, Unbroken, Polled, Written, Kept, Failing
  <2> QED
    BY <2>1, <2>2, <2>3, <2>4, <2>5, <2>6 DEF Next
<1> QED
  BY <1>1, <1>2

LEMMA MendingStarts == Init => Mending
<1> SUFFICES ASSUME Init PROVE Mending
  OBVIOUS
<1>1. Waits
  BY DEF Init, Waits, Fresh
<1>2. Failing
  BY DEF Init, Failing, Qualities
<1> QED
  BY <1>1, <1>2, Bounds, EnoughIs DEF Init, Mending, Calms, Unbroken, Polled, Written, Kept

\* Once nothing has failed for the longest pause, or the query's window if that
\* is longer, and a period more, every point reads GOOD, scaled and from all
\* units; for any devices, points and timings whose period fits the timeout,
\* and units with all points of their class.
THEOREM SpecMends ==
    ASSUME Uniform, PeriodFits
    PROVE  Spec => []Mends
<1>1. ASSUME IInv, Mending PROVE Mends
  <2> SUFFICES ASSUME calm = Enough, NEW s \in Sources, NEW p \in Expected(s)
               PROVE  /\ Rows(s, p) # {}
                      /\ \A row \in Rows(s, p) :
                            ReadGood(row) /\ row.scaled /\ row.from = Contributors(s)
    BY DEF Mends
  <2>0. p \in Points
    BY TelemetryAssumption DEF Expected, Sources
  <2>1. Sound(db[s]["GOOD"][p], s, Period)
    BY <1>1 DEF Mending, Kept
  <2>2. db[s]["COMM_FAIL"][p] = None
    <3> SUFFICES ASSUME db[s]["COMM_FAIL"][p] # None PROVE FALSE
      OBVIOUS
    <3>1. db[s]["COMM_FAIL"][p] \in RowType /\ db[s]["COMM_FAIL"][p].ts >= Enough
      BY <1>1, <2>0 DEF IInv, TypeOK, Mending, Failing, Qualities
    <3> QED
      BY <3>1, Bounds, EnoughIs DEF RowType
  <2>3. Rows(s, p) = {db[s]["GOOD"][p]}
    BY <2>1, <2>2 DEF Rows, Qualities, Sound
  <2>4. db[s]["GOOD"][p].ts <= Timeout
    <3>1. db[s]["GOOD"][p] \in RowType
      BY <1>1, <2>0, <2>1 DEF IInv, TypeOK, Sound, Qualities
    <3> QED
      BY <2>1, <3>1, Bounds DEF RowType, Sound, PeriodFits
  <2> QED
    BY <2>1, <2>3, <2>4 DEF Sound, ReadGood
<1>2. IInv /\ IInv' /\ Mending /\ [Next]_vars => Mending'
  BY StepMends
<1> QED
  BY <1>1, <1>2, MendingStarts, Invariant, PTL DEF Spec

-----------------------------------------------------------------------------
(* Sums *)

\* The element a sum takes next, and what a function has to satisfy to be the
\* sum of f over the subsets of S that have at most n elements.
Picked(s) == CHOOSE x \in s : TRUE
Rest(s) == s \ {Picked(s)}
Sums(g, f, S, n) ==
    \A s \in SUBSET S : Cardinality(s) <= n =>
        g[s] = IF s = {} THEN 0 ELSE f[Picked(s)] + g[Rest(s)]

LEMMA RestIs ==
    ASSUME NEW S, IsFiniteSet(S), S # {}
    PROVE  /\ Picked(S) \in S /\ Rest(S) \in SUBSET S /\ IsFiniteSet(Rest(S))
           /\ Cardinality(Rest(S)) = Cardinality(S) - 1
           /\ Cardinality(S) \in Nat \ {0}
<1>1. Picked(S) \in S
  BY DEF Picked
<1>2. IsFiniteSet(Rest(S)) /\ Cardinality(Rest(S)) = Cardinality(S) - 1
  BY <1>1, FS_RemoveElement DEF Rest
<1>3. Cardinality(S) \in Nat /\ Cardinality(S) # 0
  BY FS_CardinalityType, FS_EmptySet
<1> QED
  BY <1>1, <1>2, <1>3 DEF Rest

\* A set with an element more than k is not empty.
LEMMA HasSome ==
    ASSUME NEW s, NEW k \in Nat, Cardinality(s) = k + 1
    PROVE  s # {}
<1>1. Cardinality({}) = 0
  BY FS_EmptySet
<1> QED
  BY <1>1

\* There is such a function.
LEMMA SumsExist ==
    ASSUME NEW f, NEW S, IsFiniteSet(S), NEW n \in Nat
    PROVE  \E g : Sums(g, f, S, n)
<1> DEFINE N == {k \in Nat : \E g : Sums(g, f, S, k)}
<1>0. \A s \in SUBSET S : IsFiniteSet(s) /\ Cardinality(s) \in Nat
  BY FS_Subset, FS_CardinalityType
<1>1. 0 \in N
  <2> DEFINE g == [s \in SUBSET S |-> 0]
  <2>1. \A s \in SUBSET S : Cardinality(s) <= 0 => s = {}
    BY <1>0, FS_EmptySet
  <2>2. Sums(g, f, S, 0)
    BY <2>1 DEF Sums
  <2> QED
    BY <2>2
<1>2. ASSUME NEW k \in Nat, k \in N PROVE k + 1 \in N
  <2>1. PICK g : Sums(g, f, S, k)
    BY <1>2
  <2> DEFINE h == [s \in SUBSET S |->
                     IF Cardinality(s) <= k THEN g[s]
                     ELSE IF s = {} THEN 0 ELSE f[Picked(s)] + g[Rest(s)]]
  <2>2. ASSUME NEW s \in SUBSET S, Cardinality(s) <= k + 1
        PROVE  h[s] = IF s = {} THEN 0 ELSE f[Picked(s)] + h[Rest(s)]
    <3>1. h[s] = IF s = {} THEN 0 ELSE f[Picked(s)] + g[Rest(s)]
      BY <2>1 DEF Sums
    <3>2. CASE s # {}
      <4>1. Rest(s) \in SUBSET S /\ Cardinality(Rest(s)) <= k
        BY <1>0, <2>2, <3>2, RestIs
      <4>2. h[Rest(s)] = g[Rest(s)]
        BY <4>1
      <4> QED
        BY <3>1, <3>2, <4>2
    <3> QED
      BY <3>1, <3>2
  <2> HIDE DEF h
  <2>3. Sums(h, f, S, k + 1)
    BY <2>2 DEF Sums
  <2> QED
    BY <2>3
<1> HIDE DEF N
<1>3. Nat \subseteq N
  BY <1>1, <1>2, CountsUp
<1> QED
  BY <1>3 DEF N

\* Any two of them agree.
LEMMA SumsAgree ==
    ASSUME NEW f, NEW S, NEW T \in SUBSET S, IsFiniteSet(S), NEW n \in Nat, NEW g, NEW h,
           Sums(g, f, S, n), Sums(h, f, T, n)
    PROVE  \A s \in SUBSET T : Cardinality(s) <= n => g[s] = h[s]
<1> DEFINE N == {k \in Nat : \A s \in SUBSET T : Cardinality(s) = k /\ k <= n => g[s] = h[s]}
<1>0. \A s \in SUBSET T : s \in SUBSET S /\ IsFiniteSet(s) /\ Cardinality(s) \in Nat
  BY FS_Subset, FS_CardinalityType
<1>1. 0 \in N
  <2>1. \A s \in SUBSET T : Cardinality(s) = 0 => s = {}
    BY <1>0, FS_EmptySet
  <2>2. Cardinality({}) = 0
    BY FS_EmptySet
  <2>3. g[{}] = 0 /\ h[{}] = 0
    BY <2>2 DEF Sums
  <2> QED
    BY <2>1, <2>3
<1>2. ASSUME NEW k \in Nat, k \in N PROVE k + 1 \in N
  <2> SUFFICES ASSUME NEW s \in SUBSET T, Cardinality(s) = k + 1, k + 1 <= n
               PROVE  g[s] = h[s]
    OBVIOUS
  <2>1. s # {} /\ s \in SUBSET S
    BY HasSome
  <2>2. Rest(s) \in SUBSET T /\ Cardinality(Rest(s)) = k
    BY <1>0, <2>1, RestIs
  <2>3. g[Rest(s)] = h[Rest(s)]
    BY <1>2, <2>2
  <2>4. g[s] = f[Picked(s)] + g[Rest(s)]
    BY <2>1 DEF Sums
  <2>5. h[s] = f[Picked(s)] + h[Rest(s)]
    BY <2>1 DEF Sums
  <2> QED
    BY <2>3, <2>4, <2>5
<1> HIDE DEF N
<1>3. Nat \subseteq N
  BY <1>1, <1>2, CountsUp
<1> QED
  BY <1>0, <1>3 DEF N

\* What the library's sum is.
LEMMA SumIs ==
    ASSUME NEW f, NEW S, IsFiniteSet(S)
    PROVE  SumFunctionOnSet(f, S) =
             IF S = {} THEN 0 ELSE f[Picked(S)] + SumFunctionOnSet(f, Rest(S))
<1> DEFINE Step(g, T) == [s \in SUBSET T |-> IF s = {} THEN 0 ELSE f[Picked(s)] + g[Rest(s)]]
           Fold(T) == CHOOSE g : g = Step(g, T)
<1>1. ASSUME NEW T, IsFiniteSet(T)
      PROVE  SumFunctionOnSet(f, T) = Fold(T)[T] /\ Sums(Fold(T), f, T, Cardinality(T))
  <2>0. Cardinality(T) \in Nat
    BY <1>1, FS_CardinalityType
  <2>1. PICK g : Sums(g, f, T, Cardinality(T))
    BY <1>1, <2>0, SumsExist
  <2>2. \A s \in SUBSET T : /\ Cardinality(s) <= Cardinality(T)
                            /\ s # {} => Rest(s) \in SUBSET T
    BY <1>1, FS_Subset, RestIs
  <2> DEFINE h == [s \in SUBSET T |-> g[s]]
  <2>3. h = Step(h, T)
    <3>1. ASSUME NEW s \in SUBSET T PROVE h[s] = Step(h, T)[s]
      BY <2>1, <2>2 DEF Sums
    <3> QED
      BY <3>1
  <2> HIDE DEF h
  <2>4. Fold(T) = Step(Fold(T), T)
    BY <2>3
  <2>5. Sums(Fold(T), f, T, Cardinality(T))
    <3> HIDE DEF Fold
    <3> SUFFICES ASSUME NEW s \in SUBSET T
                 PROVE  Fold(T)[s] = IF s = {} THEN 0 ELSE f[Picked(s)] + Fold(T)[Rest(s)]
      BY DEF Sums
    <3> QED
      BY <2>4
  <2>6. SumFunctionOnSet(f, T) = Fold(T)[T]
    BY DEF SumFunctionOnSet, FoldFunctionOnSet, MapThenFoldSet, Picked, Rest
  <2> QED
    BY <2>5, <2>6
<1> HIDE DEF Fold
<1>2. Cardinality(S) \in Nat
  BY FS_CardinalityType
<1>3. Fold(S)[S] = IF S = {} THEN 0 ELSE f[Picked(S)] + Fold(S)[Rest(S)]
  BY <1>1, <1>2 DEF Sums
<1>4. CASE S # {}
  <2>1. /\ Rest(S) \in SUBSET S /\ IsFiniteSet(Rest(S))
        /\ Cardinality(Rest(S)) \in Nat /\ Cardinality(Rest(S)) <= Cardinality(S)
    BY <1>2, <1>4, RestIs
  <2>2. Sums(Fold(S), f, S, Cardinality(Rest(S)))
    BY <1>1, <1>2, <2>1, FS_Subset, FS_CardinalityType DEF Sums
  <2>3. Sums(Fold(Rest(S)), f, Rest(S), Cardinality(Rest(S)))
    BY <1>1, <2>1
  <2>4. Fold(S)[Rest(S)] = Fold(Rest(S))[Rest(S)]
    BY <2>1, <2>2, <2>3, SumsAgree
  <2> QED
    BY <1>1, <1>3, <1>4, <2>1, <2>4
<1> QED
  BY <1>1, <1>3, <1>4

\* The sum of integers is one; a multiple of each, of the sum.
LEMMA SumMultiplies ==
    ASSUME NEW M, NEW c \in Int, NEW f \in [M -> Int], NEW g \in [M -> Int],
           \A x \in M : g[x] = c * f[x], NEW S \in SUBSET M, IsFiniteSet(S)
    PROVE  /\ SumFunctionOnSet(f, S) \in Int
           /\ SumFunctionOnSet(g, S) = c * SumFunctionOnSet(f, S)
<1> DEFINE Fine(s) == /\ SumFunctionOnSet(f, s) \in Int
                      /\ SumFunctionOnSet(g, s) = c * SumFunctionOnSet(f, s)
           N == {k \in Nat : \A s \in SUBSET S : Cardinality(s) = k => Fine(s)}
<1>0. \A s \in SUBSET S : IsFiniteSet(s) /\ Cardinality(s) \in Nat
  BY FS_Subset, FS_CardinalityType
<1>1. 0 \in N
  <2> SUFFICES ASSUME NEW s \in SUBSET S, Cardinality(s) = 0 PROVE Fine(s)
    OBVIOUS
  <2>1. s = {}
    BY <1>0, FS_EmptySet
  <2>2. SumFunctionOnSet(f, s) = 0 /\ SumFunctionOnSet(g, s) = 0
    BY <1>0, <2>1, SumIs
  <2> QED
    BY <2>2
<1>2. ASSUME NEW k \in Nat, k \in N PROVE k + 1 \in N
  <2> SUFFICES ASSUME NEW s \in SUBSET S, Cardinality(s) = k + 1 PROVE Fine(s)
    OBVIOUS
  <2>1. s # {}
    BY HasSome
  <2>2. Picked(s) \in M /\ Rest(s) \in SUBSET S /\ Cardinality(Rest(s)) = k
    BY <1>0, <2>1, RestIs
  <2>3. Fine(Rest(s))
    BY <1>2, <2>2
  <2>4. /\ SumFunctionOnSet(f, s) = f[Picked(s)] + SumFunctionOnSet(f, Rest(s))
        /\ SumFunctionOnSet(g, s) = g[Picked(s)] + SumFunctionOnSet(g, Rest(s))
    BY <1>0, <2>1, SumIs
  <2>5. g[Picked(s)] = c * f[Picked(s)] /\ f[Picked(s)] \in Int
    BY <2>2
  <2> DEFINE a == f[Picked(s)]
             b == SumFunctionOnSet(f, Rest(s))
  <2>6. a \in Int /\ b \in Int /\ c * (a + b) = c * a + c * b
    BY <2>3, <2>5
  <2> QED
    BY <2>3, <2>4, <2>5, <2>6
<1> HIDE DEF N
<1>3. Nat \subseteq N
  BY <1>1, <1>2, CountsUp
<1> QED
  BY <1>0, <1>3 DEF N

\* A sum of natural numbers is at least each of them.
LEMMA SumCovers ==
    ASSUME NEW M, NEW f \in [M -> Nat], NEW S \in SUBSET M, IsFiniteSet(S)
    PROVE  /\ SumFunctionOnSet(f, S) \in Nat
           /\ \A x \in S : f[x] <= SumFunctionOnSet(f, S)
<1> DEFINE Fine(s) == /\ SumFunctionOnSet(f, s) \in Nat
                      /\ \A x \in s : f[x] <= SumFunctionOnSet(f, s)
           N == {k \in Nat : \A s \in SUBSET S : Cardinality(s) = k => Fine(s)}
<1>0. \A s \in SUBSET S : IsFiniteSet(s) /\ Cardinality(s) \in Nat
  BY FS_Subset, FS_CardinalityType
<1>1. 0 \in N
  <2> SUFFICES ASSUME NEW s \in SUBSET S, Cardinality(s) = 0 PROVE Fine(s)
    OBVIOUS
  <2>1. s = {}
    BY <1>0, FS_EmptySet
  <2>2. SumFunctionOnSet(f, s) = 0
    BY <1>0, <2>1, SumIs
  <2> QED
    BY <2>1, <2>2
<1>2. ASSUME NEW k \in Nat, k \in N PROVE k + 1 \in N
  <2> SUFFICES ASSUME NEW s \in SUBSET S, Cardinality(s) = k + 1 PROVE Fine(s)
    OBVIOUS
  <2>1. s # {}
    BY HasSome
  <2>2. Picked(s) \in M /\ Rest(s) \in SUBSET S /\ Cardinality(Rest(s)) = k
    BY <1>0, <2>1, RestIs
  <2>3. Fine(Rest(s))
    BY <1>2, <2>2
  <2>4. SumFunctionOnSet(f, s) = f[Picked(s)] + SumFunctionOnSet(f, Rest(s))
    BY <1>0, <2>1, SumIs
  <2>5. \A x \in s : x \in M /\ (x = Picked(s) \/ x \in Rest(s))
    BY DEF Rest
  <2> QED
    BY <2>2, <2>3, <2>4, <2>5
<1> HIDE DEF N
<1>3. Nat \subseteq N
  BY <1>1, <1>2, CountsUp
<1> QED
  BY <1>0, <1>3 DEF N

-----------------------------------------------------------------------------
(* Sharing a setpoint *)

LEMMA MembersFinite == IsFiniteSet(Members)
<1>1. IsFiniteSet(1 .. Len(Order))
  BY FS_Interval, TelemetryAssumption
<1>2. Devices = {Order[i] : i \in 1 .. Len(Order)}
  BY TelemetryAssumption DEF Devices, Range
<1> DEFINE f == [i \in 1 .. Len(Order) |-> Order[i]]
<1>3. f \in Surjection(1 .. Len(Order), Devices)
  BY <1>2 DEF Surjection
<1>4. IsFiniteSet(Devices)
  BY <1>1, <1>3, FS_Surjection
<1> QED
  BY <1>4, FS_Subset, TelemetryAssumption

\* What a unit may be asked for, and that it is what it has room for.
LEMMA CapIs ==
    ASSUME NEW total \in Int, NEW limit \in [charge : Int, discharge : Int]
    PROVE  LET has == IF total >= 0 THEN limit.charge ELSE limit.discharge
           IN  Cap(total, limit) = IF has > 0 THEN has ELSE 0
<1> DEFINE has == IF total >= 0 THEN limit.charge ELSE limit.discharge
<1>1. has \in Int
  OBVIOUS
<1>2. Cap(total, limit) = Max({0, has})
  BY DEF Cap
<1> HIDE DEF has
<1>3. Max({0, has}) = IF has > 0 THEN has ELSE 0
  <2>0. 0 \in Int
    OBVIOUS
  <2>1. Max({0, has}) \in {0, has} /\ Max({0, has}) >= 0 /\ Max({0, has}) >= has
    BY <1>1, <2>0, OfTwo, Zenon
  <2> QED
    BY <1>1, <2>1
<1> QED
  BY <1>2, <1>3 DEF has

\* The split of one setpoint, whatever the units report.
LEMMA ShareFits ==
    ASSUME NEW total \in Int, NEW limits \in [Members -> [charge : Int, discharge : Int]]
    PROVE  LET s == Share(total, limits)
               caps == [u \in Members |-> Cap(total, limits[u])]
           IN  /\ SumFunctionOnSet(s.num, Members) = (total - s.left) * s.den
               /\ \A u \in Members :
                     /\ s.num[u] * Sign(total) \in 0 .. caps[u] * s.den
                     /\ s.left # 0 => s.num[u] * Sign(total) = caps[u] * s.den
<1> DEFINE s == Share(total, limits)
           caps == [u \in Members |-> Cap(total, limits[u])]
           all == SumFunctionOnSet(caps, Members)
           asked == IF total >= 0 THEN total ELSE -total
           sign == Sign(total)
<1>1. caps \in [Members -> Nat]
  BY CapIs
<1>2. sign \in {-1, 1} /\ asked \in Nat /\ total = sign * asked /\ sign * sign = 1
  BY DEF Sign
<1>3. s = IF all = 0 THEN [num |-> [u \in Members |-> 0], den |-> 1, left |-> total]
          ELSE IF asked >= all
          THEN [num |-> [u \in Members |-> sign * caps[u]], den |-> 1,
                left |-> sign * (asked - all)]
          ELSE [num |-> [u \in Members |-> sign * asked * caps[u]], den |-> all, left |-> 0]
  BY Zenon DEF Share
<1> HIDE DEF caps, asked, sign, s
<1>4. all \in Nat /\ \A u \in Members : caps[u] \in Nat /\ caps[u] <= all
  BY <1>1, SumCovers, MembersFinite
<1>5. ASSUME NEW c \in Int, NEW num \in [Members -> Int], \A u \in Members : num[u] = c * caps[u]
      PROVE  SumFunctionOnSet(num, Members) = c * all
  <2>1. caps \in [Members -> Int] /\ Members \in SUBSET Members
    BY <1>1
  <2> QED
    BY <1>5, <2>1, SumMultiplies, MembersFinite
<1> HIDE DEF all
<1>6. CASE all = 0
  <2> DEFINE num == [u \in Members |-> 0]
  <2>1. s = [num |-> num, den |-> 1, left |-> total]
    BY <1>3, <1>6
  <2>2. \A u \in Members : caps[u] = 0 /\ num[u] = 0 * caps[u]
    BY <1>4, <1>6
  <2>3. SumFunctionOnSet(num, Members) = 0 * all
    BY <1>5, <2>2
  <2>4. s.num = num /\ s.den = 1 /\ s.left = total
    BY <2>1
  <2> QED
    BY <1>2, <1>4, <1>6, <2>2, <2>3, <2>4 DEF s, caps, sign
<1>7. CASE all # 0 /\ asked >= all
  <2> DEFINE num == [u \in Members |-> sign * caps[u]]
  <2>1. s.num = num /\ s.den = 1 /\ s.left = sign * (asked - all)
    BY <1>3, <1>7
  <2>2. num \in [Members -> Int]
    BY <1>1, <1>2
  <2>3. SumFunctionOnSet(num, Members) = sign * all
    BY <1>2, <1>5, <2>2
  <2>4. sign * all = (total - sign * (asked - all)) * 1
    BY <1>2, <1>4
  <2>5. \A u \in Members : num[u] * sign = caps[u]
    BY <1>2, <1>4
  <2>6. \A u \in Members : num[u] * sign \in 0 .. caps[u] * 1 /\ num[u] * sign = caps[u] * 1
    BY <1>4, <2>5
  <2> HIDE DEF num
  <2> QED
    BY <2>1, <2>3, <2>4, <2>6 DEF s, caps, sign
<1>8. CASE all # 0 /\ ~(asked >= all)
  <2> DEFINE num == [u \in Members |-> sign * asked * caps[u]]
  <2>1. s.num = num /\ s.den = all /\ s.left = 0
    BY <1>3, <1>8
  <2>2. sign * asked \in Int
    BY <1>2
  <2>3. num \in [Members -> Int]
    BY <1>1, <2>2
  <2>4. SumFunctionOnSet(num, Members) = total * all
    BY <1>2, <1>5, <2>2, <2>3
  <2>5. \A u \in Members : num[u] * sign \in 0 .. caps[u] * all
    <3> TAKE u \in Members
    <3>1. num[u] * sign = asked * caps[u]
      BY <1>2, <1>4
    <3> DEFINE a == caps[u]
               more == all - asked
    <3>2. a \in Nat /\ more \in Nat /\ all = asked + more
      BY <1>2, <1>4, <1>8
    <3>3. a * (asked + more) = asked * a + a * more /\ a * more \in Nat /\ asked * a \in Nat
      BY <1>2, <3>2
    <3>4. asked * a \in 0 .. a * all
      BY <3>2, <3>3
    <3> QED
      BY <3>1, <3>4
  <2> HIDE DEF num
  <2> QED
    BY <1>4, <2>1, <2>4, <2>5 DEF s, caps, sign
<1> QED
  BY <1>6, <1>7, <1>8

\* Whatever was read and is asked, the shares fit: their sum, each unit's sign
\* and headroom, and what is left over, for any number of units
\* (dispatcher.py:30-53).
THEOREM SpecSharesFit == Spec => []SharesFit
<1>1. SharesFit
  <2> SUFFICES ASSUME NEW total \in Totals, NEW reported \in Reports
               PROVE
            LET limits == UnitLimits(reported)
                s == Share(total, limits)
                Has(u) == IF total >= 0 THEN limits[u].charge ELSE limits[u].discharge
                room == [u \in Members |-> IF Has(u) > 0 THEN Has(u) ELSE 0]
            IN  /\ SumFunctionOnSet(s.num, Members) = (total - s.left) * s.den
                /\ \A u \in Members :
                      /\ s.num[u] * Sign(total) \in 0 .. room[u] * s.den
                      /\ s.left # 0 => s.num[u] * Sign(total) = room[u] * s.den
    BY DEF SharesFit
  <2> DEFINE limits == UnitLimits(reported)
  <2>1. total \in Int /\ limits \in [Members -> [charge : Int, discharge : Int]]
    BY TelemetryAssumption DEF UnitLimits, NoHeadroom
  <2> HIDE DEF limits
  <2>2. [u \in Members |-> Cap(total, limits[u])]
          = [u \in Members |-> LET has == IF total >= 0 THEN limits[u].charge
                                          ELSE limits[u].discharge
                               IN  IF has > 0 THEN has ELSE 0]
    BY <2>1, CapIs
  <2> QED
    BY <2>1, <2>2, ShareFits DEF limits
<1> QED
  BY <1>1, PTL

-----------------------------------------------------------------------------
(* The read plan *)

\* The blocks of a plan, and the point at or before q that is the last to start one.
BlockStarts(names) == {p \in names : StartsBlock(names, p)}
BlockFrom(names, p) ==
    {q \in names : /\ Addr[p] <= Addr[q]
                   /\ \A s \in BlockStarts(names) : Addr[s] <= Addr[p] \/ Addr[q] < Addr[s]}

LEMMA PlanIs ==
    ASSUME NEW names
    PROVE  PlanReads(names) = {BlockFrom(names, p) : p \in BlockStarts(names)}
  BY DEF PlanReads, BlockFrom, BlockStarts

\* Some point starts the block of q: the nearest start at or before it.
LEMMA StartOf ==
    ASSUME NEW names \in SUBSET Points, NEW q \in names
    PROVE  \E p \in BlockStarts(names) : q \in BlockFrom(names, p)
<1>0. \A p \in names : Addr[p] \in Nat
  BY TelemetryAssumption
<1> DEFINE A == {Addr[p] : p \in names}
           D == {Addr[q] - Addr[p] : p \in {p \in BlockStarts(names) : Addr[p] <= Addr[q]}}
<1>1. PICK first \in names : \A p \in names : Addr[first] <= Addr[p]
  <2>1. A \in SUBSET Nat /\ A # {}
    BY <1>0
  <2>2. Min(A) \in A /\ \A y \in A : Min(A) <= y
    BY <2>1, HasMin
  <2> QED
    BY <2>2
<1>2. first \in BlockStarts(names)
  BY <1>0, <1>1 DEF BlockStarts, StartsBlock, Precedes
<1>3. D \in SUBSET Nat /\ D # {}
  <2>1. \A p \in BlockStarts(names) : Addr[p] \in Nat
    BY <1>0 DEF BlockStarts
  <2>2. D \in SUBSET Nat
    BY <1>0, <2>1
  <2> QED
    BY <1>1, <1>2, <2>2
<1>4. Min(D) \in D /\ \A y \in D : Min(D) <= y
  BY <1>3, HasMin
<1>5. PICK p \in BlockStarts(names) : Addr[p] <= Addr[q] /\ Min(D) = Addr[q] - Addr[p]
  BY <1>4
<1>6. ASSUME NEW s \in BlockStarts(names), Addr[s] <= Addr[q]
      PROVE  Addr[s] <= Addr[p]
  <2>1. Addr[q] - Addr[p] <= Addr[q] - Addr[s]
    BY <1>4, <1>5, <1>6
  <2>2. Addr[q] \in Nat /\ Addr[p] \in Nat /\ Addr[s] \in Nat
    BY <1>0 DEF BlockStarts
  <2> QED
    BY <2>1, <2>2
<1>7. \A s \in BlockStarts(names) : Addr[s] \in Nat
  BY <1>0 DEF BlockStarts
<1> QED
  BY <1>0, <1>5, <1>6, <1>7 DEF BlockFrom

\* A block is known by any of its points.
LEMMA BlockOf ==
    ASSUME NEW names \in SUBSET Points, NEW p \in BlockStarts(names), NEW r \in BlockStarts(names),
           NEW q \in BlockFrom(names, p), q \in BlockFrom(names, r)
    PROVE  BlockFrom(names, p) = BlockFrom(names, r)
<1>1. Addr[p] \in Nat /\ Addr[r] \in Nat /\ Addr[q] \in Nat
  BY TelemetryAssumption DEF BlockStarts, BlockFrom
<1>2. Addr[p] = Addr[r]
  BY <1>1 DEF BlockFrom
<1> QED
  BY <1>2 DEF BlockFrom

\* Neighbours share a block exactly when the gap between them is bridged.
LEMMA Neighbours ==
    ASSUME NEW names \in SUBSET Points, NEW p \in BlockStarts(names),
           NEW a \in names, NEW b \in BlockFrom(names, p), Precedes(names, a, b),
           \A c \in names : Addr[c] = Addr[a] => Words[c] = Words[a]
    PROVE  a \in BlockFrom(names, p) <=> Gap(a, b) <= MaxGap
<1>1. /\ Addr[p] \in Nat /\ Addr[a] \in Nat /\ Addr[b] \in Nat
      /\ Words[a] \in Nat /\ MaxGap \in Nat /\ p \in names /\ b \in names
      /\ \A s \in BlockStarts(names) : Addr[s] \in Nat /\ s \in names
  BY TelemetryAssumption DEF BlockStarts, BlockFrom
<1>2. Gap(a, b) \in Int
  BY <1>1 DEF Gap
<1>3. CASE b \in BlockStarts(names)
  <2>1. Gap(a, b) > MaxGap
    BY <1>3 DEF BlockStarts, StartsBlock
  <2>2. Addr[b] <= Addr[p]
    BY <1>1, <1>3 DEF BlockFrom
  <2>3. a \notin BlockFrom(names, p)
    BY <1>1, <2>2 DEF BlockFrom, Precedes
  <2> QED
    BY <1>1, <1>2, <2>1, <2>3
<1>4. CASE b \notin BlockStarts(names)
  <2>1. PICK c \in names : Precedes(names, c, b) /\ ~(Gap(c, b) > MaxGap)
    BY <1>1, <1>4 DEF BlockStarts, StartsBlock
  <2>2. Addr[c] \in Nat
    BY TelemetryAssumption
  <2>3. Addr[c] = Addr[a]
    BY <1>1, <2>1, <2>2 DEF Precedes
  <2>4. Gap(c, b) = Gap(a, b)
    BY <2>3 DEF Gap
  <2>5. Gap(a, b) <= MaxGap
    BY <1>1, <1>2, <2>1, <2>4
  <2>6. b # p
    BY <1>4
  <2>7. Addr[p] # Addr[b]
    <3>1. SUFFICES ASSUME Addr[p] = Addr[b] PROVE b \in BlockStarts(names)
      BY <1>4
    <3> QED
      BY <1>1, <3>1 DEF BlockStarts, StartsBlock, Precedes, Gap
  <2>8. Addr[p] <= Addr[a]
    BY <1>1, <2>7 DEF BlockFrom, Precedes
  <2>9. \A s \in BlockStarts(names) : Addr[s] <= Addr[p] \/ Addr[a] < Addr[s]
    BY <1>1 DEF BlockFrom, Precedes
  <2>10. a \in BlockFrom(names, p)
    BY <2>8, <2>9 DEF BlockFrom
  <2> QED
    BY <2>5, <2>10
<1> QED
  BY <1>3, <1>4

\* What a poll asks of a device (adapters/modbus_tcp.py:29-50): each point of its
\* map is in exactly one read request, and two neighbours are in the same one
\* exactly when the gap between them may be bridged.  Points may share a
\* register if they agree about its width.
THEOREM PollReadsOnce ==
    ASSUME NEW u \in Devices
    PROVE  /\ UNION PollBlocks[u] = Exposed[u]
           /\ \A B, C \in PollBlocks[u] : B = C \/ B \cap C = {}
           /\ \A B \in PollBlocks[u], b \in Exposed[u], a \in Exposed[u] :
                 /\ b \in B /\ Precedes(Exposed[u], a, b)
                 /\ \A c \in Exposed[u] : Addr[c] = Addr[a] => Words[c] = Words[a]
                 => (a \in B <=> Gap(a, b) <= MaxGap)
<1> DEFINE names == Exposed[u]
<1>1. names \in SUBSET Points
  BY TelemetryAssumption
<1>2. PollBlocks[u] = {BlockFrom(names, p) : p \in BlockStarts(names)}
  BY PlanIs DEF PollBlocks
<1>3. UNION PollBlocks[u] = names
  <2>1. \A p \in BlockStarts(names) : BlockFrom(names, p) \subseteq names
    BY DEF BlockFrom
  <2> HIDE DEF names
  <2>2. \A q \in names : \E p \in BlockStarts(names) : q \in BlockFrom(names, p)
    BY <1>1, StartOf
  <2> QED
    BY <1>2, <2>1, <2>2
<1> HIDE DEF names
<1>4. ASSUME NEW B \in PollBlocks[u], NEW C \in PollBlocks[u], B \cap C # {}
      PROVE  B = C
  <2>1. PICK q : q \in B /\ q \in C
    BY <1>4
  <2>2. PICK p \in BlockStarts(names), r \in BlockStarts(names) : B = BlockFrom(names, p) /\ C = BlockFrom(names, r)
    BY <1>2
  <2> QED
    BY <1>1, <2>1, <2>2, BlockOf
<1>5. ASSUME NEW B \in PollBlocks[u], NEW a \in names, NEW b \in B, Precedes(names, a, b),
             \A c \in names : Addr[c] = Addr[a] => Words[c] = Words[a]
      PROVE  a \in B <=> Gap(a, b) <= MaxGap
  <2>1. PICK p \in BlockStarts(names) : B = BlockFrom(names, p)
    BY <1>2
  <2> QED
    BY <1>1, <1>5, <2>1, Neighbours
<1> QED
  BY <1>3, <1>4, <1>5 DEF names
================================================================================
