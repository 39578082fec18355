----------------------------- MODULE Telemetry -----------------------------
(***************************************************************************)
(* From the devices' registers to the controller's snapshot: core polls    *)
(* every device over Modbus (modbus_tcp.py), aggregates the units of a     *)
(* class (aggregator.py), writes one record per source to InfluxDB         *)
(* (influx_writer.py), and the controller reads the last row of every      *)
(* series (data_connector.py, LiveSnapshotReader).                         *)
(*                                                                         *)
(* What the properties tell apart of a value is kept and the number is     *)
(* not: how long ago it left the device, whether the scale factor was      *)
(* applied, and which devices contributed.  Times are ages in ticks.       *)
(***************************************************************************)
EXTENDS Integers, Sequences, FiniteSets, FiniteSetsExt, SequencesExt

CONSTANTS
    Order,          \* the devices in the order they are polled
    Members,        \* the units of the aggregated class
    Points,         \* the input points of the class
    Exposed,        \* the points each device's register map has, of these
    Setpoint,       \* the point a setpoint writes
    Addr, Words,    \* register offset and width of each point
    Sf,             \* scale-factor register of each point, or None
    MaxGap,         \* registers bridged within one read request
    MaxBackoff,     \* longest pause between connection attempts
    Timeout,        \* age at which a row is STALE (timeout_period)
    Window,         \* how far back the query looks
    Period,         \* update_period
    VisitTime,      \* what a visit to a device that does not answer costs at most,
                    \* every block and scale factor of it timing out
    Disturbances,   \* bound: changes of devices, failed requests, refused records
    Totals,         \* setpoints of the class
    Reports,        \* what its units may report as headroom
    None

Devices == Range(Order)
Sources == {"aggregate"} \cup (Devices \ Members)
Qualities == {"GOOD", "COMM_FAIL"}
MaxPoll == VisitTime * Len(Order)
\* Bound of calm, the ticks without a disturbance that are counted.
Enough == Max({MaxBackoff, Window}) + Period
SfRegisters == {Sf[p] : p \in Points \cup {Setpoint}} \ {None}

ASSUME TelemetryAssumption ==
    /\ Order \in Seq(Devices) /\ Members \subseteq Devices /\ Members # {}
    /\ Exposed \in [Devices -> SUBSET Points]
    /\ \A p \in Points : Addr[p] \in Nat /\ Words[p] \in Nat
    /\ \A i, j \in DOMAIN Order : Order[i] = Order[j] => i = j
    /\ MaxGap \in Nat /\ MaxBackoff \in Nat \ {0}
    /\ Period \in Nat \ {0} /\ VisitTime \in Nat /\ Disturbances \in Nat
    /\ Timeout \in Nat /\ Window \in Nat /\ Timeout <= Window
    /\ Totals \subseteq Int /\ Reports \subseteq [Members -> [charge : Int, discharge : Int]]

VARIABLES
    dev,        \* "up" answers, "gone" refuses connections, "hung" is silent
    link,       \* per device: connected, backoff, wait to the next attempt, cached SFs
    readings,   \* this cycle's poll: device -> point -> a reading or None (COMM_FAIL)
    db,         \* the last row in the window of each series: source, quality, point
    phase, turn,\* where core's loop is
    calm,       \* ticks since anything last failed
    left        \* disturbances left

vars == <<dev, link, readings, db, phase, turn, calm, left>>

-----------------------------------------------------------------------------
\* One read request per block: in register order, a block ends where the gap
\* to the next point is too wide.
Precedes(names, q, p) ==
    /\ Addr[q] < Addr[p]
    /\ \A r \in names : ~(Addr[q] < Addr[r] /\ Addr[r] < Addr[p])
Gap(q, p) == Addr[p] - (Addr[q] + Words[q])
StartsBlock(names, p) == \A q \in names : Precedes(names, q, p) => Gap(q, p) > MaxGap
PlanReads(names) ==
    LET starts == {p \in names : StartsBlock(names, p)}
    IN  {{q \in names : /\ Addr[p] <= Addr[q]
                        /\ \A s \in starts : Addr[s] <= Addr[p] \/ Addr[q] < Addr[s]} :
            p \in starts}
PollBlocks == [u \in Devices |-> PlanReads(Exposed[u])]

-----------------------------------------------------------------------------
\* Time passes by d: rows leave the window, pauses run out.  Ages are counted
\* to one more than a poll can take, and to one more than a row can be old.
Up(a, d, cap) == Min({a + d, cap})
Older(reading, d) ==
    IF reading = None THEN None
    ELSE [reading EXCEPT !.age = Up(@, d, MaxPoll + 1)]
InWindow(row) == IF row.ts > Window THEN None ELSE row
OlderRow(row, d) ==
    IF row = None THEN None
    ELSE InWindow([row EXCEPT !.ts = @ + d, !.read = Up(@, d, Window + MaxPoll + 1)])

OlderReadings(d) == [u \in Devices |-> [p \in Points |-> Older(readings[u][p], d)]]
OlderDb(d) ==
    [s \in Sources |-> [q \in Qualities |-> [p \in Points |-> OlderRow(db[s][q][p], d)]]]
OlderLinks(d) == [u \in Devices |-> [link[u] EXCEPT !.wait = Max({@ - d, 0})]]
AllUp == \A u \in Devices : dev[u] = "up"
Calmer(d) == calm' = (IF AllUp THEN Up(calm, d, Enough) ELSE 0) /\ left' = left
Disturbed == left > 0 /\ left' = left - 1 /\ calm' = 0

-----------------------------------------------------------------------------
(***************************************************************************)
(* One device.  What _ensure_connected may come to: the link it leaves,    *)
(* whether there is a connection, and the time it took.                    *)
(***************************************************************************)
\* A bug: no limit.
NextBackoffUncapped(b) == 2 * b
NextBackoff(b) == Min({2 * b, MaxBackoff})
Connection(u) ==
    LET l == link[u]
        Took == IF dev[u] = "hung" THEN VisitTime ELSE 0
    IN  IF l.connected THEN [link |-> l, ok |-> TRUE, took |-> 0]
        ELSE IF l.wait > 0 THEN [link |-> l, ok |-> FALSE, took |-> 0]
        ELSE IF dev[u] = "up"
             THEN [link |-> [l EXCEPT !.connected = TRUE, !.backoff = 1],
                   ok |-> TRUE, took |-> 0]
             ELSE [link |-> [l EXCEPT !.wait = Max({l.backoff - Took, 0}),
                                      !.backoff = NextBackoff(@)],
                   ok |-> FALSE, took |-> Took]

\* The scale factors still to be read for these points (_ensure_sf).
NeededSf(u, names) == ({Sf[p] : p \in names} \ {None}) \ link[u].sf
Cached(l, got) == [l EXCEPT !.sf = @ \cup got]

\* A good value, decoded with the scale factor when it is cached.
Reading(l, p, took) == [age |-> took, scaled |-> Sf[p] = None \/ Sf[p] \in l.sf]

\* What read_points returns when the blocks in lost fail.
ReadPoints(u, l, lost, took) ==
    [p \in Points |-> IF p \in Exposed[u] \ UNION lost THEN Reading(l, p, took) ELSE None]
NoPoints == [p \in Points |-> None]

\* A poll reads every device; a setpoint is written to the units of the class.
Route == IF phase = "poll" THEN Order ELSE SelectSeq(Order, LAMBDA u : u \in Members)
Requested(u) == IF phase = "poll" THEN Exposed[u] ELSE {Setpoint}
Requests(u) == IF phase = "poll" THEN PollBlocks[u] ELSE {{Setpoint}}

\* Core is done with device u: the connection, what it read, the time it took.
Visited(u, l, values, took, failed) ==
    /\ link' = [OlderLinks(took) EXCEPT ![u] = l]
    /\ readings' = IF phase = "poll" THEN [OlderReadings(took) EXCEPT ![u] = values]
                   ELSE readings
    /\ db' = OlderDb(took)
    /\ turn' = IF turn < Len(Route) THEN turn + 1 ELSE 1
    /\ phase' = IF turn < Len(Route) THEN phase
                ELSE IF phase = "poll" THEN "write" ELSE "sleep"
    /\ IF failed THEN Disturbed ELSE Calmer(took)
    /\ UNCHANGED dev

Visits(u) == phase \in {"poll", "send"} /\ u = Route[turn]

\* A device that answers; single requests may be answered with an error, or not.
VisitUp(u) ==
    /\ Visits(u) /\ dev[u] = "up" /\ Connection(u).ok
    /\ \E got \in SUBSET NeededSf(u, Requested(u)), lost \in SUBSET Requests(u) :
          \E took \in IF lost = {} THEN {0} ELSE {0, VisitTime} :
              LET l == Cached(Connection(u).link, got)
              IN  Visited(u, l, ReadPoints(u, l, lost, took), took,
                          lost # {} \/ got # NeededSf(u, Requested(u)))

\* A connection to a device that no longer answers: every request times out,
\* and the client may notice that the connection is lost.
VisitSilent(u) ==
    /\ Visits(u) /\ dev[u] = "hung" /\ link[u].connected
    /\ \E alive \in BOOLEAN :
          Visited(u, [link[u] EXCEPT !.connected = alive], NoPoints, VisitTime, FALSE)

\* No connection: no request is made.
VisitDown(u) ==
    /\ Visits(u) /\ ~Connection(u).ok
    /\ Visited(u, Connection(u).link, NoPoints, Connection(u).took, FALSE)

-----------------------------------------------------------------------------
(***************************************************************************)
(* The records of a cycle.  An aggregate counts the good readings only and *)
(* is stamped when it is computed; an asset's record bears the time its    *)
(* poll began.                                                             *)
(***************************************************************************)
Good(values) == {p \in Points : values[p] # None}

AggregatePoint(p) ==
    LET good == {u \in Members : readings[u][p] # None}
    IN  IF good = {} THEN None
        ELSE [ts |-> 0, read |-> Max({readings[u][p].age : u \in good}), from |-> good,
              scaled |-> \A u \in good : readings[u][p].scaled]
AssetPoint(u, p) ==
    LET r == readings[u][p]
    IN  IF r = None THEN None
        ELSE [ts |-> r.age, read |-> r.age, from |-> {u}, scaled |-> r.scaled]
Values(s) ==
    [p \in Points |-> IF s = "aggregate" THEN AggregatePoint(p) ELSE AssetPoint(s, p)]

\* The good fields under one tag and the latest of their times.
Expected(s) == IF s = "aggregate" THEN Points ELSE Exposed[s]
Quality(s, values) == IF Good(values) = Expected(s) THEN "GOOD" ELSE "COMM_FAIL"
Row(values, p) == [values[p] EXCEPT !.ts = Min({values[x].ts : x \in Good(values)})]
Record(s, q, p) ==
    LET values == Values(s)
    IN  IF p \in Good(values) /\ q = Quality(s, values) THEN InWindow(Row(values, p))
        ELSE db[s][q][p]

WriteCycle ==
    /\ phase = "write"
    /\ db' = [s \in Sources |-> [q \in Qualities |-> [p \in Points |-> Record(s, q, p)]]]
    /\ phase' \in {"send", "sleep"} \* a setpoint came in, or none
    /\ UNCHANGED <<dev, link, readings, turn, calm, left>>

\* The database refuses the records: the exception ends core.
WriteFails ==
    /\ phase = "write"
    /\ phase' = "down" /\ Disturbed
    /\ UNCHANGED <<dev, link, readings, db, turn>>

Sleep ==
    /\ phase = "sleep" /\ phase' = "poll"
    /\ link' = OlderLinks(Period) /\ readings' = [u \in Devices |-> NoPoints]
    /\ db' = OlderDb(Period) /\ Calmer(Period)
    /\ UNCHANGED <<dev, turn>>

\* The first connection of a new adapter; a failure only leaves it unconnected.
Fresh(u) == [connected |-> dev[u] = "up", backoff |-> 1, wait |-> 0, sf |-> {}]

Restart ==
    /\ phase = "down" /\ phase' = "poll" /\ turn' = 1
    /\ link' = [u \in Devices |-> Fresh(u)]
    /\ readings' = [u \in Devices |-> NoPoints]
    /\ db' = OlderDb(Period) /\ Calmer(Period)
    /\ UNCHANGED dev

\* A device comes, goes or falls silent.  A closed connection is noticed.  Core
\* looks at devices only when it polls or sends.
DeviceChange(u) ==
    /\ phase \in {"poll", "send"}
    /\ \E d \in {"up", "gone", "hung"} :
          /\ d # dev[u] /\ dev' = [dev EXCEPT ![u] = d]
          /\ link' = IF d = "hung" THEN link
                     ELSE [link EXCEPT ![u].connected = FALSE]
    /\ Disturbed
    /\ UNCHANGED <<readings, db, phase, turn>>

-----------------------------------------------------------------------------
(***************************************************************************)
(* The dispatcher's split of a battery setpoint over the units, from the   *)
(* headroom of the last poll.  The shares are fractions: their numerators  *)
(* over the total headroom.                                                *)
(***************************************************************************)
Headroom == "available_power_kw"
\* A unit whose headroom was not read has none (_battery_unit_limits).
NoHeadroom == [charge |-> 0, discharge |-> 0]
UnitLimits(reported) ==
    [u \in Members |-> IF readings[u][Headroom] = None THEN NoHeadroom ELSE reported[u]]
\* A bug: the charging headroom in both directions.
CapOfCharge(total, limit) == Max({0, limit.charge})
Cap(total, limit) == Max({0, IF total >= 0 THEN limit.charge ELSE limit.discharge})
Sign(x) == IF x >= 0 THEN 1 ELSE -1
Share(total, limits) ==
    LET caps == [u \in Members |-> Cap(total, limits[u])]
        all == SumFunctionOnSet(caps, Members)
        asked == IF total >= 0 THEN total ELSE -total
    IN  IF all = 0 THEN [num |-> [u \in Members |-> 0], den |-> 1, left |-> total]
        ELSE IF asked >= all
        THEN [num |-> [u \in Members |-> Sign(total) * caps[u]], den |-> 1,
              left |-> Sign(total) * (asked - all)]
        ELSE [num |-> [u \in Members |-> Sign(total) * asked * caps[u]], den |-> all,
              left |-> 0]

-----------------------------------------------------------------------------
Init ==
    /\ dev \in [Devices -> {"up", "gone"}]
    /\ link = [u \in Devices |-> Fresh(u)]
    /\ readings = [u \in Devices |-> NoPoints]
    /\ db = [s \in Sources |-> [q \in Qualities |-> [p \in Points |-> None]]]
    /\ phase = "poll" /\ turn = 1 /\ calm = 0
    /\ left = Disturbances

Next ==
    \/ \E u \in Devices : VisitUp(u) \/ VisitSilent(u) \/ VisitDown(u) \/ DeviceChange(u)
    \/ WriteCycle \/ WriteFails \/ Sleep \/ Restart

Spec == Init /\ [][Next]_vars

-----------------------------------------------------------------------------
Ages == 0 .. Window + MaxPoll
ReadingType == [age : 0 .. MaxPoll, scaled : BOOLEAN]
RowType == [ts : 0 .. Window, read : Ages, from : SUBSET Devices, scaled : BOOLEAN]
LinkType == [connected : BOOLEAN, backoff : 1 .. MaxBackoff, wait : 0 .. MaxBackoff,
             sf : SUBSET SfRegisters]

ASSUME NoneAssumption ==
    /\ None \notin [age : Nat, scaled : BOOLEAN]
    /\ None \notin [ts : Nat, read : Nat, from : SUBSET Devices, scaled : BOOLEAN]

(***************************************************************************)
(* Every variable has its type (the fields of ModbusTcpAdapter,            *)
(* Orchestrator._latest and the series in the database).                   *)
(***************************************************************************)
TypeOK ==
    /\ dev \in [Devices -> {"up", "gone", "hung"}]
    /\ link \in [Devices -> LinkType]
    /\ readings \in [Devices -> [Points -> ReadingType \cup {None}]]
    /\ db \in [Sources -> [Qualities -> [Points -> RowType \cup {None}]]]
    /\ phase \in {"poll", "write", "send", "sleep", "down"}
    /\ turn \in Nat \ {0} /\ (phase = "poll" => turn <= Len(Order))
    /\ calm \in 0 .. Enough /\ left \in 0 .. Disturbances

\* The rows the controller may take for the value of a point: one for each
\* quality tag, in no promised order (_query_influx), and GOOD by their time.
Rows(s, p) == {db[s][q][p] : q \in Qualities} \ {None}
\* A bug: whatever the query returns is fresh.
ReadGoodInWindow(row) == row.ts <= Window
ReadGood(row) == row.ts <= Timeout

(***************************************************************************)
(* What the controller reads as GOOD left the devices within the timeout   *)
(* and the time one poll may take: neither the aggregate's own time stamp  *)
(* nor a device that stopped answering passes an old value off as fresh    *)
(* (aggregator.py:35, influx_writer.py:66 and 86, data_connector.py:78).   *)
(***************************************************************************)
GoodIsRecent ==
    \A s \in Sources, p \in Points : \A row \in Rows(s, p) :
        ReadGood(row) => row.read <= Timeout + MaxPoll

(***************************************************************************)
(* Once nothing has failed for the longest backoff, or the query window if *)
(* that is longer, and one period, every point is read GOOD, scaled and    *)
(* from all units, whichever row comes last: reconnection, the cache of    *)
(* scale factors, core's restarts and the series a degraded record leaves  *)
(* all mend by themselves (modbus_tcp.py:94-127, influx_writer.py:77).     *)
(***************************************************************************)
\* The register map of every unit has all points of the class; and the timeout
\* is no shorter than the period, as config_models.py:229 requires.
Uniform == \A u \in Members : Exposed[u] = Points
PeriodFits == Period <= Timeout
Contributors(s) == IF s = "aggregate" THEN Members ELSE {s}
Mends ==
    calm = Enough =>
        \A s \in Sources : \A p \in Expected(s) :
            /\ Rows(s, p) # {}
            /\ \A row \in Rows(s, p) :
                  ReadGood(row) /\ row.scaled /\ row.from = Contributors(s)

(***************************************************************************)
(* Whatever the poll brought and whatever is asked, the shares and what is *)
(* reported as left over add up to the setpoint, no unit is driven against *)
(* its sign or past its headroom, and nothing is left over while a unit    *)
(* that answered has room (dispatcher.py:30-53, orchestrator.py:81-97).    *)
(***************************************************************************)
SharesFit ==
    phase = "send" /\ turn = 1 =>
        \A total \in Totals, reported \in Reports :
            LET limits == UnitLimits(reported)
                s == Share(total, limits)
                Has(u) == IF total >= 0 THEN limits[u].charge ELSE limits[u].discharge
                room == [u \in Members |-> IF Has(u) > 0 THEN Has(u) ELSE 0]
            IN  /\ SumFunctionOnSet(s.num, Members) = (total - s.left) * s.den
                /\ \A u \in Members :
                      /\ s.num[u] * Sign(total) \in 0 .. room[u] * s.den
                      /\ s.left # 0 => s.num[u] * Sign(total) = room[u] * s.den
=============================================================================
