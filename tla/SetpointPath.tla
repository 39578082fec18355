----------------------------- MODULE SetpointPath ------------------------------
(***************************************************************************)
(* The way of a setpoint from the controller's cycle to a device: the MQTT *)
(* publisher with its sequence number and its latest-wins queue, the       *)
(* broker, core's inbound queue, the dispatcher's guard and the setpoint-  *)
(* silence watchdog, inside core's loop of poll, drain, safety and sleep.  *)
(*                                                                         *)
(* Time is counted in ticks and every time stamp is kept as an age that    *)
(* saturates where no comparison can tell it from the cap.  The value 0 of *)
(* a class is its safe value (0 kW, derate factor 0.0).                    *)
(***************************************************************************)
EXTENDS Integers, Sequences, FiniteSets

CONSTANTS
    Mitigations,    \* the classes published on change, e.g. flexible_load
    SafeClasses,    \* DEFAULT_SAFE_SETPOINTS: the classes a trip commands
    MaxVal,         \* setpoint values are 0..MaxVal
    MaxAge,         \* max_age_s of the dispatcher: timeout_period
    Timeout,        \* period_s * max_silence_cycles of the watchdog
    CycleMax,       \* longest core cycle: poll, dispatch and sleep
    ControlPeriod,  \* longest gap between two cycles of a running control loop
    Transit,        \* longest time a message that is not delayed is on its way
    Faults,         \* what may go wrong, see below
    MaxSeq,         \* bound: messages published by one controller process
    MaxRuns,        \* bound: restarts of each service
    MaxNet,         \* bound: messages in transit, and in core's queue
    None            \* Python's None

\* pause: the control loop may be stopped or dead for any time.
\* loss, delay, dup: what MQTT may do to a message in transit.
\* linkdown: the controller's client may be disconnected while it publishes.
\* broker: the broker may close core's session.
\* writes: a device write may fail.
AllFaults == {"pause", "loss", "delay", "dup", "linkdown", "broker", "writes",
              "controller_restart", "core_restart"}

Classes == {"battery"} \cup Mitigations
Vals == 0..MaxVal

ASSUME SetpointPathAssumption ==
    /\ Mitigations \subseteq {"pv", "flexible_load"}
    /\ SafeClasses \subseteq Classes
    /\ MaxVal \in Nat \ {0}
    /\ MaxAge \in Nat
    /\ Timeout \in Nat \ {0}
    /\ CycleMax \in Nat \ {0}
    /\ ControlPeriod \in Nat \ {0}
    /\ Transit \in Nat
    /\ Faults \subseteq AllFaults
    /\ MaxSeq \in Nat /\ MaxRuns \in Nat /\ MaxNet \in Nat
    /\ None \notin Vals

VARIABLES
    \* controller
    run,        \* which controller process this is (history)
    seq,        \* MqttSetpointPublisher._seq
    parked,     \* MqttSetpointPublisher._pending
    lastPub,    \* ControlLoop._last_pub; for the battery, its last command
    sinceSent,  \* ticks since the last control cycle, where it must not pause
    tenure,     \* ticks since the last restart of either service, where the
                \* controller may restart (history)
    \* broker
    net,        \* messages in transit
    subscribed, \* core's subscription exists in the broker
    \* core
    coreRun,    \* which core process this is (history)
    phase,      \* core's main loop: "sleep", or "work" from the reading of the
                \* clock to the end of the safety check
    lag,        \* ticks since the cycle read the clock
    inbound,    \* core.main's queue.Queue
    lastSeq,    \* SetpointDispatcher._last_seq
    silence,    \* ticks since SetpointWatchdog._last_setpoint_ts
    tripped,    \* SetpointWatchdog._tripped
    lastRun,    \* the controller process of the message lastSeq is from (history)
    quiet,      \* ticks since a setpoint was accepted or core started (history)
    \* devices
    dev         \* the command each class of device is on

controller == <<run, seq, parked, lastPub, sinceSent, tenure>>
broker == <<net, subscribed>>
watchdog == <<silence, tripped, quiet>>
core == <<coreRun, phase, lag, inbound, lastSeq, lastRun, watchdog>>
vars == <<controller, broker, core, dev>>

AgeCap == MaxAge + CycleMax + 1
SilenceCap == Timeout + CycleMax + 1
QuietCap == Timeout + 2 * CycleMax + 1
TenureCap == MaxAge + CycleMax + QuietCap

\* One setpoint message; copy is set once the broker has delivered it already.
Message == [cls : Classes, seq : 1..MaxSeq, run : 0..MaxRuns, age : 0..AgeCap,
            val : Vals, copy : BOOLEAN]

Smaller(a, b) == IF a <= b THEN a ELSE b
Older(m) == [m EXCEPT !.age = Smaller(@ + 1, AgeCap)]
Parked == {c \in Classes : parked[c] # None}

--------------------------------------------------------------------------------
(* The publisher *)

\* publish_setpoints for one message, on the publisher's state p.  Connected,
\* the message goes out and flush_pending re-sends every parked one after it.
\* Otherwise it is parked in place of an older one of its topic; the MQTT client
\* may have queued a copy of its own, which goes out all the same.
PublishOne(p, c, v, client) ==
    LET m == [cls |-> c, seq |-> p.seq + 1, run |-> run, age |-> 0, val |-> v,
              copy |-> FALSE]
        waiting == {p.parked[d] : d \in {d \in Classes : p.parked[d] # None}}
    IN  [seq |-> m.seq,
         parked |-> IF client = "up" THEN [d \in Classes |-> None]
                                     ELSE [p.parked EXCEPT ![c] = m],
         sent |-> p.sent \cup (IF client = "down" THEN {} ELSE {m})
                         \cup (IF client = "up" THEN waiting ELSE {})]

\* Mutant: a factor is published only when the loop has never published one.
PublishFirstOnly(p, c, v, client) ==
    IF lastPub[c] = None THEN PublishOne(p, c, v, client) ELSE p

\* _publish_if_changed
PublishIfChanged(p, c, v, client) ==
    IF lastPub[c] # v THEN PublishOne(p, c, v, client) ELSE p

\* The client when one message is published: connected, not connected, or not
\* connected but with the message in its own queue.
Clients == IF "linkdown" \in Faults THEN {"up", "down", "queued"} ELSE {"up"}

\* The publishing end of one control cycle, commanding want[c] of each class.
ControlCycle ==
    \E want \in [Classes -> Vals], c1, c2, c3 \in Clients :
        LET start == [seq |-> seq, parked |-> parked, sent |-> {}]
            battery == PublishOne(start, "battery", want["battery"], c1)
            pv == IF "pv" \in Mitigations
                  THEN PublishIfChanged(battery, "pv", want["pv"], c2) ELSE battery
            load == IF "flexible_load" \in Mitigations
                    THEN PublishIfChanged(pv, "flexible_load", want["flexible_load"], c3)
                    ELSE pv
        IN  /\ load.seq <= MaxSeq
            /\ Cardinality(net \cup load.sent) <= MaxNet
            /\ seq' = load.seq
            /\ parked' = load.parked
            /\ net' = net \cup load.sent
            /\ lastPub' = want
            /\ sinceSent' = 0
            /\ UNCHANGED <<run, tenure, subscribed, core, dev>>

\* The controller process dies and is started again.
ControllerRestart ==
    /\ "controller_restart" \in Faults
    /\ run < MaxRuns
    /\ run' = run + 1
    /\ seq' = 0
    /\ parked' = [c \in Classes |-> None]
    /\ lastPub' = [c \in Classes |-> None]
    /\ tenure' = 0
    /\ UNCHANGED <<sinceSent, broker, core, dev>>

--------------------------------------------------------------------------------
(* The broker (external): a set of messages in transit, so their order may  *)
(* change.  QoS 1: a message may be delivered a second time.                *)

\* on_message puts the payload on core's queue.
Deliver ==
    /\ subscribed
    /\ Len(inbound) < MaxNet
    /\ \E m \in net :
        /\ inbound' = Append(inbound, m)
        /\ \/ net' = net \ {m}
           \/ /\ "dup" \in Faults /\ ~m.copy
              /\ net' = (net \ {m}) \cup {[m EXCEPT !.copy = TRUE]}
    /\ UNCHANGED <<controller, subscribed, coreRun, phase, lag, lastSeq, lastRun,
                   watchdog, dev>>

\* A message is lost, or finds no subscriber.
Lose ==
    /\ "loss" \in Faults \/ ~subscribed
    /\ \E m \in net : net' = net \ {m}
    /\ UNCHANGED <<controller, subscribed, core, dev>>

\* The broker drops core's clean session.  The MQTT client reconnects by
\* itself; core.main subscribed once, before it started the client's loop.
SessionLost ==
    /\ "broker" \in Faults
    /\ subscribed' = FALSE
    /\ UNCHANGED <<controller, net, core, dev>>

--------------------------------------------------------------------------------
(* Core *)

\* Writing v[c] to the devices of the classes cs; a failed write leaves the
\* device on what it had.
Write(cs, v) ==
    \E failed \in (IF "writes" \in Faults THEN SUBSET cs ELSE {{}}) :
        dev' = [c \in Classes |-> IF c \in cs \ failed THEN v[c] ELSE dev[c]]

\* The top of core.main's loop: the clock is read, then every device polled.
BeginCycle ==
    /\ phase = "sleep"
    /\ phase' = "work"
    /\ lag' = 0
    /\ UNCHANGED <<controller, broker, coreRun, inbound, lastSeq, lastRun, watchdog, dev>>

\* Mutants: no sequence check; no age check.
AnySequence(m) == TRUE
AnyAge(m) == TRUE

\* SetpointDispatcher._guard: in sequence, and not too old by the clock the
\* cycle read before it polled.
InSequence(m) == m.seq > lastSeq[m.cls]
YoungEnough(m) == m.age - lag <= MaxAge
Guard(m) == InSequence(m) /\ YoungEnough(m)

\* Mutants of notify: the trip is kept; the clock is not reset while the
\* watchdog is not tripped.
NotifyKeepsTrip == silence' = lag /\ UNCHANGED tripped
NotifyOnlyClears == silence' = (IF tripped THEN lag ELSE silence) /\ tripped' = FALSE

\* SetpointWatchdog.notify, with the clock of the cycle.
Notify == silence' = lag /\ tripped' = FALSE

Accept(m) ==
    /\ Guard(m)
    /\ lastSeq' = [lastSeq EXCEPT ![m.cls] = m.seq]
    /\ lastRun' = [lastRun EXCEPT ![m.cls] = m.run]
    /\ Write({m.cls}, [c \in Classes |-> m.val])
    /\ Notify
    /\ quiet' = 0

\* Mutant: a rejected message also feeds the watchdog.
RejectFeeds(m) == ~Guard(m) /\ Notify /\ UNCHANGED <<lastSeq, lastRun, quiet, dev>>

Reject(m) ==
    /\ ~Guard(m)
    /\ UNCHANGED <<lastSeq, lastRun, watchdog, dev>>

\* Orchestrator.handle_setpoint on the head of the queue.
HandleSetpoint ==
    /\ phase = "work"
    /\ inbound # <<>>
    /\ inbound' = Tail(inbound)
    /\ Accept(Head(inbound)) \/ Reject(Head(inbound))
    /\ UNCHANGED <<controller, broker, coreRun, phase, lag>>

\* Mutant: a timeout one tick short.
IsSilentEarly == silence - lag > Timeout - 1

\* SetpointWatchdog.is_silent
IsSilent == silence - lag > Timeout

\* Mutant: only the first safe class is written.
TripBatteryOnly == Write({"battery"}, [c \in Classes |-> 0]) /\ tripped' = TRUE

\* SetpointWatchdog.trip, once per silence episode.
Trip == Write(SafeClasses, [c \in Classes |-> 0]) /\ tripped' = TRUE

\* SetpointWatchdog.check once the queue is empty, then the sleep.
SafetyCycle ==
    /\ phase = "work"
    /\ inbound = <<>>
    /\ phase' = "sleep"
    /\ \/ ~tripped /\ IsSilent /\ Trip
       \/ (tripped \/ ~IsSilent) /\ UNCHANGED <<tripped, dev>>
    /\ UNCHANGED <<controller, broker, coreRun, lag, inbound, lastSeq, lastRun, silence, quiet>>

\* The core process dies (an InfluxDB write that raises in poll_cycle is
\* enough) and is started again: it subscribes anew and arms the watchdog with
\* the event loop's monotonic clock, which the wall clock of the checks finds
\* decades old.
CoreRestart ==
    /\ "core_restart" \in Faults
    /\ coreRun < MaxRuns
    /\ coreRun' = coreRun + 1
    /\ subscribed' = TRUE
    /\ phase' = "sleep"
    /\ lag' = 0
    /\ inbound' = <<>>
    /\ lastSeq' = [c \in Classes |-> -1]
    /\ lastRun' = [c \in Classes |-> 0]
    /\ silence' = SilenceCap
    /\ tripped' = FALSE
    /\ quiet' = 0
    /\ tenure' = 0
    /\ UNCHANGED <<run, seq, parked, lastPub, sinceSent, net, dev>>

--------------------------------------------------------------------------------
(* Time passes: never a core cycle longer than CycleMax and, unless the     *)
(* faults allow it, no message that is long on its way and no control loop  *)
(* that falls silent.                                                       *)
Tick ==
    /\ lag < CycleMax
    /\ "delay" \in Faults \/ \A m \in net : m.age < Transit
    /\ sinceSent < ControlPeriod
    /\ lag' = lag + 1
    /\ silence' = Smaller(silence + 1, SilenceCap)
    /\ quiet' = Smaller(quiet + 1, QuietCap)
    /\ tenure' = IF "controller_restart" \in Faults THEN Smaller(tenure + 1, TenureCap) ELSE 0
    /\ sinceSent' = IF "pause" \in Faults THEN 0 ELSE sinceSent + 1
    /\ net' = {Older(m) : m \in net}
    /\ inbound' = [i \in 1..Len(inbound) |-> Older(inbound[i])]
    /\ parked' = [c \in Classes |-> IF parked[c] = None THEN None ELSE Older(parked[c])]
    /\ UNCHANGED <<run, seq, lastPub, subscribed, coreRun, phase, lastSeq, lastRun,
                   tripped, dev>>

--------------------------------------------------------------------------------
\* Both services have just started; the devices are on whatever they were on.
Init ==
    /\ run = 0
    /\ seq = 0
    /\ parked = [c \in Classes |-> None]
    /\ lastPub = [c \in Classes |-> None]
    /\ sinceSent = 0
    /\ tenure = 0
    /\ net = {}
    /\ subscribed = TRUE
    /\ coreRun = 0
    /\ phase = "sleep"
    /\ lag = 0
    /\ inbound = <<>>
    /\ lastSeq = [c \in Classes |-> -1]
    /\ lastRun = [c \in Classes |-> 0]
    /\ silence = SilenceCap
    /\ tripped = FALSE
    /\ quiet = 0
    /\ dev \in [Classes -> Vals]

CoreLoop == BeginCycle \/ HandleSetpoint \/ SafetyCycle

Next ==
    \/ ControlCycle
    \/ ControllerRestart
    \/ Deliver
    \/ Lose
    \/ SessionLost
    \/ CoreLoop
    \/ CoreRestart
    \/ Tick

Spec == Init /\ [][Next]_vars

\* Core's loop keeps running and time keeps passing.
FairSpec == Spec /\ WF_vars(CoreLoop) /\ WF_vars(Tick)

--------------------------------------------------------------------------------
TypeOK ==
    /\ run \in 0..MaxRuns
    /\ seq \in 0..MaxSeq
    /\ parked \in [Classes -> Message \cup {None}]
    /\ lastPub \in [Classes -> Vals \cup {None}]
    /\ sinceSent \in 0..ControlPeriod
    /\ tenure \in 0..TenureCap
    /\ net \subseteq Message
    /\ subscribed \in BOOLEAN
    /\ coreRun \in 0..MaxRuns
    /\ phase \in {"sleep", "work"}
    /\ lag \in 0..CycleMax
    /\ inbound \in Seq(Message)
    /\ lastSeq \in [Classes -> (0..MaxSeq) \cup {-1}]
    /\ lastRun \in [Classes -> 0..MaxRuns]
    /\ silence \in 0..SilenceCap
    /\ tripped \in BOOLEAN
    /\ quiet \in 0..QuietCap
    /\ dev \in [Classes -> Vals]

--------------------------------------------------------------------------------
\* Every class that has a safe state is in it.
Safe == \A c \in SafeClasses : dev[c] = 0

\* While the watchdog is tripped nothing drives a device away from its safe
\* state: only an accepted setpoint writes, and that clears the trip.
TrippedIsSafe == tripped => Safe

\* Nothing older than the guard's max_age_s and one core cycle is ever written.
\* (The cycle reads the clock before it polls, so max_age_s alone is not the
\* bound.)
WritesAreRecent ==
    [][HandleSetpoint /\ dev' # dev
        => Head(inbound).age <= MaxAge + CycleMax]_vars

\* Core has accepted a setpoint since it started.
Heard == \E c \in Classes : lastSeq[c] # -1

\* Once core has heard the controller, a trip means that nothing was accepted
\* for the timeout, short of at most the one cycle whose clock was already old
\* when the last setpoint arrived.
TripNeedsSilence ==
    [][~tripped /\ tripped' /\ Heard => quiet > Timeout - CycleMax]_vars

\* Checked where the control loop publishes in every period over a network that
\* delivers in time: such a controller is never taken for dead once it has been
\* heard.
LiveLoopIsHeard == [][~tripped /\ tripped' => ~Heard]_vars

\* When nothing is in transit or parked and no trip is in force, the devices of
\* every class are on the last command the controller gave for it.
Quiescent ==
    phase = "sleep" /\ net = {} /\ inbound = <<>> /\ Parked = {} /\ ~tripped

Agreement ==
    Quiescent => \A c \in Classes : lastPub[c] # None => dev[c] = lastPub[c]

\* Whatever happens to the controller, the broker and core, the devices are
\* under a dead man's switch, as long as device writes do not fail.
Switch == INSTANCE DeadMan WITH Limit <- Timeout + 2 * CycleMax
DeadManSwitch == Switch!Spec

\* The messages core last applied include one of the controller now running.
HeardNow == \E c \in Classes : lastSeq[c] # -1 /\ lastRun[c] = run

\* A controller that restarts numbers its messages from 1 again, and core, which
\* remembers its predecessor's numbers, discards them. The devices do not stay
\* on what the predecessor commanded for long: unless core hears the successor,
\* they are in their safe state, however late the predecessor's last messages
\* come and whatever the successor sends; counted from the last restart of
\* either service (SetpointDispatcher._guard against notify, check and trip).
HandoverIsBounded ==
    tenure > MaxAge + Timeout + 3 * CycleMax /\ ~HeardNow => Safe

\* A controller that stays silent ends with the watchdog tripped and the devices
\* in their safe state.  (Every behaviour of the bounded model falls silent in
\* the end; what is still in transit then must not keep the watchdog quiet.)
SilenceEndsSafe == <>[](tripped /\ Safe)

================================================================================
