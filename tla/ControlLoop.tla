------------------------------ MODULE ControlLoop ------------------------------
(***************************************************************************)
(* One control cycle of the controller (ControlLoop.run_once) and the      *)
(* RUN / HOLD / SAFE ladder above it (ModeController.update).              *)
(*                                                                         *)
(* The numeric control law is left abstract here: a RUN cycle may choose   *)
(* any battery setpoint one slew step away from the previous one and any   *)
(* mitigation factors.  Powers are whole kW, factors are 0..Full with Full *)
(* standing for 1.0, and time is counted in ticks.  Times the code keeps   *)
(* as absolute stamps are kept as ages, which saturate where no            *)
(* comparison can tell a larger age from the cap.                          *)
(***************************************************************************)
EXTENDS Integers

CONSTANTS
    MaxKw,      \* the battery window is -MaxKw..MaxKw
    MaxKvar,    \* range of the droop's reactive correction
    Step,       \* slew_limit_kw_s * update_period; a Step of 2 * MaxKw or
                \* more is the unlimited case (slew_limit_kw_s = None)
    Full,       \* the factor 1.0: no derate, no curtailment
    HoldMax,    \* hold_max_s, in ticks
    Period,     \* longest gap between two cycles of a running loop, in ticks
    None        \* Python's None

(* The snapshot: what the reader makes of the latest InfluxDB rows.         *)

Point == {"GOOD", "STALE", "ABSENT"}

\* The points the ladder looks at.  "inputs" stands for the PCC power and the
\* two headrooms together, "grid" for PCC voltage and frequency.
Readable ==
    [soc : Point,
     alarm : {"none", "clear", "tripped"},
     inputs : Point,
     grid : {"live", "dead"}]

ASSUME ControlLoopAssumption ==
    /\ MaxKw \in Nat
    /\ MaxKvar \in Nat
    /\ Step \in Nat \ {0}
    /\ Full \in Nat \ {0}
    /\ HoldMax \in Nat
    /\ Period \in Nat \ {0}
    /\ None \notin Int
    /\ None \notin Readable

Kw == (-MaxKw)..MaxKw
Kvar == (-MaxKvar)..MaxKvar
Factor == 0..Full
Modes == {"RUN", "HOLD", "SAFE"}

VARIABLES
    snap,       \* what read_snapshot would return now
    mode,       \* ModeController.mode
    heldFor,    \* ticks since _hold_since; 0 while that is None
    edge,       \* EdgeController.state without the integral
    lastQ,      \* ControlLoop._last_reactive
    lastPub,    \* ControlLoop._last_pub
    wire,       \* the last message handed to publish, per asset class
    sinceCycle, \* ticks since the previous cycle ended
    frozenAge,  \* ticks since the control law last computed a setpoint
    blind       \* a cycle has raised since then (history)

vars == <<snap, mode, heldFor, edge, lastQ, lastPub, wire, sinceCycle,
          frozenAge, blind>>

Smaller(a, b) == IF a <= b THEN a ELSE b
Abs(x) == IF x < 0 THEN -x ELSE x

--------------------------------------------------------------------------------
\* read_snapshot raises and there is no snapshot.
Unreadable == None
Snapshots == Readable \cup {Unreadable}

\* _battery_ok.
BatteryOk(s) == s.soc # "ABSENT" /\ s.alarm # "tripped"

\* Mutant: the islanding guard is missing.
DataFreshWithoutGrid(s) == BatteryOk(s) /\ s.soc = "GOOD" /\ s.inputs = "GOOD"

\* data_fresh, as assemble_inputs computes it.
DataFresh(s) ==
    /\ s.grid = "live"
    /\ BatteryOk(s)
    /\ s.soc = "GOOD"
    /\ s.inputs = "GOOD"

--------------------------------------------------------------------------------
(* ModeController.update *)

\* Mutant: off by one at the boundary.
HoldExpiredLate == heldFor > HoldMax

HoldExpired == heldFor >= HoldMax

\* Mutant: SAFE is latched, fresh data does not leave it.
UpdateModeLatched ==
    \/ /\ ~BatteryOk(snap) \/ mode = "SAFE"
       /\ mode' = "SAFE" /\ heldFor' = 0
    \/ /\ DataFresh(snap) /\ mode # "SAFE"
       /\ mode' = "RUN" /\ heldFor' = 0
    \/ /\ BatteryOk(snap) /\ ~DataFresh(snap)
       /\ \/ /\ mode = "RUN"
             /\ mode' = "HOLD" /\ heldFor' = 0
          \/ /\ mode = "HOLD"
             /\ mode' = IF HoldExpired THEN "SAFE" ELSE "HOLD"
             /\ heldFor' = IF HoldExpired THEN 0 ELSE heldFor

UpdateMode ==
    \/ /\ ~BatteryOk(snap)
       /\ mode' = "SAFE" /\ heldFor' = 0
    \/ /\ DataFresh(snap)
       /\ mode' = "RUN" /\ heldFor' = 0
    \/ /\ BatteryOk(snap) /\ ~DataFresh(snap)
       /\ \/ /\ mode = "RUN"
             /\ mode' = "HOLD" /\ heldFor' = 0
          \/ /\ mode = "HOLD" /\ ~HoldExpired
             /\ UNCHANGED <<mode, heldFor>>
          \/ /\ mode = "HOLD" /\ HoldExpired
             /\ mode' = "SAFE" /\ heldFor' = 0
          \/ /\ mode = "SAFE"
             /\ UNCHANGED <<mode, heldFor>>

--------------------------------------------------------------------------------
(* ControlLoop.run_once *)

\* Mutants: the ramp is one jump; there is none.
SafeBatteryJumps(last) == 0
SafeBatteryKept(last) == last

\* safe_battery_setpoint: one slew step toward zero, never past it.
SafeBatterySetpoint(last) ==
    IF last > 0 THEN (IF last - Step < 0 THEN 0 ELSE last - Step)
                ELSE (IF last + Step > 0 THEN 0 ELSE last + Step)

\* _publish_if_changed, as a function of the factor last published.
Changed(cls, factor) == lastPub[cls] = None \/ lastPub[cls] # factor

\* The end of every cycle: the battery message always, the factors on change.
Publish(b, q, curtail, derate) ==
    /\ wire' = [battery |-> b,
                reactive |-> q,
                pv |-> IF Changed("pv", curtail) THEN curtail ELSE wire.pv,
                flexible_load |->
                    IF Changed("flexible_load", derate) THEN derate
                                                        ELSE wire.flexible_load]
    /\ lastPub' = [pv |-> curtail, flexible_load |-> derate]
    /\ lastQ' = q

Regulate ==
    \E b \in Kw, q \in Kvar, derate \in Factor, curtail \in Factor :
        /\ Abs(b - edge.battery) <= Step
        /\ edge' = [battery |-> b, derate |-> derate, curtail |-> curtail]
        /\ Publish(b, q, curtail, derate)
        /\ frozenAge' = 0
        /\ blind' = FALSE

Freeze ==
    /\ Publish(edge.battery, lastQ, edge.curtail, edge.derate)
    /\ UNCHANGED <<edge, frozenAge, blind>>

\* Mutant: SAFE sends its command but leaves the edge state as it was.
FailSafeStateless ==
    LET b == SafeBatterySetpoint(edge.battery) IN
        /\ Publish(b, 0, Full, Full)
        /\ UNCHANGED <<edge, frozenAge, blind>>

\* Mutant: SAFE keeps the mitigations that were in force.
FailSafeKeepsFactors ==
    LET b == SafeBatterySetpoint(edge.battery) IN
        /\ edge' = [edge EXCEPT !.battery = b]
        /\ Publish(b, 0, edge.curtail, edge.derate)
        /\ UNCHANGED <<frozenAge, blind>>

FailSafe ==
    LET b == SafeBatterySetpoint(edge.battery) IN
        /\ edge' = [battery |-> b, derate |-> Full, curtail |-> Full]
        /\ Publish(b, 0, Full, Full)
        /\ UNCHANGED <<frozenAge, blind>>

\* A cycle that reaches its end.
RunOnce ==
    /\ snap # Unreadable
    /\ UpdateMode
    /\ \/ mode' = "RUN" /\ Regulate
       \/ mode' = "HOLD" /\ Freeze
       \/ mode' = "SAFE" /\ FailSafe
    /\ sinceCycle' = 0
    /\ UNCHANGED snap

\* read_snapshot raises: LoopRunner._run swallows it and nothing else happened.
CycleRaises ==
    /\ snap = Unreadable
    /\ sinceCycle' = 0
    /\ blind' = TRUE
    /\ UNCHANGED <<snap, mode, heldFor, edge, lastQ, lastPub, wire, frozenAge>>

Cycle == RunOnce \/ CycleRaises

--------------------------------------------------------------------------------
(* The environment: data arrives, ages, disappears; time passes. *)

Observe ==
    /\ snap' \in Snapshots
    /\ UNCHANGED <<mode, heldFor, edge, lastQ, lastPub, wire, sinceCycle, frozenAge,
                   blind>>

FrozenCap == HoldMax + Period + 1

Tick ==
    /\ sinceCycle < Period
    /\ sinceCycle' = sinceCycle + 1
    /\ heldFor' = IF mode = "HOLD" THEN Smaller(heldFor + 1, HoldMax) ELSE heldFor
    /\ frozenAge' = Smaller(frozenAge + 1, FrozenCap)
    /\ UNCHANGED <<snap, mode, edge, lastQ, lastPub, wire, blind>>

--------------------------------------------------------------------------------
Init ==
    /\ snap \in Snapshots
    /\ mode = "RUN"
    /\ heldFor = 0
    /\ edge = [battery |-> 0, derate |-> Full, curtail |-> Full]
    /\ lastQ = 0
    /\ lastPub = [pv |-> None, flexible_load |-> None]
    /\ wire = [battery |-> 0, reactive |-> 0, pv |-> None, flexible_load |-> None]
    /\ sinceCycle = 0
    /\ frozenAge = 0
    /\ blind = FALSE

Next == Cycle \/ Observe \/ Tick

Spec == Init /\ [][Next]_vars

\* The loop thread keeps cycling and time keeps passing; what the database
\* holds is the environment's business.
FairSpec == Spec /\ WF_vars(Cycle) /\ WF_vars(Tick)

--------------------------------------------------------------------------------
TypeOK ==
    /\ snap \in Snapshots
    /\ mode \in Modes
    /\ heldFor \in 0..HoldMax
    /\ edge \in [battery : Kw, derate : Factor, curtail : Factor]
    /\ lastQ \in Kvar
    /\ lastPub \in [pv : Factor \cup {None}, flexible_load : Factor \cup {None}]
    /\ wire \in [battery : Kw, reactive : Kvar,
                 pv : Factor \cup {None}, flexible_load : Factor \cup {None}]
    /\ sinceCycle \in 0..Period
    /\ frozenAge \in 0..FrozenCap
    /\ blind \in BOOLEAN

\* What was last commanded is what the controller believes it commanded: the
\* battery setpoint and reactive power it would freeze in HOLD or ramp from in
\* SAFE, and, once published, the factors of the edge state.  Publishing on
\* change and overriding the edge state in SAFE must not let them drift apart.
WireAgrees ==
    /\ wire.battery = edge.battery
    /\ wire.reactive = lastQ
    /\ wire.pv \in {None, edge.curtail}
    /\ wire.flexible_load \in {None, edge.derate}

\* SAFE leaves no mitigation and no reactive power in force.
SafeReleases ==
    mode = "SAFE" =>
        wire.pv = Full /\ wire.flexible_load = Full /\ wire.reactive = 0

\* Consecutive battery commands never differ by more than one slew step,
\* whatever modes the cycles were in and however many cycles failed between.
SlewLimited == [][Abs(wire'.battery - wire.battery) <= Step]_vars

\* What the requirements call bad data: a lost grid, a tripped converter, or a
\* controlled input that is missing or older than timeout_period.
Unusable(s) ==
    \/ s = Unreadable
    \/ s.grid = "dead"
    \/ s.alarm = "tripped"
    \/ s.soc # "GOOD"
    \/ s.inputs # "GOOD"

\* On bad data the controller never commands more power than it
\* had commanded, never reverses the battery and never sheds load or curtails
\* PV further: it can only hold or back off.
BacksOff(from, to) ==
    /\ Abs(to.battery) <= Abs(from.battery)
    /\ ~(from.battery > 0 /\ to.battery < 0)
    /\ ~(from.battery < 0 /\ to.battery > 0)
    /\ from.pv = None \/ to.pv >= from.pv
    /\ from.flexible_load = None \/ to.flexible_load >= from.flexible_load

NoNewCommandOnBadData ==
    [][Unusable(snap) => BacksOff(wire, wire')]_vars

\* "keep the last setpoint for up to hold_max_s" (modes.py): a command frozen
\* by HOLD was computed at most hold_max_s and one cycle ago. Cycles that raise
\* run no ladder and start no HOLD: when one has, the code gives no such bound.
FrozenCommandBounded ==
    [][RunOnce /\ mode' = "HOLD" /\ HoldMax > 0 /\ ~blind
        => frozenAge < HoldMax + Period]_vars

\* Recovery is automatic: data that stays fresh brings the loop back to RUN.
FreshEndsRun ==
    <>[]~Unusable(snap) => <>[](mode = "RUN")

\* Data that stays bad, while it can be read at all, ends with the battery at
\* zero and nothing shed: a stale feed, an islanded grid and a tripped
\* converter alike.
BadDataEndsSafe ==
    <>[](snap # Unreadable /\ Unusable(snap))
        => <>[](/\ mode = "SAFE"
                /\ wire.battery = 0
                /\ wire.pv = Full /\ wire.flexible_load = Full)

================================================================================
