--------------------------- MODULE EdgeController ---------------------------
(***************************************************************************)
(* The control law of the edge controller: one pure step from a snapshot   *)
(* and the state of the last cycle to the next state (compute).            *)
(*                                                                         *)
(* Floating-point numbers are integers in fixed units: powers in one power *)
(* unit, the state of charge in the units of its thresholds, factors in    *)
(* fractions of One, and the gains as KpN / Gain and KiN / Gain.  Only the *)
(* quotients are rounded; comparisons are made before dividing.            *)
(* Signs are those of the data model: + is consumption (import, charge).   *)
(***************************************************************************)
EXTENDS Integers

CONSTANTS
    Gain, KpN, KiN,     \* Kp = KpN / Gain and Ki = KiN / Gain
    Period,             \* update_period, the dt of the integral
    SlewStep,           \* slew_limit_kw_s times the period
    MaxCharge, MaxDischarge,
    MinSoc, MaxSoc,     \* the SoC gates
    MinWarn, MaxWarn,   \* warning thresholds of derating and curtailment
    One,                \* the factor 1.0
    Deadband,           \* DERATE_DEADBAND
    LoadMinDerate, PvMinDerate,
    MaxFeed             \* max_feed_kw, the export limit at the coupling point

ASSUME LawAssumption ==
    /\ Gain \in Nat \ {0} /\ KpN \in Nat /\ KiN \in Nat
    /\ Period \in Nat \ {0} /\ SlewStep \in Nat \ {0}
    /\ MaxCharge \in Nat /\ MaxDischarge \in Nat
    /\ MinSoc \in Nat /\ MaxSoc \in Nat /\ MinWarn \in Nat /\ MaxWarn \in Nat
    /\ One \in Nat \ {0} /\ Deadband \in Nat
    /\ LoadMinDerate \in 0 .. One /\ PvMinDerate \in 0 .. One
    /\ MaxFeed \in Nat

Clamp(x, lo, hi) == IF x < lo THEN lo ELSE IF x > hi THEN hi ELSE x
Least(a, b) == IF a < b THEN a ELSE b

\* What is carried from one cycle to the next (ControlState).
ControlState ==
    [integral : Int, setpoint : Int, derate : 0 .. One, curtail : 0 .. One]
AtRest == [integral |-> 0, setpoint |-> 0, derate |-> One, curtail |-> One]

\* The signed window of the battery setpoint: configured limit and reported
\* headroom, closed by the SoC gates.
Window(in) ==
    LET up == IF in.soc >= MaxSoc THEN 0 ELSE Least(MaxCharge, in.charge)
        lo == IF in.soc <= MinSoc THEN 0 ELSE -Least(MaxDischarge, in.discharge)
    IN  [lower |-> lo, upper |-> up]

Error(in) == in.target - in.pcc

\* Gain times the PI output for an integral.
Demand(in, integral) == KpN * Error(in) + KiN * integral

\* A bug: frozen whatever the sign of the error.
FrozenBothWays(in, st) ==
    LET demand == Demand(in, st.integral + Error(in) * Period)
    IN  demand > Gain * Window(in).upper \/ demand < Gain * Window(in).lower

\* Conditional integration: the integral stays when the demand it would give
\* exceeds the window and the error pushes further out.
Frozen(in, st) ==
    LET cand == st.integral + Error(in) * Period
    IN  \/ Error(in) > 0 /\ Demand(in, cand) > Gain * Window(in).upper
        \/ Error(in) < 0 /\ Demand(in, cand) < Gain * Window(in).lower

\* A bug: the integral accumulates while saturated.
IntegralAlways(in, st) == st.integral + Error(in) * Period

Integral(in, st) ==
    IF Frozen(in, st) THEN st.integral ELSE st.integral + Error(in) * Period

\* A bug: the window is not applied, the slew limiter only.
SetpointUnclamped(in, st) ==
    Clamp(Demand(in, Integral(in, st)) \div Gain, st.setpoint - SlewStep, st.setpoint + SlewStep)

\* The PI output clamped to the window, then at most one slew step from the
\* last setpoint.
Setpoint(in, st) ==
    LET pi == Demand(in, Integral(in, st)) \div Gain
        clamped == Clamp(pi, Window(in).lower, Window(in).upper)
    IN  Clamp(clamped, st.setpoint - SlewStep, st.setpoint + SlewStep)

\* Low SoC: a ramp from 1 at the warning threshold to the floor at the gate,
\* held while it moves by less than the deadband.
Ramp(soc) ==
    IF MinWarn > MinSoc THEN ((soc - MinSoc) * One) \div (MinWarn - MinSoc) ELSE 0
Derate(in, st) ==
    LET new == IF MinWarn > 0 /\ in.soc < MinWarn
               THEN Clamp(Ramp(in.soc), LoadMinDerate, One)
               ELSE One
        moved == IF new < st.derate THEN st.derate - new ELSE new - st.derate
    IN  IF moved < Deadband THEN st.derate ELSE new

\* High SoC: an integrating regulator of the export at the feed limit, its
\* step normalised by the PV power available without curtailment.
InBand(in) == MaxWarn > 0 /\ in.soc >= MaxWarn
\* A bug: the cut is taken from 1.0 instead of the last factor (the old
\* one-shot proportional cut).
CurtailOneShot(in, st) ==
    LET excess == -in.pcc - MaxFeed
        step == IF in.pv = 0 THEN 0 ELSE (excess * One) \div (-in.pv)
    IN  IF InBand(in) THEN Clamp(One - step, PvMinDerate, One) ELSE One
Curtail(in, st) ==
    LET prev == IF st.curtail > 0 THEN st.curtail ELSE One
        excess == -in.pcc - MaxFeed
        step == IF in.pv = 0 THEN 0 ELSE (excess * prev) \div (2 * (-in.pv))
    IN  IF InBand(in) THEN Clamp(prev - step, PvMinDerate, One) ELSE One

\* One cycle of the law.
Compute(in, st) ==
    [integral |-> Integral(in, st),
     setpoint |-> Setpoint(in, st),
     derate |-> Derate(in, st),
     curtail |-> Curtail(in, st)]
=============================================================================
