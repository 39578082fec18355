----------------------------- MODULE PlantLoop -----------------------------
(***************************************************************************)
(* The control law in closed loop with the site: battery, PV, flexible and *)
(* fixed load behind one coupling point, as the software-in-the-loop rig   *)
(* runs them.  A cycle advances the plant by one period under the commands *)
(* of the cycle before, samples it and computes the next commands.         *)
(*                                                                         *)
(* The environment changes the loads, the irradiance, the grid frequency,  *)
(* the target and what the mode ladder decides, at most Disturbances       *)
(* times.  Powers, energy and factors are in the units of EdgeController;  *)
(* the state of charge is the stored energy.                               *)
(***************************************************************************)
EXTENDS EdgeController, Sequences

CONSTANTS
    Capacity,               \* energy of a full battery
    Peak, MaxKva,           \* PV: peak power and the inverter's rating
    Sky,                    \* irradiance of STC is Sky
    Loads, Irradiances, Targets, Energies, \* what the environment chooses from
    Fs, DPs, Freqs,         \* the P(f) droop curve and the frequencies met
    TrackPct,               \* part of the way the converter gets in a period
    Tolerance,              \* how near the target is "on target"
    Modes,                  \* the ladder's decisions met besides RUN
    Disturbances            \* bound: changes of the environment

ASSUME PlantAssumption ==
    /\ Capacity \in Nat /\ Peak \in Nat /\ MaxKva \in Nat /\ Sky \in Nat \ {0}
    /\ Loads \subseteq Nat /\ Irradiances \subseteq Nat
    /\ Targets \subseteq Int /\ Energies \subseteq 0 .. Capacity
    /\ Freqs \subseteq Int /\ TrackPct \in 1 .. 100
    /\ Tolerance \in Nat /\ Modes \subseteq {"HOLD", "SAFE"}
    /\ Disturbances \in Nat

\* The curve has at least two breakpoints, strictly increasing, and its
\* corrections do not decrease (the constructor raises otherwise).
ASSUME DroopAssumption ==
    /\ Fs \in Seq(Int) /\ DPs \in Seq(Int)
    /\ Len(Fs) >= 2 /\ Len(DPs) = Len(Fs)
    /\ \A i \in 2 .. Len(Fs) : Fs[i - 1] < Fs[i] /\ DPs[i - 1] <= DPs[i]

VARIABLES
    load, irradiance, freq, target, mode,   \* the environment
    energy, pBattery, pPv, pLoad,           \* the plant
    edge,                                   \* ControlState, and so the commands
    outside,        \* RUN cycles in a row that left the command outside the window
    left            \* disturbances left

environment == <<load, irradiance, freq, target, mode, left>>
plant == <<energy, pBattery, pPv, pLoad>>
vars == <<environment, plant, edge, outside>>

-----------------------------------------------------------------------------
\* Piecewise-linear interpolation, flat past the ends (interp_clamped).
Segment(x, xs) == CHOOSE k \in 2 .. Len(xs) : xs[k - 1] < x /\ x <= xs[k]
Along(x, xs, ys, k) ==
    ys[k - 1] + ((x - xs[k - 1]) * (ys[k] - ys[k - 1])) \div (xs[k] - xs[k - 1])
Interp(x, xs, ys) ==
    IF x <= xs[1] THEN ys[1]
    ELSE IF x >= xs[Len(xs)] THEN ys[Len(xs)]
    ELSE Along(x, xs, ys, Segment(x, xs))

\* The headroom the battery reports closes at the SoC gates.
ChargeHeadroom(e) == IF e < MaxSoc THEN MaxCharge ELSE 0
DischargeHeadroom(e) == IF e > MinSoc THEN MaxDischarge ELSE 0

\* Power the battery delivers: towards the setpoint, inside the headroom.
Battery(setpoint) ==
    LET lo == -DischargeHeadroom(energy)
        up == ChargeHeadroom(energy)
        goal == Clamp(setpoint, lo, up)
    IN  Clamp(pBattery + ((goal - pBattery) * TrackPct) \div 100, lo, up)

Generation(curtail) == Least((Peak * irradiance * curtail) \div (Sky * One), MaxKva)
Consumption(derate) == (load * derate) \div One

\* The site after one period under the commands of the last cycle.
StepPlant ==
    /\ pBattery' = Battery(edge.setpoint)
    /\ energy' = Clamp(energy + Battery(edge.setpoint), 0, Capacity)
    /\ pPv' = -Generation(edge.curtail)
    /\ pLoad' = Consumption(edge.derate)

\* Kirchhoff at the coupling point.
Pcc == pLoad + pBattery + pPv

\* What the controller reads after that step, and what it regulates to.
Sample ==
    [pcc |-> Pcc, target |-> target + Interp(freq, Fs, DPs), soc |-> energy,
     charge |-> ChargeHeadroom(energy), discharge |-> DischargeHeadroom(energy),
     pv |-> pPv]

SafeSetpoint(sp) ==
    IF sp > 0 THEN Clamp(sp - SlewStep, 0, sp) ELSE Clamp(sp + SlewStep, sp, 0)

InWindow(in, sp) == Window(in).lower <= sp /\ sp <= Window(in).upper

Init ==
    /\ load \in Loads /\ irradiance \in Irradiances /\ target \in Targets
    /\ energy \in Energies
    /\ freq \in Freqs
    /\ mode = "RUN"
    /\ pBattery = 0 /\ pPv = 0 /\ pLoad = 0
    /\ edge = AtRest
    /\ outside = 0
    /\ left = Disturbances

\* RUN: the law computes the commands from the sample.
Run ==
    /\ mode = "RUN"
    /\ UNCHANGED environment
    /\ StepPlant
    /\ \E in \in {Sample'} :
           /\ edge' = Compute(in, edge)
           /\ outside' = IF InWindow(in, edge'.setpoint) THEN 0 ELSE outside + 1

\* HOLD: the last commands are issued again.
Hold ==
    /\ mode = "HOLD"
    /\ StepPlant
    /\ outside' = 0
    /\ UNCHANGED <<environment, edge>>

\* SAFE: the battery ramps to zero, mitigations are released, the integral is
\* cleared.
Safe ==
    /\ mode = "SAFE"
    /\ StepPlant
    /\ edge' = [AtRest EXCEPT !.setpoint = SafeSetpoint(edge.setpoint)]
    /\ outside' = 0
    /\ UNCHANGED environment

Cycle == Run \/ Hold \/ Safe

\* The stimulus of a scenario, an external target, or a fault of the inputs.
Disturb ==
    /\ left > 0
    /\ left' = left - 1
    /\ \/ load' \in Loads /\ UNCHANGED <<irradiance, freq, target, mode>>
       \/ irradiance' \in Irradiances /\ UNCHANGED <<load, freq, target, mode>>
       \/ freq' \in Freqs /\ UNCHANGED <<load, irradiance, target, mode>>
       \/ target' \in Targets /\ UNCHANGED <<load, irradiance, freq, mode>>
       \/ mode' \in Modes \cup {"RUN"} /\ UNCHANGED <<load, irradiance, freq, target>>
    /\ UNCHANGED <<plant, edge, outside>>

Next == Cycle \/ Disturb

Spec == Init /\ [][Next]_vars

\* The controller's thread runs a cycle every period.
FairSpec == Spec /\ WF_vars(Cycle)

-----------------------------------------------------------------------------
TypeOK ==
    /\ load \in Nat /\ irradiance \in Nat /\ freq \in Int /\ target \in Int
    /\ mode \in {"RUN", "HOLD", "SAFE"} /\ left \in Nat
    /\ energy \in 0 .. Capacity
    /\ pBattery \in Int /\ pPv \in Int /\ pPv <= 0 /\ pLoad \in Int
    /\ edge \in ControlState
    /\ outside \in Nat

\* Whatever the site does and however long the battery is saturated, slewing
\* or the loop in HOLD, the integral alone never asks for more than the
\* configured limits: after a saturation the command turns at once.
NoWindup ==
    /\ KiN * edge.integral <= Gain * MaxCharge
    /\ KiN * edge.integral >= -(Gain * MaxDischarge)

\* The slew limiter comes after the window: a command that a shrinking window
\* left outside may stay there, but for no more RUN cycles than the slew step
\* needs from the configured limit to zero.
OutsideIsBrief ==
    \/ outside * SlewStep < MaxCharge
    \/ outside * SlewStep < MaxDischarge
    \/ outside = 0

AtUpper == pBattery >= ChargeHeadroom(energy)
AtLower == pBattery <= -DischargeHeadroom(energy)
Within(x, lo, hi) == lo <= x /\ x <= hi

OnTarget ==
    LET e == Error(Sample)
    IN  \/ Within(e, -Tolerance, Tolerance)
        \/ e > 0 /\ AtUpper
        \/ e < 0 /\ AtLower

\* When nothing changes any more and the loop is in RUN, the coupling point
\* ends up on the target (with the droop correction) and stays there, unless
\* the battery is at its limit in the direction that is missing.
Settles == <>[](mode = "RUN") => <>[]OnTarget

\* ... and in the high-SoC band the export ends up within the feed limit,
\* unless the PV is curtailed to its floor.
WithinFeed ==
    InBand(Sample) => \/ -Pcc <= MaxFeed + Tolerance
                      \/ edge.curtail = PvMinDerate
ExportHeld == <>[](mode = "RUN") => <>[]WithinFeed
=============================================================================
