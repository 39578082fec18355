-------------------------- MODULE PlantLoopProofs --------------------------
(***************************************************************************)
(* The control law in closed loop, for every configuration, droop curve,   *)
(* site and disturbance: the integral never winds up past the configured   *)
(* limits, a command outside a shrunken window comes back, and each cycle  *)
(* commands what ControlLoop allows it to.                                 *)
(***************************************************************************)
EXTENDS PlantLoop, WellFoundedInduction, TLAPS

LEMMA ClampInt ==
    ASSUME NEW x \in Int, NEW lo \in Int, NEW hi \in Int
    PROVE  Clamp(x, lo, hi) \in Int
  BY DEF Clamp

LEMMA ClampRange ==
    ASSUME NEW x \in Int, NEW lo \in Int, NEW hi \in Int, lo <= hi
    PROVE  Clamp(x, lo, hi) \in lo .. hi
  BY DEF Clamp

LEMMA DivInt ==
    ASSUME NEW a \in Int, NEW b \in Nat \ {0}
    PROVE  a \div b \in Int
  OBVIOUS

LEMMA ProductSign ==
    ASSUME NEW a \in Nat, NEW b \in Int
    PROVE  /\ b >= 0 => a * b >= 0
           /\ b <= 0 => a * b <= 0
  OBVIOUS

LEMMA DivNat ==
    ASSUME NEW a \in Nat, NEW b \in Nat \ {0}
    PROVE  a \div b \in Nat
<1> DEFINE q == a \div b
<1>1. q \in Int
  OBVIOUS
<1>2. a < b * (q + 1)
  OBVIOUS
<1> HIDE DEF q
<1>3. q + 1 <= 0 => b * (q + 1) <= 0
  BY <1>1, ProductSign
<1>4. q \in Nat
  BY <1>1, <1>2, <1>3
<1> QED
  BY <1>4 DEF q

LEMMA ProductInt ==
    ASSUME NEW a \in Int, NEW b \in Int
    PROVE  a * b \in Int
  OBVIOUS

LEMMA ProductPositive ==
    ASSUME NEW a \in Nat \ {0}, NEW b \in Nat \ {0}
    PROVE  a * b \in Nat \ {0}
  OBVIOUS

LEMMA ProductNext ==
    ASSUME NEW a \in Nat, NEW b \in Nat
    PROVE  (a + 1) * b = a * b + b
  OBVIOUS

LEMMA ProductMonotone ==
    ASSUME NEW a \in Nat, NEW b \in Int, NEW c \in Int, b <= c
    PROVE  a * b <= a * c
  OBVIOUS

LessRel == {ss \in Nat \X Nat : ss[1] < ss[2]}

LEMMA LessWellFounded == IsWellFoundedOn(LessRel, Nat)
  BY NatLessThanWellFounded DEF OpToRel, LessRel

\* A nonempty set of natural numbers has a least element.
LEMMA LeastElement ==
    ASSUME NEW S \in SUBSET Nat, S # {}
    PROVE  \E m \in S : \A n \in S : m <= n
<1>1. \E m \in S : \A n \in S : ~(<<n, m>> \in LessRel)
  BY LessWellFounded, WFMin, Zenon
<1>2. \A m, n \in S : ~(<<n, m>> \in LessRel) => m <= n
  BY DEF LessRel
<1> QED
  BY <1>1, <1>2

-----------------------------------------------------------------------------
\* Between the ends of the curve, the segment the code's loop stops at exists.
LEMMA SegmentExists ==
    ASSUME NEW x \in Int, Fs[1] < x, x < Fs[Len(Fs)]
    PROVE  \E k \in 2 .. Len(Fs) : Fs[k - 1] < x /\ x <= Fs[k]
<1> DEFINE Above == {k \in 2 .. Len(Fs) : x <= Fs[k]}
<1>1. \A k \in 1 .. Len(Fs) : Fs[k] \in Int
  BY DroopAssumption
<1>2. Len(Fs) \in Nat /\ Len(Fs) >= 2
  BY DroopAssumption
<1>3. Above \in SUBSET Nat /\ Above # {}
  <2>1. Len(Fs) \in Above
    BY <1>1, <1>2
  <2>2. Above \subseteq Nat
    BY <1>2
  <2> HIDE DEF Above
  <2> QED
    BY <2>1, <2>2
<1>4. \E m \in Above : \A k \in Above : m <= k
  <2> HIDE DEF Above
  <2> QED
    BY <1>3, LeastElement
<1>5. PICK m \in 2 .. Len(Fs) : x <= Fs[m] /\ \A k \in 2 .. Len(Fs) : x <= Fs[k] => m <= k
  BY <1>4
<1>6. Fs[m - 1] < x
  <2>1. CASE m = 2
    BY <2>1
  <2>2. CASE m # 2
    <3>1. m - 1 \in 2 .. Len(Fs) /\ ~(x <= Fs[m - 1])
      <4>1. m - 1 \in 2 .. Len(Fs)
        BY <1>2, <2>2
      <4>2. m \in Nat /\ ~(m <= m - 1)
        BY <1>2
      <4> QED
        BY <1>5, <4>1, <4>2
    <3> QED
      BY <3>1, <1>1
  <2> QED
    BY <2>1, <2>2
<1> QED
  BY <1>5, <1>6

\* The interpolated correction is a number, whatever the frequency.
LEMMA InterpInt ==
    ASSUME NEW x \in Int
    PROVE  Interp(x, Fs, DPs) \in Int
<1>1. /\ Len(Fs) \in Nat /\ Len(Fs) >= 2 /\ Len(DPs) = Len(Fs)
      /\ \A k \in 1 .. Len(Fs) : Fs[k] \in Int /\ DPs[k] \in Int
  BY DroopAssumption
<1>2. CASE x <= Fs[1] \/ x >= Fs[Len(Fs)]
  BY <1>1, <1>2 DEF Interp
<1>3. CASE Fs[1] < x /\ x < Fs[Len(Fs)]
  <2> DEFINE i == Segment(x, Fs)
  <2>1. i \in 2 .. Len(Fs) /\ Fs[i - 1] < x /\ x <= Fs[i]
    BY <1>3, SegmentExists, Zenon DEF Segment
  <2> HIDE DEF i
  <2>2. i \in 1 .. Len(Fs) /\ i - 1 \in 1 .. Len(Fs)
    BY <2>1, <1>1
  <2>3. /\ Fs[i] \in Int /\ Fs[i - 1] \in Int
        /\ DPs[i] \in Int /\ DPs[i - 1] \in Int
    BY <2>2, <1>1
  <2>4. Fs[i] - Fs[i - 1] \in Nat \ {0}
    BY <2>1, <2>3
  <2>5. x - Fs[i - 1] \in Int /\ DPs[i] - DPs[i - 1] \in Int
    BY <2>3
  <2>6. (x - Fs[i - 1]) * (DPs[i] - DPs[i - 1]) \in Int
    BY <2>5, ProductInt
  <2>7. ((x - Fs[i - 1]) * (DPs[i] - DPs[i - 1])) \div (Fs[i] - Fs[i - 1]) \in Int
    BY <2>4, <2>6, DivInt
  <2>8. Along(x, Fs, DPs, i) \in Int
    BY <2>3, <2>7 DEF Along
  <2>9. Interp(x, Fs, DPs) = Along(x, Fs, DPs, i)
    BY <1>1, <1>3 DEF Interp, i
  <2> QED
    BY <2>8, <2>9
<1> QED
  BY <1>1, <1>2, <1>3

-----------------------------------------------------------------------------
USE LawAssumption

\* What the law may be given.
Input == [pcc : Int, target : Int, soc : Nat, charge : Nat, discharge : Nat,
          pv : {n \in Int : n <= 0}]

LEMMA WindowRange ==
    ASSUME NEW in \in Input
    PROVE  /\ Window(in).lower \in -MaxDischarge .. 0
           /\ Window(in).upper \in 0 .. MaxCharge
<1>1. /\ in.soc \in Nat /\ in.charge \in Nat /\ in.discharge \in Nat
      /\ MaxCharge \in Nat /\ MaxDischarge \in Nat
  BY DEF Input
<1>2. /\ Least(MaxCharge, in.charge) \in 0 .. MaxCharge
      /\ Least(MaxDischarge, in.discharge) \in 0 .. MaxDischarge
  BY <1>1 DEF Least
<1> QED
  BY <1>1, <1>2 DEF Window

LEMMA ErrorInt ==
    ASSUME NEW in \in Input
    PROVE  Error(in) \in Int
  BY DEF Error, Input

LEMMA DemandInt ==
    ASSUME NEW in \in Input, NEW i \in Int
    PROVE  Demand(in, i) \in Int /\ KpN * Error(in) \in Int /\ KiN * i \in Int
<1>1. KpN \in Int /\ KiN \in Int /\ Error(in) \in Int
  BY ErrorInt
<1>2. KpN * Error(in) \in Int /\ KiN * i \in Int
  BY <1>1, ProductInt
<1> QED
  BY <1>2 DEF Demand

LEMMA CandidateInt ==
    ASSUME NEW in \in Input, NEW st \in ControlState
    PROVE  /\ st.integral \in Int /\ Error(in) * Period \in Int
           /\ Integral(in, st) \in Int
<1>1. st.integral \in Int /\ Error(in) \in Int /\ Period \in Int
  BY ErrorInt DEF ControlState
<1>2. Error(in) * Period \in Int
  BY <1>1, ProductInt
<1> QED
  BY <1>1, <1>2 DEF Integral

\* The setpoint is the clamped output, or one slew step towards it.
LEMMA SetpointFacts ==
    ASSUME NEW in \in Input, NEW st \in ControlState
    PROVE  \E c \in Window(in).lower .. Window(in).upper :
              /\ Setpoint(in, st) \in Int
              /\ \/ Setpoint(in, st) = c
                 \/ /\ Setpoint(in, st) = st.setpoint - SlewStep
                    /\ c < st.setpoint - SlewStep
                 \/ /\ Setpoint(in, st) = st.setpoint + SlewStep
                    /\ c > st.setpoint + SlewStep
<1> DEFINE pi == Demand(in, Integral(in, st)) \div Gain
           lo == Window(in).lower
           up == Window(in).upper
           c == Clamp(pi, lo, up)
           low == st.setpoint - SlewStep
           high == st.setpoint + SlewStep
<1>1. pi \in Int
  <2>1. Integral(in, st) \in Int
    BY CandidateInt
  <2>2. Demand(in, Integral(in, st)) \in Int
    BY <2>1, DemandInt
  <2> QED
    BY <2>2, DivInt
<1>2. lo \in Int /\ up \in Int /\ lo <= up
  BY WindowRange
<1>3. low \in Int /\ high \in Int /\ low <= high
  BY DEF ControlState
<1>4. Setpoint(in, st) = Clamp(c, low, high)
  BY DEF Setpoint
<1> HIDE DEF pi, lo, up, low, high
<1>5. c \in lo .. up
  BY <1>1, <1>2, ClampRange
<1> HIDE DEF c
<1>6. c \in Int
  BY <1>2, <1>5
<1>7. /\ Clamp(c, low, high) \in Int
      /\ \/ Clamp(c, low, high) = c
         \/ Clamp(c, low, high) = low /\ c < low
         \/ Clamp(c, low, high) = high /\ c > high
  BY <1>3, <1>6 DEF Clamp
<1> QED
  BY <1>4, <1>5, <1>7 DEF lo, up, low, high

LEMMA DerateRange ==
    ASSUME NEW in \in Input, NEW st \in ControlState
    PROVE  Derate(in, st) \in 0 .. One
<1>1. Ramp(in.soc) \in Int
  <2>1. CASE MinWarn > MinSoc
    <3>1. in.soc - MinSoc \in Int /\ One \in Int /\ MinWarn - MinSoc \in Nat \ {0}
      BY <2>1 DEF Input
    <3>2. (in.soc - MinSoc) * One \in Int
      BY <3>1, ProductInt
    <3>3. ((in.soc - MinSoc) * One) \div (MinWarn - MinSoc) \in Int
      BY <3>1, <3>2, DivInt
    <3> QED
      BY <2>1, <3>3 DEF Ramp
  <2>2. CASE ~(MinWarn > MinSoc)
    BY <2>2 DEF Ramp
  <2> QED
    BY <2>1, <2>2
<1>2. LoadMinDerate \in Int /\ One \in Int /\ 0 <= LoadMinDerate /\ LoadMinDerate <= One
  OBVIOUS
<1> DEFINE new == IF MinWarn > 0 /\ in.soc < MinWarn
                  THEN Clamp(Ramp(in.soc), LoadMinDerate, One) ELSE One
<1>3. new \in 0 .. One
  <2>1. Clamp(Ramp(in.soc), LoadMinDerate, One) \in LoadMinDerate .. One
    BY <1>1, <1>2, ClampRange
  <2> QED
    BY <1>2, <2>1
<1>4. st.derate \in 0 .. One
  BY DEF ControlState
<1>5. Derate(in, st) = new \/ Derate(in, st) = st.derate
  BY DEF Derate
<1> QED
  BY <1>3, <1>4, <1>5

LEMMA CurtailRange ==
    ASSUME NEW in \in Input, NEW st \in ControlState
    PROVE  Curtail(in, st) \in 0 .. One
<1> DEFINE prev == IF st.curtail > 0 THEN st.curtail ELSE One
           excess == -in.pcc - MaxFeed
           cut == IF in.pv = 0 THEN 0 ELSE (excess * prev) \div (2 * (-in.pv))
<1>1. prev \in Int /\ excess \in Int
  BY DEF ControlState, Input
<1>2. cut \in Int
  <2>1. excess * prev \in Int
    <3> HIDE DEF excess, prev
    <3> QED
      BY <1>1, ProductInt
  <2>2. CASE in.pv = 0
    BY <2>2
  <2>3. CASE in.pv # 0
    <3>1. 2 * (-in.pv) \in Nat \ {0}
      BY <2>3 DEF Input
    <3> HIDE DEF excess, prev
    <3>2. (excess * prev) \div (2 * (-in.pv)) \in Int
      BY <2>1, <3>1, DivInt
    <3> QED
      BY <2>3, <3>2
  <2> QED
    BY <2>2, <2>3
<1>3. Curtail(in, st) = IF InBand(in) THEN Clamp(prev - cut, PvMinDerate, One) ELSE One
  BY DEF Curtail
<1>4. PvMinDerate \in Int /\ One \in Int /\ 0 <= PvMinDerate /\ PvMinDerate <= One
  OBVIOUS
<1> HIDE DEF prev, cut
<1>5. prev - cut \in Int
  BY <1>1, <1>2
<1>6. Clamp(prev - cut, PvMinDerate, One) \in 0 .. One
  BY <1>4, <1>5 DEF Clamp
<1> QED
  BY <1>3, <1>4, <1>6

LEMMA ComputeState ==
    ASSUME NEW in \in Input, NEW st \in ControlState
    PROVE  Compute(in, st) \in ControlState
<1>1. Integral(in, st) \in Int
  BY CandidateInt
<1>2. Setpoint(in, st) \in Int
  BY SetpointFacts
<1> QED
  BY <1>1, <1>2, DerateRange, CurtailRange DEF Compute, ControlState

-----------------------------------------------------------------------------
\* The plant's step gives numbers of the right signs.
LEMMA GenerationNat ==
    ASSUME TypeOK, NEW c \in 0 .. One
    PROVE  Generation(c) \in Nat
<1>1. Peak * irradiance \in Nat
  BY PlantAssumption DEF TypeOK
<1>2. (Peak * irradiance) * c \in Nat
  <2> DEFINE p == Peak * irradiance
  <2> HIDE DEF p
  <2>1. p \in Nat => p * c \in Nat
    OBVIOUS
  <2> QED
    BY <1>1, <2>1 DEF p
<1>3. Sky * One \in Nat \ {0}
  BY PlantAssumption, ProductPositive
<1> DEFINE a == Peak * irradiance * c
           b == Sky * One
<1>4. a \in Nat /\ b \in Nat \ {0} /\ MaxKva \in Nat
  BY <1>2, <1>3, PlantAssumption
<1> HIDE DEF a, b
<1>5. a \div b \in Nat
  BY <1>4, DivNat
<1>6. Generation(c) = Least(a \div b, MaxKva)
  BY DEF Generation, a, b
<1> HIDE DEF a, b
<1> QED
  BY <1>4, <1>5, <1>6 DEF Least

LEMMA ConsumptionInt ==
    ASSUME TypeOK, NEW d \in 0 .. One
    PROVE  Consumption(d) \in Int
<1>1. load * d \in Int
  BY ProductInt DEF TypeOK
<1> QED
  BY <1>1, DivInt DEF Consumption

LEMMA BatteryInt ==
    ASSUME TypeOK, NEW sp \in Int
    PROVE  Battery(sp) \in Int
<1> DEFINE lo == -DischargeHeadroom(energy)
           up == ChargeHeadroom(energy)
           goal == Clamp(sp, lo, up)
<1>1. lo \in Int /\ up \in Int
  BY DEF DischargeHeadroom, ChargeHeadroom
<1>2. pBattery \in Int /\ TrackPct \in Int
  BY PlantAssumption DEF TypeOK
<1> HIDE DEF lo, up
<1>3. goal \in Int
  BY <1>1, ClampInt
<1> DEFINE moved == ((goal - pBattery) * TrackPct) \div 100
<1>4. moved \in Int
  <2> HIDE DEF goal
  <2>1. (goal - pBattery) * TrackPct \in Int
    BY <1>2, <1>3, ProductInt
  <2> QED
    BY <2>1, DivInt
<1> HIDE DEF goal, moved
<1>5. Battery(sp) = Clamp(pBattery + moved, lo, up)
  BY DEF Battery, moved, goal, lo, up
<1>6. Clamp(pBattery + moved, lo, up) \in Int
  BY <1>1, <1>2, <1>4, ClampInt
<1> QED
  BY <1>5, <1>6

LEMMA PlantStep ==
    ASSUME TypeOK, StepPlant
    PROVE  /\ energy' \in 0 .. Capacity
           /\ pBattery' \in Int /\ pPv' \in Int /\ pPv' <= 0 /\ pLoad' \in Int
<1>1. /\ edge.setpoint \in Int /\ edge.derate \in 0 .. One /\ edge.curtail \in 0 .. One
      /\ energy \in Int
  BY DEF TypeOK, ControlState
<1>2. Battery(edge.setpoint) \in Int
  BY <1>1, BatteryInt
<1>3. energy' \in 0 .. Capacity
  <2>1. energy' = Clamp(energy + Battery(edge.setpoint), 0, Capacity)
    BY DEF StepPlant
  <2>2. energy + Battery(edge.setpoint) \in Int
    BY <1>1, <1>2
  <2>3. Capacity \in Int /\ 0 <= Capacity
    BY PlantAssumption
  <2> DEFINE e == energy + Battery(edge.setpoint)
  <2> HIDE DEF e
  <2>4. e \in Int => Clamp(e, 0, Capacity) \in 0 .. Capacity
    BY <2>3, ClampRange
  <2> QED
    BY <2>1, <2>2, <2>4 DEF e
<1>4. Generation(edge.curtail) \in Nat
  BY <1>1, GenerationNat
<1>5. Consumption(edge.derate) \in Int
  BY <1>1, ConsumptionInt
<1> QED
  BY <1>2, <1>3, <1>4, <1>5 DEF StepPlant

\* ... so that what is sampled after it is a legal input of the law.
LEMMA SampleInput ==
    ASSUME TypeOK, StepPlant, UNCHANGED environment
    PROVE  Sample' \in Input
<1>1. /\ energy' \in 0 .. Capacity
      /\ pBattery' \in Int /\ pPv' \in Int /\ pPv' <= 0 /\ pLoad' \in Int
  BY PlantStep
<1>2. target' \in Int /\ freq' \in Int
  BY DEF environment, TypeOK
<1>3. Interp(freq', Fs, DPs) \in Int
  BY <1>2, InterpInt
<1>4. Pcc' \in Int
  BY <1>1 DEF Pcc
<1>5. /\ ChargeHeadroom(energy') \in Nat /\ DischargeHeadroom(energy') \in Nat
  BY DEF ChargeHeadroom, DischargeHeadroom
<1>6. pPv' \in Int /\ pPv' <= 0
  BY <1>1
<1>7. energy' \in Nat
  BY <1>1
<1>8. Sample' = [pcc |-> Pcc', target |-> target' + Interp(freq', Fs, DPs), soc |-> energy',
                 charge |-> ChargeHeadroom(energy'),
                 discharge |-> DischargeHeadroom(energy'), pv |-> pPv']
  BY DEF Sample
<1>9. target' + Interp(freq', Fs, DPs) \in Int
  BY <1>2, <1>3
<1> QED
  BY <1>4, <1>5, <1>6, <1>7, <1>8, <1>9 DEF Input

\* What one RUN cycle computes, as a step of the law.
LEMMA RunStep ==
    ASSUME TypeOK, Run
    PROVE  \E in \in Input :
              /\ edge' = Compute(in, edge)
              /\ edge' \in ControlState
              /\ outside' = IF InWindow(in, edge'.setpoint) THEN 0 ELSE outside + 1
<1>1. StepPlant /\ UNCHANGED environment
  BY DEF Run
<1>2. Sample' \in Input
  BY <1>1, SampleInput
<1>3. edge \in ControlState
  BY DEF TypeOK
<1>4. Compute(Sample', edge) \in ControlState
  BY <1>2, <1>3, ComputeState
<1>5. /\ edge' = Compute(Sample', edge)
      /\ outside' = IF InWindow(Sample', edge'.setpoint) THEN 0 ELSE outside + 1
  BY DEF Run
<1> QED
  BY <1>2, <1>4, <1>5

LEMMA SafeFacts ==
    ASSUME TypeOK, Safe
    PROVE  /\ edge' \in ControlState /\ edge'.integral = 0
           /\ edge'.setpoint = SafeSetpoint(edge.setpoint)
           /\ edge.setpoint > 0 => edge'.setpoint \in 0 .. edge.setpoint
           /\ edge.setpoint <= 0 => edge'.setpoint \in edge.setpoint .. 0
<1>1. edge.setpoint \in Int /\ SlewStep \in Nat
  BY DEF TypeOK, ControlState
<1>2. /\ edge.setpoint > 0 => SafeSetpoint(edge.setpoint) \in 0 .. edge.setpoint
      /\ edge.setpoint <= 0 => SafeSetpoint(edge.setpoint) \in edge.setpoint .. 0
  BY <1>1 DEF SafeSetpoint, Clamp
<1>3. SafeSetpoint(edge.setpoint) \in Int
  BY <1>1, <1>2
<1>4. /\ edge' = [AtRest EXCEPT !.setpoint = SafeSetpoint(edge.setpoint)]
  BY DEF Safe
<1>5. AtRest \in ControlState /\ AtRest.integral = 0
  BY DEF AtRest, ControlState
<1> QED
  BY <1>2, <1>3, <1>4, <1>5 DEF ControlState, AtRest

\* Every variable keeps its type: Init establishes it and every cycle and
\* every disturbance preserves it.
LEMMA TypeStep == TypeOK /\ [Next]_vars => TypeOK'
<1> SUFFICES ASSUME TypeOK, [Next]_vars PROVE TypeOK'
  OBVIOUS
<1>1. CASE Run
  <2>1. edge' \in ControlState /\ outside' \in Nat
    BY <1>1, RunStep DEF TypeOK
  <2>2. StepPlant /\ UNCHANGED environment
    BY <1>1 DEF Run
  <2> QED
    BY <2>1, <2>2, PlantStep DEF TypeOK, environment
<1>2. CASE Hold
  <2>1. StepPlant /\ UNCHANGED environment /\ UNCHANGED edge /\ outside' = 0
    BY <1>2 DEF Hold
  <2> QED
    BY <2>1, PlantStep DEF TypeOK, environment
<1>3. CASE Safe
  <2>1. StepPlant /\ UNCHANGED environment /\ outside' = 0
    BY <1>3 DEF Safe
  <2>2. edge' \in ControlState
    BY <1>3, SafeFacts
  <2> QED
    BY <2>1, <2>2, PlantStep DEF TypeOK, environment
<1>4. CASE Disturb
  <2>1. UNCHANGED <<plant, edge, outside>> /\ left' \in Nat
    BY <1>4 DEF Disturb, TypeOK
  <2>2. /\ load' \in Nat /\ irradiance' \in Nat /\ freq' \in Int /\ target' \in Int
        /\ mode' \in {"RUN", "HOLD", "SAFE"}
    BY <1>4, PlantAssumption DEF Disturb, TypeOK
  <2> QED
    BY <2>1, <2>2 DEF TypeOK, plant
<1>5. CASE UNCHANGED vars
  BY <1>5 DEF TypeOK, vars, environment, plant
<1> QED
  BY <1>1, <1>2, <1>3, <1>4, <1>5 DEF Next, Cycle

LEMMA TypeInit == Init => TypeOK
<1>1. AtRest \in ControlState
  BY DEF AtRest, ControlState
<1> QED
  BY <1>1, PlantAssumption DEF Init, TypeOK

\* Type correctness of the closed loop.
THEOREM TypeCorrect == Spec => []TypeOK
  BY TypeInit, TypeStep, PTL DEF Spec

-----------------------------------------------------------------------------
\* Conditional integration keeps the integral's share of the output within
\* the configured limits.
LEMMA IntegralBounded ==
    ASSUME NEW in \in Input, NEW st \in ControlState,
           KiN * st.integral <= Gain * MaxCharge,
           KiN * st.integral >= -(Gain * MaxDischarge)
    PROVE  /\ KiN * Integral(in, st) <= Gain * MaxCharge
           /\ KiN * Integral(in, st) >= -(Gain * MaxDischarge)
<1> DEFINE I == st.integral
           e == Error(in)
           J == I + e * Period
           up == Window(in).upper
           lo == Window(in).lower
<1>1. /\ I \in Int /\ e \in Int /\ J \in Int
      /\ up \in 0 .. MaxCharge /\ lo \in -MaxDischarge .. 0
  BY CandidateInt, ErrorInt, WindowRange
<1>2. Integral(in, st) = IF Frozen(in, st) THEN I ELSE J
  BY DEF Integral
<1>3. /\ Frozen(in, st) <=> \/ e > 0 /\ KpN * e + KiN * J > Gain * up
                            \/ e < 0 /\ KpN * e + KiN * J < Gain * lo
  BY DEF Frozen, Demand
<1> HIDE DEF I, e, up, lo
<1>4. Period * e = e * Period
  BY <1>1
<1>5. /\ KiN * I \in Int /\ KiN * J \in Int /\ KpN * e \in Int
      /\ Gain * up \in Int /\ Gain * lo \in Int
      /\ Gain * MaxCharge \in Int /\ Gain * MaxDischarge \in Int
  <2> HIDE DEF J
  <2>1. /\ KiN \in Int /\ KpN \in Int /\ Gain \in Int /\ up \in Int /\ lo \in Int
        /\ MaxCharge \in Int /\ MaxDischarge \in Int
    BY <1>1
  <2> QED
    BY <1>1, <2>1, ProductInt
<1>6. Gain * up <= Gain * MaxCharge
  <2>1. Gain \in Nat /\ up \in Int /\ MaxCharge \in Int /\ up <= MaxCharge
    BY <1>1
  <2> QED
    BY <2>1, ProductMonotone
<1>7. Gain * lo >= -(Gain * MaxDischarge)
  <2>1. Gain \in Nat /\ lo \in Int /\ -MaxDischarge \in Int /\ -MaxDischarge <= lo
    BY <1>1
  <2>2. Gain * (-MaxDischarge) <= Gain * lo
    BY <2>1, ProductMonotone
  <2>3. Gain * (-MaxDischarge) = -(Gain * MaxDischarge)
    OBVIOUS
  <2> QED
    BY <1>5, <2>2, <2>3
<1>8. CASE e > 0 /\ ~Frozen(in, st)
  <2>1. Period \in Nat /\ e >= 0 /\ KpN \in Nat
    BY <1>1, <1>8
  <2>2. e * Period >= 0
    BY <1>1, <1>4, <2>1, ProductSign
  <2>3. KpN * e >= 0
    BY <1>1, <2>1, ProductSign
  <2>4. e * Period \in Int
    BY <1>1, ProductInt
  <2>5. I <= J
    BY <1>1, <2>2, <2>4
  <2> HIDE DEF J
  <2>6. KiN * I <= KiN * J
    BY <1>1, <2>5, ProductMonotone
  <2>7. KpN * e + KiN * J <= Gain * up
    BY <1>3, <1>5, <1>8
  <2> QED
    BY <1>2, <1>5, <1>6, <1>8, <2>3, <2>6, <2>7 DEF I
<1>9. CASE e < 0 /\ ~Frozen(in, st)
  <2>1. Period \in Nat /\ e <= 0 /\ KpN \in Nat
    BY <1>1, <1>9
  <2>2. e * Period <= 0
    BY <1>1, <1>4, <2>1, ProductSign
  <2>3. KpN * e <= 0
    BY <1>1, <2>1, ProductSign
  <2>4. e * Period \in Int
    BY <1>1, ProductInt
  <2>5. J <= I
    BY <1>1, <2>2, <2>4
  <2> HIDE DEF J
  <2>6. KiN * J <= KiN * I
    BY <1>1, <2>5, ProductMonotone
  <2>7. KpN * e + KiN * J >= Gain * lo
    BY <1>3, <1>5, <1>9
  <2> QED
    BY <1>2, <1>5, <1>7, <1>9, <2>3, <2>6, <2>7 DEF I
<1>10. CASE Frozen(in, st)
  BY <1>2, <1>10 DEF I
<1>11. CASE e = 0
  <2>1. J = I
    BY <1>1, <1>11
  <2> QED
    BY <1>2, <2>1 DEF I
<1> QED
  BY <1>1, <1>8, <1>9, <1>10, <1>11

LEMMA WindupStep == TypeOK /\ NoWindup /\ [Next]_vars => NoWindup'
<1> SUFFICES ASSUME TypeOK, NoWindup, [Next]_vars PROVE NoWindup'
  OBVIOUS
<1>1. CASE Run
  <2>1. PICK in \in Input : edge' = Compute(in, edge)
    BY <1>1, RunStep
  <2>2. edge \in ControlState
    BY DEF TypeOK
  <2>3. edge'.integral = Integral(in, edge)
    BY <2>1 DEF Compute
  <2> QED
    BY <2>2, <2>3, IntegralBounded DEF NoWindup
<1>2. CASE Safe
  <2>1. edge'.integral = 0
    BY <1>2, SafeFacts
  <2>2. /\ KiN * 0 = 0 /\ Gain * MaxCharge >= 0 /\ Gain * MaxDischarge >= 0
        /\ Gain * MaxCharge \in Int /\ Gain * MaxDischarge \in Int
    BY ProductSign, ProductInt
  <2> QED
    BY <2>1, <2>2 DEF NoWindup
<1>3. CASE UNCHANGED edge
  BY <1>3 DEF NoWindup
<1> QED
  BY <1>1, <1>2, <1>3 DEF Next, Cycle, Hold, Disturb, vars

\* The integral is never wound up, for every gain, limit, period, site and
\* sequence of disturbances.
THEOREM NeverWindsUp == Spec => []NoWindup
<1>1. Init => NoWindup
  <2>1. AtRest.integral = 0
    BY DEF AtRest
  <2>2. /\ KiN * 0 = 0 /\ Gain * MaxCharge >= 0 /\ Gain * MaxDischarge >= 0
        /\ Gain * MaxCharge \in Int /\ Gain * MaxDischarge \in Int
    BY ProductSign, ProductInt
  <2> QED
    BY <2>1, <2>2 DEF Init, NoWindup
<1> QED
  BY <1>1, TypeCorrect, WindupStep, PTL DEF Spec

-----------------------------------------------------------------------------
\* The strengthening of OutsideIsBrief: the setpoint keeps to the configured
\* limits, and every cycle spent outside the window has brought it one slew
\* step nearer to zero.
Returning ==
    /\ edge.setpoint \in -MaxDischarge .. MaxCharge
    /\ outside > 0 =>
         \/ edge.setpoint > 0 /\ edge.setpoint + outside * SlewStep <= MaxCharge
         \/ edge.setpoint < 0 /\ outside * SlewStep - edge.setpoint <= MaxDischarge

LEMMA ReturningStep == TypeOK /\ Returning /\ [Next]_vars => Returning'
<1> SUFFICES ASSUME TypeOK, Returning, [Next]_vars PROVE Returning'
  OBVIOUS
<1>1. /\ edge \in ControlState /\ edge.setpoint \in Int /\ outside \in Nat
      /\ SlewStep \in Nat \ {0} /\ MaxCharge \in Nat /\ MaxDischarge \in Nat
  BY DEF TypeOK, ControlState
<1>2. CASE Run
  <2>1. PICK in \in Input :
           /\ edge' = Compute(in, edge)
           /\ outside' = IF InWindow(in, edge'.setpoint) THEN 0 ELSE outside + 1
    BY <1>2, RunStep
  <2> DEFINE s == edge.setpoint
             t == Setpoint(in, edge)
             lo == Window(in).lower
             up == Window(in).upper
  <2>2. edge'.setpoint = t
    BY <2>1 DEF Compute
  <2>3. PICK c \in lo .. up :
           /\ t \in Int
           /\ \/ t = c
              \/ t = s - SlewStep /\ c < s - SlewStep
              \/ t = s + SlewStep /\ c > s + SlewStep
    BY <1>1, SetpointFacts
  <2>4. lo \in -MaxDischarge .. 0 /\ up \in 0 .. MaxCharge
    BY WindowRange
  <2>5. outside' = IF lo <= t /\ t <= up THEN 0 ELSE outside + 1
    BY <2>1, <2>2 DEF InWindow
  <2>6. s \in -MaxDischarge .. MaxCharge
    BY DEF Returning
  <2>7. outside > 0 => \/ s > 0 /\ s + outside * SlewStep <= MaxCharge
                       \/ s < 0 /\ outside * SlewStep - s <= MaxDischarge
    BY DEF Returning
  <2>8. /\ (outside + 1) * SlewStep = outside * SlewStep + SlewStep
        /\ outside * SlewStep \in Int
        /\ outside = 0 => outside * SlewStep = 0
    BY <1>1, ProductNext, ProductInt
  <2> HIDE DEF s, t, lo, up
  <2>9. c \in Int /\ s \in Int /\ lo \in Int /\ up \in Int
    BY <2>3, <2>4, <2>6, <1>1
  <2>10. t \in -MaxDischarge .. MaxCharge
    BY <1>1, <2>3, <2>4, <2>6, <2>9
  <2> DEFINE k == outside * SlewStep
             m == outside' * SlewStep
  <2>11. k \in Int /\ (outside = 0 => k = 0)
    BY <2>8
  <2>12. outside' > 0 => /\ ~(lo <= t /\ t <= up)
                         /\ m = k + SlewStep
    BY <2>5, <2>8
  <2> HIDE DEF k, m
  <2>13. outside' > 0 => \/ t > 0 /\ t = s - SlewStep
                         \/ t < 0 /\ t = s + SlewStep
    BY <1>1, <2>3, <2>4, <2>9, <2>12
  <2>14. outside > 0 => \/ s > 0 /\ s + k <= MaxCharge
                        \/ s < 0 /\ k - s <= MaxDischarge
    BY <2>7 DEF k
  <2>15. outside' > 0 => \/ t > 0 /\ t + m <= MaxCharge
                         \/ t < 0 /\ m - t <= MaxDischarge
    <3>1. CASE outside = 0
      BY <1>1, <2>3, <2>6, <2>9, <2>11, <2>12, <2>13, <3>1
    <3>2. CASE outside > 0
      BY <1>1, <2>3, <2>9, <2>11, <2>12, <2>13, <2>14, <3>2
    <3> QED
      BY <1>1, <3>1, <3>2
  <2> QED
    BY <2>2, <2>10, <2>15 DEF Returning, m
<1>3. CASE Hold
  BY <1>3 DEF Hold, Returning
<1>4. CASE Safe
  <2>1. outside' = 0
    BY <1>4 DEF Safe
  <2>2. edge'.setpoint \in Int /\ edge'.setpoint \in -MaxDischarge .. MaxCharge
    BY <1>1, <1>4, SafeFacts DEF Returning
  <2> QED
    BY <2>1, <2>2 DEF Returning
<1>5. CASE UNCHANGED <<edge, outside>>
  BY <1>5 DEF Returning
<1> QED
  BY <1>2, <1>3, <1>4, <1>5 DEF Next, Cycle, Disturb, vars

\* A command that a shrinking window left outside returns within the cycles
\* the slew step needs, for every curve, limit, step and disturbance.
THEOREM OutsideReturns == Spec => []OutsideIsBrief
<1>1. Init => Returning
  BY DEF Init, Returning, AtRest
<1>2. TypeOK /\ Returning => OutsideIsBrief
  <2> SUFFICES ASSUME TypeOK, Returning PROVE OutsideIsBrief
    OBVIOUS
  <2> DEFINE k == outside * SlewStep
             s == edge.setpoint
  <2>1. outside \in Nat /\ s \in Int /\ k \in Int
    <3>1. outside \in Int /\ SlewStep \in Int
      BY DEF TypeOK
    <3> QED
      BY <3>1, ProductInt DEF TypeOK, ControlState
  <2>2. outside > 0 => \/ s > 0 /\ s + k <= MaxCharge
                       \/ s < 0 /\ k - s <= MaxDischarge
    BY DEF Returning
  <2> HIDE DEF k, s
  <2>3. outside = 0 \/ k < MaxCharge \/ k < MaxDischarge
    BY <2>1, <2>2
  <2> QED
    BY <2>3 DEF OutsideIsBrief, k
<1> QED
  BY <1>1, <1>2, TypeCorrect, ReturningStep, PTL DEF Spec


-----------------------------------------------------------------------------
(***************************************************************************)
(* The numbers and the ladder.  ControlLoop takes any output of the law    *)
(* that is inside the battery's power and one slew step from the last; a   *)
(* cycle of the closed loop does nothing else.  What was commanded last is *)
(* what is in force; reactive power, times and snapshots have no part.     *)
(***************************************************************************)
MaxPower == IF MaxCharge >= MaxDischarge THEN MaxCharge ELSE MaxDischarge

Loop == INSTANCE ControlLoop WITH
    MaxKw <- MaxPower, MaxKvar <- 0, Step <- SlewStep, Full <- One,
    HoldMax <- 0, Period <- 1, None <- "none",
    snap <- "none", heldFor <- 0, sinceCycle <- 0, frozenAge <- 0, blind <- FALSE,
    edge <- [battery |-> edge.setpoint, derate |-> edge.derate, curtail |-> edge.curtail],
    lastQ <- 0,
    lastPub <- [pv |-> edge.curtail, flexible_load |-> edge.derate],
    wire <- [battery |-> edge.setpoint, reactive |-> 0,
             pv |-> edge.curtail, flexible_load |-> edge.derate]

\* A new setpoint is one slew step from the last at most.
LEMMA RunSlews ==
    ASSUME TypeOK, Run
    PROVE  edge' \in ControlState /\ edge'.setpoint - edge.setpoint \in -SlewStep .. SlewStep
<1>1. PICK in \in Input : edge' = Compute(in, edge) /\ edge' \in ControlState
  BY RunStep
<1>2. edge \in ControlState /\ edge.setpoint \in Int /\ SlewStep \in Nat
  BY DEF TypeOK, ControlState
<1>3. edge'.setpoint = Setpoint(in, edge)
  BY <1>1 DEF Compute
<1>4. Setpoint(in, edge) \in edge.setpoint - SlewStep .. edge.setpoint + SlewStep
  <2> DEFINE pi == Demand(in, Integral(in, edge)) \div Gain
             c == Clamp(pi, Window(in).lower, Window(in).upper)
             low == edge.setpoint - SlewStep
             high == edge.setpoint + SlewStep
  <2>1. pi \in Int
    <3>1. Demand(in, Integral(in, edge)) \in Int
      BY <1>2, CandidateInt, DemandInt
    <3> QED
      BY <3>1, DivInt
  <2>2. Window(in).lower \in Int /\ Window(in).upper \in Int
    BY WindowRange
  <2>3. low \in Int /\ high \in Int /\ low <= high
    BY <1>2
  <2>4. Setpoint(in, edge) = Clamp(c, low, high)
    BY DEF Setpoint
  <2> HIDE DEF pi, low, high
  <2>5. c \in Int
    BY <2>1, <2>2, ClampInt
  <2> HIDE DEF c
  <2> QED
    BY <2>3, <2>4, <2>5, ClampRange DEF low, high
<1> QED
  BY <1>1, <1>2, <1>3, <1>4

\* A cycle's commands are what its branch of ControlLoop allows: a RUN cycle
\* that computes them is a step of Regulate, whatever plant, droop and integral
\* come to; HOLD freezes them and SAFE ramps and releases.
CyclesOfTheLoop ==
    /\ Run => Loop!Regulate
    /\ Hold => Loop!Freeze
    /\ Safe => Loop!FailSafe

LEMMA CycleSteps ==
    ASSUME TypeOK, Returning, Returning', [Next]_vars
    PROVE  CyclesOfTheLoop
<1>1. /\ edge \in ControlState /\ edge.setpoint \in Int /\ SlewStep \in Nat
      /\ One \in Nat /\ MaxCharge \in Nat /\ MaxDischarge \in Nat
  BY DEF TypeOK, ControlState
<1>2. ASSUME Run PROVE Loop!Regulate
  <2> DEFINE b == edge'.setpoint
             derate == edge'.derate
             curtail == edge'.curtail
  <2>1. edge' \in ControlState /\ b - edge.setpoint \in -SlewStep .. SlewStep
    BY <1>2, RunSlews
  <2>2. b \in -MaxPower .. MaxPower
    BY <1>1 DEF Returning, MaxPower
  <2>3. derate \in 0 .. One /\ curtail \in 0 .. One
    BY <2>1 DEF ControlState
  <2>4. b \in Loop!Kw /\ 0 \in Loop!Kvar /\ derate \in Loop!Factor /\ curtail \in Loop!Factor
    BY <2>2, <2>3 DEF Loop!Kw, Loop!Kvar, Loop!Factor
  <2>5. Loop!Abs(b - edge.setpoint) <= SlewStep
    BY <1>1, <2>1 DEF Loop!Abs
  <2>6. Loop!Publish(b, 0, curtail, derate)
    BY DEF Loop!Publish, Loop!Changed
  <2> QED
    BY <2>4, <2>5, <2>6 DEF Loop!Regulate
<1>3. ASSUME Hold PROVE Loop!Freeze
  BY <1>3 DEF Hold, Loop!Freeze, Loop!Publish, Loop!Changed
<1>4. ASSUME Safe PROVE Loop!FailSafe
  <2>1. SafeSetpoint(edge.setpoint) = Loop!SafeBatterySetpoint(edge.setpoint)
    BY <1>1 DEF SafeSetpoint, Clamp, Loop!SafeBatterySetpoint
  <2>2. /\ edge'.setpoint = Loop!SafeBatterySetpoint(edge.setpoint)
        /\ edge'.derate = One /\ edge'.curtail = One
    BY <1>4, <2>1 DEF Safe, AtRest
  <2>3. Loop!Publish(edge'.setpoint, 0, One, One)
    BY <2>2 DEF Loop!Publish, Loop!Changed
  <2> QED
    BY <2>2, <2>3 DEF Loop!FailSafe
<1> QED
  BY <1>2, <1>3, <1>4 DEF CyclesOfTheLoop

\* In every behaviour of the closed loop each cycle is one of ControlLoop's: the
\* law never leaves the battery's power nor a slew step.
THEOREM SpecCycles == Spec => [][CyclesOfTheLoop]_vars
<1>1. Init => Returning
  BY DEF Init, Returning, AtRest
<1>2. TypeOK /\ Returning /\ Returning' /\ [Next]_vars => [CyclesOfTheLoop]_vars
  BY CycleSteps
<1> QED
  BY <1>1, <1>2, TypeCorrect, ReturningStep, PTL DEF Spec
================================================================================
