--------------------------- MODULE ControlLoopProofs ---------------------------
(***************************************************************************)
(* Proofs about ControlLoop for every window, slew step, hold time and     *)
(* period.  The inductive invariant adds to WireAgrees that _last_pub is   *)
(* what went out last: without it nothing says that skipping a message     *)
(* which "did not change" leaves the right factor in force.                *)
(***************************************************************************)
EXTENDS ControlLoop, TLAPS

LastPubIsWire ==
    /\ lastPub.pv = wire.pv
    /\ lastPub.flexible_load = wire.flexible_load

IInv ==
    /\ TypeOK
    /\ WireAgrees
    /\ SafeReleases
    /\ LastPubIsWire

--------------------------------------------------------------------------------
(* Helpers *)

\* The ramp of SAFE stays in the window, moves by at most one slew step, never
\* grows and never changes sign.
LEMMA SafeRamp ==
    ASSUME NEW last \in Kw
    PROVE  /\ SafeBatterySetpoint(last) \in Kw
           /\ Abs(SafeBatterySetpoint(last) - last) <= Step
           /\ Abs(SafeBatterySetpoint(last)) <= Abs(last)
           /\ ~(last > 0 /\ SafeBatterySetpoint(last) < 0)
           /\ ~(last < 0 /\ SafeBatterySetpoint(last) > 0)
BY ControlLoopAssumption DEF SafeBatterySetpoint, Kw, Abs

\* Publishing on change leaves exactly the factors it was given in force.
LEMMA PublishSettles ==
    ASSUME LastPubIsWire,
           NEW b \in Kw, NEW q \in Kvar, NEW curtail \in Factor, NEW derate \in Factor,
           Publish(b, q, curtail, derate)
    PROVE  /\ wire' = [battery |-> b, reactive |-> q,
                       pv |-> curtail, flexible_load |-> derate]
           /\ lastPub' = [pv |-> curtail, flexible_load |-> derate]
           /\ lastQ' = q
<1>1. /\ (~Changed("pv", curtail) => wire.pv = curtail)
      /\ (~Changed("flexible_load", derate) => wire.flexible_load = derate)
  BY DEF Changed, LastPubIsWire
<1> QED
  BY <1>1 DEF Publish

\* The ladder stays on its three rungs and keeps its clock in range; it rests
\* in RUN only on fresh data.
LEMMA LadderType ==
    ASSUME TypeOK, UpdateMode
    PROVE  /\ mode' \in Modes
           /\ heldFor' \in 0..HoldMax
           /\ mode' = "RUN" => DataFresh(snap)
<1>1. 0 \in 0..HoldMax
  BY ControlLoopAssumption
<1> QED
  BY <1>1 DEF TypeOK, UpdateMode, Modes

--------------------------------------------------------------------------------
\* The controller starts with nothing commanded and nothing remembered.
LEMMA InitIInv == Init => IInv
<1> SUFFICES ASSUME Init PROVE IInv
  OBVIOUS
<1>1. /\ 0 \in Kw /\ 0 \in Kvar /\ Full \in Factor
      /\ 0 \in 0..HoldMax /\ 0 \in 0..Period /\ 0 \in 0..FrozenCap
  BY ControlLoopAssumption DEF Kw, Kvar, Factor, FrozenCap
<1>2. TypeOK
  BY <1>1 DEF Init, TypeOK, Modes
<1> QED
  BY <1>2 DEF Init, IInv, WireAgrees, SafeReleases, LastPubIsWire

\* A cycle in RUN commands what it remembers.
LEMMA RegulateIInv ==
    ASSUME IInv, UpdateMode, mode' = "RUN", Regulate, sinceCycle' = 0, UNCHANGED snap
    PROVE  IInv'
<1>1. PICK b \in Kw, q \in Kvar, derate \in Factor, curtail \in Factor :
        /\ edge' = [battery |-> b, derate |-> derate, curtail |-> curtail]
        /\ Publish(b, q, curtail, derate)
        /\ frozenAge' = 0
        /\ blind' = FALSE
  BY DEF Regulate
<1>2. /\ wire' = [battery |-> b, reactive |-> q,
                  pv |-> curtail, flexible_load |-> derate]
      /\ lastPub' = [pv |-> curtail, flexible_load |-> derate]
      /\ lastQ' = q
  BY <1>1, PublishSettles DEF IInv
<1>3. /\ mode' \in Modes /\ heldFor' \in 0..HoldMax
  BY LadderType DEF IInv
<1>4. 0 \in 0..Period /\ 0 \in 0..FrozenCap
  BY ControlLoopAssumption DEF FrozenCap
<1>5. TypeOK'
  BY <1>1, <1>2, <1>3, <1>4 DEF IInv, TypeOK
<1> QED
  BY <1>1, <1>2, <1>5 DEF IInv, WireAgrees, SafeReleases, LastPubIsWire

\* A cycle in HOLD repeats what it remembers.
LEMMA FreezeIInv ==
    ASSUME IInv, UpdateMode, mode' = "HOLD", Freeze, sinceCycle' = 0, UNCHANGED snap
    PROVE  IInv'
<1>1. /\ edge \in [battery : Kw, derate : Factor, curtail : Factor]
      /\ lastQ \in Kvar
  BY DEF IInv, TypeOK
<1>2. /\ wire' = [battery |-> edge.battery, reactive |-> lastQ,
                  pv |-> edge.curtail, flexible_load |-> edge.derate]
      /\ lastPub' = [pv |-> edge.curtail, flexible_load |-> edge.derate]
      /\ lastQ' = lastQ
  BY <1>1, PublishSettles DEF IInv, Freeze
<1>3. /\ mode' \in Modes /\ heldFor' \in 0..HoldMax
  BY LadderType DEF IInv
<1>4. 0 \in 0..Period
  BY ControlLoopAssumption
<1>5. TypeOK'
  BY <1>1, <1>2, <1>3, <1>4 DEF IInv, TypeOK, Freeze
<1> QED
  BY <1>1, <1>2, <1>5 DEF IInv, WireAgrees, SafeReleases, LastPubIsWire, Freeze

\* A cycle in SAFE writes its override into the remembered state too.
LEMMA FailSafeIInv ==
    ASSUME IInv, UpdateMode, mode' = "SAFE", FailSafe, sinceCycle' = 0, UNCHANGED snap
    PROVE  IInv'
<1> DEFINE b == SafeBatterySetpoint(edge.battery)
<1>1. edge.battery \in Kw
  BY DEF IInv, TypeOK
<1>2. b \in Kw /\ 0 \in Kvar /\ Full \in Factor
  BY <1>1, SafeRamp, ControlLoopAssumption DEF Kvar, Factor
<1>3. /\ edge' = [battery |-> b, derate |-> Full, curtail |-> Full]
      /\ Publish(b, 0, Full, Full)
      /\ UNCHANGED <<frozenAge, blind>>
  BY DEF FailSafe
<1> HIDE DEF b
<1>4. /\ wire' = [battery |-> b, reactive |-> 0, pv |-> Full, flexible_load |-> Full]
      /\ lastPub' = [pv |-> Full, flexible_load |-> Full]
      /\ lastQ' = 0
  BY <1>2, <1>3, PublishSettles DEF IInv
<1>5. /\ mode' \in Modes /\ heldFor' \in 0..HoldMax
  BY LadderType DEF IInv
<1>6. 0 \in 0..Period
  BY ControlLoopAssumption
<1>7. TypeOK'
  BY <1>2, <1>3, <1>4, <1>5, <1>6 DEF IInv, TypeOK
<1> QED
  BY <1>3, <1>4, <1>7 DEF IInv, WireAgrees, SafeReleases, LastPubIsWire

\* Every step keeps the invariant.
LEMMA NextIInv == IInv /\ [Next]_vars => IInv'
<1> SUFFICES ASSUME IInv, [Next]_vars PROVE IInv'
  OBVIOUS
<1>1. CASE RunOnce
  <2>1. CASE mode' = "RUN" /\ Regulate
    BY <1>1, <2>1, RegulateIInv DEF RunOnce
  <2>2. CASE mode' = "HOLD" /\ Freeze
    BY <1>1, <2>2, FreezeIInv DEF RunOnce
  <2>3. CASE mode' = "SAFE" /\ FailSafe
    BY <1>1, <2>3, FailSafeIInv DEF RunOnce
  <2> QED
    BY <1>1, <2>1, <2>2, <2>3 DEF RunOnce
<1>2. CASE CycleRaises
  BY <1>2, ControlLoopAssumption
     DEF CycleRaises, IInv, TypeOK, WireAgrees, SafeReleases, LastPubIsWire
<1>3. CASE Observe
  BY <1>3 DEF Observe, IInv, TypeOK, WireAgrees, SafeReleases, LastPubIsWire
<1>4. CASE Tick
  <2>1. /\ sinceCycle' \in 0..Period
        /\ heldFor' \in 0..HoldMax
        /\ frozenAge' \in 0..FrozenCap
    BY <1>4, ControlLoopAssumption DEF Tick, IInv, TypeOK, FrozenCap, Smaller
  <2> QED
    BY <1>4, <2>1 DEF Tick, IInv, TypeOK, WireAgrees, SafeReleases, LastPubIsWire
<1>5. CASE UNCHANGED vars
  BY <1>5 DEF vars, IInv, TypeOK, WireAgrees, SafeReleases, LastPubIsWire
<1> QED
  BY <1>1, <1>2, <1>3, <1>4, <1>5 DEF Next, Cycle

\* The inductive invariant holds of every reachable state.
THEOREM SpecIInv == Spec => []IInv
<1> QED
  BY InitIInv, NextIInv, PTL DEF Spec

\* The variables keep their types: in particular every battery setpoint is in
\* the window, in every mode.
THEOREM SpecTypeOK == Spec => []TypeOK
<1>1. IInv => TypeOK
  BY DEF IInv
<1> QED
  BY <1>1, SpecIInv, PTL

\* What the controller would freeze in HOLD or ramp from in SAFE is what it
\* last commanded.
THEOREM SpecWireAgrees == Spec => []WireAgrees
<1>1. IInv => WireAgrees
  BY DEF IInv
<1> QED
  BY <1>1, SpecIInv, PTL

\* No mitigation and no reactive power is left in force in SAFE.
THEOREM SpecSafeReleases == Spec => []SafeReleases
<1>1. IInv => SafeReleases
  BY DEF IInv
<1> QED
  BY <1>1, SpecIInv, PTL

--------------------------------------------------------------------------------
\* A cycle's commands, by the rung it ended on.
LEMMA CycleCommands ==
    ASSUME IInv, RunOnce
    PROVE  \/ /\ DataFresh(snap)
              /\ wire'.battery \in Kw
              /\ Abs(wire'.battery - wire.battery) <= Step
           \/ wire' = [battery |-> wire.battery, reactive |-> lastQ,
                       pv |-> edge.curtail, flexible_load |-> edge.derate]
           \/ wire' = [battery |-> SafeBatterySetpoint(wire.battery), reactive |-> 0,
                       pv |-> Full, flexible_load |-> Full]
<1>1. /\ edge \in [battery : Kw, derate : Factor, curtail : Factor]
      /\ lastQ \in Kvar /\ 0 \in Kvar /\ Full \in Factor
      /\ wire.battery = edge.battery
      /\ SafeBatterySetpoint(edge.battery) \in Kw
  BY SafeRamp, ControlLoopAssumption DEF IInv, TypeOK, WireAgrees, Kvar, Factor
<1>2. CASE mode' = "RUN" /\ Regulate
  <2>1. PICK b \in Kw, q \in Kvar, derate \in Factor, curtail \in Factor :
          /\ Abs(b - edge.battery) <= Step
          /\ Publish(b, q, curtail, derate)
    BY <1>2 DEF Regulate
  <2>2. wire'.battery = b
    BY <2>1, PublishSettles DEF IInv
  <2>3. DataFresh(snap)
    BY <1>2, LadderType DEF RunOnce, IInv
  <2> QED
    BY <1>1, <2>1, <2>2, <2>3
<1>3. CASE mode' = "HOLD" /\ Freeze
  BY <1>1, <1>3, PublishSettles DEF IInv, Freeze
<1>4. CASE mode' = "SAFE" /\ FailSafe
  BY <1>1, <1>4, PublishSettles DEF IInv, FailSafe
<1> QED
  BY <1>2, <1>3, <1>4 DEF RunOnce

\* Only a completed cycle commands anything.
LEMMA OnlyCyclesCommand ==
    ASSUME [Next]_vars, ~RunOnce
    PROVE  wire' = wire
BY DEF Next, Cycle, CycleRaises, Observe, Tick, vars

\* A command repeated is within any slew step.
LEMMA StandingStillIsSlow ==
    ASSUME NEW b \in Kw
    PROVE  Abs(b - b) <= Step
BY ControlLoopAssumption DEF Abs, Kw

\* Consecutive battery commands never differ by more than one slew step.
THEOREM SpecSlewLimited == Spec => SlewLimited
<1>1. ASSUME IInv, [Next]_vars
      PROVE  Abs(wire'.battery - wire.battery) <= Step
  <2>1. wire.battery \in Kw
    BY <1>1 DEF IInv, TypeOK
  <2>2. CASE RunOnce
    BY <1>1, <2>1, <2>2, CycleCommands, SafeRamp, StandingStillIsSlow
  <2>3. CASE ~RunOnce
    BY <1>1, <2>1, <2>3, OnlyCyclesCommand, StandingStillIsSlow
  <2> QED
    BY <2>2, <2>3
<1> QED
  BY <1>1, SpecIInv, PTL DEF Spec, SlewLimited

\* Repeating or backing off the last command is what bad data allows.
LEMMA HoldingBacksOff ==
    ASSUME IInv
    PROVE  /\ BacksOff(wire, wire)
           /\ BacksOff(wire, [battery |-> wire.battery, reactive |-> lastQ,
                              pv |-> edge.curtail, flexible_load |-> edge.derate])
<1>1. /\ edge.curtail \in Int /\ edge.derate \in Int /\ wire.battery \in Int
      /\ wire.pv = None \/ wire.pv = edge.curtail
      /\ wire.flexible_load = None \/ wire.flexible_load = edge.derate
  BY DEF IInv, TypeOK, WireAgrees, Factor, Kw
<1> QED
  BY <1>1 DEF BacksOff, Abs

\* So does the ramp of SAFE.
LEMMA RampingBacksOff ==
    ASSUME IInv
    PROVE  BacksOff(wire, [battery |-> SafeBatterySetpoint(wire.battery), reactive |-> 0,
                           pv |-> Full, flexible_load |-> Full])
<1>1. /\ wire.battery \in Kw
      /\ wire.pv = None \/ wire.pv \in 0..Full
      /\ wire.flexible_load = None \/ wire.flexible_load \in 0..Full
  BY DEF IInv, TypeOK, Factor
<1>2. \A f \in 0..Full : Full >= f
  BY ControlLoopAssumption
<1> QED
  BY <1>1, <1>2, SafeRamp DEF BacksOff

\* On bad data the controller can only hold or back off.
THEOREM SpecNoNewCommandOnBadData == Spec => NoNewCommandOnBadData
<1>1. ASSUME IInv, [Next]_vars, Unusable(snap)
      PROVE  BacksOff(wire, wire')
  <2>1. ~DataFresh(snap) \/ snap = Unreadable
    BY <1>1 DEF Unusable, DataFresh, BatteryOk
  <2>2. CASE RunOnce
    <3>1. ~DataFresh(snap)
      BY <2>1, <2>2 DEF RunOnce
    <3> QED
      BY <1>1, <2>2, <3>1, CycleCommands, HoldingBacksOff, RampingBacksOff
  <2>3. CASE ~RunOnce
    BY <1>1, <2>3, OnlyCyclesCommand, HoldingBacksOff
  <2> QED
    BY <2>2, <2>3
<1> QED
  BY <1>1, SpecIInv, PTL DEF Spec, NoNewCommandOnBadData

--------------------------------------------------------------------------------
(* How old a frozen command may be, when no cycle has raised since it was   *)
(* computed.  The age of the command is bounded by the time since the last  *)
(* cycle in RUN, and by the time held plus one period in HOLD; both bounds  *)
(* need every cycle to reach the ladder.                                    *)

AgeInv ==
    /\ mode = "RUN" /\ ~blind => frozenAge <= sinceCycle
    /\ mode = "HOLD" /\ ~HoldExpired /\ ~blind => frozenAge <= heldFor + Period

\* The first command is fresh.
LEMMA InitAgeInv == Init => AgeInv
BY DEF Init, AgeInv

\* Every step keeps the bounds.
LEMMA NextAgeInv ==
    ASSUME IInv, AgeInv, [Next]_vars
    PROVE  AgeInv'
<1>1. /\ heldFor \in 0..HoldMax /\ sinceCycle \in 0..Period
      /\ frozenAge \in 0..FrozenCap
      /\ HoldMax \in Nat /\ Period \in Nat \ {0}
  BY ControlLoopAssumption DEF IInv, TypeOK
<1>3. CASE RunOnce
  <2>1. CASE mode' = "RUN" /\ Regulate
    BY <1>1, <1>3, <2>1 DEF RunOnce, Regulate, AgeInv
  <2>2. CASE mode' = "HOLD" /\ Freeze
    <3>1. frozenAge' = frozenAge /\ blind' = blind
      BY <2>2 DEF Freeze
    <3>2. CASE mode = "RUN"
      BY <1>1, <1>3, <2>2, <3>1, <3>2 DEF RunOnce, UpdateMode, AgeInv
    <3>3. CASE mode = "HOLD" /\ ~HoldExpired
      BY <1>1, <1>3, <2>2, <3>1, <3>3 DEF RunOnce, UpdateMode, AgeInv
    <3> QED
      BY <1>3, <2>2, <3>2, <3>3 DEF RunOnce, UpdateMode
  <2>3. CASE mode' = "SAFE" /\ FailSafe
    BY <2>3 DEF AgeInv
  <2> QED
    BY <1>3, <2>1, <2>2, <2>3 DEF RunOnce
<1>4. CASE CycleRaises
  BY <1>4 DEF CycleRaises, AgeInv
<1>5. CASE Observe
  BY <1>5 DEF Observe, AgeInv, HoldExpired
<1>6. CASE Tick
  BY <1>1, <1>6 DEF Tick, AgeInv, HoldExpired, Smaller, FrozenCap
<1>7. CASE UNCHANGED vars
  BY <1>7 DEF vars, AgeInv, HoldExpired
<1> QED
  BY <1>3, <1>4, <1>5, <1>6, <1>7 DEF Next, Cycle

\* Unless a cycle has raised since it was computed, HOLD never repeats a
\* command older than hold_max_s and one cycle.
THEOREM SpecFrozenCommandBounded == Spec => FrozenCommandBounded
<1>1. ASSUME IInv, AgeInv, RunOnce, mode' = "HOLD", HoldMax > 0, ~blind
      PROVE  frozenAge < HoldMax + Period
  <2>1. /\ heldFor \in 0..HoldMax /\ sinceCycle \in 0..Period
        /\ frozenAge \in 0..FrozenCap
        /\ HoldMax \in Nat /\ Period \in Nat \ {0}
    BY <1>1, ControlLoopAssumption DEF IInv, TypeOK
  <2>2. mode = "RUN" \/ (mode = "HOLD" /\ ~HoldExpired)
    BY <1>1 DEF RunOnce, UpdateMode
  <2> QED
    BY <1>1, <2>1, <2>2 DEF AgeInv, HoldExpired
<1>2. Spec => []AgeInv
  BY InitAgeInv, NextAgeInv, SpecIInv, PTL DEF Spec
<1>3. IInv /\ AgeInv => [RunOnce /\ mode' = "HOLD" /\ HoldMax > 0 /\ ~blind
                           => frozenAge < HoldMax + Period]_vars
  BY <1>1
<1> QED
  BY <1>2, <1>3, SpecIInv, PTL DEF Spec, FrozenCommandBounded
================================================================================
