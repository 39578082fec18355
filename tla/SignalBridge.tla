---------------------------- MODULE SignalBridge ----------------------------
(***************************************************************************)
(* The bridge between the Typhoon model and the controller                 *)
(* (signal_bridge.py): each tick copies the model's signals into the       *)
(* registers of one Modbus server per asset and the setpoint registers     *)
(* into the model's inputs, converting sign and scale.  Assets can be      *)
(* dropped and restored, profiles and a slider drive the model.            *)
(*                                                                         *)
(* The model runs on its own hardware: it moves between any two signals    *)
(* a tick reads.  Its blocks use generator convention (positive injects),  *)
(* the registers load convention.  Powers are in kW, references per unit   *)
(* as fractions of One.  The environment acts at most Disturbances times.  *)
(***************************************************************************)
EXTENDS ModbusCodec, FiniteSets

CONSTANTS
    One,            \* 1.0 per unit, and no derating
    Base,           \* pu base of the battery, the PV plant and the load
    MaxCharge, MaxDischarge, MinSoc, MaxSoc,    \* the battery's limits
    Socs,           \* states of charge met
    Setpoints, Factors, Irradiances, Demands,   \* what core, profile and slider choose
    Disturbances,   \* bound: acts of the environment
    Nan, None

Assets == {"pcc", "bess", "pv", "load"}
Blocks == Assets \ {"pcc"}  \* the assets with an Enable input

ASSUME BridgeAssumption ==
    /\ One \in Nat \ {0} /\ Base \in [Blocks -> Nat \ {0}]
    /\ MaxCharge \in Nat /\ MaxDischarge \in Nat /\ Socs \subseteq Nat
    /\ MinSoc \in Nat /\ MaxSoc \in Nat /\ Nan \notin Int /\ None \notin Int
    /\ Setpoints \subseteq Int /\ Factors \subseteq 0 .. One
    /\ Irradiances \subseteq 0 .. One /\ Demands \subseteq Nat
    /\ Disturbances \in Nat

VARIABLES
    input,      \* the model's SCADA inputs
    soc,        \* of the model's battery
    out,        \* the blocks' power, generator convention; the load's consumption
    glitch,     \* what the signals show: "none", or a transient "nan", "negative", "high"
    reg,        \* the registers: asset -> point -> value
    active,     \* the assets that tick serves
    task,       \* the server task held for each asset: "none", "new", "serving", "failed"
    closing,    \* servers whose task is being cancelled
    orphan,     \* servers nobody holds a task of any more
    base,       \* _load_base_fraction
    reader,     \* the cached slider reader: "unset", "found", "none"
    slider,     \* the operator's slider, None while it cannot be read
    turn,       \* the next asset of the tick, or "off", "asleep", "crashed", "ended"
    running,    \* the simulation runs
    owned,      \* the bridge itself started it
    still,      \* nothing but the tick has changed anything since it began
    left        \* acts left

model == <<input, soc, out, glitch>>
servers == <<active, task, closing, orphan>>
vars == <<model, reg, servers, base, reader, slider, turn, running, owned, still, left>>

Limit(x, lo, hi) == IF x < lo THEN lo ELSE IF x > hi THEN hi ELSE x

-----------------------------------------------------------------------------
(***************************************************************************)
(* The model: what its blocks settle at.  The battery follows its          *)
(* reference in grid-following mode, inside its own state-of-charge limits.*)
(***************************************************************************)
Room(s) ==
    [charge |-> IF s < input.maxSoc THEN MaxCharge ELSE 0,
     discharge |-> IF s > input.minSoc THEN MaxDischarge ELSE 0]
Settled ==
    [bess |-> IF input.enable["bess"] /\ input.following
              THEN Limit((input.pref * Base["bess"]) \div One, -Room(soc).charge, Room(soc).discharge)
              ELSE 0,
     pv |-> IF input.enable["pv"]
            THEN (Limit(input.irradiance, 0, input.curtail) * Base["pv"]) \div One ELSE 0,
     load |-> IF input.enable["load"] THEN (input.demand * Base["load"]) \div One ELSE 0]
\* The meter wired from the grid to the bus, in W.
MeterW == IF input.closed THEN 1000 * (out.load - out.bess - out.pv) ELSE 0

\* An analog signal as the API reads it; a high transient is beyond every register.
Beyond == 1000 * Radix * Radix
Signal(v) ==
    CASE glitch = "nan" -> Nan
      [] glitch = "negative" -> -v - 1
      [] glitch = "high" -> Beyond
      [] OTHER -> v

-----------------------------------------------------------------------------
(***************************************************************************)
(* Reading and writing registers.  A value that its register cannot hold   *)
(* raises, and that ends the bridge.                                       *)
(***************************************************************************)
\* Not a number reads 0; what goes to an unsigned register has a floor.
NoFloor == None
\* A bug: the floor is ignored.
ReadMeasUnclamped(v, floor) == IF Signal(v) = Nan THEN 0 ELSE Signal(v)
ReadMeas(v, floor) ==
    IF Signal(v) = Nan THEN 0
    ELSE IF floor # NoFloor /\ Signal(v) < floor THEN floor ELSE Signal(v)

RegisterType == [soc |-> "uint16", hz |-> "uint32", power |-> "int16",
                 charge |-> "int16", discharge |-> "int16"]
FitsAll(values) == \A p \in DOMAIN values : Fits(RegisterType[p], values[p])
\* The measured registers of asset a, the setpoint registers kept.
Pushed(a, values) ==
    [reg EXCEPT ![a] = [p \in DOMAIN @ |-> IF p \in DOMAIN values THEN values[p] ELSE @[p]]]

PccSign == 1
BessSign == -1
PvSign == -1

PccValues == [hz |-> ReadMeas(50, 0), power |-> PccSign * (ReadMeas(MeterW, NoFloor) \div 1000)]
BessValues ==
    LET s == ReadMeas(soc, 0)
    IN  [soc |-> s, power |-> BessSign * ReadMeas(out.bess, NoFloor),
         charge |-> IF s < MaxSoc THEN MaxCharge ELSE 0,
         discharge |-> IF s > MinSoc THEN MaxDischarge ELSE 0]
PvValues == [power |-> PvSign * ReadMeas(out.pv, NoFloor)]
LoadValues == [power |-> ReadMeas(out.load, NoFloor)]

\* A bug: the setpoint keeps the sign of the register.
BessReferenceUnsigned(kw) == (kw * One) \div Base["bess"]
BessReference(kw) == (BessSign * kw * One) \div Base["bess"]
PvCurtailment(derate) == Limit(derate, 0, One)

\* The slider, through a reader that is looked for once.
Reader == IF reader = "unset" THEN IF slider = None THEN "none" ELSE "found" ELSE reader
ReadSlider == IF Reader = "found" THEN slider ELSE None
LoadBase == IF ReadSlider = None THEN base ELSE (ReadSlider * One) \div Base["load"]
LoadReference(derate) == Limit((LoadBase * derate) \div One, 0, One)

-----------------------------------------------------------------------------
(***************************************************************************)
(* The bridge's life: it takes a simulation that runs or starts one,       *)
(* preconditions the battery, creates the server tasks and ticks at once,  *)
(* after what a profile's first rows or the command line set.              *)
(***************************************************************************)
Off == [a \in Assets |-> FALSE]
Quiet == \A b \in Blocks : ~input.enable[b] => out[b] = 0

\* The base demands a profile or the command line asks for.
Bases == {(d * One) \div Base["load"] : d \in Demands}

Start ==
    /\ turn = "off"
    /\ running' = TRUE /\ owned' = ~running
    /\ \E v \in Irradiances \cup {input.irradiance} :
        input' = [input EXCEPT !.following = TRUE, !.maxSoc = MaxSoc, !.minSoc = MinSoc,
                               !.irradiance = v]
    /\ base' \in Bases \cup {base}
    /\ task' = [a \in Assets |-> "new"]
    /\ turn' = "pcc" /\ still' = Quiet
    /\ UNCHANGED <<soc, out, glitch, reg, active, closing, orphan, reader, slider, left>>

\* Nothing runs and the API cannot start it.
StartFails ==
    /\ turn = "off" /\ ~running /\ turn' = "ended"
    /\ UNCHANGED <<model, reg, servers, base, reader, slider, running, owned, still, left>>

\* However the loop ends, every task is cancelled.
Leave(how) ==
    /\ turn' = how
    /\ task' = [a \in Assets |-> "none"] /\ closing' = Off /\ orphan' = Off
    /\ running' = (running /\ ~owned)

End ==
    /\ turn = "asleep" /\ Leave("ended")
    /\ UNCHANGED <<model, reg, active, base, reader, slider, owned, still, left>>

\* The tasks created or cancelled since get their turn; a port still taken by a
\* server nobody holds is not to be had. A cancelled task closes its listener and
\* its connections, as drop_asset relies on.
LoopRuns ==
    /\ turn = "asleep"
    /\ closing' = Off
    /\ task' = [a \in Assets |-> IF task[a] # "new" THEN task[a]
                                 ELSE IF orphan[a] THEN "failed" ELSE "serving"]
    /\ task' # task \/ closing' # closing
    /\ UNCHANGED <<model, reg, active, orphan, base, reader, slider, turn, running, owned, still, left>>
Pending == closing # Off \/ \E a \in Assets : task[a] = "new"

BeginTick ==
    /\ turn = "asleep" /\ ~Pending
    /\ turn' = "pcc" /\ still' = Quiet
    /\ UNCHANGED <<model, reg, servers, base, reader, slider, running, owned, left>>

-----------------------------------------------------------------------------
\* One asset's part of the tick: its measurements into its registers, and its
\* setpoints into the model; a measurement that does not fit ends the bridge.
Push(a, values, next) ==
    /\ turn = a
    /\ IF FitsAll(values)
       THEN /\ reg' = Pushed(a, values) /\ turn' = next
            /\ UNCHANGED <<servers, running>>
       ELSE Leave("crashed") /\ UNCHANGED <<reg, active>>
    /\ UNCHANGED <<soc, out, glitch, slider, owned, still, left>>
Pulled(a, i) == input' = IF FitsAll(a) THEN i ELSE input
Skip(a, next) ==
    /\ turn = a /\ ~active[a] /\ turn' = next
    /\ UNCHANGED <<model, reg, servers, base, reader, slider, running, owned, still, left>>

PushPcc ==
    /\ Push("pcc", PccValues, "bess")
    /\ UNCHANGED <<input, base, reader>>
PushPullBess ==
    /\ active["bess"] /\ Push("bess", BessValues, "pv")
    /\ Pulled(BessValues, [input EXCEPT !.pref = BessReference(reg["bess"].sp)])
    /\ UNCHANGED <<base, reader>>
PushPullPv ==
    /\ active["pv"] /\ Push("pv", PvValues, "load")
    /\ Pulled(PvValues, [input EXCEPT !.curtail = PvCurtailment(reg["pv"].sp)])
    /\ UNCHANGED <<base, reader>>
PushPullLoad ==
    /\ active["load"] /\ Push("load", LoadValues, "asleep")
    /\ Pulled(LoadValues, [input EXCEPT !.demand = LoadReference(reg["load"].sp)])
    /\ IF FitsAll(LoadValues) THEN base' = LoadBase /\ reader' = Reader
       ELSE UNCHANGED <<base, reader>>
SkipInactive == Skip("bess", "pv") \/ Skip("pv", "load") \/ Skip("load", "asleep")

-----------------------------------------------------------------------------
\* The environment acts, and what the tick brought is no longer all there is.
Acts == left > 0 /\ left' = left - 1 /\ still' = FALSE
Between == turn = "asleep" /\ Acts

\* A bug: the task is forgotten, not cancelled.
DropAssetStillServed(a) ==
    /\ Between
    /\ active' = [active EXCEPT ![a] = FALSE]
    /\ input' = IF a \in Blocks THEN [input EXCEPT !.enable[a] = FALSE] ELSE input
    /\ UNCHANGED <<soc, out, glitch, reg, task, closing, orphan, base, reader, slider, turn, running, owned>>
DropAsset(a) ==
    /\ Between
    /\ active' = [active EXCEPT ![a] = FALSE]
    /\ input' = IF a \in Blocks THEN [input EXCEPT !.enable[a] = FALSE] ELSE input
    /\ task' = [task EXCEPT ![a] = "none"]
    /\ closing' = [closing EXCEPT ![a] = @ \/ task[a] = "serving"]
    /\ UNCHANGED <<soc, out, glitch, reg, orphan, base, reader, slider, turn, running, owned>>

\* Not only of an asset that was dropped: the task of one still served is forgotten.
RestoreAsset(a) ==
    /\ Between
    /\ active' = [active EXCEPT ![a] = TRUE]
    /\ input' = IF a \in Blocks THEN [input EXCEPT !.enable[a] = TRUE] ELSE input
    /\ task' = [task EXCEPT ![a] = "new"]
    /\ orphan' = [orphan EXCEPT ![a] = @ \/ task[a] \in {"new", "serving"}]
    /\ UNCHANGED <<soc, out, glitch, reg, closing, base, reader, slider, turn, running, owned>>

\* A profile's channels that reach the model, and the PCC contactor.
ApplyProfilePoint ==
    /\ Between
    /\ \/ base' \in Bases /\ UNCHANGED input
       \/ \E v \in Irradiances : input' = [input EXCEPT !.irradiance = v] /\ UNCHANGED base
    /\ UNCHANGED <<soc, out, glitch, reg, servers, reader, slider, turn, running, owned>>
SwitchPcc ==
    /\ Between
    /\ input' = [input EXCEPT !.closed = ~@]
    /\ UNCHANGED <<soc, out, glitch, reg, servers, base, reader, slider, turn, running, owned>>

\* Core writes a setpoint register of an asset that is served.
Choices(a) == IF a = "bess" THEN Setpoints ELSE Factors
CoreWrites(a) ==
    /\ Between
    /\ task[a] = "serving" \/ orphan[a]
    /\ \E v \in Choices(a) : v # reg[a].sp /\ reg' = [reg EXCEPT ![a].sp = v]
    /\ UNCHANGED <<model, servers, base, reader, slider, turn, running, owned>>

\* The operator moves the slider, or it becomes unreadable.
MoveSlider ==
    /\ Between
    /\ slider' \in (Demands \cup {None}) \ {slider}
    /\ UNCHANGED <<model, reg, servers, base, reader, turn, running, owned>>

\* The model moves, whenever it likes.
Ticking == turn \notin {"off", "crashed", "ended"}
Settle ==
    /\ Ticking /\ out # Settled
    /\ out' = Settled /\ still' = FALSE
    /\ UNCHANGED <<input, soc, glitch, reg, servers, base, reader, slider, turn, running, owned, left>>
Glitches == {"none", "nan", "negative", "high"}
Disturb ==
    /\ Ticking /\ Acts
    /\ \/ soc' \in Socs \ {soc} /\ UNCHANGED glitch
       \/ glitch' \in Glitches \ {glitch} /\ UNCHANGED soc
    /\ UNCHANGED <<input, out, reg, servers, base, reader, slider, turn, running, owned>>

-----------------------------------------------------------------------------
Init ==
    /\ input = [pref |-> 0, curtail |-> One, demand |-> 0, irradiance |-> One, closed |-> TRUE,
                enable |-> [b \in Blocks |-> TRUE], following |-> FALSE,
                maxSoc |-> 0, minSoc |-> 0]
    /\ soc \in Socs /\ out = [bess |-> 0, pv |-> 0, load |-> 0] /\ glitch = "none"
    /\ reg = [pcc |-> [hz |-> 0, power |-> 0],
              bess |-> [soc |-> 0, power |-> 0, charge |-> 0, discharge |-> 0, sp |-> 0],
              pv |-> [power |-> 0, sp |-> One], load |-> [power |-> 0, sp |-> One]]
    /\ active = [a \in Assets |-> TRUE] /\ task = [a \in Assets |-> "none"]
    /\ closing = Off /\ orphan = Off
    /\ base = 0
    /\ reader = "unset" /\ slider \in Demands \cup {None}
    /\ turn = "off" /\ running \in BOOLEAN /\ owned = FALSE
    /\ still = FALSE /\ left = Disturbances

Next ==
    \/ Start \/ StartFails \/ End \/ LoopRuns \/ BeginTick
    \/ PushPcc \/ PushPullBess \/ PushPullPv \/ PushPullLoad \/ SkipInactive
    \/ \E a \in Assets : DropAsset(a) \/ RestoreAsset(a)
    \/ \E b \in Blocks : CoreWrites(b)
    \/ ApplyProfilePoint \/ SwitchPcc \/ MoveSlider \/ Settle \/ Disturb

Spec == Init /\ [][Next]_vars

-----------------------------------------------------------------------------
(***************************************************************************)
(* After a tick in which nothing moved, the meter's register is the sum of *)
(* the others, all in load convention; and once the model has settled, the *)
(* battery does what core asked inside the headroom it reports, the PV     *)
(* plant feeds what irradiance and derating leave, the load draws its      *)
(* demand derated (the sign and scale table of signal_bridge.py:8-29).     *)
(***************************************************************************)
Powers(a) == IF active[a] THEN reg[a].power ELSE 0
Balanced ==
    input.closed => reg["pcc"].power = Powers("bess") + Powers("pv") + Powers("load")
Obeyed ==
    /\ active["bess"] => reg["bess"].power =
            Limit(reg["bess"].sp, -reg["bess"].discharge, reg["bess"].charge)
    /\ active["pv"] => reg["pv"].power =
            -((Limit(input.irradiance, 0, reg["pv"].sp) * Base["pv"]) \div One)
    /\ active["load"] => reg["load"].power =
            (Limit((base * reg["load"].sp) \div One, 0, One) * Base["load"]) \div One
SignsAgree ==
    turn = "asleep" /\ still /\ glitch = "none" =>
        Balanced /\ (out = Settled => Obeyed)

(***************************************************************************)
(* Once the event loop has run, an asset is served exactly while it is not *)
(* dropped, unless it was restored without having been dropped: then its   *)
(* first server has no task left to cancel (signal_bridge.py:454-474).     *)
(***************************************************************************)
Served ==
    turn = "asleep" /\ ~Pending =>
        \A a \in Assets : ~orphan[a] => (active[a] <=> task[a] = "serving")

(***************************************************************************)
(* Only a value above its register's range ends the bridge.  Not a number, *)
(* a negative for an unsigned register, and every sum the meter shows in   *)
(* between are replaced or fit (signal_bridge.py:287-305, which has a      *)
(* floor and no ceiling, whatever its docstring says).                     *)
(***************************************************************************)
EndsOnlyBeyond == turn = "crashed" => glitch = "high"

-----------------------------------------------------------------------------
(***************************************************************************)
(* What the configuration of a rig has to grant.  The ratings of its       *)
(* assets, 500 to 1000 kW, are far below what a register holds; per-unit   *)
(* values are floats there, so Resolved only keeps the model from rounding.*)
(***************************************************************************)
\* The ratings fit the registers they are reported in, one unit and the sum at
\* the meter included.
RegistersFit ==
    /\ \A s \in Socs : s < Radix
    /\ 50 < Radix * Radix
    /\ 2 * (MaxDischarge + Base["pv"] + 1) < Radix
    /\ 2 * (MaxCharge + Base["load"] + 1) < Radix

\* The setpoints core may write are exact references per unit.
Resolved == \A kw \in Setpoints : (BessSign * kw * One) % Base["bess"] = 0
=============================================================================
