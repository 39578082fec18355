--------------------------- MODULE RegisterProofs ---------------------------
(***************************************************************************)
(* Proofs about what registers say: the register codec, the bridge that    *)
(* fills registers on the rig, and the tools that discover the registers   *)
(* of a device and compare them with a map; for every word size, rating,   *)
(* base and choice of setpoints, and for every catalog and device.         *)
(*                                                                         *)
(* The codec loses nothing: what fits a register type comes back from its  *)
(* words, for every word size, and an encoded value is off by at most half *)
(* a raw unit.                                                             *)
(*                                                                         *)
(* Of the bridge: an asset is served exactly while it is not dropped       *)
(* (Held follows the server tasks through drops and restores); its         *)
(* measurements fit their registers through every transient, given ratings *)
(* that do (Rated); and registers and model say the same after a tick in   *)
(* which nothing moved (Told says what each part of the tick leaves        *)
(* behind, Prepared what the tick relies on).                              *)
(*                                                                         *)
(* Of the discovery: no address of an image belongs to two of its points   *)
(* (PlaceOnce, PointOnce), so every register reads what was put there;     *)
(* then the walk finds the models one by one where they are (WalkInv), the *)
(* comparison adds up what it met (CompareInv), and a verdict is about the *)
(* chain alone, which is why a command sent through a map found clean      *)
(* reaches the device's own point and scale factor (Alike).                *)
(***************************************************************************)
EXTENDS SignalBridge, SunSpec, SequenceTheorems, WellFoundedInduction, TLAPS

-----------------------------------------------------------------------------
(* The codec *)

\* The remainder of a number already in range, and of one that wraps once.
LEMMA ModInRange ==
    ASSUME NEW n \in Nat \ {0}, NEW a \in 0 .. n - 1
    PROVE  a % n = a
  OBVIOUS

LEMMA ModWraps ==
    ASSUME NEW n \in Nat \ {0}, NEW a \in -n .. -1
    PROVE  a % n = a + n
  OBVIOUS

LEMMA DivModSum ==
    ASSUME NEW n \in Nat \ {0}, NEW a \in Int
    PROVE  /\ (a \div n) * n + (a % n) = a
           /\ a \div n \in Int /\ a % n \in 0 .. n - 1
  OBVIOUS

LEMMA SpanNat ==
    ASSUME NEW type \in Types
    PROVE  Span(Width(type)) \in Nat /\ Span(Width(type)) > 1
<1>1. Radix \in Nat /\ Radix > 2
  BY CodecAssumption
<1>2. Radix * Radix \in Nat /\ Radix * Radix >= Radix
  BY <1>1
<1> QED
  BY <1>1, <1>2 DEF Span

\* What fits a type is recovered from its words, sign included.
THEOREM CodecRoundTrip ==
    ASSUME NEW type \in Types, NEW raw \in Int, Fits(type, raw)
    PROVE  WordsToInt(type, IntToWords(type, raw)) = raw
<1> DEFINE span == Span(Width(type))
           r == raw % span
<1>1. span \in Nat /\ span > 1 /\ Radix \in Nat \ {0}
  BY SpanNat, CodecAssumption
<1>2. \/ raw >= 0 /\ raw < span /\ (type \in Signed => 2 * raw < span)
      \/ raw < 0 /\ type \in Signed /\ 2 * raw >= -span
  BY <1>1 DEF Fits
<1> HIDE DEF span
<1>3. /\ r \in 0 .. span - 1
      /\ raw >= 0 => r = raw
      /\ raw < 0 => r = raw + span
  <2>1. CASE raw >= 0
    BY <1>1, <1>2, <2>1, ModInRange
  <2>2. CASE raw < 0
    <3>1. raw \in -span .. -1
      BY <1>1, <1>2, <2>2
    <3> QED
      BY <1>1, <2>2, <3>1, ModWraps
  <2> QED
    BY <2>1, <2>2
<1>4. (IF type \in Signed /\ 2 * r >= span THEN r - span ELSE r) = raw
  BY <1>1, <1>2, <1>3
<1>5. CASE Width(type) = 1
  BY <1>4, <1>5 DEF WordsToInt, IntToWords, span
<1>6. CASE Width(type) # 1
  <2>1. r \in Int
    BY <1>3
  <2> HIDE DEF r
  <2>2. (r \div Radix) * Radix + (r % Radix) = r
    BY <1>1, <2>1, DivModSum
  <2>3. IntToWords(type, raw) = <<r \div Radix, r % Radix>>
    BY <1>6 DEF IntToWords, r, span
  <2> QED
    BY <1>4, <1>6, <2>2, <2>3 DEF WordsToInt, span
<1> QED
  BY <1>5, <1>6

\* Rounding is off by at most half the divisor, in both directions.
LEMMA NearestIsNear ==
    ASSUME NEW v \in Int, NEW f \in Nat \ {0}
    PROVE  /\ Nearest(v, f) \in Int /\ Nearest(v, f) * f \in Int
           /\ 2 * (Nearest(v, f) * f - v) <= f
           /\ 2 * (v - Nearest(v, f) * f) <= f
<1> DEFINE q == v \div f
           r == v % f
<1>1. /\ q * f + r = v /\ q \in Int /\ r \in 0 .. f - 1 /\ f \in Nat \ {0}
  BY DivModSum
<1> DEFINE n == Nearest(v, f)
<1>2. \/ n = q /\ 2 * r <= f
      \/ n = q + 1 /\ 2 * r >= f
  <2>1. n = IF 2 * r < f \/ (2 * r = f /\ q % 2 = 0) THEN q ELSE q + 1
    BY DEF Nearest
  <2> HIDE DEF q, r, n
  <2> QED
    BY <1>1, <2>1
<1> HIDE DEF q, r, n
<1>3. (q + 1) * f = q * f + f /\ q * f \in Int
  BY <1>1
<1>4. n \in Int /\ n * f \in Int
  BY <1>1, <1>2, <1>3
<1>5. CASE n = q /\ 2 * r <= f
  <2> DEFINE p == q * f
  <2>1. p \in Int /\ p + r = v /\ n * f = p
    BY <1>1, <1>3, <1>5
  <2> HIDE DEF p
  <2>2. 2 * (n * f - v) <= f /\ 2 * (v - n * f) <= f
    BY <1>1, <1>5, <2>1
  <2> QED
    BY <1>4, <2>2 DEF n
<1>6. CASE n = q + 1 /\ 2 * r >= f
  <2> DEFINE p == q * f
  <2>1. p \in Int /\ p + r = v /\ n * f = p + f
    BY <1>1, <1>3, <1>6
  <2> HIDE DEF p
  <2>2. 2 * (n * f - v) <= f /\ 2 * (v - n * f) <= f
    BY <1>1, <1>6, <2>1
  <2> QED
    BY <1>4, <2>2 DEF n
<1> QED
  BY <1>2, <1>5, <1>6

\* What is written and not refused reads back within half a raw unit of the
\* value, under the scale factor it was written with.
THEOREM EncodeIsNear ==
    ASSUME NEW type \in Types, NEW v \in Int, NEW sf \in Int,
           Factor(sf) \in Nat \ {0}, Encode(type, v, sf) # Refused
    PROVE  /\ 2 * (Decode(type, Encode(type, v, sf), sf) - v) <= Factor(sf)
           /\ 2 * (v - Decode(type, Encode(type, v, sf), sf)) <= Factor(sf)
<1> DEFINE raw == Nearest(v, Factor(sf))
<1>1. /\ raw \in Int
      /\ 2 * (raw * Factor(sf) - v) <= Factor(sf)
      /\ 2 * (v - raw * Factor(sf)) <= Factor(sf)
  BY NearestIsNear
<1>2. Fits(type, raw) /\ Encode(type, v, sf) = IntToWords(type, raw)
  BY DEF Encode
<1> HIDE DEF raw
<1>3. WordsToInt(type, IntToWords(type, raw)) = raw
  BY <1>1, <1>2, CodecRoundTrip
<1>4. Decode(type, Encode(type, v, sf), sf) = raw * Factor(sf)
  BY <1>2, <1>3 DEF Decode
<1> QED
  BY <1>1, <1>4

-----------------------------------------------------------------------------
(* Types of the bridge's variables *)

Inputs ==
    [pref : Int, curtail : 0 .. One, demand : 0 .. One, irradiance : 0 .. One,
     closed : BOOLEAN, enable : [Blocks -> BOOLEAN], following : BOOLEAN,
     maxSoc : Nat, minSoc : Nat]

Registers ==
    /\ DOMAIN reg = Assets
    /\ DOMAIN reg["pcc"] = {"hz", "power"}
    /\ DOMAIN reg["bess"] = {"soc", "power", "charge", "discharge", "sp"}
    /\ DOMAIN reg["pv"] = {"power", "sp"}
    /\ DOMAIN reg["load"] = {"power", "sp"}
    /\ reg["bess"].sp \in Setpoints \cup {0}
    /\ reg["pv"].sp \in 0 .. One
    /\ reg["load"].sp \in 0 .. One

Typed ==
    /\ input \in Inputs
    /\ soc \in Socs
    /\ out \in [bess : Int, pv : Int, load : Int]
    /\ Registers
    /\ active \in [Assets -> BOOLEAN]
    /\ task \in [Assets -> {"none", "new", "serving", "failed"}]
    /\ closing \in [Assets -> BOOLEAN] /\ orphan \in [Assets -> BOOLEAN]
    /\ base \in Int
    /\ slider \in Demands \cup {None}

\* What a push leaves in the registers.
LEMMA PushedFacts ==
    ASSUME Registers, NEW a \in Assets, NEW values
    PROVE  LET r == Pushed(a, values)
           IN  /\ DOMAIN r = Assets
               /\ \A b \in Assets : b # a => r[b] = reg[b]
               /\ DOMAIN r[a] = DOMAIN reg[a]
               /\ \A p \in DOMAIN reg[a] :
                     r[a][p] = IF p \in DOMAIN values THEN values[p] ELSE reg[a][p]
BY DEF Pushed, Registers

\* A push of measurements leaves the setpoint registers alone.
LEMMA PushedRegisters ==
    ASSUME Registers, NEW a \in Assets, NEW values, "sp" \notin DOMAIN values,
           reg' = Pushed(a, values)
    PROVE  Registers'
<1>1. /\ DOMAIN reg' = Assets
      /\ \A b \in Assets : b # a => reg'[b] = reg[b]
      /\ DOMAIN reg'[a] = DOMAIN reg[a]
      /\ "sp" \in DOMAIN reg[a] => reg'[a]["sp"] = reg[a]["sp"]
  BY PushedFacts
<1>2. \A b \in Assets : /\ DOMAIN reg'[b] = DOMAIN reg[b]
                        /\ "sp" \in DOMAIN reg[b] => reg'[b]["sp"] = reg[b]["sp"]
  BY <1>1
<1>3. /\ DOMAIN reg["pcc"] = {"hz", "power"}
      /\ DOMAIN reg["bess"] = {"soc", "power", "charge", "discharge", "sp"}
      /\ DOMAIN reg["pv"] = {"power", "sp"}
      /\ DOMAIN reg["load"] = {"power", "sp"}
  BY DEF Registers
<1>4. /\ "pcc" \in Assets /\ "bess" \in Assets /\ "pv" \in Assets /\ "load" \in Assets
  BY DEF Assets
<1>5. /\ reg'["bess"].sp = reg["bess"].sp /\ reg'["pv"].sp = reg["pv"].sp
      /\ reg'["load"].sp = reg["load"].sp
  BY <1>2, <1>3, <1>4
<1> QED
  BY <1>1, <1>2, <1>3, <1>4, <1>5 DEF Registers

-----------------------------------------------------------------------------
(* Arithmetic of references per unit *)

LEMMA DivInt ==
    ASSUME NEW a \in Int, NEW n \in Nat \ {0}
    PROVE  a \div n \in Int
  OBVIOUS

LEMMA DivExact ==
    ASSUME NEW a \in Int, NEW n \in Nat \ {0}
    PROVE  (a * n) \div n = a
  OBVIOUS

LEMMA LimitRange ==
    ASSUME NEW x \in Int, NEW lo \in Int, NEW hi \in Int, lo <= hi
    PROVE  Limit(x, lo, hi) \in lo .. hi
  BY DEF Limit

\* A fraction of a base is within the base.
LEMMA ScaledRange ==
    ASSUME NEW n \in Nat \ {0}, NEW x \in 0 .. n, NEW b \in Nat
    PROVE  (x * b) \div n \in 0 .. b
<1> DEFINE q == (x * b) \div n
           r == (x * b) % n
<1>1. x * b \in Int
  OBVIOUS
<1>2. q * n + r = x * b /\ q \in Int /\ r \in 0 .. n - 1
  BY <1>1, DivModSum
<1>3. x * b >= 0 /\ x * b <= n * b
  <2>1. n - x \in Nat
    OBVIOUS
  <2>2. (n - x) * b >= 0
    BY <2>1
  <2>3. (n - x) * b = n * b - x * b
    OBVIOUS
  <2> QED
    BY <2>2, <2>3
<1> HIDE DEF q, r
<1>4. q >= 0
  <2> SUFFICES ASSUME q <= -1 PROVE FALSE
    BY <1>2
  <2>1. q * n <= -n
    <3>1. (-1 - q) * n >= 0
      BY <1>2
    <3>2. (-1 - q) * n = -n - q * n
      BY <1>2
    <3> QED
      BY <1>2, <3>1, <3>2
  <2> QED
    BY <1>2, <1>3, <2>1
<1>5. q <= b
  <2> SUFFICES ASSUME q >= b + 1 PROVE FALSE
    BY <1>2
  <2>1. (q - (b + 1)) * n >= 0
    BY <1>2
  <2>2. (q - (b + 1)) * n = q * n - (b * n + n)
    BY <1>2
  <2>3. b * n = n * b
    OBVIOUS
  <2> QED
    BY <1>2, <1>3, <2>1, <2>2, <2>3
<1> QED
  BY <1>2, <1>4, <1>5 DEF q

\* A reference that resolves into whole fractions of the base scales back.
LEMMA ScaledBack ==
    ASSUME NEW v \in Int, NEW n \in Nat \ {0}, NEW b \in Nat \ {0}, (v * n) % b = 0
    PROVE  (((v * n) \div b) * b) \div n = v
<1> DEFINE w == v * n
<1>1. w \in Int /\ w % b = 0
  OBVIOUS
<1>2. w \div n = v
  BY DivExact
<1> HIDE DEF w
<1>3. (w \div b) * b = w
  <2> DEFINE q == w \div b
             r == w % b
  <2>1. q * b + r = w /\ q \in Int
    BY <1>1, DivModSum
  <2>2. r = 0
    BY <1>1
  <2> HIDE DEF q, r
  <2>3. q * b \in Int
    BY <2>1
  <2>4. q * b = w
    BY <1>1, <2>1, <2>2, <2>3
  <2> QED
    BY <2>4 DEF q
<1>4. ((w \div b) * b) \div n = v
  BY <1>2, <1>3
<1> QED
  BY <1>4 DEF w

\* The constants, as every proof below needs them.
LEMMA Ratings ==
    /\ One \in Nat \ {0} /\ MaxCharge \in Nat /\ MaxDischarge \in Nat
    /\ Base["bess"] \in Nat \ {0} /\ Base["pv"] \in Nat \ {0} /\ Base["load"] \in Nat \ {0}
    /\ "pcc" \in Assets /\ "bess" \in Assets /\ "pv" \in Assets /\ "load" \in Assets
    /\ Blocks = {"bess", "pv", "load"}
  BY BridgeAssumption DEF Blocks, Assets

\* What the model settles at is within its ratings.
LEMMA SettledRange ==
    ASSUME Typed
    PROVE  /\ Settled.bess \in -MaxCharge .. MaxDischarge
           /\ Settled.pv \in 0 .. Base["pv"]
           /\ Settled.load \in 0 .. Base["load"]
<1>1. /\ input.pref \in Int /\ input.curtail \in 0 .. One /\ input.demand \in 0 .. One
      /\ input.irradiance \in 0 .. One
  BY DEF Typed, Inputs
<1>2. Settled.bess \in -MaxCharge .. MaxDischarge
  <2> DEFINE p == (input.pref * Base["bess"]) \div One
             lo == -Room(soc).charge
             hi == Room(soc).discharge
  <2>1. p \in Int
    BY <1>1, Ratings, DivInt
  <2>2. lo \in {0, -MaxCharge} /\ hi \in {0, MaxDischarge}
    <3>1. Room(soc).charge \in {0, MaxCharge}
      BY DEF Room
    <3>2. Room(soc).discharge \in {0, MaxDischarge}
      BY DEF Room
    <3> QED
      BY <3>1, <3>2, Ratings
  <2> HIDE DEF p, lo, hi
  <2>3. Limit(p, lo, hi) \in lo .. hi
    <3>1. lo \in Int /\ hi \in Int /\ lo <= hi
      BY <2>2, Ratings
    <3> QED
      BY <2>1, <3>1, LimitRange
  <2>4. lo .. hi \subseteq -MaxCharge .. MaxDischarge /\ 0 \in -MaxCharge .. MaxDischarge
    BY <2>2, Ratings
  <2>5. Settled.bess \in {Limit(p, lo, hi), 0}
    BY DEF Settled, p, lo, hi
  <2> QED
    BY <2>3, <2>4, <2>5
<1>3. Settled.pv \in 0 .. Base["pv"]
  <2> DEFINE x == Limit(input.irradiance, 0, input.curtail)
  <2>1. x \in 0 .. One
    BY <1>1, Ratings DEF Limit
  <2>2. Settled.pv \in {(x * Base["pv"]) \div One, 0}
    BY DEF Settled
  <2> HIDE DEF x
  <2>3. (x * Base["pv"]) \div One \in 0 .. Base["pv"]
    BY <2>1, Ratings, ScaledRange
  <2> QED
    BY <2>2, <2>3, Ratings
<1>4. Settled.load \in 0 .. Base["load"]
  <2>1. Settled.load \in {(input.demand * Base["load"]) \div One, 0}
    BY DEF Settled
  <2>2. (input.demand * Base["load"]) \div One \in 0 .. Base["load"]
    BY <1>1, Ratings, ScaledRange
  <2> QED
    BY <2>1, <2>2, Ratings
<1> QED
  BY <1>2, <1>3, <1>4

-----------------------------------------------------------------------------
(* Every step keeps the types *)

\* The references a tick writes into the model.
LEMMA ReferenceTypes ==
    ASSUME Typed
    PROVE  /\ BessReference(reg["bess"].sp) \in Int
           /\ PvCurtailment(reg["pv"].sp) = reg["pv"].sp
           /\ LoadBase \in Int
           /\ LoadReference(reg["load"].sp) \in 0 .. One
<1>1. /\ reg["bess"].sp \in Int /\ reg["pv"].sp \in 0 .. One /\ reg["load"].sp \in 0 .. One
      /\ base \in Int /\ slider \in Demands \cup {None}
  <2>1. Registers /\ base \in Int /\ slider \in Demands \cup {None}
    BY DEF Typed
  <2>2. /\ reg["bess"].sp \in Setpoints \cup {0}
        /\ reg["pv"].sp \in 0 .. One /\ reg["load"].sp \in 0 .. One
    BY <2>1, Zenon DEF Registers
  <2>3. \A v \in Setpoints \cup {0} : v \in Int
    BY BridgeAssumption
  <2>4. reg["bess"].sp \in Int
    BY <2>2, <2>3, Zenon
  <2> QED
    BY <2>1, <2>2, <2>4, Zenon
<1>2. BessReference(reg["bess"].sp) \in Int
  <2>1. BessSign * reg["bess"].sp * One \in Int
    BY <1>1, Ratings DEF BessSign
  <2> QED
    BY <2>1, Ratings, DivInt DEF BessReference
<1>3. PvCurtailment(reg["pv"].sp) = reg["pv"].sp
  BY <1>1, Ratings DEF PvCurtailment, Limit
<1>4. LoadBase \in Int
  <2>1. ReadSlider # None => ReadSlider \in Nat
    BY <1>1, BridgeAssumption DEF ReadSlider
  <2>2. ReadSlider # None => (ReadSlider * One) \div Base["load"] \in Int
    <3> SUFFICES ASSUME ReadSlider # None
                 PROVE  (ReadSlider * One) \div Base["load"] \in Int
      OBVIOUS
    <3>1. ReadSlider * One \in Int
      BY <2>1, Ratings
    <3> QED
      BY <3>1, Ratings, DivInt
  <2> QED
    BY <1>1, <2>2 DEF LoadBase
<1>5. LoadReference(reg["load"].sp) \in 0 .. One
  <2>1. LoadBase * reg["load"].sp \in Int
    BY <1>1, <1>4
  <2>2. (LoadBase * reg["load"].sp) \div One \in Int
    BY <2>1, Ratings, DivInt
  <2> DEFINE x == (LoadBase * reg["load"].sp) \div One
  <2>3. x \in Int
    BY <2>2
  <2> HIDE DEF x
  <2>4. 0 \in Int /\ One \in Int /\ 0 <= One
    BY Ratings
  <2>5. Limit(x, 0, One) \in 0 .. One
    BY <2>3, <2>4, LimitRange
  <2> QED
    BY <2>5 DEF LoadReference, x
<1> QED
  BY <1>2, <1>3, <1>4, <1>5

\* A push takes the registers and the servers from one legal state to another
\* and moves neither the blocks nor the drops.
LEMMA PushKeeps ==
    ASSUME Typed, NEW a \in Assets, NEW values, NEW next, "sp" \notin DOMAIN values,
           Push(a, values, next)
    PROVE  /\ UNCHANGED <<soc, out, glitch, slider, still, active>>
           /\ Registers'
           /\ task' \in [Assets -> {"none", "new", "serving", "failed"}]
           /\ closing' \in [Assets -> BOOLEAN] /\ orphan' \in [Assets -> BOOLEAN]
           /\ FitsAll(values) => /\ reg' = Pushed(a, values) /\ turn' = next
                                 /\ UNCHANGED servers
           /\ ~FitsAll(values) => turn' = "crashed" /\ reg' = reg
<1>1. /\ FitsAll(values) => /\ reg' = Pushed(a, values) /\ turn' = next
                            /\ UNCHANGED <<active, task, closing, orphan>>
      /\ ~FitsAll(values) => Leave("crashed") /\ UNCHANGED <<reg, active>>
      /\ UNCHANGED <<soc, out, glitch, slider, still>>
  BY DEF Push, servers
<1>2. Registers
  BY DEF Typed
<1>3. CASE FitsAll(values)
  BY <1>1, <1>2, <1>3, PushedRegisters DEF Typed, servers
<1>4. CASE ~FitsAll(values)
  BY <1>1, <1>2, <1>4 DEF Leave, Off, Registers
<1> QED
  BY <1>1, <1>3, <1>4

\* Nothing but the model's inputs and outputs changed.
LEMMA SameRegisters == Registers /\ reg' = reg => Registers'
  BY DEF Registers

LEMMA BasesInt == \A b \in Bases : b \in Int
<1> SUFFICES ASSUME NEW d \in Demands PROVE (d * One) \div Base["load"] \in Int
  BY DEF Bases
<1>1. d * One \in Int
  BY BridgeAssumption
<1> QED
  BY <1>1, Ratings, DivInt

LEMMA NextTyped ==
    ASSUME Typed, [Next]_vars
    PROVE  Typed'
<1> USE Ratings
<1>1. CASE Start
  <2>1. input' \in Inputs
    <3>1. PICK v \in Irradiances \cup {input.irradiance} :
            input' = [input EXCEPT !.following = TRUE, !.maxSoc = MaxSoc,
                                   !.minSoc = MinSoc, !.irradiance = v]
      BY <1>1 DEF Start
    <3>2. v \in 0 .. One
      BY BridgeAssumption DEF Typed, Inputs
    <3> QED
      BY <3>1, <3>2, BridgeAssumption DEF Typed, Inputs
  <2>2. task' \in [Assets -> {"none", "new", "serving", "failed"}]
    BY <1>1 DEF Start
  <2>3. base' \in Int
    BY <1>1, BasesInt DEF Start, Typed
  <2> QED
    BY <1>1, <2>1, <2>2, <2>3, SameRegisters DEF Start, Typed
<1>2. CASE StartFails
  BY <1>2, SameRegisters DEF StartFails, Typed, model, servers
<1>3. CASE End
  BY <1>3, SameRegisters DEF End, Leave, Off, Typed, model
<1>4. CASE LoopRuns
  <2>1. task' \in [Assets -> {"none", "new", "serving", "failed"}]
    BY <1>4 DEF LoopRuns, Typed
  <2> QED
    BY <1>4, <2>1, SameRegisters DEF LoopRuns, Off, Typed, model
<1>5. CASE BeginTick
  BY <1>5, SameRegisters DEF BeginTick, Typed, model, servers
<1>6. CASE PushPcc
  <2>1. "sp" \notin DOMAIN PccValues /\ Push("pcc", PccValues, "bess")
    BY <1>6 DEF PushPcc, PccValues
  <2> QED
    BY <1>6, <2>1, PushKeeps DEF PushPcc, Typed
<1>7. CASE PushPullBess
  <2>1. "sp" \notin DOMAIN BessValues /\ Push("bess", BessValues, "pv")
    BY <1>7 DEF PushPullBess, BessValues
  <2>2. input' \in Inputs
    BY <1>7, ReferenceTypes DEF PushPullBess, Pulled, Typed, Inputs
  <2> QED
    BY <1>7, <2>1, <2>2, PushKeeps DEF PushPullBess, Typed
<1>8. CASE PushPullPv
  <2>1. "sp" \notin DOMAIN PvValues /\ Push("pv", PvValues, "load")
    BY <1>8 DEF PushPullPv, PvValues
  <2>2. PvCurtailment(reg["pv"].sp) \in 0 .. One
    BY ReferenceTypes DEF Typed, Registers
  <2>3. input' \in Inputs
    BY <1>8, <2>2 DEF PushPullPv, Pulled, Typed, Inputs
  <2> QED
    BY <1>8, <2>1, <2>3, PushKeeps DEF PushPullPv, Typed
<1>9. CASE PushPullLoad
  <2>1. "sp" \notin DOMAIN LoadValues /\ Push("load", LoadValues, "asleep")
    BY <1>9 DEF PushPullLoad, LoadValues
  <2>2. input' \in Inputs
    BY <1>9, ReferenceTypes DEF PushPullLoad, Pulled, Typed, Inputs
  <2>3. base' \in Int
    BY <1>9, ReferenceTypes DEF PushPullLoad, Typed
  <2> QED
    BY <1>9, <2>1, <2>2, <2>3, PushKeeps DEF Typed
<1>10. CASE SkipInactive
  <2>1. UNCHANGED <<model, reg, servers, base, slider>>
    BY <1>10 DEF SkipInactive, Skip
  <2> QED
    BY <2>1, SameRegisters DEF Typed, model, servers
<1>11. ASSUME NEW a \in Assets, DropAsset(a) PROVE Typed'
  <2>1. input' \in Inputs
    BY <1>11 DEF DropAsset, Typed, Inputs
  <2>2. /\ active' \in [Assets -> BOOLEAN] /\ closing' \in [Assets -> BOOLEAN]
        /\ task' \in [Assets -> {"none", "new", "serving", "failed"}]
    BY <1>11 DEF DropAsset, Typed
  <2> QED
    BY <1>11, <2>1, <2>2, SameRegisters DEF DropAsset, Typed
<1>12. ASSUME NEW a \in Assets, RestoreAsset(a) PROVE Typed'
  <2>1. input' \in Inputs
    BY <1>12 DEF RestoreAsset, Typed, Inputs
  <2>2. /\ active' \in [Assets -> BOOLEAN] /\ orphan' \in [Assets -> BOOLEAN]
        /\ task' \in [Assets -> {"none", "new", "serving", "failed"}]
    BY <1>12 DEF RestoreAsset, Typed
  <2> QED
    BY <1>12, <2>1, <2>2, SameRegisters DEF RestoreAsset, Typed
<1>13. ASSUME NEW b \in Blocks, CoreWrites(b) PROVE Typed'
  <2>1. UNCHANGED <<model, servers, base, slider>>
    BY <1>13 DEF CoreWrites
  <2>2. PICK v \in Choices(b) : reg' = [reg EXCEPT ![b].sp = v]
    BY <1>13 DEF CoreWrites
  <2>3. /\ v \in (IF b = "bess" THEN Setpoints \cup {0} ELSE 0 .. One)
    BY BridgeAssumption DEF Choices
  <2>4. Registers'
    BY <1>13, <2>2, <2>3 DEF Typed, Registers
  <2> QED
    BY <2>1, <2>4 DEF Typed, model, servers
<1>14. CASE ApplyProfilePoint
  <2>1. CASE base' \in Bases /\ UNCHANGED input
    BY <1>14, <2>1, BasesInt, SameRegisters DEF ApplyProfilePoint, Typed, servers
  <2>2. CASE \E v \in Irradiances : input' = [input EXCEPT !.irradiance = v] /\ UNCHANGED base
    <3>1. input' \in Inputs
      BY <2>2, BridgeAssumption DEF Typed, Inputs
    <3> QED
      BY <1>14, <2>2, <3>1, SameRegisters DEF ApplyProfilePoint, Typed, servers
  <2> QED
    BY <1>14, <2>1, <2>2 DEF ApplyProfilePoint
<1>15. CASE SwitchPcc
  <2>1. input' \in Inputs
    BY <1>15 DEF SwitchPcc, Typed, Inputs
  <2> QED
    BY <1>15, <2>1, SameRegisters DEF SwitchPcc, Typed, servers
<1>16. CASE MoveSlider
  BY <1>16, SameRegisters DEF MoveSlider, Typed, model, servers
<1>17. CASE Settle
  <2>1. Settled = [bess |-> Settled.bess, pv |-> Settled.pv, load |-> Settled.load]
    BY DEF Settled
  <2>2. Settled \in [bess : Int, pv : Int, load : Int]
    BY <2>1, SettledRange
  <2> QED
    BY <1>17, <2>2, SameRegisters DEF Settle, Typed, servers
<1>18. CASE Disturb
  BY <1>18, SameRegisters DEF Disturb, Typed, servers
<1>19. CASE UNCHANGED vars
  BY <1>19, SameRegisters DEF vars, Typed, model, servers
<1> QED
  BY <1>1, <1>2, <1>3, <1>4, <1>5, <1>6, <1>7, <1>8, <1>9, <1>10, <1>11, <1>12, <1>13,
     <1>14, <1>15, <1>16, <1>17, <1>18, <1>19 DEF Next

LEMMA InitTyped == Init => Typed
<1> SUFFICES ASSUME Init PROVE Typed
  OBVIOUS
<1>1. Registers
  BY Ratings DEF Init, Registers, Assets
<1>2. input \in Inputs
  BY Ratings DEF Init, Inputs
<1> QED
  BY <1>1, <1>2 DEF Init, Typed, Off

\* Every variable of the bridge keeps its type.
THEOREM SpecTyped == Spec => []Typed
<1> QED
  BY InitTyped, NextTyped, PTL DEF Spec

-----------------------------------------------------------------------------
(* Serving *)

\* Before the first tick every asset is active.  From then on, and as long as
\* no task was lost, an asset has a task that serves or will serve it exactly
\* while it is not dropped.
Held ==
    /\ turn = "off" => \A a \in Assets : active[a] /\ ~orphan[a]
    /\ Ticking => \A a \in Assets :
          ~orphan[a] => (active[a] <=> task[a] \in {"new", "serving"})

\* A tick's steps and the acts that touch no server.
LEMMA HeldStays ==
    ASSUME Held, UNCHANGED servers, turn' # "off" \/ turn' = turn, Ticking' => Ticking
    PROVE  Held'
<1>1. UNCHANGED <<active, task, orphan>>
  BY DEF servers
<1> QED
  BY <1>1 DEF Held

\* A push leaves the servers alone, or ends the bridge.
LEMMA HeldByPush ==
    ASSUME Held, NEW a \in Assets, NEW values, NEW next \in Assets \cup {"asleep"},
           Push(a, values, next)
    PROVE  Held'
<1>1. CASE FitsAll(values)
  <2>1. UNCHANGED servers /\ turn = a /\ turn' = next
    BY <1>1 DEF Push, servers
  <2> QED
    BY <2>1, HeldStays DEF Assets, Ticking
<1>2. CASE ~FitsAll(values)
  <2>1. turn' = "crashed"
    BY <1>2 DEF Push, Leave
  <2> QED
    BY <2>1 DEF Held, Ticking
<1> QED
  BY <1>1, <1>2

LEMMA NextHeld ==
    ASSUME Typed, Held, [Next]_vars
    PROVE  Held'
<1> USE Ratings
<1>1. CASE Start
  <2>1. UNCHANGED <<active, orphan>> /\ task' = [a \in Assets |-> "new"]
        /\ turn = "off" /\ turn' = "pcc"
    BY <1>1 DEF Start
  <2> QED
    BY <2>1 DEF Held
<1>2. CASE StartFails \/ End
  <2>1. turn' = "ended"
    BY <1>2 DEF StartFails, End, Leave
  <2> QED
    BY <2>1 DEF Held, Ticking
<1>3. CASE LoopRuns
  <2>1. /\ UNCHANGED <<active, orphan, turn>> /\ turn = "asleep"
        /\ task' = [a \in Assets |-> IF task[a] # "new" THEN task[a]
                                     ELSE IF orphan[a] THEN "failed" ELSE "serving"]
    BY <1>3 DEF LoopRuns
  <2>2. \A a \in Assets : ~orphan[a] => (active[a] <=> task[a] \in {"new", "serving"})
    BY <2>1 DEF Held, Ticking
  <2>3. \A a \in Assets : ~orphan[a]
          => (task'[a] \in {"new", "serving"} <=> task[a] \in {"new", "serving"})
    BY <2>1
  <2> QED
    BY <2>1, <2>2, <2>3 DEF Held
<1>4. CASE BeginTick
  BY <1>4, HeldStays DEF BeginTick, Ticking
<1>5. CASE PushPcc
  BY <1>5, HeldByPush DEF PushPcc
<1>6. CASE PushPullBess
  BY <1>6, HeldByPush DEF PushPullBess
<1>7. CASE PushPullPv
  BY <1>7, HeldByPush DEF PushPullPv
<1>8. CASE PushPullLoad
  BY <1>8, HeldByPush DEF PushPullLoad
<1>9. CASE SkipInactive
  <2>1. UNCHANGED servers /\ turn \in Assets /\ turn' # "off"
    BY <1>9 DEF SkipInactive, Skip
  <2> QED
    BY <2>1, HeldStays DEF Assets, Ticking
<1>10. ASSUME NEW a \in Assets, DropAsset(a) PROVE Held'
  <2>1. /\ turn = "asleep" /\ UNCHANGED <<turn, orphan>>
        /\ active' = [active EXCEPT ![a] = FALSE] /\ task' = [task EXCEPT ![a] = "none"]
    BY <1>10 DEF DropAsset, Between
  <2> QED
    BY <2>1 DEF Held, Ticking, Typed
<1>11. ASSUME NEW a \in Assets, RestoreAsset(a) PROVE Held'
  <2>1. /\ turn = "asleep" /\ turn' = turn
        /\ active' = [active EXCEPT ![a] = TRUE] /\ task' = [task EXCEPT ![a] = "new"]
        /\ orphan' = [orphan EXCEPT ![a] = @ \/ task[a] \in {"new", "serving"}]
    BY <1>11 DEF RestoreAsset, Between
  <2>2. \A b \in Assets \ {a} :
          UNCHANGED <<active[b], task[b], orphan[b]>>
    BY <2>1 DEF Typed
  <2>3. active'[a] = TRUE /\ task'[a] = "new"
    BY <2>1 DEF Typed
  <2> QED
    BY <2>1, <2>2, <2>3 DEF Held, Ticking
<1>12. ASSUME NEW b \in Blocks, CoreWrites(b) PROVE Held'
  BY <1>12, HeldStays DEF CoreWrites, Ticking
<1>13. CASE ApplyProfilePoint \/ SwitchPcc \/ MoveSlider \/ Settle \/ Disturb \/ UNCHANGED vars
  <2>1. UNCHANGED <<servers, turn>>
    BY <1>13 DEF ApplyProfilePoint, SwitchPcc, MoveSlider, Settle, Disturb, vars
  <2> QED
    BY <2>1, HeldStays DEF Ticking
<1> QED
  BY <1>1, <1>2, <1>3, <1>4, <1>5, <1>6, <1>7, <1>8, <1>9, <1>10, <1>11, <1>12, <1>13
     DEF Next

LEMMA InitHeld == Init => Held
  BY DEF Init, Held, Ticking, Off

\* Once the event loop has run, every asset whose task was not lost is served
\* exactly while it is not dropped, however drops and restores alternate.
THEOREM SpecServed == Spec => []Served
<1>1. Typed /\ Held /\ [Next]_vars => Held'
  BY NextHeld
<1>2. Held => Served
  <2> SUFFICES ASSUME Held, turn = "asleep", ~Pending, NEW a \in Assets, ~orphan[a]
               PROVE  active[a] <=> task[a] = "serving"
    BY DEF Served
  <2>1. active[a] <=> task[a] \in {"new", "serving"}
    BY DEF Held, Ticking
  <2>2. task[a] # "new"
    BY DEF Pending
  <2> QED
    BY <2>1, <2>2
<1> QED
  BY <1>1, <1>2, InitHeld, SpecTyped, PTL DEF Spec

-----------------------------------------------------------------------------
(* What transients the bridge survives *)

\* The blocks' powers stay within their ratings.
Rated ==
    /\ out.bess \in -MaxCharge .. MaxDischarge
    /\ out.pv \in 0 .. Base["pv"]
    /\ out.load \in 0 .. Base["load"]

\* The steps that leave the blocks' powers alone are all but one.
LEMMA OnlySettleMoves ==
    ASSUME Typed, [Next]_vars, ~Settle
    PROVE  out' = out
<1>1. CASE PushPcc \/ PushPullBess \/ PushPullPv \/ PushPullLoad
  BY <1>1 DEF PushPcc, PushPullBess, PushPullPv, PushPullLoad, Push
<1>2. CASE Start \/ StartFails \/ End \/ LoopRuns \/ BeginTick \/ SkipInactive
  BY <1>2 DEF Start, StartFails, End, LoopRuns, BeginTick, SkipInactive, Skip, model
<1>3. ASSUME NEW a \in Assets, DropAsset(a) \/ RestoreAsset(a) PROVE out' = out
  BY <1>3 DEF DropAsset, RestoreAsset
<1>4. ASSUME NEW b \in Blocks, CoreWrites(b) PROVE out' = out
  BY <1>4 DEF CoreWrites, model
<1>5. CASE ApplyProfilePoint \/ SwitchPcc \/ MoveSlider \/ Disturb \/ UNCHANGED vars
  BY <1>5 DEF ApplyProfilePoint, SwitchPcc, MoveSlider, Disturb, vars, model
<1> QED
  BY <1>1, <1>2, <1>3, <1>4, <1>5 DEF Next

LEMMA NextRated ==
    ASSUME Typed, Rated, [Next]_vars
    PROVE  Rated'
<1>1. CASE Settle
  <2>1. out' = Settled
    BY <1>1 DEF Settle
  <2> QED
    BY <2>1, SettledRange DEF Rated
<1>2. CASE ~Settle
  BY <1>2, OnlySettleMoves DEF Rated
<1> QED
  BY <1>1, <1>2

\* What a signal is read as: itself, nothing, or one past its negative; and
\* never below the floor of an unsigned register.
LEMMA ReadMeasCases ==
    ASSUME NEW v \in Int, glitch # "high"
    PROVE  /\ ReadMeas(v, NoFloor) \in {0, v, -v - 1}
           /\ v >= 0 => ReadMeas(v, 0) \in {0, v}
           /\ glitch = "none" => ReadMeas(v, NoFloor) = v
           /\ glitch = "none" /\ v >= 0 => ReadMeas(v, 0) = v
<1>1. v # Nan /\ -v - 1 # Nan /\ 0 # NoFloor /\ NoFloor = None
  BY BridgeAssumption DEF NoFloor
<1>2. CASE glitch = "nan"
  BY <1>1, <1>2 DEF ReadMeas, Signal
<1>3. CASE glitch = "negative"
  BY <1>1, <1>3 DEF ReadMeas, Signal
<1>4. CASE glitch # "nan" /\ glitch # "negative"
  BY <1>1, <1>4 DEF ReadMeas, Signal
<1> QED
  BY <1>2, <1>3, <1>4

LEMMA FitsFacts ==
    ASSUME NEW x \in Int
    PROVE  /\ -Radix <= 2 * x /\ 2 * x < Radix => Fits("int16", x)
           /\ 0 <= x /\ x < Radix => Fits("uint16", x)
           /\ 0 <= x /\ x < Radix * Radix => Fits("uint32", x)
<1>1. Radix \in Nat
  BY CodecAssumption
<1> QED
  BY <1>1 DEF Fits, Span, Width, Signed

\* The meter's register holds whole kilowatts.
LEMMA Kilowatts ==
    ASSUME NEW d \in Int, NEW w \in Int, w = 1000 * d
    PROVE  w \div 1000 = d /\ (-w - 1) \div 1000 = -d - 1
<1> DEFINE a == -w - 1
           q == w \div 1000
           r == w % 1000
           s == a \div 1000
           t == a % 1000
<1>1. w \in Int /\ a \in Int /\ a = -w - 1
  OBVIOUS
<1>2. q * 1000 + r = w /\ q \in Int /\ r \in 0 .. 999
  BY <1>1, DivModSum
<1> HIDE DEF a
<1>3. s * 1000 + t = a /\ s \in Int /\ t \in 0 .. 999
  BY <1>1, DivModSum
<1> HIDE DEF q, r, s, t
<1>4. q = d /\ s = -d - 1
  BY <1>1, <1>2, <1>3
<1> QED
  BY <1>4 DEF q, s, a

\* Unless the signals are beyond all registers, what a tick makes of them fits.
LEMMA ValuesFit ==
    ASSUME RegistersFit, Typed, Rated, glitch # "high"
    PROVE  FitsAll(PccValues) /\ FitsAll(BessValues) /\ FitsAll(PvValues) /\ FitsAll(LoadValues)
<1>1. /\ Radix \in Nat /\ MaxCharge \in Nat /\ MaxDischarge \in Nat
      /\ Base["pv"] \in Nat \ {0} /\ Base["load"] \in Nat \ {0}
  BY Ratings, CodecAssumption
<1>2. /\ out.bess \in Int /\ out.bess >= -MaxCharge /\ out.bess <= MaxDischarge
      /\ out.pv \in Int /\ out.pv >= 0 /\ out.pv <= Base["pv"]
      /\ out.load \in Int /\ out.load >= 0 /\ out.load <= Base["load"]
  BY <1>1 DEF Rated
<1>3. soc \in Nat /\ soc < Radix
  BY BridgeAssumption DEF Typed, RegistersFit
<1>4. /\ 2 * (MaxDischarge + Base["pv"] + 1) < Radix
      /\ 2 * (MaxCharge + Base["load"] + 1) < Radix
      /\ 50 < Radix * Radix
  BY DEF RegistersFit
<1>5. FitsAll(PccValues)
  <2> DEFINE d == out.load - out.bess - out.pv
             x == ReadMeas(MeterW, NoFloor) \div 1000
  <2>1. d \in Int
    BY <1>2
  <2>2. MeterW = 1000 * d \/ MeterW = 0
    BY DEF MeterW
  <2>3. x \in {0, d, -d - 1, -1}
    <3>1. CASE MeterW = 1000 * d
      <4> HIDE DEF d
      <4>1. MeterW \in Int /\ MeterW = 1000 * d
        BY <2>1, <3>1
      <4>2. ReadMeas(MeterW, NoFloor) \in {0, MeterW, -MeterW - 1}
        BY <4>1, ReadMeasCases
      <4>3. MeterW \div 1000 = d /\ (-MeterW - 1) \div 1000 = -d - 1
        BY <2>1, <4>1, Kilowatts
      <4>4. 0 \div 1000 = 0
        OBVIOUS
      <4> QED
        BY <4>2, <4>3, <4>4
    <3>2. CASE MeterW = 0
      <4>1. MeterW \in Int /\ MeterW = 1000 * MeterW
        BY <3>2
      <4>2. ReadMeas(MeterW, NoFloor) \in {0, MeterW, -MeterW - 1}
        BY <4>1, ReadMeasCases
      <4>3. MeterW \div 1000 = MeterW /\ (-MeterW - 1) \div 1000 = -MeterW - 1
        BY <4>1, Kilowatts
      <4>4. -MeterW - 1 = -1
        BY <3>2
      <4> DEFINE m == ReadMeas(MeterW, NoFloor)
      <4>5. m = 0 \/ m = MeterW \/ m = -MeterW - 1
        BY <4>2
      <4> HIDE DEF m
      <4>6. m \div 1000 \in {0, -1}
        BY <3>2, <4>3, <4>4, <4>5
      <4> HIDE DEF d
      <4> QED
        BY <4>6 DEF m
    <3> QED
      BY <2>2, <3>1, <3>2
  <2>4. -(MaxDischarge + Base["pv"]) <= d /\ d <= MaxCharge + Base["load"]
    BY <1>1, <1>2
  <2> HIDE DEF d, x
  <2>5. Fits("int16", x)
    <3>1. x \in Int /\ -Radix <= 2 * x /\ 2 * x < Radix
      BY <1>1, <1>4, <2>1, <2>3, <2>4
    <3> QED
      BY <3>1, FitsFacts
  <2>6. Fits("uint32", ReadMeas(50, 0))
    <3>1. ReadMeas(50, 0) \in {0, 50}
      BY ReadMeasCases
    <3>2. ReadMeas(50, 0) \in Int /\ 0 <= ReadMeas(50, 0) /\ ReadMeas(50, 0) <= 50
      BY <3>1
    <3>3. Radix * Radix \in Int
      BY <1>1
    <3>4. ReadMeas(50, 0) < Radix * Radix
      BY <1>4, <3>2, <3>3
    <3> QED
      BY <3>2, <3>4, FitsFacts
  <2>7. PccValues.hz = ReadMeas(50, 0) /\ PccValues.power = PccSign * x
        /\ DOMAIN PccValues = {"hz", "power"}
    BY DEF PccValues, x
  <2>8. PccSign * x = x
    BY <2>1, <2>3 DEF PccSign
  <2> QED
    BY <2>5, <2>6, <2>7, <2>8 DEF FitsAll, RegisterType
<1>6. FitsAll(BessValues)
  <2> DEFINE p == ReadMeas(out.bess, NoFloor)
             s == ReadMeas(soc, 0)
  <2>1. p \in {0, out.bess, -out.bess - 1} /\ s \in {0, soc}
    BY <1>2, <1>3, ReadMeasCases
  <2> HIDE DEF p, s
  <2>2. /\ BessSign * p \in Int
        /\ -Radix <= 2 * (BessSign * p) /\ 2 * (BessSign * p) < Radix
    BY <1>1, <1>2, <1>4, <2>1 DEF BessSign
  <2>3. s \in Int /\ 0 <= s /\ s < Radix
    BY <1>1, <1>3, <2>1
  <2>4. /\ BessValues.soc = s /\ BessValues.power = BessSign * p
        /\ BessValues.charge \in {MaxCharge, 0} /\ BessValues.discharge \in {MaxDischarge, 0}
        /\ DOMAIN BessValues = {"soc", "power", "charge", "discharge"}
    BY DEF BessValues, p, s
  <2>5. Fits("int16", BessSign * p) /\ Fits("uint16", s)
    BY <2>2, <2>3, FitsFacts
  <2>6. \A x \in {MaxCharge, MaxDischarge, 0} : Fits("int16", x)
    <3>1. \A x \in {MaxCharge, MaxDischarge, 0} : x \in Int /\ -Radix <= 2 * x /\ 2 * x < Radix
      BY <1>1, <1>4
    <3> QED
      BY <3>1, FitsFacts
  <2> QED
    BY <2>4, <2>5, <2>6 DEF FitsAll, RegisterType
<1>7. FitsAll(PvValues)
  <2> DEFINE p == ReadMeas(out.pv, NoFloor)
  <2>1. p \in {0, out.pv, -out.pv - 1}
    BY <1>2, ReadMeasCases
  <2> HIDE DEF p
  <2>2. PvSign * p \in Int /\ -Radix <= 2 * (PvSign * p) /\ 2 * (PvSign * p) < Radix
    BY <1>1, <1>2, <1>4, <2>1 DEF PvSign
  <2>3. PvValues.power = PvSign * p /\ DOMAIN PvValues = {"power"}
    BY DEF PvValues, p
  <2>4. Fits("int16", PvSign * p)
    BY <2>2, FitsFacts
  <2> QED
    BY <2>3, <2>4 DEF FitsAll, RegisterType
<1>8. FitsAll(LoadValues)
  <2> DEFINE p == ReadMeas(out.load, NoFloor)
  <2>1. p \in {0, out.load, -out.load - 1}
    BY <1>2, ReadMeasCases
  <2> HIDE DEF p
  <2>2. p \in Int /\ -Radix <= 2 * p /\ 2 * p < Radix
    BY <1>1, <1>2, <1>4, <2>1
  <2>3. LoadValues.power = p /\ DOMAIN LoadValues = {"power"}
    BY DEF LoadValues, p
  <2>4. Fits("int16", p)
    BY <2>2, FitsFacts
  <2> QED
    BY <2>3, <2>4 DEF FitsAll, RegisterType
<1> QED
  BY <1>5, <1>6, <1>7, <1>8

\* Only a push whose values do not fit crashes the bridge, and a bridge that
\* has crashed is final.
LEMMA NextEndsOnlyBeyond ==
    ASSUME RegistersFit, Typed, Rated, EndsOnlyBeyond, [Next]_vars
    PROVE  EndsOnlyBeyond'
<1> USE DEF EndsOnlyBeyond
<1>1. CASE PushPcc \/ PushPullBess \/ PushPullPv \/ PushPullLoad
  <2>1. glitch' = glitch
    BY <1>1 DEF PushPcc, PushPullBess, PushPullPv, PushPullLoad, Push
  <2>2. CASE glitch = "high"
    BY <2>1, <2>2
  <2>3. CASE glitch # "high"
    <3>1. /\ FitsAll(PccValues) /\ FitsAll(BessValues)
          /\ FitsAll(PvValues) /\ FitsAll(LoadValues)
      BY <2>3, ValuesFit
    <3> QED
      BY <1>1, <3>1 DEF PushPcc, PushPullBess, PushPullPv, PushPullLoad, Push
  <2> QED
    BY <2>2, <2>3
<1>2. CASE Start \/ StartFails \/ End \/ LoopRuns \/ BeginTick \/ SkipInactive
  BY <1>2 DEF Start, StartFails, End, Leave, LoopRuns, BeginTick, SkipInactive, Skip
<1>3. ASSUME NEW a \in Assets, DropAsset(a) \/ RestoreAsset(a)
      PROVE  UNCHANGED <<turn, glitch>>
  BY <1>3 DEF DropAsset, RestoreAsset
<1>4. ASSUME NEW b \in Blocks, CoreWrites(b) PROVE UNCHANGED <<turn, glitch>>
  BY <1>4 DEF CoreWrites, model
<1>5. CASE ApplyProfilePoint \/ SwitchPcc \/ MoveSlider \/ Settle \/ UNCHANGED vars
  BY <1>5 DEF ApplyProfilePoint, SwitchPcc, MoveSlider, Settle, vars, model
<1>6. CASE Disturb
  BY <1>6 DEF Disturb, Ticking
<1> QED
  BY <1>1, <1>2, <1>3, <1>4, <1>5, <1>6 DEF Next

\* As long as the ratings fit their registers, only a value above its
\* register's range ends the bridge: what is not a number or below the floor is
\* replaced before it is encoded, and all else fits.
THEOREM SpecEndsOnlyBeyond ==
    ASSUME RegistersFit
    PROVE  Spec => []EndsOnlyBeyond
<1>1. Init => Rated /\ EndsOnlyBeyond
  BY Ratings DEF Init, Rated, EndsOnlyBeyond
<1>2. Typed /\ Rated /\ EndsOnlyBeyond /\ [Next]_vars => Rated' /\ EndsOnlyBeyond'
  BY NextRated, NextEndsOnlyBeyond
<1> QED
  BY <1>1, <1>2, SpecTyped, PTL DEF Spec

-----------------------------------------------------------------------------
(* What a tick leaves behind *)

\* A block is enabled exactly while its asset is active, and the bridge has
\* handed the battery its mode and limits before the first tick.
Prepared ==
    /\ \A b \in Blocks : input.enable[b] = active[b]
    /\ Ticking => input.following /\ input.maxSoc = MaxSoc /\ input.minSoc = MinSoc

\* Registers and references agree with the model, asset by asset.
PccTold == input.closed => reg["pcc"].power = out.load - out.bess - out.pv
BessTold ==
    /\ reg["bess"].power = -out.bess
    /\ reg["bess"].charge = (IF soc < MaxSoc THEN MaxCharge ELSE 0)
    /\ reg["bess"].discharge = (IF soc > MinSoc THEN MaxDischarge ELSE 0)
    /\ input.pref = BessReference(reg["bess"].sp)
PvTold == reg["pv"].power = -out.pv /\ input.curtail = reg["pv"].sp
LoadTold ==
    /\ reg["load"].power = out.load
    /\ input.demand = Limit((base * reg["load"].sp) \div One, 0, One)

\* As long as nothing else moves, they do so from their part of the tick on.
Told ==
    still /\ glitch = "none" /\ Ticking =>
        /\ Quiet
        /\ turn \in {"bess", "pv", "load", "asleep"} => PccTold
        /\ turn \in {"pv", "load", "asleep"} /\ active["bess"] => BessTold
        /\ turn \in {"load", "asleep"} /\ active["pv"] => PvTold
        /\ turn = "asleep" /\ active["load"] => LoadTold

\* A push brings the bridge to the next asset or ends it; it changes no input
\* that says what is enabled or connected.
LEMMA NextPrepared ==
    ASSUME Typed, Prepared, [Next]_vars
    PROVE  Prepared'
<1> USE Ratings
<1>1. CASE Start
  <2>1. /\ \E v : input' = [input EXCEPT !.following = TRUE, !.maxSoc = MaxSoc,
                                          !.minSoc = MinSoc, !.irradiance = v]
        /\ active' = active
    BY <1>1 DEF Start
  <2> QED
    BY <2>1 DEF Prepared, Typed, Inputs
<1>2. CASE StartFails \/ End
  <2>1. UNCHANGED <<input, active>> /\ turn' = "ended"
    BY <1>2 DEF StartFails, End, Leave, model, servers
  <2> QED
    BY <2>1 DEF Prepared, Ticking
<1>3. CASE LoopRuns \/ BeginTick \/ SkipInactive
  <2>1. UNCHANGED <<input, active>> /\ Ticking
    BY <1>3 DEF LoopRuns, BeginTick, SkipInactive, Skip, model, servers, Ticking
  <2> QED
    BY <2>1 DEF Prepared
<1>4. CASE PushPcc \/ PushPullBess \/ PushPullPv \/ PushPullLoad
  <2>1. active' = active /\ Ticking
    BY <1>4 DEF PushPcc, PushPullBess, PushPullPv, PushPullLoad, Push, servers, Ticking
  <2>2. \/ input' = input
        \/ \E v : input' = [input EXCEPT !.pref = v]
        \/ \E v : input' = [input EXCEPT !.curtail = v]
        \/ \E v : input' = [input EXCEPT !.demand = v]
    BY <1>4 DEF PushPcc, PushPullBess, PushPullPv, PushPullLoad, Pulled
  <2> QED
    BY <2>1, <2>2 DEF Prepared, Typed, Inputs
<1>5. ASSUME NEW a \in Assets, NEW on \in BOOLEAN,
             active' = [active EXCEPT ![a] = on], turn' = turn,
             input' = IF a \in Blocks THEN [input EXCEPT !.enable[a] = on] ELSE input
      PROVE  Prepared'
  <2>1. Blocks \subseteq Assets
    BY DEF Blocks
  <2>2. /\ input.enable \in [Blocks -> BOOLEAN] /\ active \in [Assets -> BOOLEAN]
        /\ input \in Inputs
    BY DEF Typed, Inputs
  <2>3. /\ UNCHANGED <<input.following, input.maxSoc, input.minSoc>>
        /\ \A b \in Blocks : input'.enable[b] = IF b = a THEN on ELSE input.enable[b]
    BY <1>5, <2>2 DEF Inputs
  <2>4. \A b \in Blocks : active'[b] = IF b = a THEN on ELSE active[b]
    BY <1>5, <2>1, <2>2
  <2> QED
    BY <1>5, <2>3, <2>4 DEF Prepared, Ticking
<1>6. ASSUME NEW a \in Assets, DropAsset(a) PROVE Prepared'
  BY <1>5, <1>6 DEF DropAsset
<1>7. ASSUME NEW a \in Assets, RestoreAsset(a) PROVE Prepared'
  BY <1>5, <1>7 DEF RestoreAsset
<1>8. ASSUME NEW b \in Blocks, CoreWrites(b) PROVE Prepared'
  BY <1>8 DEF CoreWrites, model, servers, Prepared, Ticking
<1>9. CASE ApplyProfilePoint \/ SwitchPcc
  <2>1. UNCHANGED <<active, turn>>
    BY <1>9 DEF ApplyProfilePoint, SwitchPcc, servers
  <2>2. \/ input' = input
        \/ \E v : input' = [input EXCEPT !.irradiance = v]
        \/ \E v : input' = [input EXCEPT !.closed = v]
    BY <1>9, Zenon DEF ApplyProfilePoint, SwitchPcc
  <2> QED
    BY <2>1, <2>2 DEF Prepared, Typed, Inputs, Ticking
<1>10. CASE MoveSlider \/ Settle \/ Disturb \/ UNCHANGED vars
  <2>1. UNCHANGED <<input, active, turn>>
    BY <1>10 DEF MoveSlider, Settle, Disturb, vars, model, servers
  <2> QED
    BY <2>1 DEF Prepared, Ticking
<1> QED
  BY <1>1, <1>2, <1>3, <1>4, <1>6, <1>7, <1>8, <1>9, <1>10 DEF Next

\* The parts of a tick, one by one.
LEMMA ToldByPcc ==
    ASSUME Typed, Told, PushPcc
    PROVE  Told'
<1> USE Ratings
<1> SUFFICES ASSUME still', glitch' = "none", Ticking' PROVE Told'
  BY DEF Told
<1>1. "sp" \notin DOMAIN PccValues /\ Push("pcc", PccValues, "bess") /\ UNCHANGED input
  BY DEF PushPcc, PccValues
<1>2. /\ UNCHANGED <<soc, out, glitch, still, active>>
      /\ FitsAll(PccValues) => reg' = Pushed("pcc", PccValues) /\ turn' = "bess"
      /\ ~FitsAll(PccValues) => turn' = "crashed"
  BY <1>1, PushKeeps
<1>3. reg' = Pushed("pcc", PccValues) /\ turn' = "bess"
  BY <1>2 DEF Ticking
<1>4. turn = "pcc"
  BY <1>1 DEF Push
<1>5. Quiet'
  BY <1>1, <1>2, <1>4 DEF Told, Ticking, Quiet
<1>6. reg'["pcc"].power = ReadMeas(MeterW, NoFloor) \div 1000
  <2> DEFINE x == ReadMeas(MeterW, NoFloor) \div 1000
  <2>1. /\ PccValues["power"] = PccSign * x
        /\ DOMAIN PccValues = {"hz", "power"}
    BY DEF PccValues
  <2>2. Registers /\ DOMAIN reg["pcc"] = {"hz", "power"}
    BY DEF Typed, Registers
  <2>3. reg'["pcc"]["power"] = PccValues["power"]
    BY <1>3, <2>1, <2>2, PushedFacts
  <2>4. x \in Int
    <3>1. MeterW \in Int
      BY DEF MeterW, Typed
    <3>2. ReadMeas(MeterW, NoFloor) = MeterW
      BY <1>2, <3>1, ReadMeasCases
    <3> QED
      BY <3>1, <3>2
  <2> HIDE DEF x
  <2> QED
    BY <2>1, <2>3, <2>4 DEF PccSign, x
<1>7. PccTold'
  <2> SUFFICES ASSUME input.closed PROVE reg'["pcc"].power = out.load - out.bess - out.pv
    BY <1>1, <1>2 DEF PccTold
  <2> DEFINE d == out.load - out.bess - out.pv
  <2>1. out.load \in Int /\ out.bess \in Int /\ out.pv \in Int
    BY DEF Typed
  <2>2. d \in Int /\ MeterW = 1000 * d
    BY <2>1 DEF MeterW
  <2> HIDE DEF d
  <2>3. MeterW \in Int
    BY <2>2
  <2>4. ReadMeas(MeterW, NoFloor) = MeterW
    BY <1>2, <2>3, ReadMeasCases
  <2>5. MeterW \div 1000 = d
    BY <2>2, <2>3, Kilowatts
  <2> QED
    BY <1>6, <2>4, <2>5 DEF d
<1> QED
  BY <1>3, <1>5, <1>7 DEF Told

\* What an earlier part told stays told while a later asset is served.
LEMMA ToldStays ==
    ASSUME Typed, UNCHANGED <<soc, out, active>>, Registers
    PROVE  /\ Quiet /\ input'.enable = input.enable => Quiet'
           /\ PccTold /\ reg'["pcc"] = reg["pcc"] /\ input'.closed = input.closed => PccTold'
           /\ BessTold /\ reg'["bess"] = reg["bess"] /\ input'.pref = input.pref => BessTold'
           /\ PvTold /\ reg'["pv"] = reg["pv"] /\ input'.curtail = input.curtail => PvTold'
  BY DEF Quiet, PccTold, BessTold, PvTold

LEMMA ToldByBess ==
    ASSUME Typed, Told, PushPullBess
    PROVE  Told'
<1> USE Ratings
<1> SUFFICES ASSUME still', glitch' = "none", Ticking' PROVE Told'
  BY DEF Told
<1>1. /\ "sp" \notin DOMAIN BessValues /\ Push("bess", BessValues, "pv")
      /\ Pulled(BessValues, [input EXCEPT !.pref = BessReference(reg["bess"].sp)])
  BY DEF PushPullBess, BessValues
<1>2. /\ UNCHANGED <<soc, out, glitch, still, active>>
      /\ FitsAll(BessValues) => reg' = Pushed("bess", BessValues) /\ turn' = "pv"
      /\ ~FitsAll(BessValues) => turn' = "crashed"
  BY <1>1, PushKeeps
<1>3. FitsAll(BessValues) /\ reg' = Pushed("bess", BessValues) /\ turn' = "pv"
  BY <1>2 DEF Ticking
<1>4. input' = [input EXCEPT !.pref = BessReference(reg["bess"].sp)]
  BY <1>1, <1>3 DEF Pulled
<1>5. /\ input'.pref = BessReference(reg["bess"].sp)
      /\ input'.enable = input.enable /\ input'.closed = input.closed
  BY <1>4 DEF Typed, Inputs
<1>6. turn = "bess" /\ Quiet /\ PccTold
  BY <1>1, <1>2 DEF Push, Told, Ticking
<1>7. Registers /\ DOMAIN reg["bess"] = {"soc", "power", "charge", "discharge", "sp"}
  BY DEF Typed, Registers
<1>8. DOMAIN BessValues = {"soc", "power", "charge", "discharge"}
  BY DEF BessValues
<1>9. /\ reg'["pcc"] = reg["pcc"]
      /\ \A p \in {"power", "charge", "discharge"} : reg'["bess"][p] = BessValues[p]
      /\ reg'["bess"]["sp"] = reg["bess"]["sp"]
  BY <1>3, <1>7, <1>8, PushedFacts
<1>10. out.bess \in Int /\ soc \in Nat
  BY BridgeAssumption DEF Typed
<1>11. ReadMeas(out.bess, NoFloor) = out.bess /\ ReadMeas(soc, 0) = soc
  BY <1>2, <1>10, ReadMeasCases
<1>12. /\ BessValues["power"] = -out.bess
       /\ BessValues["charge"] = (IF soc < MaxSoc THEN MaxCharge ELSE 0)
       /\ BessValues["discharge"] = (IF soc > MinSoc THEN MaxDischarge ELSE 0)
  BY <1>10, <1>11 DEF BessValues, BessSign
<1>13. BessTold'
  BY <1>2, <1>5, <1>9, <1>12 DEF BessTold, BessReference
<1> QED
  BY <1>2, <1>3, <1>5, <1>6, <1>7, <1>9, <1>13, ToldStays DEF Told

LEMMA ToldByPv ==
    ASSUME Typed, Told, PushPullPv
    PROVE  Told'
<1> USE Ratings
<1> SUFFICES ASSUME still', glitch' = "none", Ticking' PROVE Told'
  BY DEF Told
<1>1. /\ "sp" \notin DOMAIN PvValues /\ Push("pv", PvValues, "load")
      /\ Pulled(PvValues, [input EXCEPT !.curtail = PvCurtailment(reg["pv"].sp)])
  BY DEF PushPullPv, PvValues
<1>2. /\ UNCHANGED <<soc, out, glitch, still, active>>
      /\ FitsAll(PvValues) => reg' = Pushed("pv", PvValues) /\ turn' = "load"
      /\ ~FitsAll(PvValues) => turn' = "crashed"
  BY <1>1, PushKeeps
<1>3. FitsAll(PvValues) /\ reg' = Pushed("pv", PvValues) /\ turn' = "load"
  BY <1>2 DEF Ticking
<1>4. input' = [input EXCEPT !.curtail = PvCurtailment(reg["pv"].sp)]
  BY <1>1, <1>3 DEF Pulled
<1>5. /\ input'.curtail = PvCurtailment(reg["pv"].sp) /\ input'.pref = input.pref
      /\ input'.enable = input.enable /\ input'.closed = input.closed
  BY <1>4 DEF Typed, Inputs
<1>6. turn = "pv" /\ Quiet /\ PccTold /\ (active["bess"] => BessTold)
  BY <1>1, <1>2 DEF Push, Told, Ticking
<1>7. Registers /\ DOMAIN reg["pv"] = {"power", "sp"}
  BY DEF Typed, Registers
<1>8. DOMAIN PvValues = {"power"}
  BY DEF PvValues
<1>9. /\ reg'["pcc"] = reg["pcc"] /\ reg'["bess"] = reg["bess"]
      /\ reg'["pv"]["power"] = PvValues["power"] /\ reg'["pv"]["sp"] = reg["pv"]["sp"]
  BY <1>3, <1>7, <1>8, PushedFacts
<1>10. out.pv \in Int
  BY DEF Typed
<1>11. PvValues["power"] = -out.pv
  BY <1>2, <1>10, ReadMeasCases DEF PvValues, PvSign
<1>12. PvTold'
  BY <1>2, <1>5, <1>9, <1>11, ReferenceTypes DEF PvTold
<1> QED
  BY <1>2, <1>3, <1>5, <1>6, <1>7, <1>9, <1>12, ToldStays DEF Told

LEMMA ToldByLoad ==
    ASSUME Typed, Told, PushPullLoad
    PROVE  Told'
<1> USE Ratings
<1> SUFFICES ASSUME still', glitch' = "none", Ticking' PROVE Told'
  BY DEF Told
<1>1. /\ "sp" \notin DOMAIN LoadValues /\ Push("load", LoadValues, "asleep")
      /\ Pulled(LoadValues, [input EXCEPT !.demand = LoadReference(reg["load"].sp)])
      /\ FitsAll(LoadValues) => base' = LoadBase
  BY DEF PushPullLoad, LoadValues
<1>2. /\ UNCHANGED <<soc, out, glitch, still, active>>
      /\ FitsAll(LoadValues) => reg' = Pushed("load", LoadValues) /\ turn' = "asleep"
      /\ ~FitsAll(LoadValues) => turn' = "crashed"
  BY <1>1, PushKeeps
<1>3. FitsAll(LoadValues) /\ reg' = Pushed("load", LoadValues) /\ turn' = "asleep"
  BY <1>2 DEF Ticking
<1>4. input' = [input EXCEPT !.demand = LoadReference(reg["load"].sp)] /\ base' = LoadBase
  BY <1>1, <1>3 DEF Pulled
<1>5. /\ input'.demand = LoadReference(reg["load"].sp)
      /\ input'.pref = input.pref /\ input'.curtail = input.curtail
      /\ input'.enable = input.enable /\ input'.closed = input.closed
  BY <1>4 DEF Typed, Inputs
<1>6. /\ turn = "load" /\ Quiet /\ PccTold
      /\ active["bess"] => BessTold
      /\ active["pv"] => PvTold
  BY <1>1, <1>2 DEF Push, Told, Ticking
<1>7. Registers /\ DOMAIN reg["load"] = {"power", "sp"}
  BY DEF Typed, Registers
<1>8. DOMAIN LoadValues = {"power"}
  BY DEF LoadValues
<1>9. /\ reg'["pcc"] = reg["pcc"] /\ reg'["bess"] = reg["bess"] /\ reg'["pv"] = reg["pv"]
      /\ reg'["load"]["power"] = LoadValues["power"] /\ reg'["load"]["sp"] = reg["load"]["sp"]
  BY <1>3, <1>7, <1>8, PushedFacts
<1>10. out.load \in Int
  BY DEF Typed
<1>11. LoadValues["power"] = out.load
  BY <1>2, <1>10, ReadMeasCases DEF LoadValues
<1>12. LoadTold'
  BY <1>2, <1>4, <1>5, <1>9, <1>11 DEF LoadTold, LoadReference
<1> QED
  BY <1>2, <1>3, <1>5, <1>6, <1>7, <1>9, <1>12, ToldStays DEF Told

\* Every step keeps what the tick has told, or is not a tick's.
LEMMA NextTold ==
    ASSUME Typed, Told, [Next]_vars
    PROVE  Told'
<1>1. CASE Start
  <2>1. /\ still' = Quiet /\ turn' = "pcc" /\ out' = out
        /\ \E v : input' = [input EXCEPT !.following = TRUE, !.maxSoc = MaxSoc,
                                         !.minSoc = MinSoc, !.irradiance = v]
    BY <1>1 DEF Start
  <2>2. input'.enable = input.enable
    BY <2>1 DEF Typed, Inputs
  <2> QED
    BY <2>1, <2>2 DEF Told, Quiet
<1>2. CASE StartFails \/ End
  BY <1>2 DEF StartFails, End, Leave, Told, Ticking
<1>3. CASE LoopRuns
  <2>1. /\ UNCHANGED <<input, soc, out, glitch, reg, active, base, turn, still>>
    BY <1>3 DEF LoopRuns, model
  <2> QED
    BY <2>1 DEF Told, Quiet, Ticking, PccTold, BessTold, PvTold, LoadTold
<1>4. CASE BeginTick
  BY <1>4 DEF BeginTick, model, Told, Quiet
<1>5. CASE SkipInactive
  <2>1. /\ UNCHANGED <<input, soc, out, glitch, reg, active, base, still>>
        /\ \/ turn = "bess" /\ ~active["bess"] /\ turn' = "pv"
           \/ turn = "pv" /\ ~active["pv"] /\ turn' = "load"
           \/ turn = "load" /\ ~active["load"] /\ turn' = "asleep"
    BY <1>5 DEF SkipInactive, Skip, model, servers
  <2> QED
    BY <2>1 DEF Told, Quiet, Ticking, PccTold, BessTold, PvTold, LoadTold
<1>6. ASSUME ~still' PROVE Told'
  BY <1>6 DEF Told
<1>7. ASSUME NEW a \in Assets, DropAsset(a) \/ RestoreAsset(a) PROVE ~still'
  BY <1>7 DEF DropAsset, RestoreAsset, Between, Acts
<1>8. ASSUME NEW b \in Blocks, CoreWrites(b) PROVE ~still'
  BY <1>8 DEF CoreWrites, Between, Acts
<1>9. CASE ApplyProfilePoint \/ SwitchPcc \/ MoveSlider \/ Settle \/ Disturb
  <2>1. ~still'
    BY <1>9 DEF ApplyProfilePoint, SwitchPcc, MoveSlider, Settle, Disturb, Between, Acts
  <2> QED
    BY <1>6, <2>1
<1>10. CASE UNCHANGED vars
  <2>1. UNCHANGED <<input, soc, out, glitch, reg, active, base, turn, still>>
    BY <1>10 DEF vars, model, servers
  <2> QED
    BY <2>1 DEF Told, Quiet, Ticking, PccTold, BessTold, PvTold, LoadTold
<1> QED
  BY <1>1, <1>2, <1>3, <1>4, <1>5, <1>6, <1>7, <1>8, <1>9, <1>10,
     ToldByPcc, ToldByBess, ToldByPv, ToldByLoad DEF Next

\* What the meter reports is the sum of what the active assets report.
LEMMA ToldIsBalanced ==
    ASSUME Typed, Prepared, Told, turn = "asleep", still, glitch = "none"
    PROVE  Balanced
<1>1. /\ Quiet /\ PccTold
      /\ active["bess"] => BessTold
      /\ active["pv"] => PvTold
      /\ active["load"] => LoadTold
  BY DEF Told, Ticking
<1>2. /\ ~active["bess"] => out.bess = 0
      /\ ~active["pv"] => out.pv = 0
      /\ ~active["load"] => out.load = 0
  BY <1>1 DEF Quiet, Prepared, Blocks, Assets
<1>3. out.bess \in Int /\ out.pv \in Int /\ out.load \in Int
  BY DEF Typed
<1>4. /\ Powers("bess") = -out.bess
      /\ Powers("pv") = -out.pv
      /\ Powers("load") = out.load
  BY <1>1, <1>2, <1>3 DEF Powers, BessTold, PvTold, LoadTold
<1> QED
  BY <1>1, <1>3, <1>4 DEF Balanced, PccTold

LEMMA ReferenceBack ==
    ASSUME Resolved, NEW kw \in Setpoints \cup {0}
    PROVE  (BessReference(kw) * Base["bess"]) \div One = -kw
<1> DEFINE v == BessSign * kw
<1>1. kw \in Int /\ v \in Int /\ v = -kw
  BY BridgeAssumption DEF BessSign
<1>2. (v * One) % Base["bess"] = 0
  <2>1. CASE kw \in Setpoints
    BY <2>1 DEF Resolved
  <2>2. CASE kw = 0
    <3>1. v * One = 0
      <4>1. v = 0
        BY <1>1, <2>2
      <4> HIDE DEF v
      <4> QED
        BY <4>1, Ratings
    <3>2. 0 \in 0 .. Base["bess"] - 1
      BY Ratings
    <3>3. 0 % Base["bess"] = 0
      BY <3>2, Ratings, ModInRange
    <3> HIDE DEF v
    <3> QED
      BY <3>1, <3>3
  <2> QED
    BY <2>1, <2>2
<1>3. BessReference(kw) = (v * One) \div Base["bess"]
  BY DEF BessReference
<1> HIDE DEF v
<1>4. (((v * One) \div Base["bess"]) * Base["bess"]) \div One = v
  BY <1>1, <1>2, Ratings, ScaledBack
<1> QED
  BY <1>1, <1>3, <1>4

\* Limiting the opposite is the opposite of limiting.
LEMMA LimitFlips ==
    ASSUME NEW x \in Int, NEW lo \in Int, NEW hi \in Int, lo <= hi
    PROVE  -Limit(-x, -hi, -lo) = Limit(x, lo, hi)
  BY DEF Limit

\* A model that has settled does what the registers say.
LEMMA ToldIsObeyed ==
    ASSUME Resolved, Typed, Prepared, Told, turn = "asleep", still, glitch = "none",
           out = Settled
    PROVE  Obeyed
<1>1. /\ active["bess"] => BessTold
      /\ active["pv"] => PvTold
      /\ active["load"] => LoadTold
  BY DEF Told, Ticking
<1>2. /\ input.following /\ input.maxSoc = MaxSoc /\ input.minSoc = MinSoc
      /\ input.enable["bess"] = active["bess"] /\ input.enable["pv"] = active["pv"]
      /\ input.enable["load"] = active["load"]
  BY Ratings DEF Prepared, Ticking
<1>3. ASSUME active["bess"]
      PROVE  reg["bess"].power = Limit(reg["bess"].sp, -reg["bess"].discharge, reg["bess"].charge)
  <2> DEFINE sp == reg["bess"].sp
             charge == reg["bess"].charge
             discharge == reg["bess"].discharge
  <2>1. BessTold
    BY <1>1, <1>3
  <2>2. Room(soc).charge = charge /\ Room(soc).discharge = discharge
    BY <1>2, <2>1 DEF Room, BessTold
  <2>3. charge \in Nat /\ discharge \in Nat
    BY <2>1, Ratings DEF BessTold
  <2>4. sp \in Setpoints \cup {0}
    BY DEF Typed, Registers
  <2>5. sp \in Int
    <3>1. \A v \in Setpoints \cup {0} : v \in Int
      BY BridgeAssumption
    <3> QED
      BY <2>4, <3>1, Zenon
  <2>6. (input.pref * Base["bess"]) \div One = -sp
    BY <2>1, <2>4, ReferenceBack DEF BessTold
  <2>7. Settled.bess = Limit((input.pref * Base["bess"]) \div One,
                             -Room(soc).charge, Room(soc).discharge)
    BY <1>2, <1>3 DEF Settled
  <2>8. reg["bess"].power = -out.bess
    BY <2>1 DEF BessTold
  <2> HIDE DEF sp, charge, discharge
  <2>9. out.bess = Limit(-sp, -charge, discharge)
    BY <2>2, <2>6, <2>7
  <2>10. discharge = -(-discharge) /\ -discharge \in Int /\ charge \in Int /\ -discharge <= charge
    BY <2>3
  <2>11. -Limit(-sp, -charge, -(-discharge)) = Limit(sp, -discharge, charge)
    BY <2>5, <2>10, LimitFlips
  <2> QED
    BY <2>8, <2>9, <2>10, <2>11 DEF sp, charge, discharge
<1>4. ASSUME active["pv"]
      PROVE  reg["pv"].power
               = -((Limit(input.irradiance, 0, reg["pv"].sp) * Base["pv"]) \div One)
  <2>1. reg["pv"].power = -out.pv /\ input.curtail = reg["pv"].sp
    BY <1>1, <1>4 DEF PvTold
  <2>2. Settled.pv = (Limit(input.irradiance, 0, input.curtail) * Base["pv"]) \div One
    BY <1>2, <1>4 DEF Settled
  <2> QED
    BY <2>1, <2>2
<1>5. ASSUME active["load"]
      PROVE  reg["load"].power
               = (Limit((base * reg["load"].sp) \div One, 0, One) * Base["load"]) \div One
  <2>1. /\ reg["load"].power = out.load
        /\ input.demand = Limit((base * reg["load"].sp) \div One, 0, One)
    BY <1>1, <1>5 DEF LoadTold
  <2>2. Settled.load = (input.demand * Base["load"]) \div One
    BY <1>2, <1>5 DEF Settled
  <2> QED
    BY <2>1, <2>2
<1> QED
  BY <1>3, <1>4, <1>5 DEF Obeyed

LEMMA InitPreparedTold == Init => Prepared /\ Told
  BY Ratings DEF Init, Prepared, Told, Ticking

\* After a tick in which nothing moved, the meter's register is the sum of the
\* others, and a model that has settled does what its registers ask: signs and
\* scales agree on both sides, for setpoints that are exact per unit.
THEOREM SpecSignsAgree ==
    ASSUME Resolved
    PROVE  Spec => []SignsAgree
<1>1. Typed /\ Prepared /\ Told /\ [Next]_vars => Prepared' /\ Told'
  BY NextPrepared, NextTold
<1>2. Typed /\ Prepared /\ Told => SignsAgree
  BY ToldIsBalanced, ToldIsObeyed DEF SignsAgree
<1> QED
  BY <1>1, <1>2, InitPreparedTold, SpecTyped, PTL DEF Spec

-----------------------------------------------------------------------------
(* Rows: where models begin in an image, and points in a model *)

\* A set of numbers that has zero, and the next with each, has all.
LEMMA CountsUp ==
    ASSUME NEW S, 0 \in S, \A n \in Nat : n \in S => n + 1 \in S
    PROVE  Nat \subseteq S
<1> SUFFICES ASSUME Nat \ S # {} PROVE FALSE
  OBVIOUS
<1> DEFINE R == Nat \ S
<1>1. PICK m \in R : \A y \in R : ~(<<y, m>> \in OpToRel(<, Nat))
  <2>1. R \subseteq Nat /\ R # {}
    OBVIOUS
  <2> HIDE DEF R
  <2> QED
    BY <2>1, NatLessThanWellFounded, WFMin
<1>2. m \in Nat /\ m # 0 /\ m \notin S
  OBVIOUS
<1>3. m - 1 \in Nat /\ m - 1 < m /\ (m - 1) + 1 = m
  BY <1>2
<1>4. m - 1 \notin R
  BY <1>1, <1>2, <1>3, Zenon DEF OpToRel
<1>5. m - 1 \in S
  BY <1>3, <1>4
<1> QED
  BY <1>2, <1>3, <1>5

\* A thing that ends where the room does begins inside it.
LEMMA BeginsInside ==
    ASSUME NEW x \in Nat, NEW y \in Nat, NEW h \in Nat, NEW room \in Nat, x < y, y <= 2 + room
    PROVE  x \in 0 .. 1 + room /\ h + x \in Nat
  OBVIOUS

\* An offset in a room between two bounds is between them.
LEMMA LiesBetween ==
    ASSUME NEW low \in Nat, NEW high \in Nat, NEW h \in Nat, NEW room \in Nat,
           NEW x \in 0 .. 1 + room, low <= h, h + 2 + room <= high
    PROVE  h + x \in Nat /\ low <= h + x /\ h + x < high
  OBVIOUS

LEMMA SumOfThree ==
    ASSUME NEW a \in Nat, NEW b \in Nat, NEW s, s = 2 + b
    PROVE  a + s = a + 2 + b
  OBVIOUS

LEMMA SumBeyond ==
    ASSUME NEW a \in Nat, NEW b \in Nat, NEW c \in Nat, NEW d \in Nat, a + b <= c
    PROVE  a + b <= c + d
  OBVIOUS

\* at is the row that begins at start with things of these sizes.
Row(at, start, size) ==
    /\ at \in Seq(Nat) /\ Len(at) = Len(size) + 1 /\ at[1] = start
    /\ \A i \in 1 .. Len(size) : at[i + 1] = at[i] + size[i]

LEMMA RowExists ==
    ASSUME NEW start \in Nat, NEW size \in Seq(Nat)
    PROVE  \E at : Row(at, start, size)
<1> DEFINE n == Len(size)
           Upto(at, k) == /\ at \in Seq(Nat) /\ Len(at) = k + 1 /\ at[1] = start
                          /\ \A i \in 1 .. k : at[i + 1] = at[i] + size[i]
           N == {k \in Nat : k <= n => \E at : Upto(at, k)}
<1>0. n \in Nat
  OBVIOUS
<1>1. 0 \in N
  <2>1. Upto(<<start>>, 0)
    OBVIOUS
  <2> QED
    BY <2>1
<1>2. ASSUME NEW k \in Nat, k \in N PROVE k + 1 \in N
  <2> SUFFICES ASSUME k + 1 <= n PROVE \E at : Upto(at, k + 1)
    OBVIOUS
  <2>1. PICK at : Upto(at, k)
    BY <1>0, <1>2
  <2> DEFINE v == at[k + 1] + size[k + 1]
             next == Append(at, v)
  <2>2. v \in Nat
    <3>1. at[k + 1] \in Nat
      BY <2>1, ElementOfSeq
    <3>2. size[k + 1] \in Nat
      BY <1>0, ElementOfSeq
    <3> QED
      BY <3>1, <3>2
  <2> HIDE DEF v
  <2>3. /\ next \in Seq(Nat) /\ Len(next) = k + 2 /\ next[k + 2] = v
        /\ \A i \in 1 .. k + 1 : next[i] = at[i]
    BY <2>1, <2>2, AppendProperties
  <2> HIDE DEF next
  <2>4. ASSUME NEW i \in 1 .. k + 1 PROVE next[i + 1] = next[i] + size[i]
    <3>1. CASE i = k + 1
      BY <2>3, <3>1 DEF v
    <3>2. CASE i \in 1 .. k
      <4>1. i + 1 \in 1 .. k + 1
        BY <3>2
      <4> QED
        BY <2>1, <2>3, <3>2, <4>1
    <3> QED
      BY <3>1, <3>2
  <2>5. Upto(next, k + 1)
    BY <2>1, <2>3, <2>4
  <2> QED
    BY <2>5
<1> HIDE DEF N
<1>3. n \in N
  BY <1>0, <1>1, <1>2, CountsUp
<1> QED
  BY <1>0, <1>3 DEF N, Row

\* Starts is it.
LEMMA StartsIs ==
    ASSUME NEW start \in Nat, NEW size \in Seq(Nat)
    PROVE  Row(Starts(start, size), start, size)
<1> DEFINE n == Len(size)
           Build(f) == [i \in 0 .. n |-> IF i = 0 THEN <<start>>
                                         ELSE Append(f[i - 1], f[i - 1][i] + size[i])]
           row == CHOOSE f : f = Build(f)
<1>0. n \in Nat
  OBVIOUS
<1>1. PICK at : Row(at, start, size)
  BY RowExists
<1>2. /\ at \in Seq(Nat) /\ Len(at) = n + 1 /\ at[1] = start
      /\ \A i \in 1 .. n : at[i + 1] = at[i] + size[i]
  BY <1>1 DEF Row
<1> DEFINE g == [i \in 0 .. n |-> SubSeq(at, 1, i + 1)]
<1>3. \A i \in 0 .. n : /\ g[i] \in Seq(Nat) /\ Len(g[i]) = i + 1
                        /\ \A j \in 1 .. i + 1 : g[i][j] = at[j]
  <2> TAKE i \in 0 .. n
  <2>1. i + 1 \in 0 .. Len(at) /\ 1 \in 1 .. Len(at) + 1 /\ (i + 1) - 1 + 1 = i + 1
    BY <1>0, <1>2
  <2>2. /\ SubSeq(at, 1, i + 1) \in Seq(Nat) /\ Len(SubSeq(at, 1, i + 1)) = i + 1
        /\ \A j \in 1 .. i + 1 : SubSeq(at, 1, i + 1)[j] = at[j]
    BY <1>0, <1>2, <2>1, SubSeqProperties
  <2> QED
    BY <2>2, Zenon
<1>4. ASSUME NEW i \in 1 .. n
      PROVE  g[i] = Append(g[i - 1], g[i - 1][i] + size[i])
  <2> DEFINE v == g[i - 1][i] + size[i]
             s == Append(g[i - 1], v)
  <2>1. i - 1 \in 0 .. n /\ (i - 1) + 1 = i /\ i \in 1 .. (i - 1) + 1 /\ i \in 0 .. n
    BY <1>0
  <2>2. /\ g[i - 1] \in Seq(Nat) /\ Len(g[i - 1]) = i
        /\ \A j \in 1 .. i : g[i - 1][j] = at[j]
        /\ g[i] \in Seq(Nat) /\ Len(g[i]) = i + 1
        /\ \A j \in 1 .. i + 1 : g[i][j] = at[j]
    BY <1>3, <2>1
  <2>3. v = at[i + 1] /\ v \in Nat
    <3>1. v = at[i + 1]
      BY <1>2, <2>1, <2>2
    <3>2. at[i + 1] \in Nat
      BY <1>0, <1>2, ElementOfSeq
    <3> QED
      BY <3>1, <3>2
  <2> HIDE DEF v, g
  <2>4. /\ s \in Seq(Nat) /\ Len(s) = i + 1 /\ s[i + 1] = v
        /\ \A j \in 1 .. i : s[j] = g[i - 1][j]
    BY <2>2, <2>3, AppendProperties
  <2> HIDE DEF s
  <2>5. ASSUME NEW j \in 1 .. i + 1 PROVE s[j] = g[i][j]
    <3>1. g[i][j] = at[j]
      BY <2>2
    <3>2. CASE j = i + 1
      BY <2>3, <2>4, <3>1, <3>2
    <3>3. CASE j # i + 1
      <4>1. j \in 1 .. i
        BY <2>1, <3>3
      <4> QED
        BY <2>2, <2>4, <3>1, <4>1
    <3> QED
      BY <3>2, <3>3
  <2>6. s = g[i]
    BY <2>2, <2>4, <2>5, SeqEqual
  <2> QED
    BY <2>6 DEF s, v
<1>5. g[0] = <<start>>
  <2>1. 0 \in 0 .. n /\ g[0] \in Seq(Nat) /\ Len(g[0]) = 1 /\ g[0][1] = start
    BY <1>0, <1>2, <1>3
  <2> HIDE DEF g
  <2> QED
    BY <2>1, SeqEqual
<1>6. g = Build(g)
  <2> HIDE DEF g
  <2>1. ASSUME NEW i \in 0 .. n PROVE Build(g)[i] = g[i]
    <3>1. CASE i = 0
      BY <1>5, <3>1
    <3>2. CASE i # 0
      <4>1. i \in 1 .. n
        BY <1>0, <3>2
      <4> QED
        BY <1>4, <3>2, <4>1
    <3> QED
      BY <3>1, <3>2
  <2> QED
    BY <2>1 DEF g
<1>7. row = Build(row)
  <2> HIDE DEF g
  <2> QED
    BY <1>6
<1> HIDE DEF row
<1> DEFINE N == {k \in Nat : k <= n => row[k] = g[k]}
<1>8. 0 \in N
  <2>1. 0 \in 0 .. n
    BY <1>0
  <2> HIDE DEF g
  <2>2. row[0] = <<start>>
    BY <1>7, <2>1
  <2> QED
    BY <1>5, <2>2
<1>9. ASSUME NEW k \in Nat, k \in N PROVE k + 1 \in N
  <2> SUFFICES ASSUME k + 1 <= n PROVE row[k + 1] = g[k + 1]
    OBVIOUS
  <2>1. k + 1 \in 0 .. n /\ k + 1 # 0 /\ (k + 1) - 1 = k /\ k + 1 \in 1 .. n
    BY <1>0
  <2> HIDE DEF g
  <2>2. row[k] = g[k]
    BY <1>0, <1>9
  <2>3. row[k + 1] = Append(row[k], row[k][k + 1] + size[k + 1])
    BY <1>7, <2>1
  <2>4. g[k + 1] = Append(g[k], g[k][k + 1] + size[k + 1])
    BY <1>4, <2>1
  <2> QED
    BY <2>2, <2>3, <2>4
<1> HIDE DEF N, g
<1>a. row[n] = g[n]
  <2>1. n \in N
    BY <1>0, <1>8, <1>9, CountsUp
  <2> QED
    BY <1>0, <2>1 DEF N
<1>b. g[n] = at
  <2>1. n \in 0 .. n /\ g[n] \in Seq(Nat) /\ Len(g[n]) = Len(at) /\ \A j \in 1 .. n + 1 : g[n][j] = at[j]
    BY <1>0, <1>2, <1>3
  <2> QED
    BY <1>2, <2>1, SeqEqual
<1>c. Starts(start, size) = row[n]
  BY DEF Starts, row
<1> QED
  BY <1>1, <1>a, <1>b, <1>c

\* What comes first in a row ends before what comes later begins.
LEMMA RowGrows ==
    ASSUME NEW start \in Nat, NEW size \in Seq(Nat), NEW at, Row(at, start, size),
           NEW i \in 1 .. Len(size), NEW j \in i + 1 .. Len(size) + 1
    PROVE  at[i] \in Nat /\ size[i] \in Nat /\ at[j] \in Nat /\ at[i] + size[i] <= at[j]
<1> DEFINE n == Len(size)
           N == {k \in Nat : i + 1 + k <= n + 1 => at[i] + size[i] <= at[i + 1 + k]}
<1>0. /\ n \in Nat /\ at \in Seq(Nat) /\ Len(at) = n + 1
      /\ \A k \in 1 .. n : at[k + 1] = at[k] + size[k]
      /\ \A k \in 1 .. n + 1 : at[k] \in Nat
      /\ \A k \in 1 .. n : size[k] \in Nat
  <2>1. n \in Nat /\ at \in Seq(Nat) /\ Len(at) = n + 1
    BY DEF Row
  <2> QED
    BY <2>1, ElementOfSeq DEF Row
<1>1. 0 \in N
  BY <1>0
<1>2. ASSUME NEW k \in Nat, k \in N PROVE k + 1 \in N
  <2> SUFFICES ASSUME i + 1 + (k + 1) <= n + 1 PROVE at[i] + size[i] <= at[i + 1 + (k + 1)]
    OBVIOUS
  <2> DEFINE m == i + 1 + k
  <2>1. m \in 1 .. n /\ m + 1 = i + 1 + (k + 1) /\ i \in 1 .. n
    BY <1>0
  <2>2. at[i] + size[i] <= at[m]
    BY <1>0, <1>2
  <2> HIDE DEF m
  <2>3. at[m + 1] = at[m] + size[m] /\ at[m] \in Nat /\ size[m] \in Nat /\ at[i] \in Nat /\ size[i] \in Nat
    BY <1>0, <2>1
  <2>4. at[i] + size[i] <= at[m + 1]
    <3>1. at[i] + size[i] <= at[m] + size[m]
      BY <2>2, <2>3, SumBeyond, Zenon
    <3> QED
      BY <2>3, <3>1, Zenon
  <2> QED
    BY <2>1, <2>4
<1> HIDE DEF N
<1> DEFINE d == j - (i + 1)
<1>3. d \in Nat /\ i + 1 + d = j
  BY <1>0
<1> HIDE DEF d
<1>4. d \in N
  BY <1>1, <1>2, <1>3, CountsUp
<1>5. i + 1 + d <= n + 1
  BY <1>0, <1>3
<1>6. at[i] + size[i] <= at[j]
  BY <1>3, <1>4, <1>5 DEF N
<1> QED
  BY <1>0, <1>6

-----------------------------------------------------------------------------
(* Images *)

Image(img) ==
    /\ img.base \in Nat
    /\ img.models \in Seq([id : ModelIds, length : 0 .. Radix - 1])
    /\ img.tail \in {"end", "unmapped", "zeros"}
    /\ Scaled(img.sfs)

\* Models follow one another, each after its header and body.
LEMMA HeaderIs ==
    ASSUME NEW img, Image(img)
    PROVE  /\ Len(img.models) \in Nat /\ DOMAIN img.models = 1 .. Len(img.models)
           /\ Header(img, 1) = img.base + 2
           /\ \A k \in 1 .. Len(img.models) :
                 /\ img.models[k] \in [id : ModelIds, length : 0 .. Radix - 1]
                 /\ img.models[k].length \in Nat
                 /\ Header(img, k + 1) = Header(img, k) + 2 + img.models[k].length
                 /\ \A j \in k + 1 .. Len(img.models) + 1 :
                       Header(img, k) + 2 + img.models[k].length <= Header(img, j)
           /\ \A k \in 1 .. Len(img.models) + 1 :
                 Header(img, k) \in Nat /\ img.base + 2 <= Header(img, k)
<1> DEFINE n == Len(img.models)
           start == img.base + 2
           size == [j \in DOMAIN img.models |-> 2 + img.models[j].length]
           at == Starts(start, size)
<1>1. start \in Nat /\ n \in Nat /\ DOMAIN img.models = 1 .. n
  BY DEF Image
<1>2. ASSUME NEW k \in 1 .. n
      PROVE  /\ img.models[k] \in [id : ModelIds, length : 0 .. Radix - 1]
             /\ img.models[k].length \in Nat
  <2>1. img.models[k] \in [id : ModelIds, length : 0 .. Radix - 1]
    BY ElementOfSeq DEF Image
  <2> QED
    BY <2>1, CodecAssumption
<1>3. size \in Seq(Nat) /\ Len(size) = n /\ \A k \in 1 .. n : size[k] = 2 + img.models[k].length
  BY <1>1, <1>2
<1>4. \A k : Header(img, k) = at[k]
  BY DEF Header
<1> HIDE DEF size, start
<1>5. Row(at, start, size)
  BY <1>1, <1>3, StartsIs
<1> HIDE DEF at
<1>6. /\ at[1] = start /\ \A k \in 1 .. n : at[k + 1] = at[k] + size[k]
      /\ \A k \in 1 .. n + 1 : at[k] \in Nat
  BY <1>1, <1>3, <1>5, ElementOfSeq DEF Row
<1>7. \A k \in 1 .. n : \A j \in k + 1 .. n + 1 : at[k] + size[k] <= at[j]
  BY <1>1, <1>3, <1>5, RowGrows
<1>8. ASSUME NEW k \in 1 .. n
      PROVE  /\ at[k + 1] = at[k] + 2 + img.models[k].length
             /\ \A j \in k + 1 .. n + 1 : at[k] + 2 + img.models[k].length <= at[j]
  <2>1. k \in 1 .. n + 1
    BY <1>1
  <2>2. at[k] \in Nat /\ img.models[k].length \in Nat /\ size[k] = 2 + img.models[k].length
    BY <1>2, <1>3, <1>6, <2>1
  <2>3. at[k] + size[k] = at[k] + 2 + img.models[k].length
    BY <2>2, SumOfThree, Zenon
  <2> QED
    BY <1>6, <1>7, <2>3
<1>9. ASSUME NEW k \in 1 .. n + 1 PROVE start <= at[k]
  <2>1. CASE k = 1
    BY <1>1, <1>6, <2>1
  <2>2. CASE k # 1
    <3>1. 1 \in 1 .. n /\ k \in 1 + 1 .. n + 1
      BY <1>1, <2>2
    <3>2. at[1] + size[1] <= at[k] /\ size[1] = 2 + img.models[1].length /\ img.models[1].length \in Nat /\ at[k] \in Nat
      BY <1>2, <1>3, <1>6, <1>7, <3>1
    <3> QED
      BY <1>1, <1>6, <3>2
  <2> QED
    BY <2>1, <2>2
<1> QED
  BY <1>1, <1>2, <1>4, <1>6, <1>8, <1>9 DEF start

\* The layouts of the catalog.
LEMMA LayoutIs ==
    ASSUME NEW mid \in DOMAIN MODELS
    PROVE  /\ mid \in ModelIds /\ mid # 0 /\ Body(mid) < Radix
           /\ Len(MODELS[mid]) \in Nat /\ Len(MODELS[mid]) >= 2
           /\ DOMAIN MODELS[mid] = 1 .. Len(MODELS[mid])
           /\ MODELS[mid][1] = Point("ID", "uint16", 1, Absent)
           /\ MODELS[mid][2] = Point("L", "uint16", 1, Absent)
           /\ \A i \in DOMAIN MODELS[mid] :
                 /\ MODELS[mid][i].size \in Nat \ {0}
                 /\ MODELS[mid][i].type = "sunssf" => MODELS[mid][i].name \in DOMAIN SfValues
<1>1. /\ mid \in ModelIds \ {0} /\ Body(mid) < Radix
      /\ MODELS[mid] \in Seq({MODELS[mid][i] : i \in DOMAIN MODELS[mid]})
      /\ Len(MODELS[mid]) >= 2
      /\ MODELS[mid][1] = Point("ID", "uint16", 1, Absent)
      /\ MODELS[mid][2] = Point("L", "uint16", 1, Absent)
  BY CatalogAssumption, Zenon
<1>2. \A i \in DOMAIN MODELS[mid] :
         /\ MODELS[mid][i].size \in Nat \ {0}
         /\ MODELS[mid][i].type = "sunssf" => MODELS[mid][i].name \in DOMAIN SfValues
  BY CatalogAssumption, Zenon
<1>3. DOMAIN MODELS[mid] = 1 .. Len(MODELS[mid]) /\ Len(MODELS[mid]) \in Nat
  BY <1>1
<1> QED
  BY <1>1, <1>2, <1>3

\* Points of a model follow one another, the header's id and length first.
LEMMA OffsetIs ==
    ASSUME NEW mid \in DOMAIN MODELS
    PROVE  /\ Len(MODELS[mid]) \in Nat /\ Len(MODELS[mid]) >= 2
           /\ DOMAIN MODELS[mid] = 1 .. Len(MODELS[mid])
           /\ Body(mid) \in 0 .. Radix - 1
           /\ Offset(mid)[1] = 0 /\ Offset(mid)[2] = 1
           /\ \A i \in 1 .. Len(MODELS[mid]) + 1 : Offset(mid)[i] \in Nat
           /\ \A i \in 3 .. Len(MODELS[mid]) + 1 : Offset(mid)[i] >= 2
           /\ \A i \in 1 .. Len(MODELS[mid]) : \A j \in i + 1 .. Len(MODELS[mid]) + 1 :
                 Offset(mid)[i] < Offset(mid)[j]
           /\ Offset(mid)[Len(MODELS[mid]) + 1] = Body(mid) + 2
<1> DEFINE pts == MODELS[mid]
           n == Len(pts)
           size == [i \in DOMAIN pts |-> pts[i].size]
           at == Offset(mid)
<1>1. /\ n \in Nat /\ n >= 2 /\ DOMAIN pts = 1 .. n /\ Body(mid) < Radix
      /\ pts[1] = Point("ID", "uint16", 1, Absent) /\ pts[2] = Point("L", "uint16", 1, Absent)
      /\ \A i \in 1 .. n : pts[i].size \in Nat \ {0}
  BY LayoutIs
<1>2. size \in Seq(Nat) /\ Len(size) = n /\ \A i \in 1 .. n : size[i] = pts[i].size
  BY <1>1
<1>3. size[1] = 1 /\ size[2] = 1
  BY <1>1, <1>2 DEF Point
<1>4. at = Starts(0, size) /\ Body(mid) = at[n + 1] - 2
  BY DEF Offset, Body
<1> HIDE DEF pts, size, at
<1>5. Row(at, 0, size)
  BY <1>2, <1>4, StartsIs
<1>6. /\ at[1] = 0 /\ \A i \in 1 .. n : at[i + 1] = at[i] + size[i]
      /\ \A i \in 1 .. n + 1 : at[i] \in Nat
  BY <1>1, <1>2, <1>5, ElementOfSeq DEF Row
<1>7. at[2] = 1 /\ at[3] = 2
  <2>1. 1 \in 1 .. n /\ 2 \in 1 .. n /\ 1 + 1 = 2 /\ 2 + 1 = 3
    BY <1>1
  <2>2. at[1 + 1] = at[1] + size[1] /\ at[2 + 1] = at[2] + size[2]
    BY <1>6, <2>1
  <2> QED
    BY <1>3, <1>6, <2>1, <2>2
<1>8. ASSUME NEW i \in 1 .. n, NEW j \in i + 1 .. n + 1 PROVE at[i] < at[j]
  <2>1. at[i] \in Nat /\ at[j] \in Nat /\ at[i] + size[i] <= at[j]
    BY <1>2, <1>5, RowGrows
  <2>2. size[i] \in Nat \ {0}
    BY <1>1, <1>2
  <2> QED
    BY <2>1, <2>2
<1>9. ASSUME NEW i \in 3 .. n + 1 PROVE at[i] >= 2
  <2>1. CASE i = 3
    BY <1>7, <2>1
  <2>2. CASE i # 3
    <3>1. 3 \in 1 .. n /\ i \in 3 + 1 .. n + 1 /\ i \in 1 .. n + 1
      BY <1>1, <2>2
    <3>2. at[3] < at[i] /\ at[i] \in Nat
      BY <1>6, <1>8, <3>1
    <3> QED
      BY <1>7, <3>2
  <2> QED
    BY <2>1, <2>2
<1>a. Body(mid) \in 0 .. Radix - 1 /\ at[n + 1] = Body(mid) + 2
  <2>1. n + 1 \in 3 .. n + 1 /\ n + 1 \in 1 .. n + 1
    BY <1>1
  <2>2. at[n + 1] >= 2 /\ at[n + 1] \in Nat
    BY <1>6, <1>9, <2>1
  <2> QED
    BY <1>1, <1>4, <2>2, CodecAssumption
<1> QED
  BY <1>1, <1>6, <1>7, <1>8, <1>9, <1>a DEF pts, at

\* The i-th point of the k-th model, if it has room.
Has(img, k, i) ==
    /\ k \in 1 .. Len(img.models) /\ img.models[k].id \in DOMAIN MODELS
    /\ i \in Kept(img.models[k].id, img.models[k].length)
Place(img, k, i) == Header(img, k) + Offset(img.models[k].id)[i]
PointAt(img, k, i) == MODELS[img.models[k].id][i]

LEMMA CellsAre ==
    ASSUME NEW img, Image(img), NEW c
    PROVE  c \in Cells(img) <=>
             \E k, i : /\ Has(img, k, i)
                       /\ c = [model |-> img.models[k].id, point |-> PointAt(img, k, i),
                               address |-> Place(img, k, i)]
<1>1. DOMAIN img.models = 1 .. Len(img.models)
  BY HeaderIs
<1> QED
  BY <1>1 DEF Cells, CellsOf, Has, Place, PointAt

\* A point is inside its model; a scale factor, in the body.
LEMMA PlaceIs ==
    ASSUME NEW img, Image(img), NEW k, NEW i, Has(img, k, i)
    PROVE  /\ i \in 1 .. Len(MODELS[img.models[k].id])
           /\ Offset(img.models[k].id)[i] \in 0 .. 1 + img.models[k].length
           /\ Place(img, k, i) \in Nat
           /\ PointAt(img, k, i).type = "sunssf" => i >= 3 /\ Offset(img.models[k].id)[i] >= 2
<1> DEFINE mid == img.models[k].id
           length == img.models[k].length
           at == Offset(mid)
           n == Len(MODELS[mid])
<1>1. /\ mid \in DOMAIN MODELS /\ length \in Nat /\ i \in 1 .. n
      /\ at[i + 1] <= 2 + length /\ Header(img, k) \in Nat
  <2>1. k \in 1 .. Len(img.models) /\ k \in 1 .. Len(img.models) + 1 /\ mid \in DOMAIN MODELS
    BY HeaderIs DEF Has
  <2>2. length \in Nat /\ Header(img, k) \in Nat
    BY <2>1, HeaderIs
  <2>3. i \in 1 .. n /\ at[i + 1] <= 2 + length
    BY <2>1, OffsetIs DEF Has, Kept
  <2> QED
    BY <2>1, <2>2, <2>3
<1>2. at[i] < at[i + 1] /\ at[i] \in Nat /\ at[i + 1] \in Nat /\ n \in Nat
  <2>1. n \in Nat
    BY <1>1, OffsetIs
  <2>2. i \in 1 .. n + 1 /\ i + 1 \in i + 1 .. n + 1 /\ i + 1 \in 1 .. n + 1
    BY <1>1, <2>1
  <2> QED
    BY <1>1, <2>1, <2>2, OffsetIs
<1>3. at[i] \in 0 .. 1 + length /\ Header(img, k) + at[i] \in Nat
  BY <1>1, <1>2, BeginsInside, Zenon
<1>4. ASSUME PointAt(img, k, i).type = "sunssf" PROVE i >= 3 /\ at[i] >= 2
  <2>1. MODELS[mid][1].type = "uint16" /\ MODELS[mid][2].type = "uint16"
    BY <1>1, LayoutIs DEF Point
  <2>2. MODELS[mid][i].type = "sunssf"
    BY <1>4 DEF PointAt
  <2>3. i # 1 /\ i # 2
    BY <2>1, <2>2
  <2>4. i \in 3 .. n + 1
    BY <1>1, <1>2, <2>3
  <2> QED
    BY <1>1, <2>4, OffsetIs
<1> QED
  BY <1>1, <1>3, <1>4 DEF Place

-----------------------------------------------------------------------------
(* What the registers of an image read *)

\* The k-th model shows v at that offset from its header.
Shows(img, k, offset, v) ==
    \/ offset = 0 /\ v = img.models[k].id
    \/ offset = 1 /\ v = img.models[k].length
    \/ \E i : /\ Has(img, k, i) /\ PointAt(img, k, i).type = "sunssf"
              /\ offset = Offset(img.models[k].id)[i]
              /\ v = IntToWords("sunssf", img.sfs[PointAt(img, k, i).name])[1]

Register(img, a, v) ==
    \/ a < img.base + 2 /\ v = img.marker[a - img.base + 1]
    \/ \E k \in 1 .. Len(img.models) : \E offset \in 0 .. 1 + img.models[k].length :
          a = Header(img, k) + offset /\ Shows(img, k, offset, v)
    \/ img.tail = "end" /\ a = EndAt(img) /\ v = EndId

LEMMA WrittenIs ==
    ASSUME NEW img, Image(img), NEW w \in Written(img)
    PROVE  Register(img, w[1], w[2])
<1>0. /\ Len(img.models) \in Nat /\ DOMAIN img.models = 1 .. Len(img.models) /\ img.base \in Nat
      /\ \A k \in 1 .. Len(img.models) : Header(img, k) \in Nat /\ img.models[k].length \in Nat
  <2>1. Len(img.models) \in Nat
    BY HeaderIs
  <2>2. 1 .. Len(img.models) \subseteq 1 .. Len(img.models) + 1
    BY <2>1
  <2> QED
    BY <2>1, <2>2, HeaderIs DEF Image
<1>1. \/ \E i \in 1 .. 2 : w = <<img.base + i - 1, img.marker[i]>>
      \/ \E k \in DOMAIN img.models : \/ w = <<Header(img, k), img.models[k].id>>
                                      \/ w = <<Header(img, k) + 1, img.models[k].length>>
      \/ \E c \in Cells(img) : /\ c.point.type = "sunssf"
                               /\ w = <<c.address, IntToWords("sunssf", img.sfs[c.point.name])[1]>>
      \/ img.tail = "end" /\ w = <<EndAt(img), EndId>>
  <2>1. \/ w \in MarkerWords(img) \/ w \in HeaderWords(img)
        \/ w \in ScaleWords(img) \/ w \in EndWords(img)
    BY DEF Written
  <2>2. w \in HeaderWords(img) =>
           \E k \in DOMAIN img.models : \/ w = <<Header(img, k), img.models[k].id>>
                                        \/ w = <<Header(img, k) + 1, img.models[k].length>>
    BY DEF HeaderWords
  <2>3. w \in ScaleWords(img) =>
           \E c \in Cells(img) : /\ c.point.type = "sunssf"
                                 /\ w = <<c.address, IntToWords("sunssf", img.sfs[c.point.name])[1]>>
    BY Zenon DEF ScaleWords, ScaleCells
  <2>4. w \in MarkerWords(img) => \E i \in 1 .. 2 : w = <<img.base + i - 1, img.marker[i]>>
    BY DEF MarkerWords
  <2>5. w \in EndWords(img) => img.tail = "end" /\ w = <<EndAt(img), EndId>>
    BY DEF EndWords
  <2> QED
    BY <2>1, <2>2, <2>3, <2>4, <2>5, Zenon
<1>2. CASE \E i \in 1 .. 2 : w = <<img.base + i - 1, img.marker[i]>>
  <2>1. PICK i \in 1 .. 2 : w = <<img.base + i - 1, img.marker[i]>>
    BY <1>2
  <2>2. w[1] = img.base + i - 1 /\ w[2] = img.marker[i]
    BY <2>1
  <2>3. w[1] < img.base + 2 /\ w[1] - img.base + 1 = i
    BY <1>0, <2>2
  <2> QED
    BY <2>2, <2>3 DEF Register
<1>3. ASSUME NEW k \in DOMAIN img.models, w = <<Header(img, k), img.models[k].id>>
      PROVE  Register(img, w[1], w[2])
  <2>1. 0 \in 0 .. 1 + img.models[k].length /\ Header(img, k) + 0 = Header(img, k)
    BY <1>0
  <2>2. w[1] = Header(img, k) + 0 /\ Shows(img, k, 0, w[2])
    BY <1>3, <2>1 DEF Shows
  <2> QED
    BY <1>0, <2>1, <2>2 DEF Register
<1>4. ASSUME NEW k \in DOMAIN img.models, w = <<Header(img, k) + 1, img.models[k].length>>
      PROVE  Register(img, w[1], w[2])
  <2>1. 1 \in 0 .. 1 + img.models[k].length
    BY <1>0
  <2>2. w[1] = Header(img, k) + 1 /\ Shows(img, k, 1, w[2])
    BY <1>4 DEF Shows
  <2> QED
    BY <1>0, <2>1, <2>2 DEF Register
<1>5. ASSUME NEW c \in Cells(img), c.point.type = "sunssf",
             w = <<c.address, IntToWords("sunssf", img.sfs[c.point.name])[1]>>
      PROVE  Register(img, w[1], w[2])
  <2>1. PICK k, i : /\ Has(img, k, i)
                    /\ c = [model |-> img.models[k].id, point |-> PointAt(img, k, i),
                            address |-> Place(img, k, i)]
    BY CellsAre
  <2> DEFINE offset == Offset(img.models[k].id)[i]
  <2>2. k \in 1 .. Len(img.models) /\ offset \in 0 .. 1 + img.models[k].length
    BY <2>1, PlaceIs DEF Has
  <2>3. c.point = PointAt(img, k, i) /\ c.address = Header(img, k) + offset
    BY <2>1 DEF Place
  <2>4. w[1] = Header(img, k) + offset /\ Shows(img, k, offset, w[2])
    BY <1>5, <2>1, <2>3 DEF Shows
  <2> QED
    BY <2>2, <2>4 DEF Register
<1>6. CASE img.tail = "end" /\ w = <<EndAt(img), EndId>>
  BY <1>6 DEF Register
<1> QED
  BY <1>1, <1>2, <1>3, <1>4, <1>5, <1>6

\* An address within a model is before every later header.
LEMMA BeforeNext ==
    ASSUME NEW h \in Nat, NEW n \in Nat, NEW o \in 0 .. 1 + n, NEW g \in Nat, h + 2 + n <= g
    PROVE  /\ h + o < g
           /\ \A p \in Nat : h + o # g + p
  OBVIOUS

\* No address belongs to two models, and no offset to two points.
LEMMA PlaceOnce ==
    ASSUME NEW img, Image(img),
           NEW k \in 1 .. Len(img.models), NEW o \in 0 .. 1 + img.models[k].length,
           NEW j \in 1 .. Len(img.models), NEW p \in 0 .. 1 + img.models[j].length,
           Header(img, k) + o = Header(img, j) + p
    PROVE  k = j /\ o = p
<1>1. /\ Len(img.models) \in Nat /\ Header(img, k) \in Nat /\ Header(img, j) \in Nat
      /\ img.models[k].length \in Nat /\ img.models[j].length \in Nat
  <2>1. Len(img.models) \in Nat
    BY HeaderIs
  <2>2. k \in 1 .. Len(img.models) + 1 /\ j \in 1 .. Len(img.models) + 1
    BY <2>1
  <2> QED
    BY <2>1, <2>2, HeaderIs
<1>2. ~(k < j)
  <2> SUFFICES ASSUME k < j PROVE FALSE
    OBVIOUS
  <2>1. j \in k + 1 .. Len(img.models) + 1
    BY <1>1
  <2>2. Header(img, k) + 2 + img.models[k].length <= Header(img, j)
    BY <2>1, HeaderIs
  <2>3. p \in Nat
    BY <1>1
  <2> QED
    BY <1>1, <2>2, <2>3, BeforeNext, Zenon
<1>3. ~(j < k)
  <2> SUFFICES ASSUME j < k PROVE FALSE
    OBVIOUS
  <2>1. k \in j + 1 .. Len(img.models) + 1
    BY <1>1
  <2>2. Header(img, j) + 2 + img.models[j].length <= Header(img, k)
    BY <2>1, HeaderIs
  <2>3. o \in Nat
    BY <1>1
  <2>4. Header(img, j) + p # Header(img, k) + o
    BY <1>1, <2>2, <2>3, BeforeNext, Zenon
  <2> QED
    BY <2>4, Zenon
<1>4. k = j
  BY <1>1, <1>2, <1>3
<1> QED
  BY <1>1, <1>4

LEMMA PointOnce ==
    ASSUME NEW img, Image(img), NEW k, NEW i, NEW j, Has(img, k, i), Has(img, k, j),
           Offset(img.models[k].id)[i] = Offset(img.models[k].id)[j]
    PROVE  i = j
<1> DEFINE mid == img.models[k].id
           n == Len(MODELS[mid])
           at == Offset(mid)
<1>1. mid \in DOMAIN MODELS /\ i \in 1 .. n /\ j \in 1 .. n
  BY PlaceIs DEF Has
<1>2. /\ n \in Nat /\ \A x \in 1 .. n + 1 : at[x] \in Nat
      /\ \A x \in 1 .. n : \A y \in x + 1 .. n + 1 : at[x] < at[y]
  BY <1>1, OffsetIs
<1>3. at[i] = at[j]
  OBVIOUS
<1> HIDE DEF at, n
<1>4. i \in 1 .. n + 1 /\ j \in 1 .. n + 1 /\ at[i] \in Nat /\ at[j] \in Nat
  BY <1>1, <1>2
<1>5. ~(i < j)
  BY <1>1, <1>2, <1>3, <1>4
<1>6. ~(j < i)
  BY <1>1, <1>2, <1>3, <1>4
<1> QED
  BY <1>1, <1>2, <1>5, <1>6

LEMMA ShowsOnce ==
    ASSUME NEW img, Image(img), NEW k, NEW offset, NEW v, NEW w,
           Shows(img, k, offset, v), Shows(img, k, offset, w)
    PROVE  v = w
<1> DEFINE Scale(i, x) == /\ Has(img, k, i) /\ PointAt(img, k, i).type = "sunssf"
                          /\ offset = Offset(img.models[k].id)[i]
                          /\ x = IntToWords("sunssf", img.sfs[PointAt(img, k, i).name])[1]
<1>1. \A i, x : Scale(i, x) => offset # 0 /\ offset # 1
  <2> SUFFICES ASSUME NEW i, NEW x, Scale(i, x) PROVE offset # 0 /\ offset # 1
    OBVIOUS
  <2>1. /\ Offset(img.models[k].id)[i] >= 2
        /\ Offset(img.models[k].id)[i] \in 0 .. 1 + img.models[k].length
    BY PlaceIs
  <2> QED
    BY <2>1
<1>2. ASSUME NEW i, NEW x, NEW j, NEW y, Scale(i, x), Scale(j, y) PROVE x = y
  <2>1. i = j
    BY <1>2, PointOnce
  <2> QED
    BY <1>2, <2>1
<1> HIDE DEF Scale
<1>3. \/ offset = 0 /\ v = img.models[k].id
      \/ offset = 1 /\ v = img.models[k].length
      \/ \E i : Scale(i, v)
  BY DEF Shows, Scale
<1>4. \/ offset = 0 /\ w = img.models[k].id
      \/ offset = 1 /\ w = img.models[k].length
      \/ \E i : Scale(i, w)
  BY DEF Shows, Scale
<1> QED
  BY <1>1, <1>2, <1>3, <1>4

LEMMA RegisterOnce ==
    ASSUME NEW img, Image(img), NEW a, NEW v, NEW w, Register(img, a, v), Register(img, a, w)
    PROVE  v = w
<1> DEFINE n == Len(img.models)
           In(x) == \E k \in 1 .. n : \E offset \in 0 .. 1 + img.models[k].length :
                       a = Header(img, k) + offset /\ Shows(img, k, offset, x)
<1>0. /\ n \in Nat /\ img.base \in Nat /\ EndAt(img) \in Nat /\ img.base + 2 <= EndAt(img)
  <2>1. n \in Nat /\ img.base \in Nat
    BY HeaderIs DEF Image
  <2>2. n + 1 \in 1 .. n + 1
    BY <2>1
  <2> QED
    BY <2>1, <2>2, HeaderIs DEF EndAt
<1>1. ASSUME NEW x, In(x) PROVE a \in Nat /\ img.base + 2 <= a /\ a < EndAt(img)
  <2>1. PICK k \in 1 .. n : \E offset \in 0 .. 1 + img.models[k].length : a = Header(img, k) + offset
    BY <1>1
  <2>2. PICK offset \in 0 .. 1 + img.models[k].length : a = Header(img, k) + offset
    BY <2>1
  <2>3. k \in 1 .. n + 1 /\ n + 1 \in k + 1 .. n + 1
    BY <1>0
  <2>4. /\ Header(img, k) \in Nat /\ img.base + 2 <= Header(img, k) /\ img.models[k].length \in Nat
        /\ Header(img, k) + 2 + img.models[k].length <= EndAt(img)
    BY <2>3, HeaderIs DEF EndAt
  <2>5. img.base + 2 \in Nat
    BY <1>0
  <2>6. LET h == Header(img, k) + offset IN h \in Nat /\ img.base + 2 <= h /\ h < EndAt(img)
    BY <1>0, <2>2, <2>4, <2>5, LiesBetween, Zenon
  <2> QED
    BY <2>2, <2>6, Zenon
<1>2. ASSUME NEW x, In(x), NEW y, In(y) PROVE x = y
  <2>1. PICK k \in 1 .. n : \E offset \in 0 .. 1 + img.models[k].length :
                               a = Header(img, k) + offset /\ Shows(img, k, offset, x)
    BY <1>2
  <2>2. PICK o \in 0 .. 1 + img.models[k].length : a = Header(img, k) + o /\ Shows(img, k, o, x)
    BY <2>1
  <2>3. PICK j \in 1 .. n : \E offset \in 0 .. 1 + img.models[j].length :
                               a = Header(img, j) + offset /\ Shows(img, j, offset, y)
    BY <1>2
  <2>4. PICK p \in 0 .. 1 + img.models[j].length : a = Header(img, j) + p /\ Shows(img, j, p, y)
    BY <2>3
  <2>5. k = j /\ o = p
    BY <2>2, <2>4, PlaceOnce
  <2> QED
    BY <2>2, <2>4, <2>5, ShowsOnce
<1> HIDE DEF In
<1>3. \A x : Register(img, a, x) <=>
         \/ a < img.base + 2 /\ x = img.marker[a - img.base + 1]
         \/ In(x)
         \/ img.tail = "end" /\ a = EndAt(img) /\ x = EndId
  BY DEF Register, In
<1>4. /\ \A x, y : In(x) /\ In(y) => x = y
      /\ \A x : In(x) => ~(a < img.base + 2) /\ a # EndAt(img)
      /\ ~(a < img.base + 2 /\ a = EndAt(img))
  <2>1. \A x, y : In(x) /\ In(y) => x = y
    BY <1>2
  <2>2. \A x : In(x) => ~(a < img.base + 2) /\ a # EndAt(img)
    BY <1>0, <1>1
  <2>3. ~(a < img.base + 2 /\ a = EndAt(img))
    BY <1>0
  <2> QED
    BY <2>1, <2>2, <2>3
<1> QED
  BY <1>3, <1>4

\* So a register reads what was written there, and zero past the last model.
LEMMA WordIs ==
    ASSUME NEW img, Image(img), NEW a, NEW v, <<a, v>> \in Written(img)
    PROVE  Word(Written(img), a) = v
<1> DEFINE there == {w \in Written(img) : w[1] = a}
           w == CHOOSE w \in there : TRUE
<1>1. <<a, v>> \in there
  OBVIOUS
<1>2. w \in there
  BY <1>1
<1>3. Word(Written(img), a) = w[2]
  BY <1>1 DEF Word
<1> HIDE DEF w
<1>4. Register(img, a, w[2])
  BY <1>2, WrittenIs
<1>5. Register(img, a, v)
  <2> DEFINE z == <<a, v>>
  <2>1. Register(img, z[1], z[2])
    BY WrittenIs
  <2> QED
    BY <2>1
<1> QED
  BY <1>3, <1>4, <1>5, RegisterOnce

\* The header of a model reads its id and its length, its scale factors what
\* they are, and what follows the last model the end's id or zero.
LEMMA HeaderReads ==
    ASSUME NEW img, Image(img), NEW k \in 1 .. Len(img.models)
    PROVE  /\ Word(Written(img), Header(img, k)) = img.models[k].id
           /\ Word(Written(img), Header(img, k) + 1) = img.models[k].length
<1>1. k \in DOMAIN img.models
  BY HeaderIs
<1>2. /\ <<Header(img, k), img.models[k].id>> \in Written(img)
      /\ <<Header(img, k) + 1, img.models[k].length>> \in Written(img)
  <2> DEFINE H(j) == {<<Header(img, j), img.models[j].id>>, <<Header(img, j) + 1, img.models[j].length>>}
  <2>1. H(k) \subseteq HeaderWords(img)
    BY <1>1, Zenon DEF HeaderWords
  <2> QED
    BY <2>1, Zenon DEF Written
<1> QED
  BY <1>2, WordIs

LEMMA ScaleReads ==
    ASSUME NEW img, Image(img), NEW c \in Cells(img), c.point.type = "sunssf"
    PROVE  /\ c.point.name \in DOMAIN SfValues
           /\ WordsToInt("sunssf", <<Word(Written(img), c.address)>>) = img.sfs[c.point.name]
<1> DEFINE sf == img.sfs[c.point.name]
           v == IntToWords("sunssf", sf)[1]
<1>1. c.point.name \in DOMAIN SfValues
  <2>1. PICK k, i : Has(img, k, i) /\ c.point = PointAt(img, k, i)
    BY CellsAre
  <2>2. img.models[k].id \in DOMAIN MODELS /\ i \in DOMAIN MODELS[img.models[k].id]
    BY <2>1 DEF Has, Kept
  <2> QED
    BY <2>1, <2>2, LayoutIs DEF PointAt
<1>2. sf \in Int /\ Fits("sunssf", sf)
  BY <1>1 DEF Image, Scaled
<1>3. <<c.address, v>> \in Written(img)
  <2>1. c \in ScaleCells(img)
    BY DEF ScaleCells
  <2>2. <<c.address, v>> \in ScaleWords(img)
    BY <2>1, Zenon DEF ScaleWords
  <2> QED
    BY <2>2, Zenon DEF Written
<1>4. Word(Written(img), c.address) = v
  BY <1>3, WordIs
<1>5. "sunssf" \in Types /\ Width("sunssf") = 1
  BY DEF Types, Width
<1>6. <<v>> = IntToWords("sunssf", sf)
  BY <1>5 DEF IntToWords
<1>7. WordsToInt("sunssf", <<v>>) = sf
  BY <1>2, <1>5, <1>6, CodecRoundTrip
<1> QED
  BY <1>1, <1>4, <1>7

LEMMA EndReads ==
    ASSUME NEW img, Image(img)
    PROVE  /\ img.tail = "end" => Word(Written(img), EndAt(img)) = EndId
           /\ img.tail # "end" => \A a \in Nat : a >= EndAt(img) => Word(Written(img), a) = 0
<1>1. img.tail = "end" => Word(Written(img), EndAt(img)) = EndId
  <2> SUFFICES ASSUME img.tail = "end" PROVE Word(Written(img), EndAt(img)) = EndId
    OBVIOUS
  <2>1. <<EndAt(img), EndId>> \in Written(img)
    BY Zenon DEF Written, EndWords
  <2> QED
    BY <2>1, WordIs
<1>2. ASSUME img.tail # "end", NEW a \in Nat, a >= EndAt(img) PROVE Word(Written(img), a) = 0
  <2>1. ASSUME NEW w \in Written(img), w[1] = a PROVE FALSE
    <3>1. Register(img, a, w[2])
      BY <2>1, WrittenIs
    <3>2. img.base \in Nat /\ EndAt(img) \in Nat /\ img.base + 2 <= EndAt(img) /\ Len(img.models) \in Nat
      <4>1. Len(img.models) \in Nat /\ Len(img.models) + 1 \in 1 .. Len(img.models) + 1
        BY HeaderIs
      <4> QED
        BY <4>1, HeaderIs DEF Image, EndAt
    <3>3. PICK k \in 1 .. Len(img.models) : \E offset \in 0 .. 1 + img.models[k].length :
             a = Header(img, k) + offset
      BY <1>2, <3>1, <3>2 DEF Register
    <3>4. PICK offset \in 0 .. 1 + img.models[k].length : a = Header(img, k) + offset
      BY <3>3
    <3>5. k \in 1 .. Len(img.models) + 1 /\ Len(img.models) + 1 \in k + 1 .. Len(img.models) + 1
      BY <3>2
    <3>6. /\ Header(img, k) \in Nat /\ img.models[k].length \in Nat
          /\ Header(img, k) + 2 + img.models[k].length <= EndAt(img)
      BY <3>5, HeaderIs DEF EndAt
    <3>7. a < EndAt(img)
      BY <3>2, <3>4, <3>6, BeforeNext, Zenon
    <3> HIDE DEF EndAt
    <3> QED
      BY <1>2, <3>2, <3>7
  <2> QED
    BY <2>1 DEF Word
<1> QED
  BY <1>1, <1>2

-----------------------------------------------------------------------------
(* What the walk records *)

\* The entry of the k-th model of an image: its points with room, each where
\* it is, and the scale factors among them, each with its value.
EntryOf(img, k) ==
    Entry(Written(img), Header(img, k), img.models[k].id, img.models[k].length)
ScaleNames(img, k) ==
    {PointAt(img, k, i).name :
        i \in {j \in 1 .. Len(MODELS[img.models[k].id]) :
                 Has(img, k, j) /\ PointAt(img, k, j).type = "sunssf"}}

LEMMA EntryIs ==
    ASSUME NEW img, Image(img), NEW k \in 1 .. Len(img.models)
    PROVE  LET e == EntryOf(img, k)
           IN  /\ e.id = img.models[k].id /\ e.length = img.models[k].length
               /\ \A p : p \in e.points <=>
                     \E i : /\ Has(img, k, i)
                            /\ p = [name |-> PointAt(img, k, i).name,
                                    offset |-> Offset(img.models[k].id)[i],
                                    address |-> Place(img, k, i),
                                    type |-> PointAt(img, k, i).type]
               /\ DOMAIN e.sfs = ScaleNames(img, k)
               /\ \A n \in ScaleNames(img, k) : e.sfs[n] = img.sfs[n] /\ n \in DOMAIN SfValues
<1> DEFINE mid == img.models[k].id
           length == img.models[k].length
           header == Header(img, k)
           words == Written(img)
           e == EntryOf(img, k)
           pts == IF mid \in DOMAIN MODELS THEN MODELS[mid] ELSE <<>>
           at == IF mid \in DOMAIN MODELS THEN Offset(mid) ELSE <<>>
           kept == IF mid \in DOMAIN MODELS THEN Kept(mid, length) ELSE {}
           scale == {i \in kept : pts[i].type = "sunssf"}
           names == {pts[i].name : i \in scale}
           points == {[name |-> pts[i].name, offset |-> at[i],
                       address |-> header + at[i], type |-> pts[i].type] : i \in kept}
           Read(n) == WordsToInt("sunssf", <<Word(words, header + at[CHOOSE i \in scale : pts[i].name = n])>>)
<1>1. e = [id |-> mid, length |-> length, points |-> points, sfs |-> [n \in names |-> Read(n)]]
  BY DEF EntryOf, Entry
<1>2. /\ \A i : i \in kept <=> Has(img, k, i)
      /\ \A i : Has(img, k, i) => /\ mid \in DOMAIN MODELS /\ pts[i] = PointAt(img, k, i)
                                  /\ at[i] = Offset(mid)[i] /\ header + at[i] = Place(img, k, i)
  BY DEF Has, PointAt, Place
<1>3. \A i : i \in scale <=> Has(img, k, i) /\ PointAt(img, k, i).type = "sunssf"
  BY <1>2
<1>4. names = ScaleNames(img, k)
  <2>1. \A i : Has(img, k, i) => i \in 1 .. Len(MODELS[mid])
    BY PlaceIs
  <2> HIDE DEF pts, at, kept, scale, mid
  <2>2. \A n : n \in names <=> \E i : Has(img, k, i) /\ PointAt(img, k, i).type = "sunssf" /\ n = PointAt(img, k, i).name
    BY <1>2, <1>3
  <2>3. \A n : n \in ScaleNames(img, k) <=> \E i : Has(img, k, i) /\ PointAt(img, k, i).type = "sunssf" /\ n = PointAt(img, k, i).name
    BY <2>1 DEF ScaleNames, mid
  <2> QED
    BY <2>2, <2>3
<1>5. ASSUME NEW n \in names PROVE Read(n) = img.sfs[n] /\ n \in DOMAIN SfValues
  <2> DEFINE i == CHOOSE j \in scale : pts[j].name = n
  <2>1. i \in scale /\ pts[i].name = n
    <3> HIDE DEF scale, pts
    <3> QED
      BY <1>5
  <2> HIDE DEF i, pts, at, kept, scale
  <2>2. /\ Has(img, k, i) /\ PointAt(img, k, i).type = "sunssf"
        /\ PointAt(img, k, i).name = n /\ header + at[i] = Place(img, k, i)
    BY <1>2, <1>3, <2>1
  <2> DEFINE c == [model |-> mid, point |-> PointAt(img, k, i), address |-> Place(img, k, i)]
  <2>3. c \in Cells(img)
    BY <2>2, CellsAre
  <2>4. c.point = PointAt(img, k, i) /\ c.address = Place(img, k, i)
    OBVIOUS
  <2> HIDE DEF c
  <2>5. n \in DOMAIN SfValues /\ WordsToInt("sunssf", <<Word(words, Place(img, k, i))>>) = img.sfs[n]
    BY <2>2, <2>3, <2>4, ScaleReads
  <2> QED
    BY <2>2, <2>5 DEF i
<1>6. \A p : p \in points <=>
         \E i : /\ Has(img, k, i)
                /\ p = [name |-> PointAt(img, k, i).name, offset |-> Offset(mid)[i],
                        address |-> Place(img, k, i), type |-> PointAt(img, k, i).type]
  <2> HIDE DEF kept, pts, at, mid
  <2> QED
    BY <1>2, Zenon DEF mid
<1> HIDE DEF points, names, Read, e
<1>7. /\ e.id = mid /\ e.length = length /\ e.points = points
      /\ DOMAIN e.sfs = names /\ \A n \in names : e.sfs[n] = Read(n)
  BY <1>1
<1> QED
  BY <1>4, <1>5, <1>6, <1>7 DEF e

\* What has been found is what the image has; what is found past its end reads
\* as a model of zeros.
EntriesOf(img) == {Entry(Written(img), a, mid, length) : a \in Nat, mid \in Nat, length \in Nat}
Records(img, found) ==
    /\ found \in Seq(EntriesOf(img)) /\ Len(found) <= MaxModels
    /\ \A k \in 1 .. Len(found) :
          IF k <= Len(img.models) THEN found[k] = EntryOf(img, k)
          ELSE found[k].id = 0 /\ img.tail = "zeros"
\* Where the next header is.
Reached(img, found, a) ==
    /\ a \in Nat
    /\ IF Len(found) <= Len(img.models) THEN a = Header(img, Len(found) + 1)
       ELSE a >= EndAt(img) /\ img.tail = "zeros"
Complete(img, found) == Len(found) >= Len(img.models) \/ Len(found) >= MaxModels

LEMMA RecordsStart ==
    ASSUME NEW img, Image(img)
    PROVE  Records(img, <<>>) /\ Reached(img, <<>>, img.base + 2)
<1>1. <<>> \in Seq(EntriesOf(img)) /\ Len(<<>>) = 0 /\ 1 .. 0 = {} /\ 0 + 1 = 1
  OBVIOUS
<1>2. Len(img.models) \in Nat /\ Header(img, 1) = img.base + 2 /\ img.base \in Nat /\ MaxModels \in Nat
  BY HeaderIs, DeviceAssumption DEF Image
<1> QED
  BY <1>1, <1>2 DEF Records, Reached

LEMMA WalkFinds ==
    ASSUME NEW img, Image(img), NEW found, NEW a, Records(img, found), Reached(img, found, a),
           Len(found) < MaxModels, Readable(img, a), Readable(img, a + 1),
           Word(Written(img), a) # EndId
    PROVE  LET mid == Word(Written(img), a)
               length == Word(Written(img), a + 1)
               next == Append(found, Entry(Written(img), a, mid, length))
           IN  Records(img, next) /\ Reached(img, next, a + 2 + length)
<1> DEFINE mid == Word(Written(img), a)
           length == Word(Written(img), a + 1)
           e == Entry(Written(img), a, mid, length)
           next == Append(found, e)
           n == Len(img.models)
           k == Len(found) + 1
<1>1. /\ n \in Nat /\ found \in Seq(EntriesOf(img)) /\ Len(found) \in Nat /\ k \in Nat /\ MaxModels \in Nat
      /\ EndAt(img) \in Nat /\ EndAt(img) = Header(img, n + 1) /\ a \in Nat
  <2>1. n \in Nat /\ n + 1 \in 1 .. n + 1
    BY HeaderIs
  <2>2. found \in Seq(EntriesOf(img)) /\ Len(found) \in Nat /\ a \in Nat
    BY DEF Records, Reached
  <2> QED
    BY <2>1, <2>2, HeaderIs, DeviceAssumption DEF EndAt
<1>2. e.id = mid
  BY DEF Entry
<1>3. /\ mid \in Nat /\ length \in Nat
      /\ k <= n => /\ a = Header(img, k) /\ mid = img.models[k].id
                   /\ length = img.models[k].length /\ e = EntryOf(img, k)
                   /\ a + 2 + length = Header(img, k + 1)
      /\ k > n => mid = 0 /\ img.tail = "zeros" /\ a >= EndAt(img)
  <2>1. CASE k <= n
    <3>1. k \in 1 .. n /\ Len(found) <= n
      BY <1>1, <2>1
    <3>2. a = Header(img, k)
      BY <3>1 DEF Reached
    <3>3. mid = img.models[k].id /\ length = img.models[k].length
      BY <3>1, <3>2, HeaderReads
    <3>4. img.models[k].id \in Nat /\ img.models[k].length \in Nat /\ Header(img, k + 1) = Header(img, k) + 2 + img.models[k].length
      BY <3>1, HeaderIs, CodecAssumption DEF ModelIds
    <3>5. mid \in Nat /\ length \in Nat /\ a + 2 + length = Header(img, k + 1)
      BY <3>2, <3>3, <3>4, Zenon
    <3>6. e = EntryOf(img, k)
      BY <3>2, <3>3, Zenon DEF EntryOf
    <3>7. ~(k > n)
      BY <1>1, <2>1
    <3> QED
      BY <2>1, <3>2, <3>3, <3>5, <3>6, <3>7, Zenon
  <2>2. CASE k > n
    <3>1. a >= EndAt(img)
      <4>1. CASE k = n + 1
        <5>1. Len(found) <= n
          BY <1>1, <4>1
        <5>2. a = Header(img, k)
          BY <5>1 DEF Reached
        <5> QED
          BY <1>1, <4>1, <5>2
      <4>2. CASE k # n + 1
        BY <1>1, <2>2, <4>2 DEF Reached
      <4> QED
        BY <4>1, <4>2
    <3>2. img.tail # "end"
      <4> SUFFICES ASSUME img.tail = "end" PROVE FALSE
        OBVIOUS
      <4>1. k = n + 1
        BY <1>1, <2>2 DEF Reached
      <4>2. Len(found) <= n
        BY <1>1, <4>1
      <4>3. a = EndAt(img)
        BY <1>1, <4>1, <4>2 DEF Reached
      <4> QED
        BY <4>3, EndReads
    <3>3. img.tail = "zeros"
      BY <1>1, <3>1, <3>2 DEF Readable
    <3>4. mid = 0 /\ length = 0
      BY <1>1, <3>1, <3>2, EndReads
    <3> QED
      BY <1>1, <2>2, <3>1, <3>3, <3>4
  <2> QED
    BY <1>1, <2>1, <2>2
<1>4. e \in EntriesOf(img)
  BY <1>1, <1>3 DEF EntriesOf
<1> HIDE DEF e, mid, length
<1>5. /\ next \in Seq(EntriesOf(img)) /\ Len(next) = k /\ next[k] = e
      /\ \A j \in 1 .. Len(found) : next[j] = found[j]
  BY <1>1, <1>4, AppendProperties
<1> HIDE DEF next
<1>6. Records(img, next)
  <2>1. ASSUME NEW j \in 1 .. k
        PROVE  IF j <= n THEN next[j] = EntryOf(img, j) ELSE next[j].id = 0 /\ img.tail = "zeros"
    <3>1. CASE j = k
      BY <1>1, <1>2, <1>3, <1>5, <3>1
    <3>2. CASE j # k
      <4>1. j \in 1 .. Len(found)
        BY <1>1, <3>2
      <4> QED
        BY <1>5, <4>1 DEF Records
    <3> QED
      BY <3>1, <3>2
  <2> QED
    BY <1>1, <1>5, <2>1 DEF Records
<1>7. Reached(img, next, a + 2 + length)
  <2>1. CASE k <= n
    BY <1>1, <1>3, <1>5, <2>1 DEF Reached
  <2>2. CASE k > n
    BY <1>1, <1>3, <1>5, <2>2 DEF Reached
  <2> QED
    BY <1>1, <2>1, <2>2
<1> QED
  BY <1>6, <1>7 DEF next, e, mid, length

\* The walk ends when it has found all models, or as many as it looks for.
LEMMA WalkEnds ==
    ASSUME NEW img, Image(img), NEW found, NEW a, Records(img, found), Reached(img, found, a),
           Len(found) >= MaxModels \/ Word(Written(img), a) = EndId
    PROVE  Complete(img, found)
<1> SUFFICES ASSUME Len(found) < Len(img.models), Word(Written(img), a) = EndId PROVE FALSE
  <2>1. Len(found) \in Nat /\ Len(img.models) \in Nat
    BY HeaderIs DEF Records
  <2> QED
    BY <2>1 DEF Complete
<1> DEFINE k == Len(found) + 1
<1>1. k \in 1 .. Len(img.models) /\ Len(found) <= Len(img.models)
  <2>1. Len(found) \in Nat /\ Len(img.models) \in Nat
    BY HeaderIs DEF Records
  <2> QED
    BY <2>1
<1>2. a = Header(img, k)
  BY <1>1 DEF Reached
<1>3. Word(Written(img), a) = img.models[k].id /\ img.models[k].id \in ModelIds
  BY <1>1, <1>2, HeaderReads, HeaderIs
<1> QED
  BY <1>3 DEF ModelIds

-----------------------------------------------------------------------------
(* The walk as a whole *)

LEMMA DevicesAre ==
    ASSUME NEW d \in Devices
    PROVE  d.asset \in DOMAIN ASSETS /\ Image(d)
<1>1. /\ d.asset \in DOMAIN ASSETS /\ d.base \in Nat
      /\ d.models \in Seq([id : ModelIds, length : 0 .. Radix - 1])
      /\ d.tail \in {"end", "unmapped", "zeros"}
      /\ Scaled(d.sfs)
  BY DeviceAssumption, Zenon
<1> QED
  BY <1>1 DEF Image

LEMMA MapImageIs ==
    ASSUME device.asset \in DOMAIN ASSETS
    PROVE  /\ Image(MapImage) /\ MapImage.base = MapBase /\ MapImage.tail = "end"
           /\ MapImage.sfs = SfValues /\ MapImage.marker = Marker
           /\ Len(MapImage.models) <= MaxModels
           /\ DOMAIN ASSETS[device.asset].chain = 1 .. Len(MapImage.models)
           /\ \A k \in 1 .. Len(MapImage.models) :
                 LET m == MapImage.models[k]
                 IN  /\ m.id \in DOMAIN MODELS /\ m.id # 0 /\ m.length = Body(m.id)
                     /\ m.id = ASSETS[device.asset].chain[k]
<1> DEFINE chain == ASSETS[device.asset].chain
           Mod(k) == [id |-> chain[k], length |-> Body(chain[k])]
           models == [k \in DOMAIN chain |-> Mod(k)]
<1>1. chain \in Seq(DOMAIN MODELS) /\ Len(chain) <= MaxModels
  BY AssetAssumption, Zenon
<1>2. MapImage = [base |-> MapBase, marker |-> Marker, models |-> models, sfs |-> SfValues, tail |-> "end"]
  BY DEF MapImage, MapImages
<1>3. Scaled(SfValues) /\ MapBase \in Nat
  BY CatalogAssumption, DeviceAssumption, Zenon
<1> HIDE DEF chain
<1>4. DOMAIN chain = 1 .. Len(chain) /\ \A k \in 1 .. Len(chain) : chain[k] \in DOMAIN MODELS
  BY <1>1, ElementOfSeq
<1>5. ASSUME NEW k \in 1 .. Len(chain) PROVE Mod(k) \in [id : ModelIds, length : 0 .. Radix - 1]
  BY <1>4, LayoutIs, OffsetIs
<1>6. models \in Seq([id : ModelIds, length : 0 .. Radix - 1]) /\ Len(models) = Len(chain)
  <2> HIDE DEF Mod
  <2>1. Len(chain) \in Nat
    BY <1>1
  <2> QED
    BY <1>4, <1>5, <2>1
<1>7. \A k \in 1 .. Len(chain) : /\ models[k].id = chain[k] /\ models[k].length = Body(chain[k])
                                 /\ chain[k] # 0
  BY <1>4, LayoutIs
<1> HIDE DEF models, Mod
<1> QED
  BY <1>1, <1>2, <1>3, <1>4, <1>6, <1>7 DEF Image, chain

Walking == {"marker", "walk"}
Compared == {"chain", "bindings", "done"}
WalkInv ==
    /\ device \in Devices
    /\ phase \in Walking \cup Compared \cup {"failed"}
    /\ subject \in {"device", "map"}
    /\ dumps = [s \in {"device", "map"} |-> dumps[s]]
    /\ Records(device, dumps["device"]) /\ Records(MapImage, dumps["map"])
    /\ subject = "device" => dumps["map"] = <<>> /\ phase \notin Compared
    /\ subject = "map" => Complete(device, dumps["device"])
    /\ phase = "marker" => dumps[subject] = <<>>
    /\ phase = "walk" => Reached(ImageOf(subject), dumps[subject], off)
    /\ phase \in Compared => Complete(MapImage, dumps["map"])

LEMMA WalkInit == MapInit => WalkInv
<1> SUFFICES ASSUME MapInit PROVE WalkInv
  OBVIOUS
<1>1. device \in Devices
  BY DEF MapInit
<1>2. Image(device) /\ Image(MapImage)
  BY <1>1, DevicesAre, MapImageIs
<1>3. Records(device, <<>>) /\ Records(MapImage, <<>>)
  BY <1>2, RecordsStart
<1> QED
  BY <1>3 DEF MapInit, WalkInv, Walking, Compared

LEMMA MarkerKeepsWalk ==
    ASSUME WalkInv, CheckMarker PROVE WalkInv'
<1>1. /\ device' = device /\ subject' = subject /\ dumps' = dumps /\ MapImage' = MapImage
      /\ phase' \in {"walk", "failed"} /\ off' = ImageOf(subject).base + 2 /\ phase = "marker"
      /\ ImageOf(subject)' = ImageOf(subject)
  BY DEF CheckMarker, MapImage, ImageOf
<1>2. Image(ImageOf(subject)) /\ dumps[subject] = <<>>
  BY <1>1, DevicesAre, MapImageIs DEF WalkInv, ImageOf
<1>3. Reached(ImageOf(subject), dumps[subject], off')
  BY <1>1, <1>2, RecordsStart
<1> QED
  BY <1>1, <1>3 DEF WalkInv, Walking, Compared

LEMMA ModelKeepsWalk ==
    ASSUME WalkInv, WalkModel PROVE WalkInv'
<1> DEFINE img == ImageOf(subject)
           found == dumps[subject]
           words == Written(img)
           mid == Word(words, off)
           length == Word(words, off + 1)
           e == Entry(words, off, mid, length)
<1>1. /\ device' = device /\ MapImage' = MapImage /\ ImageOf("device") = device /\ ImageOf("map") = MapImage
      /\ phase = "walk" /\ subject \in {"device", "map"}
      /\ Image(device) /\ Image(MapImage) /\ Image(img)
  BY DevicesAre, MapImageIs DEF WalkModel, WalkInv, MapImage, ImageOf
<1>2. Records(img, found) /\ Reached(img, found, off)
  BY <1>1 DEF WalkInv
<1>3. CASE /\ phase' = "failed" /\ UNCHANGED <<subject, off, dumps>>
  BY <1>1, <1>3 DEF WalkInv, Compared, Walking
<1>4. CASE /\ Len(found) < MaxModels /\ Readable(img, off) /\ Readable(img, off + 1) /\ mid # EndId
           /\ dumps' = [dumps EXCEPT ![subject] = Append(@, e)]
           /\ off' = off + 2 + length /\ UNCHANGED <<phase, subject>>
  <2> DEFINE next == Append(found, e)
  <2>1. Records(img, next) /\ Reached(img, next, off')
    BY <1>1, <1>2, <1>4, WalkFinds
  <2> HIDE DEF next
  <2>2. dumps'[subject] = next /\ \A s \in {"device", "map"} : s # subject => dumps'[s] = dumps[s]
    BY <1>1, <1>4 DEF WalkInv, next
  <2>3. dumps' = [s \in {"device", "map"} |-> dumps'[s]]
    BY <1>1, <1>4 DEF WalkInv
  <2>4. ImageOf(subject)' = img
    BY <1>1, <1>4 DEF ImageOf
  <2>5. Records(device, dumps'["device"]) /\ Records(MapImage, dumps'["map"])
    BY <1>1, <2>1, <2>2 DEF WalkInv
  <2>6. subject = "device" => dumps'["map"] = <<>>
    BY <2>2 DEF WalkInv
  <2>7. subject = "map" => Complete(device, dumps'["device"])
    BY <2>2 DEF WalkInv
  <2>8. Reached(ImageOf(subject)', dumps'[subject], off')
    BY <2>1, <2>2, <2>4
  <2> HIDE DEF img, found, words, mid, length, e
  <2> QED
    BY <1>1, <1>4, <2>3, <2>5, <2>6, <2>7, <2>8 DEF WalkInv, Walking, Compared
<1>5. CASE /\ Len(found) >= MaxModels \/ (Readable(img, off) /\ mid = EndId)
           /\ Walked /\ UNCHANGED dumps
  <2>1. Complete(img, found)
    BY <1>1, <1>2, <1>5, WalkEnds
  <2>2. CASE subject = "device"
    BY <1>1, <1>5, <2>1, <2>2 DEF WalkInv, Walking, Compared, Walked
  <2>3. CASE subject = "map"
    BY <1>1, <1>5, <2>1, <2>3 DEF WalkInv, Walking, Compared, Walked
  <2> QED
    BY <1>1, <2>2, <2>3
<1> QED
  BY <1>3, <1>4, <1>5 DEF WalkModel

LEMMA WalkStep ==
    ASSUME WalkInv, [MapNext]_mapVars PROVE WalkInv'
<1>1. CASE CheckMarker
  BY <1>1, MarkerKeepsWalk
<1>2. CASE WalkModel
  BY <1>2, ModelKeepsWalk
<1>3. CASE CompareModel \/ CompareBindings \/ Send \/ UNCHANGED mapVars
  <2>1. /\ device' = device /\ subject' = subject /\ off' = off /\ dumps' = dumps
        /\ MapImage' = MapImage /\ ImageOf(subject)' = ImageOf(subject)
        /\ phase' = phase \/ (phase \in Compared /\ phase' \in Compared)
    BY <1>3 DEF CompareModel, CompareBindings, Send, mapVars, MapImage, ImageOf, Compared
  <2> QED
    BY <2>1 DEF WalkInv, Walking, Compared
<1> QED
  BY <1>1, <1>2, <1>3 DEF MapNext

LEMMA SpecWalkInv == MapSpec => []WalkInv
<1>1. WalkInv /\ [MapNext]_mapVars => WalkInv'
  BY WalkStep
<1> QED
  BY WalkInit, <1>1, PTL DEF MapSpec

LEMMA PrefixIs ==
    ASSUME NEW S, NEW s \in Seq(S)
    PROVE  /\ Len(Prefix(s)) = IF Len(s) < MaxModels THEN Len(s) ELSE MaxModels
           /\ Len(Prefix(s)) \in Nat /\ DOMAIN Prefix(s) = 1 .. Len(Prefix(s))
           /\ Len(Prefix(s)) <= Len(s) /\ Prefix(s) \in Seq(S)
           /\ \A k \in 1 .. Len(Prefix(s)) : Prefix(s)[k] = s[k]
<1> DEFINE m == IF Len(s) < MaxModels THEN Len(s) ELSE MaxModels
<1>1. m \in 0 .. Len(s) /\ Len(s) \in Nat /\ MaxModels \in Nat
  BY DeviceAssumption
<1> HIDE DEF m
<1>2. /\ SubSeq(s, 1, m) \in Seq(S) /\ Len(SubSeq(s, 1, m)) = m
      /\ \A k \in 1 .. m : SubSeq(s, 1, m)[k] = s[k]
  BY <1>1, SubSeqProperties
<1>3. Prefix(s) = SubSeq(s, 1, m)
  BY DEF Prefix, m
<1> QED
  BY <1>1, <1>2, <1>3 DEF m

LEMMA IsRecovered ==
    ASSUME NEW img, Image(img), NEW found, Records(img, found), Complete(img, found)
    PROVE  Recovered(img, found)
<1> DEFINE places == {<<c.model, c.point.name, c.address>> : c \in Cells(img)}
           n == Len(Prefix(img.models))
<1>1. /\ n \in Nat /\ DOMAIN Prefix(img.models) = 1 .. n /\ n <= Len(img.models)
      /\ Len(img.models) \in Nat /\ MaxModels \in Nat /\ Len(found) \in Nat /\ n <= MaxModels
  <2>1. img.models \in Seq([id : ModelIds, length : 0 .. Radix - 1]) /\ Len(found) \in Nat /\ MaxModels \in Nat
    BY DeviceAssumption DEF Image, Records
  <2> QED
    BY <2>1, PrefixIs
<1>2. Len(found) >= n
  BY <1>1 DEF Complete
<1>3. ASSUME NEW k \in 1 .. n
      PROVE  /\ found[k].id = img.models[k].id /\ found[k].length = img.models[k].length
             /\ \A m \in DOMAIN found[k].sfs : found[k].sfs[m] = img.sfs[m]
             /\ \A p \in found[k].points : <<found[k].id, p.name, p.address>> \in places
  <2>1. k \in 1 .. Len(img.models) /\ k \in 1 .. Len(found) /\ k <= Len(img.models)
    BY <1>1, <1>2
  <2>2. found[k] = EntryOf(img, k)
    BY <2>1 DEF Records
  <2>3. ASSUME NEW p \in EntryOf(img, k).points
        PROVE  <<img.models[k].id, p.name, p.address>> \in places
    <3>1. PICK i : /\ Has(img, k, i)
                   /\ p = [name |-> PointAt(img, k, i).name, offset |-> Offset(img.models[k].id)[i],
                           address |-> Place(img, k, i), type |-> PointAt(img, k, i).type]
      BY <2>1, EntryIs
    <3> DEFINE c == [model |-> img.models[k].id, point |-> PointAt(img, k, i), address |-> Place(img, k, i)]
    <3>2. c \in Cells(img)
      BY <3>1, CellsAre
    <3>3. c.model = img.models[k].id /\ c.point.name = p.name /\ c.address = p.address
      BY <3>1
    <3> HIDE DEF c
    <3> QED
      BY <3>2, <3>3
  <2> HIDE DEF places
  <2> QED
    BY <2>1, <2>2, <2>3, EntryIs
<1> QED
  BY <1>1, <1>2, <1>3 DEF Recovered

\* The walk finds what there is: models, lengths, scale factors and points.
THEOREM SpecWalkRecovers == MapSpec => []WalkRecovers
<1>1. WalkInv => WalkRecovers
  <2> SUFFICES ASSUME WalkInv, phase \in Compared
               PROVE  Recovered(device, dumps["device"]) /\ Recovered(MapImage, dumps["map"])
    BY DEF WalkRecovers, Compared
  <2>1. Image(device) /\ Image(MapImage)
    BY DevicesAre, MapImageIs DEF WalkInv
  <2>2. /\ Records(device, dumps["device"]) /\ Complete(device, dumps["device"])
        /\ Records(MapImage, dumps["map"]) /\ Complete(MapImage, dumps["map"])
    BY DEF WalkInv
  <2> QED
    BY <2>1, <2>2, IsRecovered
<1> QED
  BY <1>1, SpecWalkInv, PTL

-----------------------------------------------------------------------------
(* The comparison *)

Both == DOMAIN dumps["map"] \cap DOMAIN dumps["device"]
Either == DOMAIN dumps["map"] \cup DOMAIN dumps["device"]
AgreeAt(k) == k \in Both /\ Agree(dumps["map"][k], dumps["device"][k])
ChainAgrees == \A k \in Either : AgreeAt(k)
AllBound == \A c \in DOMAIN Bind : BindingAgrees(c)

CompareInv ==
    /\ pos \in Nat /\ pos >= 1 /\ clean \in BOOLEAN
    /\ \A k \in Either : k < pos \/ phase \notin {"bindings", "done"}
    /\ phase \notin Compared => pos = 1 /\ clean
    /\ phase \in {"chain", "bindings"} => (clean <=> \A k \in Either : k < pos => AgreeAt(k))
    /\ phase = "done" => (clean <=> ChainAgrees /\ AllBound)

LEMMA DumpDomains ==
    ASSUME WalkInv
    PROVE  /\ DOMAIN dumps["map"] = 1 .. Len(dumps["map"]) /\ Len(dumps["map"]) \in Nat
           /\ DOMAIN dumps["device"] = 1 .. Len(dumps["device"]) /\ Len(dumps["device"]) \in Nat
           /\ \A k \in Either : k \in Nat /\ k >= 1
<1>1. dumps["map"] \in Seq(EntriesOf(MapImage)) /\ dumps["device"] \in Seq(EntriesOf(device))
  BY DEF WalkInv, Records
<1>2. /\ DOMAIN dumps["map"] = 1 .. Len(dumps["map"]) /\ Len(dumps["map"]) \in Nat
      /\ DOMAIN dumps["device"] = 1 .. Len(dumps["device"]) /\ Len(dumps["device"]) \in Nat
  BY <1>1
<1> QED
  BY <1>2 DEF Either

LEMMA BoundStays ==
    ASSUME device' = device, dumps' = dumps PROVE AllBound' = AllBound
<1>1. MapImage' = MapImage /\ Bind' = Bind
  BY DEF MapImage, Bind
<1>2. \A c : Canon(c)' = Canon(c)
  BY <1>1 DEF Canon
<1>3. \A c : BindingAgrees(c)' = BindingAgrees(c)
  BY <1>2 DEF BindingAgrees
<1> QED
  BY <1>1, <1>3 DEF AllBound

LEMMA CompareStep ==
    ASSUME WalkInv, WalkInv', CompareInv, [MapNext]_mapVars PROVE CompareInv'
<1>1. CASE CheckMarker
  BY <1>1 DEF CheckMarker, CompareInv, Compared
<1>2. CASE WalkModel
  <2>1. /\ pos' = pos /\ clean' = clean /\ phase = "walk" /\ phase' \in {"walk", "marker", "chain", "failed"}
    BY <1>2 DEF WalkModel, Walked
  <2>2. pos = 1 /\ clean
    BY <2>1 DEF CompareInv, Compared
  <2>3. \A k \in Either' : ~(k < 1)
    <3>1. \A k \in Either' : k \in Nat /\ k >= 1
      <4>1. /\ DOMAIN dumps'["map"] = 1 .. Len(dumps'["map"])
            /\ DOMAIN dumps'["device"] = 1 .. Len(dumps'["device"])
        <5>1. dumps'["map"] \in Seq(EntriesOf(MapImage')) /\ dumps'["device"] \in Seq(EntriesOf(device'))
          BY DEF WalkInv, Records
        <5> QED
          BY <5>1
      <4> QED
        BY <4>1 DEF Either
    <3> QED
      BY <3>1
  <2> QED
    BY <2>1, <2>2, <2>3 DEF CompareInv, Compared
<1>3. CASE CompareModel
  <2>1. device' = device /\ dumps' = dumps /\ Either' = Either /\ phase = "chain" /\ \A k : AgreeAt(k)' = AgreeAt(k)
    BY <1>3 DEF CompareModel, Either, AgreeAt, Both
  <2>2. CASE /\ pos \in Either /\ pos' = pos + 1 /\ phase' = phase
             /\ clean' = (clean /\ AgreeAt(pos))
    <3>1. \A k \in Either : k \in Nat
      BY DumpDomains
    <3>2. \A k \in Either : k < pos + 1 <=> k < pos \/ k = pos
      BY <3>1 DEF CompareInv
    <3>3. clean <=> \A k \in Either : k < pos => AgreeAt(k)
      BY <2>1 DEF CompareInv
    <3>4. clean' <=> \A k \in Either : k < pos + 1 => AgreeAt(k)
      BY <2>2, <3>2, <3>3
    <3> QED
      BY <2>1, <2>2, <3>4 DEF CompareInv, Compared, AgreeAt
  <2>3. CASE pos \notin Either /\ phase' = "bindings" /\ pos' = pos /\ clean' = clean
    <3>1. ASSUME NEW k \in Either, ~(k < pos) PROVE FALSE
      <4>1. k \in Nat /\ pos \in Nat /\ pos >= 1 /\ (k \in 1 .. Len(dumps["map"]) \/ k \in 1 .. Len(dumps["device"]))
        BY <3>1, DumpDomains DEF CompareInv, Either
      <4>2. pos \in 1 .. Len(dumps["map"]) \/ pos \in 1 .. Len(dumps["device"])
        BY <3>1, <4>1, DumpDomains
      <4> QED
        BY <2>3, <4>2, DumpDomains DEF Either
    <3> QED
      BY <2>1, <2>3, <3>1 DEF CompareInv, Compared
  <2> QED
    BY <1>3, <2>2, <2>3 DEF CompareModel, Either, Both, AgreeAt
<1>4. CASE CompareBindings
  <2>1. /\ device' = device /\ dumps' = dumps /\ Either' = Either /\ phase = "bindings" /\ phase' = "done"
        /\ pos' = pos /\ clean' = (clean /\ AllBound) /\ ChainAgrees' = ChainAgrees
    BY <1>4 DEF CompareBindings, Either, AgreeAt, Both, ChainAgrees, AllBound
  <2>2. AllBound' = AllBound
    BY <2>1, BoundStays
  <2>3. clean <=> ChainAgrees
    BY <2>1 DEF CompareInv, ChainAgrees
  <2> QED
    BY <2>1, <2>2, <2>3 DEF CompareInv, Compared
<1>5. CASE Send \/ UNCHANGED mapVars
  <2>1. /\ device' = device /\ dumps' = dumps /\ Either' = Either /\ phase' = phase /\ pos' = pos
        /\ clean' = clean /\ ChainAgrees' = ChainAgrees /\ \A k : AgreeAt(k)' = AgreeAt(k)
    BY <1>5 DEF Send, mapVars, Either, AgreeAt, Both, ChainAgrees
  <2>2. AllBound' = AllBound
    BY <2>1, BoundStays
  <2> QED
    BY <2>1, <2>2 DEF CompareInv
<1> QED
  BY <1>1, <1>2, <1>3, <1>4, <1>5 DEF MapNext

\* Both images begin alike: the device has the models of the map, at the same
\* places.
Alike ==
    /\ device.base = MapBase
    /\ Len(MapImage.models) <= Len(device.models)
    /\ \A k \in 1 .. Len(MapImage.models) : device.models[k] = MapImage.models[k]

LEMMA HeadersAgree ==
    ASSUME device \in Devices, Alike, NEW k \in 1 .. Len(MapImage.models) + 1
    PROVE  Header(device, k) = Header(MapImage, k)
<1> DEFINE n == Len(MapImage.models)
           N == {j \in Nat : j <= n => Header(device, j + 1) = Header(MapImage, j + 1)}
<1>1. /\ Image(device) /\ Image(MapImage) /\ MapImage.base = MapBase /\ device.base = MapBase
      /\ n \in Nat /\ Len(device.models) \in Nat /\ n <= Len(device.models)
      /\ \A j \in 1 .. n : device.models[j] = MapImage.models[j]
  <2>1. Image(device) /\ Image(MapImage) /\ MapImage.base = MapBase
    BY DevicesAre, MapImageIs
  <2> QED
    BY <2>1, HeaderIs DEF Alike
<1>2. 0 \in N
  BY <1>1, HeaderIs
<1>3. ASSUME NEW j \in Nat, j \in N PROVE j + 1 \in N
  <2> SUFFICES ASSUME j + 1 <= n
               PROVE  Header(device, (j + 1) + 1) = Header(MapImage, (j + 1) + 1)
    OBVIOUS
  <2>1. j + 1 \in 1 .. n /\ j + 1 \in 1 .. Len(device.models) /\ j <= n
    BY <1>1
  <2>2. Header(device, j + 1) = Header(MapImage, j + 1)
    BY <1>3, <2>1
  <2>3. Header(device, (j + 1) + 1) = Header(device, j + 1) + 2 + device.models[j + 1].length
    BY <1>1, <2>1, HeaderIs
  <2>4. Header(MapImage, (j + 1) + 1) = Header(MapImage, j + 1) + 2 + MapImage.models[j + 1].length
    BY <1>1, <2>1, HeaderIs
  <2>5. device.models[j + 1] = MapImage.models[j + 1]
    BY <1>1, <2>1
  <2> HIDE DEF n
  <2> QED
    BY <2>2, <2>3, <2>4, <2>5
<1> HIDE DEF N
<1>4. k - 1 \in Nat /\ k - 1 <= n /\ (k - 1) + 1 = k
  BY <1>1
<1>5. k - 1 \in N
  BY <1>2, <1>3, <1>4, CountsUp
<1> QED
  BY <1>4, <1>5 DEF N

LEMMA AlikeHas ==
    ASSUME device \in Devices, Alike, NEW k, NEW i, Has(MapImage, k, i)
    PROVE  /\ k \in 1 .. Len(MapImage.models) /\ k \in 1 .. Len(device.models)
           /\ device.models[k] = MapImage.models[k]
           /\ Has(device, k, i) /\ PointAt(device, k, i) = PointAt(MapImage, k, i)
           /\ Place(device, k, i) = Place(MapImage, k, i)
<1>1. Image(device) /\ Image(MapImage)
  BY DevicesAre, MapImageIs
<1>2. Len(MapImage.models) \in Nat /\ Len(device.models) \in Nat
  BY <1>1, HeaderIs
<1>3. /\ k \in 1 .. Len(MapImage.models) /\ k \in 1 .. Len(device.models)
      /\ k \in 1 .. Len(MapImage.models) + 1
  BY <1>2 DEF Has, Alike
<1>4. device.models[k] = MapImage.models[k] /\ Header(device, k) = Header(MapImage, k)
  BY <1>3, HeadersAgree DEF Alike
<1> QED
  BY <1>3, <1>4 DEF Has, PointAt, Place

LEMMA AlikeCells ==
    ASSUME device \in Devices, Alike, NEW c \in Cells(MapImage)
    PROVE  c \in Cells(device)
<1>1. Image(device) /\ Image(MapImage)
  BY DevicesAre, MapImageIs
<1>2. PICK k, i : /\ Has(MapImage, k, i)
                  /\ c = [model |-> MapImage.models[k].id, point |-> PointAt(MapImage, k, i),
                          address |-> Place(MapImage, k, i)]
  BY <1>1, CellsAre
<1>3. /\ Has(device, k, i)
      /\ c = [model |-> device.models[k].id, point |-> PointAt(device, k, i),
              address |-> Place(device, k, i)]
  BY <1>2, AlikeHas
<1> QED
  BY <1>1, <1>3, CellsAre

\* The map has every point of the models of its chain.
LEMMA MapHas ==
    ASSUME device \in Devices, NEW k \in 1 .. Len(MapImage.models),
           NEW i \in DOMAIN MODELS[MapImage.models[k].id]
    PROVE  Has(MapImage, k, i)
<1> DEFINE mid == MapImage.models[k].id
           n == Len(MODELS[mid])
           at == Offset(mid)
<1>1. mid \in DOMAIN MODELS /\ MapImage.models[k].length = Body(mid)
  BY DevicesAre, MapImageIs
<1>2. /\ n \in Nat /\ DOMAIN MODELS[mid] = 1 .. n /\ at[n + 1] = Body(mid) + 2 /\ Body(mid) \in Nat
      /\ \A j \in 1 .. n + 1 : at[j] \in Nat
      /\ \A x \in 1 .. n : \A y \in x + 1 .. n + 1 : at[x] < at[y]
  <2>1. Body(mid) \in Nat
    BY <1>1, OffsetIs
  <2>2. /\ \A j \in 1 .. n + 1 : at[j] \in Nat
        /\ \A x \in 1 .. n : \A y \in x + 1 .. n + 1 : at[x] < at[y]
    BY <1>1, OffsetIs
  <2>3. n \in Nat /\ DOMAIN MODELS[mid] = 1 .. n /\ at[n + 1] = Body(mid) + 2
    BY <1>1, OffsetIs
  <2> QED
    BY <2>1, <2>2, <2>3
<1>3. i \in 1 .. n
  BY <1>2
<1> HIDE DEF n, at
<1>4. at[i + 1] <= 2 + Body(mid)
  <2>1. CASE i = n
    BY <1>2, <2>1
  <2>2. CASE i # n
    <3>1. i + 1 \in 1 .. n /\ n + 1 \in (i + 1) + 1 .. n + 1 /\ i + 1 \in 1 .. n + 1 /\ n + 1 \in 1 .. n + 1
      BY <1>2, <1>3, <2>2
    <3>2. at[i + 1] < at[n + 1] /\ at[i + 1] \in Nat
      BY <1>2, <3>1
    <3> QED
      BY <1>2, <3>2
  <2> QED
    BY <2>1, <2>2
<1> QED
  BY <1>1, <1>4 DEF Has, Kept, at

\* A point's entry in the map is a cell of its image, of that model and name.
LEMMA CellOfIs ==
    ASSUME device \in Devices, NEW k \in 1 .. Len(MapImage.models), NEW name,
           Named(MapImage.models[k].id, name) # {}
    PROVE  LET c == CellOf(MapImage, MapImage.models[k].id, name)
           IN  c \in Cells(MapImage) /\ c.model = MapImage.models[k].id /\ c.point.name = name
<1> DEFINE mid == MapImage.models[k].id
<1>1. PICK i \in DOMAIN MODELS[mid] : MODELS[mid][i].name = name
  BY DEF Named
<1>2. Has(MapImage, k, i)
  BY MapHas
<1> DEFINE d == [model |-> mid, point |-> PointAt(MapImage, k, i), address |-> Place(MapImage, k, i)]
<1>3. d \in Cells(MapImage)
  BY <1>2, CellsAre, DevicesAre, MapImageIs
<1>4. d.model = mid /\ d.point.name = name
  BY <1>1 DEF PointAt
<1> HIDE DEF d, mid
<1> QED
  BY <1>3, <1>4 DEF CellOf, mid

\* A model and its entry in the map agree when they are the same, with room
\* for the same points, and their scale factors are.
LEMMA AgreeIs ==
    ASSUME NEW a, Image(a), NEW b, Image(b),
           NEW k \in 1 .. Len(a.models), k \in 1 .. Len(b.models)
    PROVE  Agree(EntryOf(a, k), EntryOf(b, k)) <=>
              /\ a.models[k] = b.models[k]
              /\ \A n \in ScaleNames(a, k) : b.sfs[n] = a.sfs[n]
<1> DEFINE e == EntryOf(a, k)
           d == EntryOf(b, k)
<1>1. /\ e.id = a.models[k].id /\ e.length = a.models[k].length
      /\ DOMAIN e.sfs = ScaleNames(a, k)
      /\ \A n \in ScaleNames(a, k) : e.sfs[n] = a.sfs[n]
      /\ d.id = b.models[k].id /\ d.length = b.models[k].length
      /\ DOMAIN d.sfs = ScaleNames(b, k)
      /\ \A n \in ScaleNames(b, k) : d.sfs[n] = b.sfs[n]
  BY EntryIs
<1>2. a.models[k] = b.models[k] <=> e.id = d.id /\ e.length = d.length
  <2>1. /\ a.models[k] \in [id : ModelIds, length : 0 .. Radix - 1]
        /\ b.models[k] \in [id : ModelIds, length : 0 .. Radix - 1]
    BY HeaderIs
  <2> QED
    BY <1>1, <2>1
<1>3. ASSUME a.models[k] = b.models[k]
      PROVE  /\ ScaleNames(a, k) = ScaleNames(b, k)
             /\ \A p \in e.points : \E q \in d.points : q.offset = p.offset /\ q.type = p.type
  <2>1. \A i : /\ Has(a, k, i) <=> Has(b, k, i)
               /\ PointAt(a, k, i) = PointAt(b, k, i)
    BY <1>3 DEF Has, PointAt
  <2>2. ScaleNames(a, k) = ScaleNames(b, k)
    BY <1>3, <2>1 DEF ScaleNames
  <2>3. ASSUME NEW p \in e.points PROVE \E q \in d.points : q.offset = p.offset /\ q.type = p.type
    <3>1. PICK i : /\ Has(a, k, i)
                   /\ p = [name |-> PointAt(a, k, i).name, offset |-> Offset(a.models[k].id)[i],
                           address |-> Place(a, k, i), type |-> PointAt(a, k, i).type]
      BY EntryIs
    <3> DEFINE q == [name |-> PointAt(b, k, i).name, offset |-> Offset(b.models[k].id)[i],
                     address |-> Place(b, k, i), type |-> PointAt(b, k, i).type]
    <3>2. q \in d.points
      BY <2>1, <3>1, EntryIs
    <3>3. q.offset = p.offset /\ q.type = p.type
      BY <1>3, <2>1, <3>1
    <3> HIDE DEF q, d
    <3> QED
      BY <3>2, <3>3
  <2> QED
    BY <2>2, <2>3
<1> HIDE DEF e, d
<1>4. Agree(e, d) <=> /\ e.id = d.id /\ e.length = d.length
                      /\ \A p \in e.points : \E q \in d.points : q.offset = p.offset /\ q.type = p.type
                      /\ \A n \in DOMAIN e.sfs : n \in DOMAIN d.sfs /\ d.sfs[n] = e.sfs[n]
  BY DEF Agree
<1> QED
  BY <1>1, <1>2, <1>3, <1>4 DEF e, d

\* The map is walked to its end and no further.
LEMMA MapRecords ==
    ASSUME WalkInv, phase \in Compared
    PROVE  /\ Image(device) /\ Image(MapImage) /\ device \in Devices
           /\ Len(dumps["map"]) = Len(MapImage.models) /\ Len(MapImage.models) \in Nat
           /\ Len(MapImage.models) <= MaxModels /\ MaxModels \in Nat
           /\ \A k \in 1 .. Len(MapImage.models) : dumps["map"][k] = EntryOf(MapImage, k)
           /\ Prefix(MapImage.models) = MapImage.models
<1> DEFINE n == Len(MapImage.models)
           m == Len(dumps["map"])
<1>1. /\ Image(device) /\ Image(MapImage) /\ MapImage.tail = "end" /\ n <= MaxModels
      /\ Records(MapImage, dumps["map"]) /\ Complete(MapImage, dumps["map"]) /\ MaxModels \in Nat
  BY DevicesAre, MapImageIs, DeviceAssumption DEF WalkInv
<1>2. m \in Nat /\ n \in Nat
  BY <1>1, HeaderIs DEF Records
<1>3. m >= n
  BY <1>1, <1>2 DEF Complete
<1>4. m <= n
  <2> SUFFICES ASSUME m > n PROVE FALSE
    BY <1>2
  <2>1. m \in 1 .. m /\ ~(m <= n)
    BY <1>2
  <2>2. MapImage.tail = "zeros"
    BY <1>1, <2>1 DEF Records
  <2> QED
    BY <1>1, <2>2
<1>5. m = n
  BY <1>2, <1>3, <1>4
<1>6. \A k \in 1 .. n : dumps["map"][k] = EntryOf(MapImage, k)
  BY <1>1, <1>2, <1>5 DEF Records
<1>7. Prefix(MapImage.models) = MapImage.models
  <2> DEFINE S == [id : ModelIds, length : 0 .. Radix - 1]
             p == Prefix(MapImage.models)
  <2>1. MapImage.models \in Seq(S)
    BY <1>1 DEF Image
  <2>2. p \in Seq(S) /\ Len(p) = n /\ \A k \in 1 .. n : p[k] = MapImage.models[k]
    <3>1. /\ Len(p) = IF n < MaxModels THEN n ELSE MaxModels
          /\ p \in Seq(S) /\ \A k \in 1 .. Len(p) : p[k] = MapImage.models[k]
      BY <2>1, PrefixIs, Zenon
    <3>2. Len(p) = n
      BY <1>1, <1>2, <3>1
    <3> QED
      BY <3>1, <3>2, Zenon
  <2> HIDE DEF p, S
  <2>3. p = MapImage.models
    BY <2>1, <2>2, SeqEqual
  <2> QED
    BY <2>3 DEF p
<1> QED
  BY <1>1, <1>2, <1>5, <1>6, <1>7 DEF WalkInv

LEMMA SameIsAlike ==
    ASSUME WalkInv, phase \in Compared, device.base = MapBase,
           Prefix(device.models) = Prefix(MapImage.models)
    PROVE  Alike
<1>1. device.models \in Seq([id : ModelIds, length : 0 .. Radix - 1])
  BY MapRecords DEF Image
<1>2. /\ Prefix(device.models) = MapImage.models /\ Len(MapImage.models) \in Nat
      /\ Len(Prefix(device.models)) <= Len(device.models)
      /\ \A k \in 1 .. Len(Prefix(device.models)) : Prefix(device.models)[k] = device.models[k]
  BY <1>1, MapRecords, PrefixIs
<1> QED
  BY <1>2 DEF Alike

\* No scale factor of the map's differs.
SameScales ==
    \A k \in 1 .. Len(MapImage.models) : \A n \in ScaleNames(MapImage, k) :
        device.sfs[n] = MapImage.sfs[n]

LEMMA ScalesAre ==
    ASSUME device \in Devices
    PROVE  SameScales <=> \A c \in Cells(MapImage) :
              c.point.type = "sunssf" => device.sfs[c.point.name] = SfValues[c.point.name]
<1> DEFINE Cell(k, i) == [model |-> MapImage.models[k].id, point |-> PointAt(MapImage, k, i),
                          address |-> Place(MapImage, k, i)]
<1>1. Image(MapImage) /\ MapImage.sfs = SfValues
  BY DevicesAre, MapImageIs
<1>2. ASSUME SameScales, NEW c \in Cells(MapImage), c.point.type = "sunssf"
      PROVE  device.sfs[c.point.name] = SfValues[c.point.name]
  <2>1. PICK k, i : Has(MapImage, k, i) /\ c = Cell(k, i)
    BY <1>1, CellsAre
  <2>2. k \in 1 .. Len(MapImage.models) /\ i \in 1 .. Len(MODELS[MapImage.models[k].id])
    BY <1>1, <2>1, PlaceIs DEF Has
  <2>3. c.point = PointAt(MapImage, k, i)
    BY <2>1
  <2>4. c.point.name \in ScaleNames(MapImage, k)
    BY <1>2, <2>1, <2>2, <2>3 DEF ScaleNames
  <2> QED
    BY <1>1, <1>2, <2>2, <2>4 DEF SameScales
<1>3. ASSUME \A c \in Cells(MapImage) :
                c.point.type = "sunssf" => device.sfs[c.point.name] = SfValues[c.point.name],
             NEW k \in 1 .. Len(MapImage.models), NEW n \in ScaleNames(MapImage, k)
      PROVE  device.sfs[n] = MapImage.sfs[n]
  <2>1. PICK i : Has(MapImage, k, i) /\ PointAt(MapImage, k, i).type = "sunssf" /\ n = PointAt(MapImage, k, i).name
    BY DEF ScaleNames
  <2> DEFINE c == Cell(k, i)
  <2>2. c \in Cells(MapImage)
    BY <1>1, <2>1, CellsAre
  <2>3. c.point = PointAt(MapImage, k, i)
    OBVIOUS
  <2> HIDE DEF c
  <2> QED
    BY <1>1, <1>3, <2>1, <2>2, <2>3
<1> QED
  BY <1>2, <1>3 DEF SameScales

\* The chains agree exactly when the models do, and their scale factors.
LEMMA ChainsAgree ==
    ASSUME WalkInv, phase \in Compared
    PROVE  ChainAgrees <=> /\ Prefix(device.models) = Prefix(MapImage.models)
                           /\ Len(dumps["device"]) = Len(dumps["map"])
                           /\ SameScales
<1> DEFINE n == Len(MapImage.models)
           b == Len(device.models)
           m == Len(dumps["device"])
           S == [id : ModelIds, length : 0 .. Radix - 1]
           p == Prefix(device.models)
<1>1. /\ Image(device) /\ Image(MapImage) /\ n \in Nat /\ n <= MaxModels /\ MaxModels \in Nat
      /\ DOMAIN dumps["map"] = 1 .. n /\ DOMAIN dumps["device"] = 1 .. m /\ m \in Nat
      /\ \A k \in 1 .. n : dumps["map"][k] = EntryOf(MapImage, k)
      /\ Prefix(MapImage.models) = MapImage.models /\ b \in Nat
      /\ Records(device, dumps["device"]) /\ Complete(device, dumps["device"]) /\ m <= MaxModels
      /\ Len(dumps["map"]) = n
  <2>1. Records(device, dumps["device"]) /\ m <= MaxModels
    BY DEF WalkInv, Records
  <2>2. Complete(device, dumps["device"])
    BY DEF WalkInv
  <2> QED
    BY <2>1, <2>2, MapRecords, DumpDomains, HeaderIs
<1>2. /\ device.models \in Seq(S) /\ MapImage.models \in Seq(S)
      /\ \A k \in 1 .. n : MapImage.models[k].id # 0
  BY <1>1, MapImageIs, DevicesAre, MapRecords DEF Image
<1>3. /\ p \in Seq(S) /\ Len(p) = (IF b < MaxModels THEN b ELSE MaxModels)
      /\ \A k \in 1 .. Len(p) : p[k] = device.models[k]
  BY <1>2, PrefixIs
<1>4. ASSUME NEW k \in 1 .. n, k <= m, k <= b
      PROVE  AgreeAt(k) <=> /\ MapImage.models[k] = device.models[k]
                            /\ \A x \in ScaleNames(MapImage, k) : device.sfs[x] = MapImage.sfs[x]
  <2>1. k \in 1 .. b /\ k \in 1 .. m
    BY <1>4
  <2>2. dumps["map"][k] = EntryOf(MapImage, k) /\ dumps["device"][k] = EntryOf(device, k) /\ k \in Both
    BY <1>1, <2>1 DEF Records, Both
  <2> QED
    BY <1>1, <2>1, <2>2, AgreeIs DEF AgreeAt
<1>5. ASSUME ChainAgrees
      PROVE  p = MapImage.models /\ m = n /\ SameScales
  <2>1. m = n
    <3>1. m <= n
      <4> SUFFICES ASSUME m > n PROVE FALSE
        BY <1>1
      <4>1. m \in Either /\ m \notin Both
        BY <1>1 DEF Either, Both
      <4> QED
        BY <1>5, <4>1 DEF ChainAgrees, AgreeAt
    <3>2. n <= m
      <4> SUFFICES ASSUME n > m PROVE FALSE
        BY <1>1
      <4>1. n \in Either /\ n \notin Both
        BY <1>1 DEF Either, Both
      <4> QED
        BY <1>5, <4>1 DEF ChainAgrees, AgreeAt
    <3> QED
      BY <1>1, <3>1, <3>2
  <2>2. \A k \in 1 .. n : AgreeAt(k)
    BY <1>1, <1>5 DEF ChainAgrees, Either
  <2>3. n <= b
    <3> SUFFICES ASSUME n > b PROVE FALSE
      BY <1>1
    <3>1. n \in 1 .. n /\ n \in 1 .. m /\ ~(n <= b)
      BY <1>1, <2>1
    <3>2. dumps["device"][n].id = 0
      BY <1>1, <3>1 DEF Records
    <3>3. dumps["map"][n].id = dumps["device"][n].id
      BY <2>2, <3>1 DEF AgreeAt, Agree
    <3>4. dumps["map"][n].id = MapImage.models[n].id
      BY <1>1, <3>1, EntryIs
    <3> QED
      BY <1>2, <3>1, <3>2, <3>3, <3>4
  <2>4. Len(p) = n
    BY <1>1, <1>3, <2>1, <2>3 DEF Complete
  <2>5. \A k \in 1 .. n : /\ MapImage.models[k] = device.models[k]
                          /\ \A x \in ScaleNames(MapImage, k) : device.sfs[x] = MapImage.sfs[x]
    BY <1>1, <1>4, <2>1, <2>2, <2>3
  <2>6. p = MapImage.models
    <3> HIDE DEF p, S
    <3>1. \A k \in 1 .. n : p[k] = MapImage.models[k]
      BY <1>3, <2>4, <2>5, Zenon
    <3> QED
      BY <1>2, <1>3, <2>4, <3>1, SeqEqual
  <2> QED
    BY <2>1, <2>5, <2>6 DEF SameScales
<1>6. ASSUME p = MapImage.models, m = n, SameScales PROVE ChainAgrees
  <2>1. n <= b /\ \A k \in 1 .. n : MapImage.models[k] = device.models[k]
    BY <1>1, <1>3, <1>6
  <2>2. \A k \in 1 .. n : AgreeAt(k)
    BY <1>1, <1>4, <1>6, <2>1 DEF SameScales
  <2>3. Either = 1 .. n
    BY <1>1, <1>6 DEF Either
  <2> QED
    BY <2>2, <2>3 DEF ChainAgrees
<1> QED
  BY <1>1, <1>5, <1>6

\* What a canonical point is bound to.
LEMMA BoundIs ==
    ASSUME device \in Devices, NEW c \in DOMAIN Bind
    PROVE  /\ \E k \in 1 .. Len(MapImage.models) : MapImage.models[k].id = Bind[c].model
           /\ Named(Bind[c].model, Bind[c].point) # {}
           /\ \A i \in Named(Bind[c].model, Bind[c].point) :
                 LET p == MODELS[Bind[c].model][i]
                 IN  /\ p.type \in Types \ {"string"}
                     /\ p.sf # Absent =>
                           /\ Named(Bind[c].model, p.sf) # {}
                           /\ \A j \in Named(Bind[c].model, p.sf) : MODELS[Bind[c].model][j].type = "sunssf"
<1> DEFINE chain == ASSETS[device.asset].chain
<1>1. device.asset \in DOMAIN ASSETS
  BY DevicesAre
<1>2. /\ \E k \in DOMAIN chain : chain[k] = Bind[c].model
      /\ Named(Bind[c].model, Bind[c].point) # {}
      /\ \A i \in Named(Bind[c].model, Bind[c].point) :
            LET p == MODELS[Bind[c].model][i]
            IN  /\ p.type \in Types \ {"string"}
                /\ p.sf # Absent =>
                      /\ Named(Bind[c].model, p.sf) # {}
                      /\ \A j \in Named(Bind[c].model, p.sf) : MODELS[Bind[c].model][j].type = "sunssf"
  BY <1>1, AssetAssumption, Zenon DEF Bind
<1> HIDE DEF chain
<1>3. DOMAIN chain = 1 .. Len(MapImage.models) /\ \A k \in 1 .. Len(MapImage.models) : MapImage.models[k].id = chain[k]
  BY <1>1, MapImageIs DEF chain
<1>4. \E k \in 1 .. Len(MapImage.models) : MapImage.models[k].id = Bind[c].model
  BY <1>2, <1>3
<1> QED
  BY <1>2, <1>4

\* Its entry in the map: a cell of the map's image, and that of its scale
\* factor.
LEMMA CanonIs ==
    ASSUME device \in Devices, NEW c \in DOMAIN Bind
    PROVE  LET cell == CellOf(MapImage, Bind[c].model, Bind[c].point)
               sf == cell.point.sf
               scale == CellOf(MapImage, Bind[c].model, sf)
           IN  /\ cell \in Cells(MapImage)
               /\ cell.model = Bind[c].model /\ cell.point.name = Bind[c].point
               /\ cell.point.type \in Types \ {"string"}
               /\ Canon(c).address = cell.address /\ Canon(c).type = cell.point.type /\ Canon(c).sf = sf
               /\ sf # Absent => /\ scale \in Cells(MapImage) /\ scale.point.type = "sunssf"
                                 /\ scale.point.name = sf /\ Canon(c).sfAddress = scale.address
<1> DEFINE mid == Bind[c].model
           cell == CellOf(MapImage, mid, Bind[c].point)
           sf == cell.point.sf
           scale == CellOf(MapImage, mid, sf)
<1>0. Image(MapImage)
  BY DevicesAre, MapImageIs
<1>1. PICK k \in 1 .. Len(MapImage.models) : MapImage.models[k].id = mid
  BY BoundIs
<1>2. cell \in Cells(MapImage) /\ cell.model = mid /\ cell.point.name = Bind[c].point
  <2> DEFINE id == MapImage.models[k].id
             name == Bind[c].point
             at == CellOf(MapImage, id, name)
  <2>1. Named(id, name) # {}
    BY <1>1, BoundIs
  <2> HIDE DEF name
  <2>2. at \in Cells(MapImage) /\ at.model = id /\ at.point.name = name
    BY <2>1, CellOfIs
  <2> QED
    BY <1>1, <2>2 DEF name
<1>3. /\ Canon(c).address = cell.address /\ Canon(c).type = cell.point.type /\ Canon(c).sf = sf
      /\ sf # Absent => Canon(c).sfAddress = scale.address
  BY DEF Canon
<1>4. ASSUME NEW d \in Cells(MapImage), d.model = mid
      PROVE  \E i \in Named(mid, d.point.name) : d.point = MODELS[mid][i]
  <2>1. PICK j, i : /\ Has(MapImage, j, i)
                    /\ d = [model |-> MapImage.models[j].id, point |-> PointAt(MapImage, j, i),
                            address |-> Place(MapImage, j, i)]
    BY <1>0, CellsAre
  <2>2. d.model = MapImage.models[j].id /\ d.point = PointAt(MapImage, j, i)
    BY <2>1
  <2>3. i \in DOMAIN MODELS[mid] /\ d.point = MODELS[mid][i]
    BY <1>4, <2>1, <2>2 DEF Has, Kept, PointAt
  <2> QED
    BY <2>3 DEF Named
<1> HIDE DEF cell
<1>5. PICK i \in Named(mid, Bind[c].point) : cell.point = MODELS[mid][i]
  BY <1>2, <1>4
<1>6. /\ cell.point.type \in Types \ {"string"}
      /\ sf # Absent => /\ Named(mid, sf) # {}
                        /\ \A j \in Named(mid, sf) : MODELS[mid][j].type = "sunssf"
  BY <1>5, BoundIs
<1> HIDE DEF sf, mid, scale
<1>7. ASSUME sf # Absent PROVE scale \in Cells(MapImage) /\ scale.point.type = "sunssf" /\ scale.point.name = sf
  <2>1. scale \in Cells(MapImage) /\ scale.model = mid /\ scale.point.name = sf
    BY <1>1, <1>6, <1>7, CellOfIs DEF scale
  <2>2. PICK j \in Named(mid, sf) : scale.point = MODELS[mid][j]
    BY <1>4, <2>1
  <2> QED
    BY <1>6, <1>7, <2>1, <2>2
<1> QED
  BY <1>2, <1>3, <1>6, <1>7 DEF cell, sf, scale, mid

\* Where the device has the map's models, it has what the map binds.
LEMMA AlikeBinds ==
    ASSUME WalkInv, phase \in Compared, Alike, Len(dumps["device"]) = Len(dumps["map"])
    PROVE  AllBound
<1> SUFFICES ASSUME NEW c \in DOMAIN Bind PROVE BindingAgrees(c)
  BY DEF AllBound
<1> DEFINE cell == CellOf(MapImage, Bind[c].model, Bind[c].point)
           found == dumps["device"]
<1>1. cell \in Cells(MapImage) /\ Canon(c).address = cell.address /\ Canon(c).type = cell.point.type
  BY CanonIs, MapRecords
<1> HIDE DEF cell
<1>2. PICK k, i : /\ Has(MapImage, k, i)
                  /\ cell = [model |-> MapImage.models[k].id, point |-> PointAt(MapImage, k, i),
                             address |-> Place(MapImage, k, i)]
  BY <1>1, CellsAre, MapRecords
<1>3. cell.address = Place(MapImage, k, i) /\ cell.point.type = PointAt(MapImage, k, i).type
  BY <1>2
<1>4. /\ k \in 1 .. Len(MapImage.models) /\ k \in 1 .. Len(device.models) /\ Has(device, k, i)
      /\ PointAt(device, k, i) = PointAt(MapImage, k, i) /\ Place(device, k, i) = Place(MapImage, k, i)
  BY <1>2, AlikeHas, MapRecords
<1>5. k \in 1 .. Len(found) /\ k \in DOMAIN found /\ k <= Len(device.models)
  BY <1>4, MapRecords, DumpDomains
<1>6. found[k] = EntryOf(device, k)
  BY <1>5 DEF WalkInv, Records
<1> DEFINE q == [name |-> PointAt(device, k, i).name, offset |-> Offset(device.models[k].id)[i],
                 address |-> Place(device, k, i), type |-> PointAt(device, k, i).type]
<1>7. q \in EntryOf(device, k).points
  BY <1>4, EntryIs, MapRecords
<1>8. q.address = Canon(c).address /\ q.type = Canon(c).type
  BY <1>1, <1>3, <1>4
<1> HIDE DEF q
<1>9. q \in PointsOf(found)
  BY <1>5, <1>6, <1>7 DEF PointsOf
<1> QED
  BY <1>8, <1>9 DEF BindingAgrees

\* So the verdict on a device at the map's base is about its chain alone.
LEMMA VerdictIs ==
    ASSUME WalkInv, CompareInv, phase = "done", device.base = MapBase
    PROVE  clean <=> Same
<1>1. phase \in Compared /\ device \in Devices
  BY DEF WalkInv, Compared
<1>2. clean <=> ChainAgrees /\ AllBound
  BY DEF CompareInv
<1>3. ChainAgrees <=> Same
  BY <1>1, ChainsAgree, ScalesAre DEF Same
<1>4. Same => AllBound
  <2> SUFFICES ASSUME Same PROVE AllBound
    OBVIOUS
  <2>1. Alike
    BY <1>1, SameIsAlike DEF Same
  <2> QED
    BY <1>1, <2>1, AlikeBinds DEF Same
<1> QED
  BY <1>2, <1>3, <1>4

LEMMA CompareInit == MapInit => CompareInv
<1> SUFFICES ASSUME MapInit PROVE CompareInv
  OBVIOUS
<1>1. Either = {} /\ phase = "marker" /\ pos = 1 /\ clean = TRUE
  BY DEF MapInit, Either
<1> QED
  BY <1>1 DEF CompareInv, Compared

MapInv == WalkInv /\ CompareInv
LEMMA SpecMapInv == MapSpec => []MapInv
<1>1. MapInit => MapInv
  BY WalkInit, CompareInit DEF MapInv
<1>2. MapInv /\ [MapNext]_mapVars => MapInv'
  BY WalkStep, CompareStep DEF MapInv
<1> QED
  BY <1>1, <1>2, PTL DEF MapSpec

\* The verdict is right in both directions.
THEOREM SpecVerdict == MapSpec => []Verdict
<1>1. MapInv => Verdict
  BY VerdictIs DEF MapInv, Verdict
<1> QED
  BY <1>1, SpecMapInv, PTL

-----------------------------------------------------------------------------
(* What is sent through a clean map *)

LEMMA SendIsUnderstood ==
    ASSUME MapInv, device.base = MapBase, Send PROVE Understood'
<1>1. phase = "done" /\ clean /\ phase \in Compared /\ device \in Devices /\ device' = device
  BY DEF Send, MapInv, WalkInv, Compared
<1>2. Same
  BY <1>1, VerdictIs DEF MapInv
<1>3. Alike /\ Image(device) /\ Image(MapImage)
  BY <1>1, <1>2, SameIsAlike, MapRecords DEF Same, MapInv
<1>4. PICK c \in {x \in DOMAIN Bind : Bind[x].rw = "rw"} : \E v \in Values :
         LET entry == Canon(c)
             sf == IF entry.sf = Absent THEN 0
                   ELSE WordsToInt("sunssf", <<Word(Written(device), entry.sfAddress)>>)
             words == Encode(entry.type, v, sf)
         IN  /\ words # Refused
             /\ command' = [point |-> c, value |-> v, address |-> entry.address, words |-> words]
  <2>1. PICK c \in {x \in DOMAIN Bind : Bind[x].rw = "rw"} : \E e \in {Canon(c)}, v \in Values :
           \E sf \in {IF e.sf = Absent THEN 0
                      ELSE WordsToInt("sunssf", <<Word(Written(device), e.sfAddress)>>)} :
              LET words == Encode(e.type, v, sf)
              IN  /\ words # Refused
                  /\ command' = [point |-> c, value |-> v, address |-> e.address, words |-> words]
    BY DEF Send
  <2> QED
    BY <2>1, Zenon
<1> DEFINE entry == Canon(c)
           sf == IF entry.sf = Absent THEN 0
                 ELSE WordsToInt("sunssf", <<Word(Written(device), entry.sfAddress)>>)
           cell == CellOf(MapImage, Bind[c].model, Bind[c].point)
           scale == CellOf(MapImage, Bind[c].model, cell.point.sf)
<1>5. PICK v \in Values : /\ Encode(entry.type, v, sf) # Refused
                          /\ command' = [point |-> c, value |-> v, address |-> entry.address,
                                         words |-> Encode(entry.type, v, sf)]
  BY <1>4
<1>6. /\ cell \in Cells(MapImage) /\ cell.model = Bind[c].model /\ cell.point.name = Bind[c].point
      /\ cell.point.type \in Types \ {"string"}
      /\ entry.address = cell.address /\ entry.type = cell.point.type /\ entry.sf = cell.point.sf
      /\ cell.point.sf # Absent => /\ scale \in Cells(MapImage) /\ scale.point.type = "sunssf"
                                   /\ scale.point.name = cell.point.sf /\ entry.sfAddress = scale.address
  BY <1>1, CanonIs
<1> HIDE DEF cell, scale
<1>7. cell \in Cells(device)
  BY <1>1, <1>3, <1>6, AlikeCells
<1>8. /\ sf = IF cell.point.sf = Absent THEN 0 ELSE device.sfs[cell.point.sf]
      /\ sf \in Int /\ Factor(sf) \in Nat \ {0}
  <2>1. CASE cell.point.sf = Absent
    <3>1. Factor(0) \in Nat \ {0}
      BY CatalogAssumption, Zenon
    <3> QED
      BY <1>6, <2>1, <3>1
  <2>2. CASE cell.point.sf # Absent
    <3>1. scale \in Cells(device) /\ scale.point.type = "sunssf"
      BY <1>1, <1>3, <1>6, <2>2, AlikeCells
    <3>2. /\ scale.point.name \in DOMAIN SfValues
          /\ WordsToInt("sunssf", <<Word(Written(device), scale.address)>>) = device.sfs[scale.point.name]
      BY <1>3, <3>1, ScaleReads
    <3>3. device.sfs[scale.point.name] \in Int /\ Factor(device.sfs[scale.point.name]) \in Nat \ {0}
      BY <1>3, <3>2 DEF Image, Scaled
    <3> QED
      BY <1>6, <2>2, <3>2, <3>3
  <2> QED
    BY <2>1, <2>2
<1> HIDE DEF sf, entry
<1> DEFINE words == Encode(entry.type, v, sf)
<1>9. /\ 2 * (Decode(cell.point.type, words, sf) - v) <= Factor(sf)
      /\ 2 * (v - Decode(cell.point.type, words, sf)) <= Factor(sf)
  <2>1. v \in Int /\ cell.point.type \in Types /\ words # Refused
    BY <1>5, <1>6, DeviceAssumption
  <2> QED
    BY <1>6, <1>8, <2>1, EncodeIsNear
<1>10. /\ command'.point = c /\ command'.value = v /\ command'.address = cell.address
       /\ command'.words = words /\ Bind' = Bind
  BY <1>1, <1>5, <1>6 DEF Bind
<1> HIDE DEF words
<1> QED
  BY <1>1, <1>6, <1>7, <1>8, <1>9, <1>10 DEF Understood

\* What is sent is executed as meant.
THEOREM SpecCommandUnderstood == MapSpec => []CommandUnderstood
<1>1. MapInit => CommandUnderstood
  BY DEF MapInit, CommandUnderstood
<1>2. ASSUME MapInv, CommandUnderstood, [MapNext]_mapVars PROVE CommandUnderstood'
  <2>1. CASE Send
    BY <1>2, <2>1, SendIsUnderstood DEF CommandUnderstood, Send
  <2>2. CASE CheckMarker \/ WalkModel \/ CompareModel \/ CompareBindings \/ UNCHANGED mapVars
    <3>1. device' = device /\ command' = command /\ Bind' = Bind
      BY <2>2 DEF CheckMarker, WalkModel, CompareModel, CompareBindings, mapVars, Bind
    <3>2. Understood' = Understood
      BY <3>1 DEF Understood
    <3> QED
      BY <1>2, <3>1, <3>2 DEF CommandUnderstood
  <2> QED
    BY <1>2, <2>1, <2>2 DEF MapNext
<1>3. MapInv /\ CommandUnderstood /\ [MapNext]_mapVars => CommandUnderstood'
  BY <1>2
<1> QED
  BY <1>1, <1>3, SpecMapInv, PTL DEF MapSpec
=============================================================================
