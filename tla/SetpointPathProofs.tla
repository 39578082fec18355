--------------------------- MODULE SetpointPathProofs --------------------------
(***************************************************************************)
(* Proofs about SetpointPath for every set of classes, timeout, cycle      *)
(* length and message age.  Under every combination of faults that spares  *)
(* the device writes: the type invariant, what a trip needs, that the path *)
(* implements the dead man's switch, and how long devices may follow the   *)
(* predecessor of a controller that core does not hear.  Under those a     *)
(* healthy controller over a prompt network may meet: its loop is heard,   *)
(* and devices and commands agree.                                         *)
(*                                                                         *)
(* The strengthening relates the three clocks.  The watchdog's own clock   *)
(* starts at the time core's cycle was read, so it runs ahead of the true  *)
(* silence by at most one cycle (Watched) and never behind it until it     *)
(* saturates; a cycle that ends without a trip leaves the silence below    *)
(* Timeout plus the time since the clock was read, and the next one may    *)
(* add a cycle to that before it checks again (Guarded).                   *)
(*                                                                         *)
(* On the calm path, Prompt bounds the age of what is on its way and Fed   *)
(* the watchdog's clock by it.  Track follows the last command of a class  *)
(* from the publisher through network and queue to the device; Inherited   *)
(* bounds how late what an earlier controller process sent can be applied. *)
(***************************************************************************)
EXTENDS SetpointPath, SequenceTheorems, TLAPS

Watched ==
    /\ silence < SilenceCap => quiet <= silence
    /\ Heard => silence <= quiet + CycleMax

Guarded ==
    ~tripped => \/ phase = "sleep" /\ quiet <= Timeout + lag
                \/ phase = "work" /\ quiet <= Timeout + CycleMax + lag

Clocks == Watched /\ Guarded

--------------------------------------------------------------------------------
(* Types *)

\* What publish_setpoints makes of class c's value v at sequence number s.
Fresh(c, s, v) ==
    [cls |-> c, seq |-> s, run |-> run, age |-> 0, val |-> v, copy |-> FALSE]

\* A kind of messages that the publisher does not leave.
Kind(S) == \A c \in Classes, s \in 1..MaxSeq, v \in Vals : Fresh(c, s, v) \in S

\* The publisher's state while one cycle runs.
Publisher(S) ==
    [seq : 0..MaxSeq, parked : [Classes -> S \cup {None}], sent : SUBSET S]

\* Publishing a message takes one sequence number and keeps the publisher's
\* state well formed and its messages of the kind they were.
LEMMA PublishOneType ==
    ASSUME NEW S, Kind(S),
           NEW p \in Publisher(S), NEW c \in Classes, NEW v \in Vals, NEW client,
           p.seq + 1 <= MaxSeq
    PROVE  PublishOne(p, c, v, client) \in Publisher(S)
<1> DEFINE m == Fresh(c, p.seq + 1, v)
           waiting == {p.parked[d] : d \in {d \in Classes : p.parked[d] # None}}
           out == PublishOne(p, c, v, client)
<1>1. m \in S
  <2>1. p.seq + 1 \in 1..MaxSeq
    BY SetpointPathAssumption DEF Publisher
  <2> QED
    BY <2>1 DEF Kind
<1>2. waiting \subseteq S
  BY DEF Publisher
<1>3. out.seq \in 0..MaxSeq
  BY SetpointPathAssumption DEF Publisher, PublishOne
<1>4. out.parked \in [Classes -> S \cup {None}]
  <2>1. out.parked = IF client = "up" THEN [d \in Classes |-> None]
                                      ELSE [p.parked EXCEPT ![c] = m]
    BY DEF PublishOne, Fresh
  <2> HIDE DEF m
  <2> QED
    BY <1>1, <2>1 DEF Publisher
<1>5. out.sent \in SUBSET S
  <2>1. out.sent = p.sent \cup (IF client = "down" THEN {} ELSE {m})
                          \cup (IF client = "up" THEN waiting ELSE {})
    BY DEF PublishOne, Fresh
  <2>2. p.sent \in SUBSET S
    BY DEF Publisher
  <2> HIDE DEF m
  <2> QED
    BY <1>1, <1>2, <2>1, <2>2
<1>6. out = [seq |-> out.seq, parked |-> out.parked, sent |-> out.sent]
  BY DEF PublishOne
<1> HIDE DEF out
<1>7. out \in Publisher(S)
  BY <1>3, <1>4, <1>5, <1>6 DEF Publisher
<1> QED
  BY <1>7 DEF out

\* It takes exactly one number.
LEMMA PublishOneSeq ==
    ASSUME NEW p, NEW c, NEW v, NEW client
    PROVE  PublishOne(p, c, v, client).seq = p.seq + 1
BY DEF PublishOne

\* The same for a message that goes out only on change.
LEMMA PublishIfChangedType ==
    ASSUME NEW S, Kind(S),
           NEW p \in Publisher(S), NEW c \in Classes, NEW v \in Vals, NEW client,
           PublishIfChanged(p, c, v, client).seq <= MaxSeq
    PROVE  PublishIfChanged(p, c, v, client) \in Publisher(S)
<1>1. CASE lastPub[c] # v
  BY <1>1, PublishOneType, PublishOneSeq DEF PublishIfChanged
<1>2. CASE lastPub[c] = v
  BY <1>2 DEF PublishIfChanged
<1> QED
  BY <1>1, <1>2

\* A message may grow older without ceasing to be one.
LEMMA OlderType ==
    ASSUME NEW m \in Message
    PROVE  Older(m) \in Message
<1>1. Smaller(m.age + 1, AgeCap) \in 0..AgeCap
  BY SetpointPathAssumption DEF Message, Smaller, AgeCap
<1> QED
  BY <1>1 DEF Older, Message

\* A control cycle leaves core, the devices and core's subscription alone.
LEMMA CycleLeaves ==
    ASSUME ControlCycle
    PROVE  sinceSent' = 0 /\ UNCHANGED <<run, tenure, subscribed, core, dev>>
<1>1. PICK want \in [Classes -> Vals], c1, c2, c3 \in Clients :
        LET start == [seq |-> seq, parked |-> parked, sent |-> {}]
            battery == PublishOne(start, "battery", want["battery"], c1)
            pv == IF "pv" \in Mitigations
                  THEN PublishIfChanged(battery, "pv", want["pv"], c2) ELSE battery
            load == IF "flexible_load" \in Mitigations
                    THEN PublishIfChanged(pv, "flexible_load", want["flexible_load"], c3)
                    ELSE pv
        IN  /\ load.seq <= MaxSeq
            /\ Cardinality(net \cup load.sent) <= MaxNet
            /\ seq' = load.seq
            /\ parked' = load.parked
            /\ net' = net \cup load.sent
            /\ lastPub' = want
            /\ sinceSent' = 0
            /\ UNCHANGED <<run, tenure, subscribed, core, dev>>
  BY Zenon DEF ControlCycle
<1> QED
  BY <1>1, Zenon

\* A control cycle keeps the publisher's state well formed, and what it sends
\* and parks is of the kind that was in transit and parked.
LEMMA ControlCycleKind ==
    ASSUME NEW S, Kind(S), ControlCycle,
           seq \in 0..MaxSeq, parked \in [Classes -> S \cup {None}], net \subseteq S
    PROVE  /\ seq' \in 0..MaxSeq
           /\ parked' \in [Classes -> S \cup {None}]
           /\ lastPub' \in [Classes -> Vals \cup {None}]
           /\ net' \subseteq S
<1>1. PICK want \in [Classes -> Vals], c1, c2, c3 \in Clients :
        LET start == [seq |-> seq, parked |-> parked, sent |-> {}]
            battery == PublishOne(start, "battery", want["battery"], c1)
            pv == IF "pv" \in Mitigations
                  THEN PublishIfChanged(battery, "pv", want["pv"], c2) ELSE battery
            load == IF "flexible_load" \in Mitigations
                    THEN PublishIfChanged(pv, "flexible_load", want["flexible_load"], c3)
                    ELSE pv
        IN  /\ load.seq <= MaxSeq
            /\ seq' = load.seq
            /\ parked' = load.parked
            /\ net' = net \cup load.sent
            /\ lastPub' = want
  BY DEF ControlCycle
<1> DEFINE start == [seq |-> seq, parked |-> parked, sent |-> {}]
           battery == PublishOne(start, "battery", want["battery"], c1)
           pv == IF "pv" \in Mitigations
                 THEN PublishIfChanged(battery, "pv", want["pv"], c2) ELSE battery
           load == IF "flexible_load" \in Mitigations
                   THEN PublishIfChanged(pv, "flexible_load", want["flexible_load"], c3)
                   ELSE pv
<1>2. /\ start \in Publisher(S)
      /\ "battery" \in Classes /\ want["battery"] \in Vals
  BY DEF Publisher, Classes
<1>3. /\ battery.seq = seq + 1
      /\ pv.seq \in {battery.seq, battery.seq + 1}
      /\ load.seq \in {pv.seq, pv.seq + 1}
  BY PublishOneSeq DEF PublishIfChanged
<1>4. seq \in Nat /\ load.seq <= MaxSeq /\ MaxSeq \in Nat
  BY <1>1, SetpointPathAssumption
<1> HIDE DEF load, pv, battery, start
<1>5. start.seq = seq
  BY DEF start
<1>6. battery \in Publisher(S)
  <2>1. start.seq + 1 <= MaxSeq
    BY <1>3, <1>4, <1>5
  <2> QED
    BY <1>2, <2>1, PublishOneType DEF battery
<1>7. pv \in Publisher(S)
  <2>1. CASE "pv" \in Mitigations
    <3>1. "pv" \in Classes /\ want["pv"] \in Vals
      BY <2>1 DEF Classes
    <3>2. pv = PublishIfChanged(battery, "pv", want["pv"], c2)
      BY <2>1 DEF pv
    <3>3. pv.seq <= MaxSeq
      BY <1>3, <1>4
    <3> QED
      BY <1>2, <1>6, <3>1, <3>2, <3>3, PublishIfChangedType
  <2>2. CASE "pv" \notin Mitigations
    BY <1>6, <2>2 DEF pv
  <2> QED
    BY <2>1, <2>2
<1>8. load \in Publisher(S)
  <2>1. CASE "flexible_load" \in Mitigations
    <3>1. "flexible_load" \in Classes /\ want["flexible_load"] \in Vals
      BY <2>1 DEF Classes
    <3>2. load = PublishIfChanged(pv, "flexible_load", want["flexible_load"], c3)
      BY <2>1 DEF load
    <3> QED
      BY <1>2, <1>4, <1>7, <3>1, <3>2, PublishIfChangedType
  <2>2. CASE "flexible_load" \notin Mitigations
    BY <1>7, <2>2 DEF load
  <2> QED
    BY <2>1, <2>2
<1>9. /\ seq' = load.seq
      /\ parked' = load.parked
      /\ net' = net \cup load.sent
      /\ lastPub' = want
  BY <1>1 DEF load, pv, battery, start
<1> QED
  BY <1>8, <1>9 DEF Publisher

\* In particular they stay messages.
LEMMA ControlCycleType ==
    ASSUME TypeOK, ControlCycle
    PROVE  /\ seq' \in 0..MaxSeq
           /\ parked' \in [Classes -> Message \cup {None}]
           /\ lastPub' \in [Classes -> Vals \cup {None}]
           /\ net' \subseteq Message
<1>1. Kind(Message)
  <2>1. 0 \in 0..AgeCap /\ run \in 0..MaxRuns
    BY SetpointPathAssumption DEF AgeCap, TypeOK
  <2> QED
    BY <2>1 DEF Kind, Fresh, Message
<1>2. seq \in 0..MaxSeq /\ parked \in [Classes -> Message \cup {None}] /\ net \subseteq Message
  BY DEF TypeOK
<1> QED
  BY <1>1, <1>2, ControlCycleKind

\* A device write leaves each class on a value it had or was given.
LEMMA WriteType ==
    ASSUME dev \in [Classes -> Vals],
           NEW cs, NEW v \in [Classes -> Vals], Write(cs, v)
    PROVE  dev' \in [Classes -> Vals]
BY DEF Write

--------------------------------------------------------------------------------
\* Both services start with well-formed variables.
LEMMA InitTypeOK == Init => TypeOK
<1> SUFFICES ASSUME Init PROVE TypeOK
  OBVIOUS
<1>1. /\ 0 \in 0..MaxRuns /\ 0 \in 0..MaxSeq /\ 0 \in 0..ControlPeriod
      /\ 0 \in 0..CycleMax /\ SilenceCap \in 0..SilenceCap /\ 0 \in 0..QuietCap
      /\ 0 \in 0..TenureCap /\ <<>> \in Seq(Message)
  BY SetpointPathAssumption DEF SilenceCap, QuietCap, TenureCap
<1> QED
  BY <1>1 DEF Init, TypeOK

\* The types survive what core does with the head of its queue.
LEMMA HandleSetpointTypeOK == ASSUME TypeOK, HandleSetpoint PROVE TypeOK'
<1> DEFINE m == Head(inbound)
<1>1. inbound \in Seq(Message) /\ inbound # <<>>
  BY DEF TypeOK, HandleSetpoint
<1>2. m \in Message /\ inbound' \in Seq(Message)
  BY <1>1 DEF HandleSetpoint
<1>3. /\ m.cls \in Classes /\ m.seq \in 0..MaxSeq /\ m.run \in 0..MaxRuns
      /\ [c \in Classes |-> m.val] \in [Classes -> Vals]
  BY <1>2, SetpointPathAssumption DEF Message
<1> HIDE DEF m
<1>4. CASE Accept(m)
  <2>1. lastSeq' \in [Classes -> (0..MaxSeq) \cup {-1}]
    BY <1>3, <1>4 DEF Accept, TypeOK
  <2>2. lastRun' \in [Classes -> 0..MaxRuns]
    BY <1>3, <1>4 DEF Accept, TypeOK
  <2>3. dev' \in [Classes -> Vals]
    BY <1>3, <1>4, WriteType DEF Accept, TypeOK
  <2>4. silence' \in 0..SilenceCap /\ tripped' \in BOOLEAN /\ quiet' \in 0..QuietCap
    <3>1. silence' = lag /\ tripped' = FALSE /\ quiet' = 0 /\ lag \in 0..CycleMax
      BY <1>4 DEF Accept, Notify, TypeOK
    <3>2. lag \in 0..SilenceCap /\ 0 \in 0..QuietCap
      BY <3>1, SetpointPathAssumption DEF SilenceCap, QuietCap
    <3> QED
      BY <3>1, <3>2
  <2> QED
    BY <1>2, <2>1, <2>2, <2>3, <2>4 DEF HandleSetpoint, TypeOK, controller, broker
<1>5. CASE Reject(m)
  BY <1>2, <1>5 DEF Reject, HandleSetpoint, TypeOK, controller, broker, watchdog
<1> QED
  BY <1>4, <1>5 DEF HandleSetpoint, m

\* Every step keeps the types.
LEMMA NextTypeOK == TypeOK /\ [Next]_vars => TypeOK'
<1> SUFFICES ASSUME TypeOK, [Next]_vars PROVE TypeOK'
  OBVIOUS
<1>1. CASE ControlCycle
  <2>1. 0 \in 0..ControlPeriod
    BY SetpointPathAssumption
  <2>2. /\ sinceSent' = 0
        /\ UNCHANGED <<run, tenure, subscribed, core, dev>>
    BY <1>1, CycleLeaves
  <2> QED
    BY <1>1, <2>1, <2>2, ControlCycleType DEF TypeOK, core, watchdog
<1>2. CASE ControllerRestart
  <2>1. 0 \in 0..MaxSeq /\ run + 1 \in 0..MaxRuns /\ 0 \in 0..TenureCap
    BY <1>2, SetpointPathAssumption DEF ControllerRestart, TypeOK, TenureCap, QuietCap
  <2> QED
    BY <1>2, <2>1 DEF ControllerRestart, TypeOK, broker, core, watchdog
<1>3. CASE Deliver
  <2>1. PICK m \in net :
          /\ inbound' = Append(inbound, m)
          /\ \/ net' = net \ {m}
             \/ net' = (net \ {m}) \cup {[m EXCEPT !.copy = TRUE]}
    BY <1>3 DEF Deliver
  <2>2. m \in Message /\ [m EXCEPT !.copy = TRUE] \in Message
    BY DEF TypeOK, Message
  <2>3. net' \subseteq Message
    BY <2>1, <2>2 DEF TypeOK
  <2>4. inbound' \in Seq(Message)
    <3>1. inbound \in Seq(Message)
      BY DEF TypeOK
    <3> HIDE DEF Message
    <3> QED
      BY <2>1, <2>2, <3>1
  <2> QED
    BY <1>3, <2>3, <2>4 DEF Deliver, TypeOK, controller, watchdog
<1>4. CASE Lose
  BY <1>4 DEF Lose, TypeOK, controller, core, watchdog
<1>5. CASE SessionLost
  BY <1>5 DEF SessionLost, TypeOK, controller, core, watchdog
<1>6. CASE BeginCycle
  <2>1. 0 \in 0..CycleMax
    BY SetpointPathAssumption
  <2> QED
    BY <1>6, <2>1 DEF BeginCycle, TypeOK, controller, broker, watchdog
<1>7. CASE HandleSetpoint
  BY <1>7, HandleSetpointTypeOK
<1>8. CASE SafetyCycle
  <2>1. [c \in Classes |-> 0] \in [Classes -> Vals]
    BY SetpointPathAssumption DEF Vals
  <2>2. dev' \in [Classes -> Vals] /\ tripped' \in BOOLEAN
    BY <1>8, <2>1, WriteType DEF SafetyCycle, Trip, TypeOK
  <2> QED
    BY <1>8, <2>2 DEF SafetyCycle, TypeOK, controller, broker
<1>9. CASE CoreRestart
  <2>1. /\ 0 \in 0..CycleMax /\ 0 \in 0..MaxRuns /\ coreRun + 1 \in 0..MaxRuns
        /\ SilenceCap \in 0..SilenceCap /\ 0 \in 0..QuietCap /\ 0 \in 0..TenureCap
        /\ <<>> \in Seq(Message)
    BY <1>9, SetpointPathAssumption DEF CoreRestart, TypeOK, SilenceCap, QuietCap, TenureCap
  <2> QED
    BY <1>9, <2>1 DEF CoreRestart, TypeOK
<1>10. CASE Tick
  <2>1. /\ lag' \in 0..CycleMax /\ silence' \in 0..SilenceCap
        /\ quiet' \in 0..QuietCap /\ sinceSent' \in 0..ControlPeriod
    BY <1>10, SetpointPathAssumption DEF Tick, TypeOK, Smaller, SilenceCap, QuietCap
  <2>5. tenure' \in 0..TenureCap
    <3>1. /\ tenure \in 0..TenureCap /\ TenureCap \in Nat
          /\ tenure' \in {0, Smaller(tenure + 1, TenureCap)}
      BY <1>10, SetpointPathAssumption DEF Tick, TypeOK, TenureCap, QuietCap
    <3> QED
      BY <3>1 DEF Smaller
  <2>2. net' \subseteq Message
    BY <1>10, OlderType DEF Tick, TypeOK
  <2>3. inbound' \in Seq(Message)
    <3>1. inbound \in Seq(Message)
      BY DEF TypeOK
    <3>2. \A i \in 1..Len(inbound) : Older(inbound[i]) \in Message
      BY <3>1, OlderType
    <3>3. Len(inbound) \in Nat /\ inbound' = [i \in 1..Len(inbound) |-> Older(inbound[i])]
      BY <1>10, <3>1 DEF Tick
    <3> HIDE DEF Older, Message
    <3> QED
      BY <3>2, <3>3, IsASeq
  <2>4. parked' \in [Classes -> Message \cup {None}]
    BY <1>10, OlderType DEF Tick, TypeOK
  <2> QED
    BY <1>10, <2>1, <2>2, <2>3, <2>4, <2>5 DEF Tick, TypeOK
<1>11. CASE UNCHANGED vars
  BY <1>11 DEF vars, TypeOK, controller, broker, core, watchdog
<1> QED
  BY <1>1, <1>2, <1>3, <1>4, <1>5, <1>6, <1>7, <1>8, <1>9, <1>10, <1>11
     DEF Next, CoreLoop

\* Every variable keeps its type, for every value of the constants.
THEOREM SpecTypeOK == Spec => []TypeOK
<1> QED
  BY InitTypeOK, NextTypeOK, PTL DEF Spec

--------------------------------------------------------------------------------
(* The clocks *)

\* At the start nothing was heard and the true silence is zero.
LEMMA InitClocks == Init => Clocks
BY SetpointPathAssumption DEF Init, Clocks, Watched, Guarded, Heard, SilenceCap

\* Nothing but core's own steps and time changes what the clocks relate.
LEMMA ClocksUnchanged ==
    ASSUME Clocks, UNCHANGED <<phase, lag, lastSeq, silence, tripped, quiet>>
    PROVE  Clocks'
BY DEF Clocks, Watched, Guarded, Heard

\* The controller and the broker change none of core's clocks.
LEMMA OthersKeepCore ==
    ASSUME \/ ControlCycle \/ ControllerRestart \/ Deliver \/ Lose \/ SessionLost
           \/ UNCHANGED vars
    PROVE  UNCHANGED <<phase, lag, lastSeq, watchdog, dev>>
<1>1. CASE ControlCycle
  <2>1. UNCHANGED <<run, tenure, subscribed, core, dev>>
    BY <1>1, CycleLeaves
  <2> QED
    BY <2>1 DEF core
<1>2. CASE ControllerRestart
  BY <1>2 DEF ControllerRestart, core
<1>3. CASE Deliver
  BY <1>3 DEF Deliver
<1>4. CASE Lose
  BY <1>4 DEF Lose, core
<1>5. CASE SessionLost
  BY <1>5 DEF SessionLost, core
<1>6. CASE UNCHANGED vars
  BY <1>6 DEF vars, core
<1> QED
  BY <1>1, <1>2, <1>3, <1>4, <1>5, <1>6

\* Every step keeps the clocks in their relation.
LEMMA NextClocks == TypeOK /\ Clocks /\ [Next]_vars => Clocks'
<1> SUFFICES ASSUME TypeOK, Clocks, [Next]_vars PROVE Clocks'
  OBVIOUS
<1>1. /\ lag \in 0..CycleMax /\ silence \in 0..SilenceCap /\ quiet \in 0..QuietCap
      /\ tripped \in BOOLEAN /\ phase \in {"sleep", "work"}
      /\ Timeout \in Nat /\ CycleMax \in Nat
  BY SetpointPathAssumption DEF TypeOK
<1>2. CASE BeginCycle
  BY <1>1, <1>2 DEF BeginCycle, watchdog, Clocks, Watched, Guarded, Heard
<1>3. CASE HandleSetpoint
  <2>1. CASE Accept(Head(inbound))
    BY <1>1, <1>3, <2>1 DEF HandleSetpoint, Accept, Notify, Clocks, Watched, Guarded
  <2>2. CASE Reject(Head(inbound))
    BY <1>3, <2>2, ClocksUnchanged DEF HandleSetpoint, Reject, watchdog
  <2> QED
    BY <1>3, <2>1, <2>2 DEF HandleSetpoint
<1>4. CASE SafetyCycle
  <2>1. Watched'
    BY <1>4 DEF SafetyCycle, Clocks, Watched, Heard
  <2>2. Guarded'
    BY <1>1, <1>4
       DEF SafetyCycle, IsSilent, Trip, Clocks, Watched, Guarded, SilenceCap
  <2> QED
    BY <2>1, <2>2 DEF Clocks
<1>5. CASE CoreRestart
  <2>1. ~Heard'
    BY <1>5 DEF CoreRestart, Heard
  <2>2. phase' = "sleep" /\ lag' = 0 /\ quiet' = 0 /\ silence' = SilenceCap
    BY <1>5 DEF CoreRestart
  <2>3. ~(silence' < SilenceCap)
    BY <1>1, <2>2 DEF SilenceCap
  <2> QED
    BY <1>1, <2>1, <2>2, <2>3 DEF Clocks, Watched, Guarded
<1>6. CASE Tick
  <2>1. /\ lag' = lag + 1
        /\ silence' = Smaller(silence + 1, SilenceCap)
        /\ quiet' = Smaller(quiet + 1, QuietCap)
        /\ UNCHANGED <<phase, lastSeq, tripped>>
    BY <1>6 DEF Tick
  <2>2. Watched'
    BY <1>1, <2>1 DEF Clocks, Watched, Heard, Smaller, SilenceCap, QuietCap
  <2>3. Guarded'
    BY <1>1, <2>1 DEF Clocks, Guarded, Smaller, QuietCap
  <2> QED
    BY <2>2, <2>3 DEF Clocks
<1>7. CASE ControlCycle \/ ControllerRestart \/ Deliver \/ Lose \/ SessionLost
           \/ UNCHANGED vars
  BY <1>7, OthersKeepCore, ClocksUnchanged DEF watchdog
<1> QED
  BY <1>2, <1>3, <1>4, <1>5, <1>6, <1>7 DEF Next, CoreLoop

\* The clocks stay in their relation in every reachable state.
THEOREM SpecClocks == Spec => []Clocks
<1> QED
  BY InitClocks, NextClocks, SpecTypeOK, PTL DEF Spec

\* Only the safety check of a silent cycle trips the watchdog.
LEMMA OnlyTheCheckTrips ==
    ASSUME [Next]_vars, ~tripped, tripped'
    PROVE  SafetyCycle /\ IsSilent
<1>1. CASE ControlCycle \/ ControllerRestart \/ Deliver \/ Lose \/ SessionLost
           \/ UNCHANGED vars
  <2>1. tripped' = tripped
    BY <1>1, OthersKeepCore DEF watchdog
  <2> QED
    BY <2>1
<1>2. CASE BeginCycle
  BY <1>2 DEF BeginCycle, watchdog
<1>3. CASE HandleSetpoint
  BY <1>3 DEF HandleSetpoint, Accept, Notify, Reject, watchdog
<1>4. CASE SafetyCycle
  BY <1>4 DEF SafetyCycle
<1>5. CASE CoreRestart
  BY <1>5 DEF CoreRestart
<1>6. CASE Tick
  BY <1>6 DEF Tick
<1> QED
  BY <1>1, <1>2, <1>3, <1>4, <1>5, <1>6 DEF Next, CoreLoop

\* A trip that follows a setpoint means that nothing was accepted for the
\* timeout, short of at most one cycle.
THEOREM SpecTripNeedsSilence == Spec => TripNeedsSilence
<1>1. ASSUME TypeOK, Clocks, [Next]_vars, ~tripped, tripped', Heard
      PROVE  quiet > Timeout - CycleMax
  <2>1. SafetyCycle /\ IsSilent
    BY <1>1, OnlyTheCheckTrips
  <2>2. /\ lag \in 0..CycleMax /\ silence \in 0..SilenceCap /\ quiet \in 0..QuietCap
        /\ Timeout \in Nat /\ CycleMax \in Nat
    BY <1>1, SetpointPathAssumption DEF TypeOK
  <2> QED
    BY <1>1, <2>1, <2>2 DEF IsSilent, Clocks, Watched
<1> QED
  BY <1>1, SpecTypeOK, SpecClocks, PTL DEF Spec, TripNeedsSilence

\* Nothing older than max_age_s and one core cycle is ever written.
THEOREM SpecWritesAreRecent == Spec => WritesAreRecent
<1>1. ASSUME TypeOK, [Next]_vars, HandleSetpoint, dev' # dev
      PROVE  Head(inbound).age <= MaxAge + CycleMax
  <2>1. Head(inbound) \in Message
    BY <1>1 DEF HandleSetpoint, TypeOK
  <2>2. Head(inbound).age \in Int /\ lag \in 0..CycleMax /\ MaxAge \in Nat /\ CycleMax \in Nat
    BY <1>1, <2>1, SetpointPathAssumption DEF Message, TypeOK
  <2>3. YoungEnough(Head(inbound))
    BY <1>1 DEF HandleSetpoint, Accept, Reject, Guard
  <2> QED
    BY <2>2, <2>3 DEF YoungEnough
<1> QED
  BY <1>1, SpecTypeOK, PTL DEF Spec, WritesAreRecent

--------------------------------------------------------------------------------
(* The dead man's switch.  From here on every device write succeeds.        *)

\* Without write faults a write reaches every class it is meant for.
LEMMA WriteReaches ==
    ASSUME "writes" \notin Faults, NEW cs, NEW v, Write(cs, v)
    PROVE  dev' = [c \in Classes |-> IF c \in cs THEN v[c] ELSE dev[c]]
BY DEF Write

\* A trip leaves every class that has a safe state in it.
LEMMA TripIsSafe ==
    ASSUME "writes" \notin Faults, Trip, UNCHANGED quiet
    PROVE  Switch!Release
<1>1. dev' = [c \in Classes |-> IF c \in SafeClasses THEN [d \in Classes |-> 0][c]
                                                     ELSE dev[c]]
  BY WriteReaches DEF Trip
<1>2. dev' = [c \in Classes |-> IF c \in SafeClasses THEN 0 ELSE dev[c]]
  BY <1>1
<1> QED
  BY <1>2 DEF Switch!Release

\* Every step keeps a tripped core's devices safe.
LEMMA NextTrippedIsSafe ==
    ASSUME "writes" \notin Faults, TypeOK, TrippedIsSafe, [Next]_vars
    PROVE  TrippedIsSafe'
<1>1. CASE ControlCycle \/ ControllerRestart \/ Deliver \/ Lose \/ SessionLost
           \/ UNCHANGED vars
  BY <1>1, OthersKeepCore DEF watchdog, TrippedIsSafe, Safe
<1>2. CASE BeginCycle
  BY <1>2 DEF BeginCycle, watchdog, TrippedIsSafe, Safe
<1>3. CASE HandleSetpoint
  <2>1. CASE Accept(Head(inbound))
    BY <2>1 DEF Accept, Notify, TrippedIsSafe
  <2>2. CASE Reject(Head(inbound))
    BY <2>2 DEF Reject, watchdog, TrippedIsSafe, Safe
  <2> QED
    BY <1>3, <2>1, <2>2 DEF HandleSetpoint
<1>4. CASE SafetyCycle
  <2>1. CASE Trip
    <3>1. dev' = [c \in Classes |-> IF c \in SafeClasses THEN [d \in Classes |-> 0][c]
                                                         ELSE dev[c]]
      BY <2>1, WriteReaches DEF Trip
    <3>2. \A c \in SafeClasses : dev'[c] = 0
      BY <3>1, SetpointPathAssumption
    <3> QED
      BY <3>2 DEF TrippedIsSafe, Safe
  <2>2. CASE UNCHANGED <<tripped, dev>>
    BY <2>2 DEF TrippedIsSafe, Safe
  <2> QED
    BY <1>4, <2>1, <2>2 DEF SafetyCycle
<1>5. CASE CoreRestart
  BY <1>5 DEF CoreRestart, TrippedIsSafe
<1>6. CASE Tick
  BY <1>6 DEF Tick, TrippedIsSafe, Safe
<1> QED
  BY <1>1, <1>2, <1>3, <1>4, <1>5, <1>6 DEF Next, CoreLoop

\* While the watchdog is tripped the devices are in their safe state.
THEOREM SpecTrippedIsSafe ==
    ASSUME "writes" \notin Faults
    PROVE  Spec => []TrippedIsSafe
<1>1. Init => TrippedIsSafe
  BY DEF Init, TrippedIsSafe
<1>2. TypeOK /\ TrippedIsSafe /\ [Next]_vars => TrippedIsSafe'
  BY NextTrippedIsSafe
<1> QED
  BY <1>1, <1>2, SpecTypeOK, PTL DEF Spec

\* Every step of the path is a step of the switch or leaves it as it was.
LEMMA NextSwitch ==
    ASSUME "writes" \notin Faults, TypeOK, Clocks, TrippedIsSafe, [Next]_vars
    PROVE  [Switch!Next]_<<dev, quiet>>
<1>1. CASE ControlCycle \/ ControllerRestart \/ Deliver \/ Lose \/ SessionLost
           \/ UNCHANGED vars
  BY <1>1, OthersKeepCore DEF watchdog
<1>2. CASE BeginCycle
  BY <1>2 DEF BeginCycle, watchdog
<1>3. CASE HandleSetpoint
  <2> DEFINE m == Head(inbound)
  <2>1. m \in Message
    BY <1>3 DEF HandleSetpoint, TypeOK
  <2>2. m.cls \in Classes /\ m.val \in Vals
    BY <2>1 DEF Message
  <2> HIDE DEF m
  <2>3. CASE Accept(m)
    <3>1. dev' = [c \in Classes |-> IF c \in {m.cls} THEN [d \in Classes |-> m.val][c]
                                                     ELSE dev[c]]
      BY <2>3, WriteReaches DEF Accept
    <3>2. dev \in [Classes -> Vals]
      BY DEF TypeOK
    <3>3. dev' = [dev EXCEPT ![m.cls] = m.val]
      BY <2>2, <3>1, <3>2
    <3>4. quiet' = 0
      BY <2>3 DEF Accept
    <3> QED
      BY <2>2, <3>3, <3>4 DEF Switch!Next, Switch!Command
  <2>4. CASE Reject(m)
    BY <2>4 DEF Reject, watchdog
  <2> QED
    BY <1>3, <2>3, <2>4 DEF HandleSetpoint, m
<1>4. CASE SafetyCycle
  <2>1. quiet' = quiet
    BY <1>4 DEF SafetyCycle
  <2>2. CASE Trip
    BY <2>1, <2>2, TripIsSafe DEF Switch!Next
  <2>3. CASE UNCHANGED <<tripped, dev>>
    BY <2>1, <2>3
  <2> QED
    BY <1>4, <2>2, <2>3 DEF SafetyCycle
<1>5. CASE CoreRestart
  BY <1>5 DEF CoreRestart, Switch!Next, Switch!Restart
<1>6. CASE Tick
  <2>1. /\ lag \in 0..CycleMax /\ quiet \in 0..QuietCap
        /\ tripped \in BOOLEAN /\ phase \in {"sleep", "work"}
        /\ Timeout \in Nat /\ CycleMax \in Nat
        /\ lag < CycleMax /\ quiet' = Smaller(quiet + 1, QuietCap) /\ dev' = dev
    BY <1>6, SetpointPathAssumption DEF TypeOK, Tick
  <2>2. quiet < Timeout + 2 * CycleMax \/ Safe
    BY <2>1 DEF Clocks, Guarded, TrippedIsSafe
  <2>3. quiet' = IF quiet > Timeout + 2 * CycleMax THEN quiet ELSE quiet + 1
    BY <2>1 DEF Smaller, QuietCap
  <2> QED
    BY <2>1, <2>2, <2>3 DEF Switch!Next, Switch!Tick, Switch!Safe, Safe
<1> QED
  BY <1>1, <1>2, <1>3, <1>4, <1>5, <1>6 DEF Next, CoreLoop

\* The setpoint path implements the dead man's switch: whatever becomes of the
\* controller, the broker, core's process and the messages, time does not run
\* past Timeout and two core cycles after the last accepted setpoint unless the
\* devices are in their safe state.
THEOREM SpecDeadManSwitch ==
    ASSUME "writes" \notin Faults
    PROVE  Spec => DeadManSwitch
<1>1. Init => Switch!Init
  BY DEF Init, Switch!Init
<1>2. TypeOK /\ Clocks /\ TrippedIsSafe /\ [Next]_vars => [Switch!Next]_Switch!vars
  BY NextSwitch DEF Switch!vars
<1> QED
  BY <1>1, <1>2, SpecTypeOK, SpecClocks, SpecTrippedIsSafe, PTL
     DEF Spec, DeadManSwitch, Switch!Spec

\* What the switch is for: once more than Timeout and two core cycles have gone
\* by without an accepted setpoint, the devices are in their safe state.
THEOREM SpecSafeWhenSilent ==
    ASSUME "writes" \notin Faults
    PROVE  Spec => []Switch!SafeWhenSilent
<1>1. TypeOK /\ Clocks /\ TrippedIsSafe => Switch!SafeWhenSilent
  <2> SUFFICES ASSUME TypeOK, Clocks, TrippedIsSafe, quiet > Timeout + 2 * CycleMax
               PROVE  Safe
    BY DEF Switch!SafeWhenSilent, Switch!Safe, Safe
  <2>1. /\ lag \in 0..CycleMax /\ quiet \in 0..QuietCap
        /\ Timeout \in Nat /\ CycleMax \in Nat
    BY SetpointPathAssumption DEF TypeOK
  <2> QED
    BY <2>1 DEF Clocks, Guarded, TrippedIsSafe
<1> QED
  BY <1>1, SpecTypeOK, SpecClocks, SpecTrippedIsSafe, PTL

--------------------------------------------------------------------------------
(* What is pending: the messages in transit and those in core's queue       *)

Queued == {inbound[i] : i \in 1..Len(inbound)}
Pending == net \cup Queued

\* What is pending are messages.
LEMMA PendingType ==
    ASSUME TypeOK
    PROVE  Pending \subseteq Message
<1>1. inbound \in Seq(Message) /\ net \subseteq Message
  BY DEF TypeOK
<1>2. \A i \in 1..Len(inbound) : inbound[i] \in Message
  BY <1>1
<1> QED
  BY <1>1, <1>2 DEF Pending, Queued

\* Taking the head off a queue leaves what is behind it.
LEMMA TailQueue ==
    ASSUME NEW S, NEW s \in Seq(S), s # <<>>
    PROVE  /\ Head(s) \in {s[i] : i \in 1..Len(s)}
           /\ {Tail(s)[i] : i \in 1..Len(Tail(s))} \subseteq {s[i] : i \in 1..Len(s)}
           /\ {s[i] : i \in 1..Len(s)}
                \subseteq {Tail(s)[i] : i \in 1..Len(Tail(s))} \cup {Head(s)}
<1>1. Len(s) \in Nat /\ Len(s) # 0
  BY EmptySeq
<1>2. /\ Len(Tail(s)) = Len(s) - 1
      /\ \A i \in 1..Len(Tail(s)) : Tail(s)[i] = s[i + 1]
      /\ Head(s) = s[1]
  BY HeadTailProperties
<1>3. ASSUME NEW i \in 1..Len(Tail(s))
      PROVE  Tail(s)[i] \in {s[j] : j \in 1..Len(s)}
  <2>1. i + 1 \in 1..Len(s)
    BY <1>1, <1>2
  <2> QED
    BY <1>2, <2>1
<1>4. ASSUME NEW i \in 1..Len(s)
      PROVE  s[i] \in {Tail(s)[j] : j \in 1..Len(Tail(s))} \cup {Head(s)}
  <2>1. CASE i = 1
    BY <1>2, <2>1
  <2>2. CASE i # 1
    <3>1. i - 1 \in 1..Len(Tail(s)) /\ (i - 1) + 1 = i
      BY <1>1, <1>2, <2>2
    <3>2. Tail(s)[i - 1] = s[i]
      BY <1>2, <3>1
    <3> QED
      BY <3>1, <3>2
  <2> QED
    BY <2>1, <2>2
<1>5. Head(s) \in {s[i] : i \in 1..Len(s)}
  <2>1. 1 \in 1..Len(s)
    BY <1>1
  <2> QED
    BY <1>2, <2>1
<1>6. {Tail(s)[i] : i \in 1..Len(Tail(s))} \subseteq {s[i] : i \in 1..Len(s)}
  BY <1>3
<1>7. {s[i] : i \in 1..Len(s)} \subseteq {Tail(s)[i] : i \in 1..Len(Tail(s))} \cup {Head(s)}
  BY <1>4
<1> QED
  BY <1>5, <1>6, <1>7

\* Appending to a queue adds one message.
LEMMA AppendQueue ==
    ASSUME NEW S, NEW s \in Seq(S), NEW m \in S
    PROVE  LET t == Append(s, m)
           IN  {t[i] : i \in 1..Len(t)} = {s[i] : i \in 1..Len(s)} \cup {m}
<1> DEFINE t == Append(s, m)
<1>1. /\ Len(s) \in Nat /\ Len(t) = Len(s) + 1
      /\ t[Len(s) + 1] = m
      /\ \A i \in 1..Len(s) : t[i] = s[i]
  BY AppendProperties
<1> HIDE DEF t
<1>2. 1..Len(t) = (1..Len(s)) \cup {Len(s) + 1}
  BY <1>1
<1>3. {t[i] : i \in 1..Len(t)} = {s[i] : i \in 1..Len(s)} \cup {m}
  BY <1>1, <1>2
<1> QED
  BY <1>3 DEF t

\* A delivery takes nothing away; what it adds is a copy of a pending message.
LEMMA DeliverPending ==
    ASSUME TypeOK, Deliver
    PROVE  \E m \in net :
             /\ Queued' = Queued \cup {m}
             /\ \/ net' = net \ {m}
                \/ net' = (net \ {m}) \cup {[m EXCEPT !.copy = TRUE]}
<1>1. PICK m \in net :
        /\ inbound' = Append(inbound, m)
        /\ \/ net' = net \ {m}
           \/ net' = (net \ {m}) \cup {[m EXCEPT !.copy = TRUE]}
  BY DEF Deliver
<1>2. m \in Message /\ inbound \in Seq(Message)
  BY DEF TypeOK
<1>3. Queued' = Queued \cup {m}
  <2>1. LET t == Append(inbound, m)
        IN  {t[i] : i \in 1..Len(t)} = {inbound[i] : i \in 1..Len(inbound)} \cup {m}
    BY <1>2, AppendQueue
  <2> QED
    BY <1>1, <2>1 DEF Queued
<1> QED
  BY <1>1, <1>3

\* Handling a message takes at most that message away.
LEMMA HandlePending ==
    ASSUME TypeOK, HandleSetpoint
    PROVE  /\ net' = net
           /\ Head(inbound) \in Queued
           /\ Queued' \subseteq Queued
           /\ Queued \subseteq Queued' \cup {Head(inbound)}
<1>1. inbound \in Seq(Message) /\ inbound # <<>> /\ inbound' = Tail(inbound) /\ net' = net
  BY DEF TypeOK, HandleSetpoint, broker
<1> QED
  BY <1>1, TailQueue DEF Queued

\* Time makes every pending message older.
LEMMA TickPending ==
    ASSUME TypeOK, Tick
    PROVE  /\ net' = {Older(m) : m \in net}
           /\ Queued' = {Older(m) : m \in Queued}
<1>1. inbound \in Seq(Message) /\ Len(inbound) \in Nat
  BY DEF TypeOK
<1>2. /\ net' = {Older(m) : m \in net}
      /\ inbound' = [i \in 1..Len(inbound) |-> Older(inbound[i])]
  BY DEF Tick
<1>3. Len(inbound') = Len(inbound) /\ \A i \in 1..Len(inbound) : inbound'[i] = Older(inbound[i])
  BY <1>1, <1>2
<1> QED
  BY <1>2, <1>3 DEF Queued

\* While nothing is parked, a connected client sends the one message.
LEMMA PublishOneUp ==
    ASSUME NEW p, NEW c, NEW v, \A d \in Classes : p.parked[d] = None
    PROVE  LET out == PublishOne(p, c, v, "up")
           IN  /\ out.seq = p.seq + 1
               /\ out.parked = [d \in Classes |-> None]
               /\ out.sent = p.sent \cup {Fresh(c, p.seq + 1, v)}
<1>1. {p.parked[d] : d \in {d \in Classes : p.parked[d] # None}} = {}
  OBVIOUS
<1> QED
  BY <1>1 DEF PublishOne, Fresh

\* One control cycle of a connected controller: at most one message of each
\* class goes out, with a sequence number above all earlier ones and the value
\* that the loop remembers; a class without one keeps the value it had.
CycleSends(sent) ==
    /\ net' = net \cup sent
    /\ parked' = [c \in Classes |-> None]
    /\ seq <= seq'
    /\ sent \subseteq Message
    /\ \A m \in sent : /\ seq < m.seq /\ m.seq <= seq'
                       /\ m.age = 0
                       /\ m.val = lastPub'[m.cls]
    /\ \A m, n \in sent : m.cls = n.cls => m = n
    /\ \A c \in Classes : lastPub'[c] = lastPub[c] \/ \E m \in sent : m.cls = c
    /\ \E m \in sent : m.cls = "battery"

LEMMA ConnectedCycle ==
    ASSUME TypeOK, "linkdown" \notin Faults, parked = [c \in Classes |-> None], ControlCycle
    PROVE  \E sent : CycleSends(sent)
<1>1. PICK want \in [Classes -> Vals], c1, c2, c3 \in Clients :
        LET start == [seq |-> seq, parked |-> parked, sent |-> {}]
            battery == PublishOne(start, "battery", want["battery"], c1)
            pv == IF "pv" \in Mitigations
                  THEN PublishIfChanged(battery, "pv", want["pv"], c2) ELSE battery
            load == IF "flexible_load" \in Mitigations
                    THEN PublishIfChanged(pv, "flexible_load", want["flexible_load"], c3)
                    ELSE pv
        IN  /\ load.seq <= MaxSeq
            /\ seq' = load.seq
            /\ parked' = load.parked
            /\ net' = net \cup load.sent
            /\ lastPub' = want
  BY DEF ControlCycle
<1> DEFINE start == [seq |-> seq, parked |-> parked, sent |-> {}]
           battery == PublishOne(start, "battery", want["battery"], c1)
           pv == IF "pv" \in Mitigations
                 THEN PublishIfChanged(battery, "pv", want["pv"], c2) ELSE battery
           load == IF "flexible_load" \in Mitigations
                   THEN PublishIfChanged(pv, "flexible_load", want["flexible_load"], c3)
                   ELSE pv
           one == Fresh("battery", seq + 1, want["battery"])
           two == Fresh("pv", battery.seq + 1, want["pv"])
           three == Fresh("flexible_load", pv.seq + 1, want["flexible_load"])
<1>2. c1 = "up" /\ c2 = "up" /\ c3 = "up"
  BY DEF Clients
<1>3. seq \in Nat /\ MaxSeq \in Nat /\ run \in 0..MaxRuns /\ MaxRuns \in Nat
  BY SetpointPathAssumption DEF TypeOK
<1>4. /\ seq' = load.seq /\ seq' <= MaxSeq
      /\ parked' = load.parked
      /\ net' = net \cup load.sent
      /\ lastPub' = want
  BY <1>1
<1>5. Classes = {"battery"} \cup Mitigations /\ Mitigations \subseteq {"pv", "flexible_load"}
  BY SetpointPathAssumption DEF Classes
<1>6. /\ start.seq = seq /\ start.sent = {}
      /\ \A d \in Classes : start.parked[d] = None
  OBVIOUS
<1>7. /\ battery.seq = seq + 1
      /\ battery.parked = [d \in Classes |-> None]
      /\ battery.sent = {one}
  BY <1>2, <1>6, PublishOneUp
<1> HIDE DEF start, battery
<1>8. /\ pv.parked = [d \in Classes |-> None]
      /\ \/ /\ "pv" \in Mitigations
            /\ pv.seq = battery.seq + 1 /\ pv.sent = {one, two}
         \/ /\ "pv" \in Mitigations => want["pv"] = lastPub["pv"]
            /\ pv.seq = battery.seq /\ pv.sent = {one}
  <2>1. LET out == PublishOne(battery, "pv", want["pv"], "up")
        IN  /\ out.seq = battery.seq + 1
            /\ out.parked = [d \in Classes |-> None]
            /\ out.sent = battery.sent \cup {two}
    BY <1>7, PublishOneUp
  <2> HIDE DEF one, two
  <2> QED
    BY <1>2, <1>7, <2>1 DEF PublishIfChanged
<1> HIDE DEF pv
<1>9. /\ load.parked = [d \in Classes |-> None]
      /\ \/ /\ "flexible_load" \in Mitigations
            /\ load.seq = pv.seq + 1 /\ load.sent = pv.sent \cup {three}
         \/ /\ "flexible_load" \in Mitigations
                 => want["flexible_load"] = lastPub["flexible_load"]
            /\ load.seq = pv.seq /\ load.sent = pv.sent
  <2>1. LET out == PublishOne(pv, "flexible_load", want["flexible_load"], "up")
        IN  /\ out.seq = pv.seq + 1
            /\ out.parked = [d \in Classes |-> None]
            /\ out.sent = pv.sent \cup {three}
    BY <1>8, PublishOneUp
  <2> HIDE DEF three
  <2> QED
    BY <1>2, <1>8, <2>1 DEF PublishIfChanged
<1> HIDE DEF load
<1> DEFINE sent == load.sent
<1>10. ASSUME NEW c \in Classes, NEW s \in 1..MaxSeq
       PROVE  /\ Fresh(c, s, want[c]) \in Message
              /\ Fresh(c, s, want[c]).cls = c /\ Fresh(c, s, want[c]).seq = s
              /\ Fresh(c, s, want[c]).age = 0 /\ Fresh(c, s, want[c]).val = want[c]
  <2>1. 0 \in 0..AgeCap /\ want[c] \in Vals
    BY SetpointPathAssumption DEF AgeCap
  <2> QED
    BY <1>3, <2>1 DEF Fresh, Message
<1>11. /\ one \in Message /\ one.cls = "battery" /\ one.seq = seq + 1
       /\ one.age = 0 /\ one.val = lastPub'[one.cls] /\ one \in sent
  <2>1. seq + 1 \in 1..MaxSeq /\ "battery" \in Classes
    BY <1>3, <1>4, <1>5, <1>7, <1>8, <1>9
  <2> QED
    BY <1>4, <1>8, <1>9, <1>10, <2>1
<1>12. "pv" \in Mitigations /\ pv.seq = battery.seq + 1
        => /\ two \in Message /\ two.cls = "pv" /\ two.seq = seq + 2
           /\ two.age = 0 /\ two.val = lastPub'[two.cls]
  <2> SUFFICES ASSUME "pv" \in Mitigations, pv.seq = battery.seq + 1
               PROVE  /\ two \in Message /\ two.cls = "pv" /\ two.seq = seq + 2
                      /\ two.age = 0 /\ two.val = lastPub'[two.cls]
    OBVIOUS
  <2>1. battery.seq + 1 \in 1..MaxSeq /\ battery.seq + 1 = seq + 2 /\ "pv" \in Classes
    BY <1>3, <1>4, <1>5, <1>7, <1>9
  <2> QED
    BY <1>4, <1>10, <2>1
<1>13. "flexible_load" \in Mitigations /\ load.seq = pv.seq + 1
        => /\ three \in Message /\ three.cls = "flexible_load" /\ three.seq = load.seq
           /\ three.age = 0 /\ three.val = lastPub'[three.cls]
  <2> SUFFICES ASSUME "flexible_load" \in Mitigations, load.seq = pv.seq + 1
               PROVE  /\ three \in Message /\ three.cls = "flexible_load" /\ three.seq = load.seq
                      /\ three.age = 0 /\ three.val = lastPub'[three.cls]
    OBVIOUS
  <2>1. pv.seq + 1 \in 1..MaxSeq /\ "flexible_load" \in Classes
    BY <1>3, <1>4, <1>5, <1>7, <1>8
  <2> QED
    BY <1>4, <1>10, <2>1
<1> HIDE DEF one, two, three
<1>14. sent \subseteq {one, two, three} /\ sent \subseteq Message
  BY <1>8, <1>9, <1>11, <1>12, <1>13, <1>3, <1>7
<1>15. \A m \in sent : m.age = 0 /\ m.val = lastPub'[m.cls]
  BY <1>3, <1>7, <1>8, <1>9, <1>11, <1>12, <1>13
<1>16. \A m \in sent : seq < m.seq /\ m.seq <= seq'
  BY <1>3, <1>4, <1>7, <1>8, <1>9, <1>11, <1>12, <1>13
<1>17. \A m, n \in sent : m.cls = n.cls => m = n
  BY <1>3, <1>7, <1>8, <1>9, <1>11, <1>12, <1>13
<1>18. \A c \in Classes : lastPub'[c] = lastPub[c] \/ \E m \in sent : m.cls = c
  <2>1. \E m \in sent : m.cls = "battery"
    BY <1>11
  <2>2. "pv" \in Mitigations
         => lastPub'["pv"] = lastPub["pv"] \/ \E m \in sent : m.cls = "pv"
    BY <1>4, <1>8, <1>9, <1>12
  <2>3. "flexible_load" \in Mitigations
         => \/ lastPub'["flexible_load"] = lastPub["flexible_load"]
            \/ \E m \in sent : m.cls = "flexible_load"
    BY <1>4, <1>9, <1>13
  <2> QED
    BY <1>5, <2>1, <2>2, <2>3
<1>19. seq <= seq'
  BY <1>3, <1>4, <1>7, <1>8, <1>9
<1>20. net' = net \cup sent /\ parked' = [c \in Classes |-> None]
  BY <1>4, <1>9
<1>21. CycleSends(sent)
  BY <1>11, <1>14, <1>15, <1>16, <1>17, <1>18, <1>19, <1>20 DEF CycleSends
<1> QED
  BY <1>21

\* A delivery leaves every message pending, and whatever is pending then says
\* what a message said that was pending before.
Alike(m, n) ==
    m.cls = n.cls /\ m.seq = n.seq /\ m.run = n.run /\ m.age = n.age /\ m.val = n.val

LEMMA DeliverKeeps ==
    ASSUME TypeOK, Deliver
    PROVE  /\ Pending \subseteq Pending'
           /\ \A m \in Pending' : \E n \in Pending : Alike(m, n)
           /\ \A m \in net' : \E n \in net : Alike(m, n)
           /\ \A m \in Queued' : m \in Queued \/ m \in net
           /\ Pending' \subseteq Message
<1>1. PICK m \in net :
        /\ Queued' = Queued \cup {m}
        /\ \/ net' = net \ {m}
           \/ net' = (net \ {m}) \cup {[m EXCEPT !.copy = TRUE]}
  BY DeliverPending
<1>2. Alike([m EXCEPT !.copy = TRUE], m) /\ [m EXCEPT !.copy = TRUE] \in Message
  <2>1. m \in Message
    BY DEF TypeOK
  <2> QED
    BY <2>1 DEF Message, Alike
<1>3. \A n : Alike(n, n)
  BY DEF Alike
<1>4. \A x \in net' : \E n \in net : Alike(x, n)
  BY <1>1, <1>2, <1>3
<1>5. \A x \in Queued' : x \in Queued \/ x \in net
  BY <1>1
<1>6. Pending \subseteq Message
  BY PendingType
<1>7. Pending' \subseteq Message
  BY <1>1, <1>2, <1>6 DEF Pending
<1> QED
  BY <1>1, <1>3, <1>4, <1>5, <1>7 DEF Pending

\* A message that has grown older still says the same.
LEMMA OlderFacts ==
    ASSUME NEW m \in Message
    PROVE  /\ Older(m).cls = m.cls /\ Older(m).seq = m.seq /\ Older(m).run = m.run
           /\ Older(m).val = m.val
           /\ Older(m).age = Smaller(m.age + 1, AgeCap)
BY DEF Older, Message

\* A control cycle leaves core and the devices alone.
LEMMA CycleFrame ==
    ASSUME ControlCycle
    PROVE  /\ sinceSent' = 0
           /\ UNCHANGED <<run, tenure, subscribed, phase, lag, inbound, lastSeq, lastRun,
                          silence, tripped, quiet, dev>>
<1>1. sinceSent' = 0 /\ UNCHANGED <<run, tenure, subscribed, core, dev>>
  BY CycleLeaves
<1> QED
  BY <1>1 DEF core, watchdog

--------------------------------------------------------------------------------
(* A controller that keeps publishing over a network that delivers in time. *)
(* Duplicates, failing writes and restarts of core may still happen.        *)

Calm == Faults \subseteq {"dup", "writes", "core_restart"}

\* What a message may lose on its way, in core's queue and in the cycle that
\* handles it fits the dispatcher's age limit; a control period on top of that
\* fits the watchdog's timeout.
TimingFits ==
    /\ Transit + CycleMax <= MaxAge
    /\ ControlPeriod + Transit + CycleMax <= Timeout

\* Core is subscribed, and nothing waits at the publisher.
Connected == subscribed /\ parked = [c \in Classes |-> None]

\* Sequence numbers in transit and at core come from the publisher's counter.
Numbered ==
    /\ \A m \in Pending : m.seq <= seq
    /\ \A c \in Classes : lastSeq[c] <= seq

\* How old a message may be in transit and in core's queue.
Prompt ==
    /\ \A m \in net : m.age <= Transit
    /\ \A m \in Queued :
          m.age <= Transit + lag + (IF phase = "work" THEN CycleMax ELSE 0)

\* The battery setpoints core has still to accept.
Awaited == {m \in Pending : m.cls = "battery" /\ m.seq > lastSeq["battery"]}

\* Once core has heard the controller, its watchdog's clock is bounded by the
\* time since the last control cycle or, while a battery setpoint of that cycle
\* or an earlier one is pending, by the age of that setpoint and one period.
Fed ==
    Heard => \/ Awaited = {} /\ silence <= sinceSent + CycleMax
             \/ \E m \in Awaited : silence <= ControlPeriod + m.age + CycleMax

Heeded == Connected /\ Numbered /\ Prompt /\ Fed

\* The steps a calm behaviour consists of.
LEMMA CalmSteps ==
    ASSUME Calm, Connected, [Next]_vars
    PROVE  \/ ControlCycle \/ Deliver \/ BeginCycle \/ HandleSetpoint \/ SafetyCycle
           \/ CoreRestart \/ Tick \/ UNCHANGED vars
BY DEF Calm, Connected, Next, CoreLoop, ControllerRestart, Lose, SessionLost

LEMMA NextConnected ==
    ASSUME Calm, TypeOK, Connected, [Next]_vars
    PROVE  Connected'
<1>1. CASE ControlCycle
  <2>1. PICK sent : CycleSends(sent)
    BY <1>1, ConnectedCycle DEF Calm, Connected
  <2> QED
    BY <1>1, <2>1, CycleFrame DEF CycleSends, Connected
<1>2. CASE Deliver
  BY <1>2 DEF Deliver, controller, Connected
<1>3. CASE BeginCycle
  BY <1>3 DEF BeginCycle, controller, broker, Connected
<1>4. CASE HandleSetpoint
  BY <1>4 DEF HandleSetpoint, controller, broker, Connected
<1>5. CASE SafetyCycle
  BY <1>5 DEF SafetyCycle, controller, broker, Connected
<1>6. CASE CoreRestart
  BY <1>6 DEF CoreRestart, controller, Connected
<1>7. CASE Tick
  BY <1>7 DEF Tick, Connected
<1>8. CASE UNCHANGED vars
  BY <1>8 DEF vars, controller, broker, Connected
<1> QED
  BY <1>1, <1>2, <1>3, <1>4, <1>5, <1>6, <1>7, <1>8, CalmSteps

\* Pending messages change only by a control cycle, the broker, the handling of
\* a message, a restart of core and time.
LEMMA PendingFrame ==
    ASSUME BeginCycle \/ SafetyCycle \/ UNCHANGED vars
    PROVE  UNCHANGED <<seq, sinceSent, net, inbound, Pending, Queued, lastSeq,
                       lastPub, silence>>
<1>1. UNCHANGED <<seq, sinceSent, net, inbound, lastSeq, lastPub, silence>>
  BY DEF BeginCycle, SafetyCycle, vars, controller, broker, core, watchdog
<1> QED
  BY <1>1 DEF Pending, Queued

LEMMA NextNumbered ==
    ASSUME Calm, TypeOK, Connected, Numbered, [Next]_vars
    PROVE  Numbered'
<1>1. Pending \subseteq Message /\ seq \in Nat
  BY PendingType DEF TypeOK
<1>2. \A m \in Pending : m.seq \in Nat /\ m.cls \in Classes
  BY <1>1 DEF Message
<1>3. \A c \in Classes : lastSeq[c] \in Int
  BY DEF TypeOK
<1>4. CASE ControlCycle
  <2>1. PICK sent : CycleSends(sent)
    BY <1>4, ConnectedCycle DEF Calm, Connected
  <2>2. UNCHANGED <<inbound, lastSeq>>
    BY <1>4, CycleFrame
  <2>3. Pending' = Pending \cup sent
    BY <2>1, <2>2 DEF CycleSends, Pending, Queued
  <2>4. seq' \in Nat /\ seq <= seq'
    BY <1>4, <2>1, ControlCycleType DEF CycleSends
  <2>5. \A m \in sent : m.seq <= seq'
    BY <2>1 DEF CycleSends
  <2> QED
    BY <1>1, <1>2, <1>3, <2>2, <2>3, <2>4, <2>5 DEF Numbered
<1>5. CASE Deliver
  <2>1. UNCHANGED <<seq, lastSeq>>
    BY <1>5 DEF Deliver, controller
  <2> QED
    BY <1>5, <2>1, DeliverKeeps DEF Numbered, Alike
<1>6. CASE HandleSetpoint
  <2> DEFINE m == Head(inbound)
  <2>1. m \in Pending /\ Pending' \subseteq Pending /\ seq' = seq
    BY <1>6, HandlePending DEF Pending, HandleSetpoint, controller
  <2>2. lastSeq' = lastSeq \/ lastSeq' = [lastSeq EXCEPT ![m.cls] = m.seq]
    BY <1>6 DEF HandleSetpoint, Accept, Reject
  <2> HIDE DEF m
  <2>3. \A c \in Classes : lastSeq'[c] = lastSeq[c] \/ lastSeq'[c] = m.seq
    BY <2>2 DEF TypeOK
  <2> QED
    BY <2>1, <2>3 DEF Numbered
<1>7. CASE CoreRestart
  <2>1. /\ seq' = seq /\ net' = net
        /\ inbound' = <<>> /\ lastSeq' = [c \in Classes |-> -1]
    BY <1>7 DEF CoreRestart, controller
  <2>2. Pending' \subseteq Pending
    BY <2>1 DEF Pending, Queued
  <2> QED
    BY <1>1, <2>1, <2>2 DEF Numbered
<1>8. CASE Tick
  <2>1. Pending' = {Older(m) : m \in Pending}
    BY <1>8, TickPending DEF Pending
  <2>2. UNCHANGED <<seq, lastSeq>>
    BY <1>8 DEF Tick
  <2> QED
    BY <1>1, <2>1, <2>2, OlderFacts DEF Numbered
<1>9. CASE BeginCycle \/ SafetyCycle \/ UNCHANGED vars
  BY <1>9, PendingFrame DEF Numbered
<1> QED
  BY <1>4, <1>5, <1>6, <1>7, <1>8, <1>9, CalmSteps

LEMMA NextPrompt ==
    ASSUME Calm, TypeOK, Connected, Prompt, [Next]_vars
    PROVE  Prompt'
<1>1. /\ \A m \in Pending : m.age \in Nat
      /\ lag \in Nat /\ lag <= CycleMax
      /\ phase \in {"sleep", "work"} /\ Transit \in Nat /\ CycleMax \in Nat
  <2>1. Pending \subseteq Message
    BY PendingType
  <2>2. \A m \in Message : m.age \in Nat
    BY DEF Message
  <2> QED
    BY <2>1, <2>2, SetpointPathAssumption DEF TypeOK
<1>2. net \subseteq Pending /\ Queued \subseteq Pending
  BY DEF Pending
<1>3. CASE ControlCycle
  <2>1. PICK sent : CycleSends(sent)
    BY <1>3, ConnectedCycle DEF Calm, Connected
  <2>2. UNCHANGED <<inbound, phase, lag>>
    BY <1>3, CycleFrame
  <2>3. Queued' = Queued
    BY <2>2 DEF Queued
  <2>4. net' = net \cup sent /\ \A m \in sent : m.age = 0
    BY <2>1 DEF CycleSends
  <2> QED
    BY <1>1, <2>2, <2>3, <2>4 DEF Prompt
<1>4. CASE Deliver
  <2>1. UNCHANGED <<phase, lag>>
    BY <1>4 DEF Deliver
  <2>2. \A m \in net' : m.age <= Transit
    BY <1>4, DeliverKeeps DEF Prompt, Alike
  <2>3. \A m \in Queued' : m \in Queued \/ m \in net
    BY <1>4, DeliverKeeps
  <2>4. \A m \in net : m.age <= Transit + lag + (IF phase = "work" THEN CycleMax ELSE 0)
    BY <1>1, <1>2 DEF Prompt
  <2> QED
    BY <2>1, <2>2, <2>3, <2>4 DEF Prompt
<1>5. CASE BeginCycle
  <2>1. phase = "sleep" /\ phase' = "work" /\ lag' = 0 /\ net' = net /\ Queued' = Queued
    BY <1>5, PendingFrame DEF BeginCycle
  <2> QED
    BY <1>1, <1>2, <2>1 DEF Prompt
<1>6. CASE HandleSetpoint
  <2>1. net' = net /\ Queued' \subseteq Queued
    BY <1>6, HandlePending
  <2>2. UNCHANGED <<phase, lag>>
    BY <1>6 DEF HandleSetpoint
  <2> QED
    BY <2>1, <2>2 DEF Prompt
<1>7. CASE SafetyCycle
  <2>1. inbound' = <<>> /\ net' = net
    BY <1>7 DEF SafetyCycle, broker
  <2>2. Queued' = {}
    BY <2>1 DEF Queued
  <2> QED
    BY <2>1, <2>2 DEF Prompt
<1>8. CASE CoreRestart
  <2>1. inbound' = <<>> /\ net' = net
    BY <1>8 DEF CoreRestart
  <2>2. Queued' = {}
    BY <2>1 DEF Queued
  <2> QED
    BY <2>1, <2>2 DEF Prompt
<1>9. CASE Tick
  <2>1. /\ net' = {Older(m) : m \in net} /\ Queued' = {Older(m) : m \in Queued}
        /\ phase' = phase /\ lag' = lag + 1
        /\ \A m \in net : m.age < Transit
    BY <1>9, TickPending DEF Tick, Calm
  <2>2. \A m \in Pending : Older(m).age <= m.age + 1
    <3>1. \A m \in Pending : Older(m).age = Smaller(m.age + 1, AgeCap)
      BY PendingType, OlderFacts
    <3> QED
      BY <1>1, <3>1, SetpointPathAssumption DEF Smaller, AgeCap
  <2>3. \A m \in Pending : Older(m).age \in Nat
    BY PendingType, OlderType DEF Message
  <2>4. \A m \in net : Older(m).age <= Transit
    BY <1>1, <1>2, <2>1, <2>2, <2>3
  <2>5. \A m \in Queued :
          Older(m).age <= Transit + (lag + 1) + (IF phase = "work" THEN CycleMax ELSE 0)
    BY <1>1, <1>2, <2>2, <2>3 DEF Prompt
  <2> QED
    BY <2>1, <2>4, <2>5 DEF Prompt
<1>10. CASE UNCHANGED vars
  <2>1. UNCHANGED <<net, Queued, phase, lag>>
    BY <1>10, PendingFrame DEF vars, core
  <2> QED
    BY <2>1 DEF Prompt
<1> QED
  BY <1>3, <1>4, <1>5, <1>6, <1>7, <1>8, <1>9, <1>10, CalmSteps

\* With the timing that fits, core never finds a message too old.
LEMMA PromptIsYoung ==
    ASSUME TimingFits, TypeOK, Prompt, HandleSetpoint
    PROVE  YoungEnough(Head(inbound))
<1>1. Head(inbound) \in Queued /\ Queued \subseteq Message
  BY HandlePending, PendingType DEF Pending
<1>2. Head(inbound).age \in Nat /\ lag \in Nat /\ MaxAge \in Nat /\ Transit \in Nat
      /\ CycleMax \in Nat
  BY <1>1, SetpointPathAssumption DEF Message, TypeOK
<1>3. phase = "work"
  BY DEF HandleSetpoint
<1> QED
  BY <1>1, <1>2, <1>3 DEF YoungEnough, Prompt, TimingFits

\* Such a message is discarded only because a later one was applied.
LEMMA HandleCalm ==
    ASSUME TimingFits, TypeOK, Prompt, HandleSetpoint
    PROVE  LET m == Head(inbound)
           IN  \/ InSequence(m) /\ Accept(m)
               \/ ~InSequence(m) /\ Reject(m)
BY PromptIsYoung DEF HandleSetpoint, Accept, Reject, Guard

\* No pending message has reached the age where the model stops counting.
LEMMA PromptIsCounted ==
    ASSUME TimingFits, TypeOK, Prompt
    PROVE  \A m \in Pending : Older(m).age = m.age + 1
<1>1. \A m \in Pending : m.age \in Nat /\ Older(m).age = Smaller(m.age + 1, AgeCap)
  BY PendingType, OlderFacts DEF Message
<1>2. /\ lag \in Nat /\ lag <= CycleMax /\ phase \in {"sleep", "work"}
      /\ MaxAge \in Nat /\ Transit \in Nat /\ CycleMax \in Nat
  BY SetpointPathAssumption DEF TypeOK
<1>3. \A m \in Pending : m.age <= Transit + CycleMax + CycleMax
  BY <1>1, <1>2 DEF Prompt, Pending
<1>4. \A m \in Pending : m.age + 1 <= AgeCap
  BY <1>1, <1>2, <1>3 DEF TimingFits, AgeCap
<1> QED
  BY <1>1, <1>2, <1>4 DEF Smaller, AgeCap

\* A control cycle publishes a battery setpoint that core has still to accept.
LEMMA FedByCycle ==
    ASSUME Calm, TypeOK, Connected, Numbered, Fed, ControlCycle
    PROVE  Fed'
<1>1. PICK sent : CycleSends(sent)
  BY ConnectedCycle DEF Calm, Connected
<1>2. sinceSent' = 0 /\ UNCHANGED <<inbound, lastSeq, silence>>
  BY CycleFrame
<1>3. Pending' = Pending \cup sent
  BY <1>1, <1>2 DEF CycleSends, Pending, Queued
<1>4. PICK m \in sent : m.cls = "battery"
  BY <1>1 DEF CycleSends
<1>5. m.age = 0 /\ seq < m.seq /\ m \in Message
  BY <1>1 DEF CycleSends
<1>6. /\ seq \in Nat /\ m.seq \in Nat /\ "battery" \in Classes
      /\ lastSeq["battery"] \in Int /\ lastSeq["battery"] <= seq
  BY <1>5 DEF TypeOK, Message, Numbered, Classes
<1>7. m \in Awaited'
  BY <1>2, <1>3, <1>4, <1>5, <1>6 DEF Awaited
<1>8. Awaited \subseteq Awaited'
  BY <1>2, <1>3 DEF Awaited
<1>9. /\ silence \in Nat /\ sinceSent \in Nat /\ sinceSent <= ControlPeriod
      /\ ControlPeriod \in Nat /\ CycleMax \in Nat
  BY SetpointPathAssumption DEF TypeOK
<1>10. CASE ~Heard
  BY <1>2, <1>10 DEF Fed, Heard
<1>11. CASE Awaited = {} /\ silence <= sinceSent + CycleMax
  <2>1. silence' <= ControlPeriod + m.age + CycleMax
    BY <1>2, <1>5, <1>9, <1>11
  <2> QED
    BY <1>7, <2>1 DEF Fed
<1>12. CASE \E n \in Awaited : silence <= ControlPeriod + n.age + CycleMax
  BY <1>2, <1>8, <1>12 DEF Fed
<1> QED
  BY <1>10, <1>11, <1>12 DEF Fed

\* A message that is delivered is pending as it was.
LEMMA FedByDelivery ==
    ASSUME TypeOK, Fed, Deliver
    PROVE  Fed'
<1>1. UNCHANGED <<sinceSent, lastSeq, silence>>
  BY DEF Deliver, controller, watchdog
<1>2. Awaited \subseteq Awaited'
  BY <1>1, DeliverKeeps DEF Awaited
<1>3. Awaited = {} => Awaited' = {}
  BY <1>1, DeliverKeeps DEF Awaited, Alike
<1> QED
  BY <1>1, <1>2, <1>3 DEF Fed, Heard

\* Core accepts the message it handles, or still awaits what it awaited.
LEMMA FedByHandling ==
    ASSUME TimingFits, TypeOK, Prompt, Fed, HandleSetpoint
    PROVE  Fed'
<1> DEFINE m == Head(inbound)
<1>1. /\ m \in Pending
      /\ Pending' \subseteq Pending /\ Pending \subseteq Pending' \cup {m}
      /\ sinceSent' = sinceSent
  BY HandlePending DEF Pending, HandleSetpoint, controller
<1>2. \/ InSequence(m) /\ Accept(m)
      \/ ~InSequence(m) /\ Reject(m)
  BY HandleCalm
<1>3. Pending \subseteq Message /\ Pending' \subseteq Message
  BY <1>1, PendingType
<1>4. /\ \A n \in Pending : n.age \in Nat /\ n.seq \in Nat
      /\ lag \in Nat /\ lag <= CycleMax /\ sinceSent \in Nat /\ CycleMax \in Nat
      /\ ControlPeriod \in Nat
  BY <1>3, SetpointPathAssumption DEF Message, TypeOK
<1> HIDE DEF m
<1>5. CASE Accept(m)
  <2>1. silence' = lag
    BY <1>5 DEF Accept, Notify
  <2>2. silence' <= sinceSent' + CycleMax
    BY <1>1, <1>4, <2>1
  <2>3. \A n \in Pending' : silence' <= ControlPeriod + n.age + CycleMax
    BY <1>1, <1>4, <2>1
  <2>4. Awaited' \subseteq Pending'
    BY DEF Awaited
  <2> QED
    BY <2>2, <2>3, <2>4 DEF Fed
<1>6. CASE ~InSequence(m) /\ Reject(m)
  <2>1. UNCHANGED <<lastSeq, silence>>
    BY <1>6 DEF Reject, watchdog
  <2>2. m \notin Awaited
    BY <1>6 DEF Awaited, InSequence
  <2>3. Awaited' = Awaited
    BY <1>1, <2>1, <2>2 DEF Awaited
  <2> QED
    BY <1>1, <2>1, <2>3 DEF Fed, Heard
<1> QED
  BY <1>2, <1>5, <1>6

\* Time runs for the watchdog, the controller and every pending message alike.
LEMMA FedByTime ==
    ASSUME Calm, TimingFits, TypeOK, Prompt, Fed, Tick
    PROVE  Fed'
<1>1. Pending' = {Older(m) : m \in Pending}
  BY TickPending DEF Pending
<1>2. /\ lastSeq' = lastSeq /\ sinceSent' = sinceSent + 1
      /\ silence' = Smaller(silence + 1, SilenceCap)
  BY DEF Tick, Calm
<1>3. /\ silence \in Nat /\ sinceSent \in Nat /\ CycleMax \in Nat /\ ControlPeriod \in Nat
      /\ SilenceCap \in Nat
  BY SetpointPathAssumption DEF TypeOK, SilenceCap
<1>4. silence' <= silence + 1 /\ silence' \in Nat
  BY <1>2, <1>3 DEF Smaller
<1>5. Pending \subseteq Message
  BY PendingType
<1>6. Awaited' = {Older(m) : m \in Awaited}
  BY <1>1, <1>2, <1>5, OlderFacts DEF Awaited
<1>7. CASE ~Heard
  BY <1>2, <1>7 DEF Fed, Heard
<1>8. CASE Awaited = {} /\ silence <= sinceSent + CycleMax
  BY <1>2, <1>3, <1>4, <1>6, <1>8 DEF Fed
<1>9. CASE \E m \in Awaited : silence <= ControlPeriod + m.age + CycleMax
  <2>1. PICK m \in Awaited : silence <= ControlPeriod + m.age + CycleMax
    BY <1>9
  <2>2. m \in Pending /\ m.age \in Nat /\ Older(m) \in Awaited'
    BY <1>5, <1>6 DEF Awaited, Message
  <2>3. Older(m).age = m.age + 1
    BY <2>2, PromptIsCounted
  <2>4. silence' <= ControlPeriod + Older(m).age + CycleMax
    BY <1>3, <1>4, <2>1, <2>2, <2>3
  <2> QED
    BY <2>2, <2>4 DEF Fed
<1> QED
  BY <1>7, <1>8, <1>9 DEF Fed

LEMMA NextFed ==
    ASSUME Calm, TimingFits, TypeOK, Heeded, [Next]_vars
    PROVE  Fed'
<1>1. Connected /\ Numbered /\ Prompt /\ Fed
  BY DEF Heeded
<1>2. CASE CoreRestart
  <2>1. ~Heard'
    BY <1>2 DEF CoreRestart, Heard
  <2> QED
    BY <2>1 DEF Fed
<1>3. CASE BeginCycle \/ SafetyCycle \/ UNCHANGED vars
  BY <1>1, <1>3, PendingFrame DEF Fed, Heard, Awaited
<1> QED
  BY <1>1, <1>2, <1>3, CalmSteps, FedByCycle, FedByDelivery, FedByHandling, FedByTime

LEMMA InitHeeded == Init => Heeded
<1> SUFFICES ASSUME Init PROVE Heeded
  OBVIOUS
<1>1. Pending = {} /\ Queued = {} /\ net = {} /\ ~Heard
  BY DEF Init, Pending, Queued, Heard
<1>2. Numbered
  BY <1>1 DEF Init, Numbered
<1> QED
  BY <1>1, <1>2 DEF Init, Heeded, Connected, Prompt, Fed

\* The timing of a calm behaviour, in every reachable state.
THEOREM SpecHeeded ==
    ASSUME Calm, TimingFits
    PROVE  Spec => []Heeded
<1>1. TypeOK /\ Heeded /\ [Next]_vars => Heeded'
  <2> SUFFICES ASSUME TypeOK, Heeded, [Next]_vars PROVE Heeded'
    OBVIOUS
  <2>1. Connected /\ Numbered /\ Prompt
    BY DEF Heeded
  <2> QED
    BY <2>1, NextConnected, NextNumbered, NextPrompt, NextFed DEF Heeded
<1> QED
  BY <1>1, InitHeeded, SpecTypeOK, PTL DEF Spec

\* A controller that has been heard is not silent when core checks.
LEMMA HeardIsNotSilent ==
    ASSUME TimingFits, TypeOK, Heeded, Heard, inbound = <<>>
    PROVE  ~IsSilent
<1>1. /\ silence \in Nat /\ lag \in Nat /\ sinceSent \in Nat /\ sinceSent <= ControlPeriod
      /\ ControlPeriod \in Nat /\ CycleMax \in Nat /\ Transit \in Nat /\ Timeout \in Nat
  BY SetpointPathAssumption DEF TypeOK
<1>2. CASE silence <= sinceSent + CycleMax
  BY <1>1, <1>2 DEF TimingFits, IsSilent
<1>3. CASE \E m \in Awaited : silence <= ControlPeriod + m.age + CycleMax
  <2>1. PICK m \in Awaited : silence <= ControlPeriod + m.age + CycleMax
    BY <1>3
  <2>2. m \in net /\ m.age \in Nat
    BY PendingType DEF Awaited, Pending, Queued, Message
  <2>3. m.age <= Transit
    BY <2>2 DEF Heeded, Prompt
  <2> QED
    BY <1>1, <2>1, <2>2, <2>3 DEF TimingFits, IsSilent
<1> QED
  BY <1>2, <1>3 DEF Heeded, Fed

\* A control loop that publishes in every period over a network that delivers
\* in time is never taken for dead once core has heard it, whatever is
\* duplicated, fails to be written, or restarts core.
THEOREM SpecLiveLoopIsHeard ==
    ASSUME Calm, TimingFits
    PROVE  Spec => LiveLoopIsHeard
<1>1. ASSUME TypeOK, Heeded, [Next]_vars, ~tripped, tripped'
      PROVE  ~Heard
  <2>1. SafetyCycle /\ IsSilent
    BY <1>1, OnlyTheCheckTrips
  <2>2. inbound = <<>>
    BY <2>1 DEF SafetyCycle
  <2> QED
    BY <1>1, <2>1, <2>2, HeardIsNotSilent
<1> QED
  BY <1>1, SpecTypeOK, SpecHeeded, PTL DEF Spec, LiveLoopIsHeard

--------------------------------------------------------------------------------
(* Agreement, where core keeps running and its writes succeed               *)

Undisturbed == Faults \subseteq {"dup"}

\* m is the last command of its class, core has still to accept it, and nothing
\* that is pending can displace it.
Newest(c, m) ==
    /\ m.cls = c /\ m.val = lastPub[c] /\ m.seq > lastSeq[c]
    /\ \A n \in Pending : n.cls = c => n.seq <= m.seq /\ (n.seq = m.seq => n.val = m.val)

\* The devices are on the last command, and nothing pending will be accepted.
Applied(c) ==
    /\ dev[c] = lastPub[c] /\ lastSeq[c] # -1
    /\ \A n \in Pending : n.cls = c => n.seq <= lastSeq[c]

\* The last command of a class is on its way or with its devices.
Tracked(c) == (\E m \in Pending : Newest(c, m)) \/ Applied(c)

Track == \A c \in Classes : lastPub[c] # None => Tracked(c)

\* A class is tracked as long as its pending messages say the same and its
\* devices, its last command and core's sequence number for it stay.
LEMMA TrackedStays ==
    ASSUME NEW c, Tracked(c),
           lastPub'[c] = lastPub[c], lastSeq'[c] = lastSeq[c],
           \A m \in Pending : m.cls = c
             => \E n \in Pending' : n.cls = c /\ n.seq = m.seq /\ n.val = m.val,
           \A n \in Pending' : n.cls = c
             => \E m \in Pending : m.cls = c /\ m.seq = n.seq /\ m.val = n.val,
           Applied(c) => dev'[c] = dev[c]
    PROVE  Tracked(c)'
<1>1. CASE \E m \in Pending : Newest(c, m)
  <2>1. PICK m \in Pending : Newest(c, m)
    BY <1>1
  <2>2. PICK n \in Pending' : n.cls = c /\ n.seq = m.seq /\ n.val = m.val
    BY <2>1 DEF Newest
  <2>3. Newest(c, n)'
    BY <2>1, <2>2 DEF Newest
  <2> QED
    BY <2>3 DEF Tracked
<1>2. CASE Applied(c)
  BY <1>2 DEF Applied, Tracked
<1> QED
  BY <1>1, <1>2 DEF Tracked

LEMMA TrackByCycle ==
    ASSUME Calm, TypeOK, Heeded, Track, ControlCycle
    PROVE  Track'
<1>1. PICK sent : CycleSends(sent)
  BY ConnectedCycle DEF Calm, Heeded, Connected
<1>2. UNCHANGED <<inbound, lastSeq, dev>>
  BY CycleFrame
<1>3. Pending' = Pending \cup sent /\ sent \subseteq Message /\ Pending \subseteq Message
  BY <1>1, <1>2, PendingType DEF CycleSends, Pending, Queued
<1>4. \A m \in Pending' : m.seq \in Nat
  BY <1>3 DEF Message
<1>5. seq \in Nat /\ \A c \in Classes : lastSeq[c] \in Int /\ lastSeq[c] <= seq
  BY DEF TypeOK, Heeded, Numbered
<1>6. \A m \in Pending : m.seq <= seq
  BY DEF Heeded, Numbered
<1> SUFFICES ASSUME NEW c \in Classes, lastPub'[c] # None PROVE Tracked(c)'
  BY DEF Track
<1>7. CASE \E m \in sent : m.cls = c
  <2>1. PICK m \in sent : m.cls = c
    BY <1>7
  <2>2. seq < m.seq /\ m.val = lastPub'[c] /\ m.seq \in Nat
    BY <1>1, <1>3, <1>4, <2>1 DEF CycleSends
  <2>3. \A n \in sent : n.cls = c => n = m
    BY <1>1, <2>1 DEF CycleSends
  <2>4. \A n \in Pending' : n.cls = c => n.seq <= m.seq /\ (n.seq = m.seq => n.val = m.val)
    BY <1>3, <1>4, <1>5, <1>6, <2>2, <2>3
  <2>5. m.seq > lastSeq'[c]
    BY <1>2, <1>5, <2>2
  <2>6. Newest(c, m)'
    BY <2>1, <2>2, <2>4, <2>5 DEF Newest
  <2> QED
    BY <1>3, <2>6 DEF Tracked
<1>8. CASE \A m \in sent : m.cls # c
  <2>1. lastPub'[c] = lastPub[c]
    BY <1>1, <1>8 DEF CycleSends
  <2>2. Tracked(c)
    BY <2>1 DEF Track
  <2> QED
    BY <1>2, <1>3, <1>8, <2>1, <2>2, TrackedStays
<1> QED
  BY <1>7, <1>8

LEMMA TrackByDelivery ==
    ASSUME TypeOK, Track, Deliver
    PROVE  Track'
<1>1. UNCHANGED <<lastPub, lastSeq, dev>>
  BY DEF Deliver, controller
<1> SUFFICES ASSUME NEW c \in Classes, lastPub[c] # None PROVE Tracked(c)'
  BY <1>1 DEF Track
<1>2. Tracked(c)
  BY DEF Track
<1> QED
  BY <1>1, <1>2, DeliverKeeps, TrackedStays DEF Alike

\* Core's handling of a message applies the newest command of its class, or an
\* earlier one, or nothing.
LEMMA TrackByHandling ==
    ASSUME Undisturbed, TimingFits, TypeOK, Prompt, Track, HandleSetpoint
    PROVE  Track'
<1> DEFINE h == Head(inbound)
<1>1. /\ h \in Pending
      /\ Pending' \subseteq Pending /\ Pending \subseteq Pending' \cup {h}
      /\ lastPub' = lastPub
  BY HandlePending DEF Pending, HandleSetpoint, controller
<1>2. \/ InSequence(h) /\ Accept(h)
      \/ ~InSequence(h) /\ Reject(h)
  BY HandleCalm
<1>3. Pending \subseteq Message
  BY PendingType
<1>4. \A m \in Pending : m.seq \in Nat /\ m.seq # -1 /\ m.cls \in Classes
  BY <1>3 DEF Message
<1>5. lastSeq \in [Classes -> (0..MaxSeq) \cup {-1}]
  BY DEF TypeOK
<1> HIDE DEF h
<1> SUFFICES ASSUME NEW c \in Classes, lastPub[c] # None PROVE Tracked(c)'
  BY <1>1 DEF Track
<1>6. Tracked(c)
  BY DEF Track
<1>7. lastSeq[c] \in Int
  BY <1>5
<1>8. CASE Accept(h) /\ h.cls # c
  <2>1. /\ dev' = [d \in Classes |-> IF d \in {h.cls} THEN [e \in Classes |-> h.val][d]
                                                      ELSE dev[d]]
        /\ lastSeq' = [lastSeq EXCEPT ![h.cls] = h.seq]
    BY <1>8, WriteReaches DEF Accept, Undisturbed
  <2>2. dev'[c] = dev[c] /\ lastSeq'[c] = lastSeq[c]
    BY <1>5, <1>8, <2>1
  <2> QED
    BY <1>1, <1>6, <1>8, <2>2, TrackedStays
<1>9. CASE InSequence(h) /\ Accept(h) /\ h.cls = c
  <2>1. /\ dev' = [d \in Classes |-> IF d \in {c} THEN [e \in Classes |-> h.val][d]
                                                  ELSE dev[d]]
        /\ lastSeq' = [lastSeq EXCEPT ![c] = h.seq]
    BY <1>9, WriteReaches DEF Accept, Undisturbed
  <2>2. dev'[c] = h.val /\ lastSeq'[c] = h.seq /\ h.seq > lastSeq[c] /\ h.seq \in Nat
    BY <1>1, <1>4, <1>5, <1>9, <2>1 DEF InSequence
  <2>3. ~Applied(c)
    BY <1>1, <1>7, <1>9, <2>2 DEF Applied
  <2>4. PICK m \in Pending : Newest(c, m)
    BY <1>6, <2>3 DEF Tracked
  <2>5. h.seq <= m.seq /\ (h.seq = m.seq => h.val = m.val)
    BY <1>1, <1>9, <2>4 DEF Newest
  <2>6. CASE h.seq = m.seq
    BY <1>1, <1>4, <2>2, <2>4, <2>5, <2>6 DEF Newest, Tracked, Applied
  <2>7. CASE h.seq # m.seq
    <3>1. m.seq > lastSeq'[c] /\ m \in Pending'
      BY <1>1, <1>4, <2>2, <2>5, <2>7
    <3>2. Newest(c, m)'
      BY <1>1, <2>4, <3>1 DEF Newest
    <3> QED
      BY <3>1, <3>2 DEF Tracked
  <2> QED
    BY <2>6, <2>7
<1>10. CASE ~InSequence(h) /\ Reject(h)
  <2>1. UNCHANGED <<lastSeq, dev>>
    BY <1>10 DEF Reject
  <2>2. CASE \E m \in Pending : Newest(c, m)
    <3>1. PICK m \in Pending : Newest(c, m)
      BY <2>2
    <3>2. m # h
      BY <1>10, <3>1 DEF Newest, InSequence
    <3>3. m \in Pending' /\ Newest(c, m)'
      BY <1>1, <2>1, <3>1, <3>2 DEF Newest
    <3> QED
      BY <3>3 DEF Tracked
  <2>3. CASE Applied(c)
    BY <1>1, <2>1, <2>3 DEF Applied, Tracked
  <2> QED
    BY <1>6, <2>2, <2>3 DEF Tracked
<1> QED
  BY <1>2, <1>8, <1>9, <1>10

\* A trip comes only before core has accepted anything: all that was commanded
\* is then still on its way.
LEMMA TrackByCheck ==
    ASSUME TimingFits, TypeOK, Heeded, Track, SafetyCycle
    PROVE  Track'
<1>1. UNCHANGED <<lastPub, lastSeq, Pending>>
  BY PendingFrame
<1> SUFFICES ASSUME NEW c \in Classes, lastPub[c] # None PROVE Tracked(c)'
  BY <1>1 DEF Track
<1>2. Tracked(c)
  BY DEF Track
<1>3. Applied(c) => dev'[c] = dev[c]
  <2>1. Applied(c) => Heard
    BY DEF Applied, Heard
  <2>2. Heard => ~IsSilent
    BY HeardIsNotSilent DEF SafetyCycle
  <2>3. ~IsSilent => dev' = dev
    BY DEF SafetyCycle
  <2> QED
    BY <2>1, <2>2, <2>3
<1> QED
  BY <1>1, <1>2, <1>3, TrackedStays

LEMMA TrackByTime ==
    ASSUME TypeOK, Track, Tick
    PROVE  Track'
<1>1. Pending' = {Older(m) : m \in Pending}
  BY TickPending DEF Pending
<1>2. UNCHANGED <<lastPub, lastSeq, dev>>
  BY DEF Tick
<1>3. \A m \in Pending : /\ Older(m) \in Pending'
                         /\ Older(m).cls = m.cls /\ Older(m).seq = m.seq
                         /\ Older(m).val = m.val
  BY <1>1, PendingType, OlderFacts
<1>4. \A n \in Pending' : \E m \in Pending : n = Older(m)
  BY <1>1
<1> SUFFICES ASSUME NEW c \in Classes, lastPub[c] # None PROVE Tracked(c)'
  BY <1>2 DEF Track
<1>5. Tracked(c)
  BY DEF Track
<1>6. \A m \in Pending : m.cls = c
        => \E n \in Pending' : n.cls = c /\ n.seq = m.seq /\ n.val = m.val
  BY <1>3
<1>7. \A n \in Pending' : n.cls = c
        => \E m \in Pending : m.cls = c /\ m.seq = n.seq /\ m.val = n.val
  BY <1>3, <1>4
<1> QED
  BY <1>2, <1>5, <1>6, <1>7, TrackedStays

LEMMA NextTrack ==
    ASSUME Undisturbed, TimingFits, TypeOK, Heeded, Track, [Next]_vars
    PROVE  Track'
<1>1. Calm /\ Connected /\ Prompt
  BY DEF Undisturbed, Calm, Heeded
<1>2. CASE BeginCycle
  <2>1. UNCHANGED <<lastPub, lastSeq, dev, Pending>>
    BY <1>2, PendingFrame DEF BeginCycle
  <2> QED
    BY <2>1 DEF Track, Tracked, Newest, Applied
<1>3. CASE UNCHANGED vars
  <2>1. UNCHANGED <<lastPub, lastSeq, dev, Pending>>
    BY <1>3, PendingFrame DEF vars
  <2> QED
    BY <2>1 DEF Track, Tracked, Newest, Applied
<1>4. ~CoreRestart
  BY DEF CoreRestart, Undisturbed
<1> QED
  BY <1>1, <1>2, <1>3, <1>4, CalmSteps, TrackByCycle, TrackByDelivery, TrackByHandling,
     TrackByCheck, TrackByTime

\* The last command of every class is on its way or with its devices.
THEOREM SpecTrack ==
    ASSUME Undisturbed, TimingFits
    PROVE  Spec => []Track
<1>1. Init => Track
  BY DEF Init, Track
<1>2. TypeOK /\ Heeded /\ Track /\ [Next]_vars => Track'
  BY NextTrack
<1>3. Calm
  BY DEF Undisturbed, Calm
<1>4. Spec => []Heeded
  BY <1>3, SpecHeeded
<1> QED
  BY <1>1, <1>2, <1>4, SpecTypeOK, PTL DEF Spec

\* Once nothing is in transit or queued and no trip is in force, the devices of
\* every class are on the last command the controller gave for it, although a
\* factor is published only when it changes.
THEOREM SpecAgreement ==
    ASSUME Undisturbed, TimingFits
    PROVE  Spec => []Agreement
<1>1. TypeOK /\ Track => Agreement
  <2> SUFFICES ASSUME TypeOK, Track, Quiescent, NEW c \in Classes, lastPub[c] # None
               PROVE  dev[c] = lastPub[c]
    BY DEF Agreement
  <2>1. Pending = {}
    BY DEF Quiescent, Pending, Queued
  <2> QED
    BY <2>1 DEF Track, Tracked, Applied
<1> QED
  BY <1>1, SpecTrack, SpecTypeOK, PTL

--------------------------------------------------------------------------------
(* The handover from one controller process to the next, under every fault. *)

\* A message of another controller process than the one now running was sent
\* before the last restart of the controller.
Aged == {m \in Message : m.run # run => tenure <= m.age \/ m.age = AgeCap}

\* All that is parked or pending is of that kind; so what core, not hearing the
\* running controller, accepted last it accepted within the age limit.
Inherited ==
    /\ parked \in [Classes -> Aged \cup {None}]
    /\ Pending \subseteq Aged
    /\ ~HeardNow => tenure <= quiet + MaxAge + CycleMax

\* A step that neither restarts a service nor lets time pass or a setpoint be
\* accepted keeps what core last heard.
LEMMA HeardNowFrame ==
    ASSUME Inherited, UNCHANGED <<run, tenure, lastSeq, lastRun, quiet>>
    PROVE  /\ Aged' = Aged
           /\ (~HeardNow => tenure <= quiet + MaxAge + CycleMax)'
BY DEF Inherited, Aged, HeardNow

\* A message that core accepts is of the running controller, or short of the
\* age limit and one core cycle old: no younger than the restart.
LEMMA InheritedByHandling ==
    ASSUME TypeOK, Inherited, HandleSetpoint
    PROVE  Inherited'
<1> DEFINE m == Head(inbound)
<1>1. /\ m \in Aged /\ m \in Message
      /\ Pending' \subseteq Pending /\ UNCHANGED <<run, tenure, parked>>
  BY HandlePending DEF Pending, HandleSetpoint, controller, Inherited, Aged
<1>2. /\ m.cls \in Classes /\ m.seq \in 1..MaxSeq /\ m.age \in 0..AgeCap
      /\ lag \in 0..CycleMax /\ tenure \in 0..TenureCap
      /\ MaxAge \in Nat /\ CycleMax \in Nat /\ MaxSeq \in Nat
      /\ lastSeq \in [Classes -> (0..MaxSeq) \cup {-1}] /\ lastRun \in [Classes -> 0..MaxRuns]
  BY <1>1, SetpointPathAssumption DEF Message, TypeOK
<1> HIDE DEF m
<1>3. CASE Accept(m)
  <2>1. /\ m.age - lag <= MaxAge /\ quiet' = 0
        /\ lastSeq' = [lastSeq EXCEPT ![m.cls] = m.seq]
        /\ lastRun' = [lastRun EXCEPT ![m.cls] = m.run]
    BY <1>3 DEF Accept, Guard, YoungEnough
  <2>2. CASE m.run = run
    <3>1. lastSeq'[m.cls] # -1 /\ lastRun'[m.cls] = run'
      BY <1>1, <1>2, <2>1, <2>2
    <3>2. HeardNow'
      BY <1>2, <3>1 DEF HeardNow
    <3> QED
      BY <1>1, <3>2 DEF Inherited, Aged
  <2>3. CASE m.run # run
    <3>1. m.age <= MaxAge + CycleMax /\ m.age # AgeCap
      BY <1>2, <2>1 DEF AgeCap
    <3>2. tenure <= m.age
      BY <1>1, <2>3, <3>1 DEF Aged
    <3>3. tenure' <= quiet' + MaxAge + CycleMax
      BY <1>1, <1>2, <2>1, <3>1, <3>2
    <3> QED
      BY <1>1, <3>3 DEF Inherited, Aged
  <2> QED
    BY <2>2, <2>3
<1>4. CASE Reject(m)
  <2>1. UNCHANGED <<run, tenure, lastSeq, lastRun, quiet>>
    BY <1>1, <1>4 DEF Reject, watchdog
  <2> QED
    BY <1>1, <2>1, HeardNowFrame DEF Inherited
<1> QED
  BY <1>3, <1>4 DEF HandleSetpoint, m

\* Time ages what is under way as fast as the running controller.
LEMMA InheritedByTime ==
    ASSUME TypeOK, Inherited, Tick
    PROVE  Inherited'
<1>1. /\ tenure \in 0..TenureCap /\ quiet \in 0..QuietCap
      /\ Timeout \in Nat /\ MaxAge \in Nat /\ CycleMax \in Nat
      /\ TenureCap = MaxAge + CycleMax + QuietCap /\ QuietCap \in Nat
      /\ AgeCap \in Nat
  BY SetpointPathAssumption DEF TypeOK, TenureCap, QuietCap, AgeCap
<1>2. /\ quiet' = Smaller(quiet + 1, QuietCap)
      /\ tenure' \in {0, Smaller(tenure + 1, TenureCap)}
      /\ UNCHANGED <<run, lastSeq, lastRun>>
      /\ parked' = [c \in Classes |-> IF parked[c] = None THEN None ELSE Older(parked[c])]
  BY DEF Tick
<1>3. tenure' <= tenure + 1 /\ tenure' >= 0
  BY <1>1, <1>2 DEF Smaller
<1>4. ASSUME NEW m \in Aged PROVE Older(m) \in Aged'
  <2>1. m \in Message /\ m.age \in 0..AgeCap /\ Older(m) \in Message
    BY <1>4, OlderType DEF Aged, Message
  <2>2. Older(m).run = m.run /\ Older(m).age = Smaller(m.age + 1, AgeCap)
    BY <2>1, OlderFacts
  <2>3. ASSUME m.run # run PROVE tenure' <= Older(m).age \/ Older(m).age = AgeCap
    <3>1. tenure <= m.age \/ m.age = AgeCap
      BY <1>4, <2>3 DEF Aged
    <3>2. tenure' \in Int /\ tenure \in Int /\ m.age \in Int /\ m.age <= AgeCap
      BY <1>1, <1>2, <2>1 DEF Smaller
    <3> QED
      BY <1>1, <1>3, <2>2, <3>1, <3>2 DEF Smaller
  <2> QED
    BY <1>2, <2>1, <2>2, <2>3 DEF Aged
<1>5. Pending' = {Older(m) : m \in Pending}
  BY TickPending DEF Pending
<1>6. Pending' \subseteq Aged'
  BY <1>4, <1>5 DEF Inherited
<1>7. parked' \in [Classes -> Aged' \cup {None}]
  BY <1>2, <1>4 DEF Inherited
<1>8. (~HeardNow => tenure <= quiet + MaxAge + CycleMax)'
  <2>1. HeardNow' <=> HeardNow
    BY <1>2 DEF HeardNow
  <2>2. tenure <= quiet + MaxAge + CycleMax => tenure' <= quiet' + MaxAge + CycleMax
    BY <1>1, <1>2 DEF Smaller
  <2> QED
    BY <2>1, <2>2 DEF Inherited
<1> QED
  BY <1>6, <1>7, <1>8 DEF Inherited

\* A restart of either service starts the count anew.
LEMMA InheritedByRestart ==
    ASSUME TypeOK, Inherited, ControllerRestart \/ CoreRestart
    PROVE  Inherited'
<1>1. tenure' = 0 /\ \A m \in Message : 0 <= m.age
  BY DEF ControllerRestart, CoreRestart, Message
<1>2. Aged' = Message
  BY <1>1 DEF Aged
<1>3. parked' \in [Classes -> Message \cup {None}] /\ Pending' \subseteq Message
  <2>1. CASE ControllerRestart
    BY <2>1, PendingType DEF ControllerRestart, broker, core, Pending, Queued
  <2>2. CASE CoreRestart
    <3>1. parked' = parked /\ net' = net /\ Queued' = {}
      BY <2>2 DEF CoreRestart, Queued
    <3> QED
      BY <3>1, PendingType DEF Pending, TypeOK
  <2> QED
    BY <2>1, <2>2
<1>4. tenure' <= quiet' + MaxAge + CycleMax
  <2>1. quiet' \in Nat
    BY DEF ControllerRestart, CoreRestart, core, watchdog, TypeOK, QuietCap
  <2>2. \A q \in Nat : 0 <= q + MaxAge + CycleMax
    BY SetpointPathAssumption
  <2>3. tenure' = 0
    BY <1>1
  <2> QED
    BY <2>1, <2>2, <2>3
<1> QED
  BY <1>2, <1>3, <1>4 DEF Inherited

LEMMA NextInherited == TypeOK /\ Inherited /\ [Next]_vars => Inherited'
<1> SUFFICES ASSUME TypeOK, Inherited, [Next]_vars PROVE Inherited'
  OBVIOUS
<1>1. CASE ControlCycle
  <2>1. UNCHANGED <<run, tenure, lastSeq, lastRun, quiet, inbound>>
    BY <1>1, CycleFrame
  <2>2. Kind(Aged)
    <3>1. 0 \in 0..AgeCap /\ run \in 0..MaxRuns
      BY SetpointPathAssumption DEF AgeCap, TypeOK
    <3> QED
      BY <3>1 DEF Kind, Fresh, Message, Aged
  <2>3. parked' \in [Classes -> Aged \cup {None}] /\ net' \subseteq Aged
    BY <1>1, <2>2, ControlCycleKind DEF TypeOK, Inherited, Pending
  <2>4. Queued' = Queued
    BY <2>1 DEF Queued
  <2> QED
    BY <2>1, <2>3, <2>4, HeardNowFrame DEF Inherited, Pending
<1>2. CASE Deliver
  <2>1. UNCHANGED <<run, tenure, lastSeq, lastRun, quiet, parked>>
    BY <1>2 DEF Deliver, controller, watchdog
  <2>2. Pending' \subseteq Aged
    BY <1>2, DeliverKeeps DEF Inherited, Aged, Alike
  <2> QED
    BY <2>1, <2>2, HeardNowFrame DEF Inherited
<1>3. CASE Lose \/ SessionLost
  <2>1. /\ net' \subseteq net
        /\ UNCHANGED <<run, tenure, lastSeq, lastRun, quiet, parked, inbound>>
    BY <1>3 DEF Lose, SessionLost, controller, core, watchdog
  <2>2. Pending' \subseteq Pending
    BY <2>1 DEF Pending, Queued
  <2> QED
    BY <2>1, <2>2, HeardNowFrame DEF Inherited
<1>4. CASE BeginCycle \/ SafetyCycle \/ UNCHANGED vars
  <2>1. UNCHANGED <<run, tenure, lastSeq, lastRun, quiet, parked>>
    BY <1>4 DEF BeginCycle, SafetyCycle, vars, controller, core, watchdog
  <2> QED
    BY <1>4, <2>1, PendingFrame, HeardNowFrame DEF Inherited
<1> QED
  BY <1>1, <1>2, <1>3, <1>4, InheritedByHandling, InheritedByTime, InheritedByRestart
     DEF Next, CoreLoop

\* The inductive invariant of the handover, in every reachable state.
THEOREM SpecInherited == Spec => []Inherited
<1>1. Init => Inherited
  BY SetpointPathAssumption DEF Init, Inherited, Pending, Queued
<1> QED
  BY <1>1, NextInherited, SpecTypeOK, PTL DEF Spec

\* However the handover from one controller process to the next goes, over lost,
\* late, repeated and re-sent messages, outages on both sides and restarts of
\* core: while core hears no message of the successor, the predecessor's last
\* command is withdrawn within the age limit, the timeout and three core cycles.
THEOREM SpecHandoverIsBounded ==
    ASSUME "writes" \notin Faults
    PROVE  Spec => []HandoverIsBounded
<1>1. TypeOK /\ Inherited /\ Switch!SafeWhenSilent => HandoverIsBounded
  <2> SUFFICES ASSUME TypeOK, Inherited, Switch!SafeWhenSilent, ~HeardNow,
                      tenure > MaxAge + Timeout + 3 * CycleMax
               PROVE  Safe
    BY DEF HandoverIsBounded
  <2>1. /\ tenure \in Nat /\ quiet \in Nat
        /\ MaxAge \in Nat /\ Timeout \in Nat /\ CycleMax \in Nat
    BY SetpointPathAssumption DEF TypeOK, TenureCap, QuietCap
  <2>2. quiet > Timeout + 2 * CycleMax
    BY <2>1 DEF Inherited
  <2> QED
    BY <2>2 DEF Switch!SafeWhenSilent, Switch!Safe, Safe
<1> QED
  BY <1>1, SpecTypeOK, SpecInherited, SpecSafeWhenSilent, PTL
================================================================================
