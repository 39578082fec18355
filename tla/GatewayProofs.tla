----------------------------- MODULE GatewayProofs -----------------------------
(***************************************************************************)
(* Theorems about the external-EMS gateway, for all targets and timings.   *)
(***************************************************************************)
EXTENDS Gateway, SequenceTheorems, TLAPS

USE DEF external, watchdog, posting, controller

--------------------------------------------------------------------------------
(* Type correctness *)

\* The timings, one by one.
LEMMA Timings ==
    /\ Timeout \in Nat /\ Timeout > 0
    /\ Interval \in Nat /\ Interval > 0
    /\ PostTimeout \in Nat /\ PostTimeout > 0
    /\ NetDelay \in Nat /\ NetDelay > 0
    /\ Period \in Nat /\ Period > 0
  BY GatewayAssumption

\* The bound of the history clock lies beyond the timeout.
LEMMA QuietMaxNat == QuietMax \in Nat /\ QuietMax > Timeout
  BY Timings DEF QuietMax, Reach

\* Counting up to a bound stays within it.
LEMMA CountUp ==
    ASSUME NEW n \in Nat, NEW m \in Nat, n <= m
    PROVE  Smaller(n + 1, m) \in 0..m /\ Smaller(n + 1, m) <= n + 1
  BY DEF Smaller

\* Messages grow older as messages.
LEMMA OlderSeq ==
    ASSUME NEW s \in Seq(Message)
    PROVE  [i \in 1..Len(s) |-> Older(s[i])] \in Seq(Message)
<1>1. ASSUME NEW m \in Message PROVE Older(m) \in Message
  BY GatewayAssumption DEF Message, Older, Smaller
<1>2. \A i \in 1..Len(s) : Older(s[i]) \in Message
  BY <1>1
<1> HIDE DEF Message, Older
<1> QED
  BY <1>2

\* The oldest message.
LEMMA HeadAge == TypeOK /\ net # <<>> => Head(net).age \in 0..NetDelay
<1> SUFFICES ASSUME TypeOK, net # <<>> PROVE Head(net).age \in 0..NetDelay
  OBVIOUS
<1>1. Head(net) \in Message
  BY DEF TypeOK
<1> QED
  BY <1>1 DEF Message

\* The type invariant in every reachable state.
THEOREM SpecTypeOK == Spec => []TypeOK
<1> USE GatewayAssumption DEF TypeOK, Targets
<1>1. Init => TypeOK
  BY DEF Init, Smaller, QuietMax, Reach
<1>2. ASSUME TypeOK, [Next]_vars PROVE TypeOK'
  <2>1. CASE External
    <3>1. PICK v \in Values : /\ net' = Append(net, [kw |-> v, age |-> 0])
                              /\ last' = v
      BY <2>1 DEF External
    <3>2. [kw |-> v, age |-> 0] \in Message
      BY DEF Message
    <3>3. net' \in Seq(Message)
      BY <1>2, <3>1, <3>2
    <3>4. quiet' \in 0..QuietMax
      BY <2>1 DEF External, QuietMax, Reach
    <3> QED
      BY <1>2, <2>1, <3>1, <3>3, <3>4 DEF External
  <2>2. CASE Lose
    BY <1>2, <2>2 DEF Lose
  <2>3. CASE OnExternal
    <3>1. Head(net) \in Message /\ net' \in Seq(Message)
      BY <1>2, <2>3 DEF OnExternal
    <3>2. extKw' \in Values
      BY <2>3, <3>1 DEF OnExternal, Message
    <3> QED
      BY <1>2, <2>3, <3>1, <3>2 DEF OnExternal
  <2>4. CASE BeginTick
    BY <1>2, <2>4 DEF BeginTick, Effective, Fresh
  <2>5. CASE Respond
    BY <1>2, <2>5 DEF Respond, Apply, Answer, EndTick
  <2>6. CASE Refused
    BY <1>2, <2>6 DEF Refused, KeepsForwarded, EndTick
  <2>7. CASE GiveUp
    BY <1>2, <2>7 DEF GiveUp, KeepsForwarded, EndTick
  <2>8. CASE ServeStray
    BY <1>2, <2>8 DEF ServeStray
  <2>9. CASE ControllerRestart
    BY <1>2, <2>9 DEF ControllerRestart, EndTick
  <2>10. CASE Crash
    <3>1. net' \in Seq(Message)
      BY <2>10 DEF Crash
    <3> QED
      BY <1>2, <2>10, <3>1 DEF Crash
  <2>11. CASE Tick
    <3>1. net' \in Seq(Message)
      BY <1>2, <2>11, OlderSeq DEF Tick
    <3>2. quiet' \in 0..QuietMax /\ extAge' \in 0..Timeout
      <4>1. quiet \in 0..QuietMax /\ extAge \in 0..Timeout
        BY <1>2
      <4>2. quiet' = Smaller(quiet + 1, QuietMax) /\ extAge' = Smaller(extAge + 1, Timeout)
        BY <2>11 DEF Tick
      <4> QED
        BY <4>1, <4>2, CountUp, QuietMaxNat, Timings
    <3>3. clock' \in 0..(IF phase' = "sleep" THEN Interval ELSE PostTimeout)
      BY <1>2, <2>11 DEF Tick
    <3> QED
      BY <1>2, <2>11, <3>1, <3>2, <3>3 DEF Tick
  <2>12. CASE UNCHANGED vars
    BY <1>2, <2>12 DEF vars
  <2> QED
    BY <1>2, <2>1, <2>2, <2>3, <2>4, <2>5, <2>6, <2>7, <2>8, <2>9, <2>10, <2>11, <2>12
       DEF Next
<1> QED
  BY <1>1, <1>2, PTL DEF Spec

\* What may go wrong is chosen once.
LEMMA FaultsStay == [Next]_vars => UNCHANGED faults
  BY DEF Next, External, Lose, OnExternal, BeginTick, Respond, Apply, Answer, Refused,
         GiveUp, ServeStray, ControllerRestart, Crash, Tick, vars

--------------------------------------------------------------------------------
(* The target in force *)

\* Without late answers and restarts of the controller: what was forwarded, or
\* what the controller has just served, is what it regulates to.
Forwarded ==
    Undisturbed =>
        /\ stray = {}
        /\ phase = "applied" => pcc = post
        /\ phase # "applied" /\ forwarded # None => pcc = forwarded

\* Every step keeps it so.
LEMMA ForwardedStep ==
    ASSUME Forwarded, [Next]_vars
    PROVE  Forwarded'
<1> USE DEF Forwarded, Undisturbed
<1>1. CASE External \/ Lose \/ OnExternal \/ Tick
  BY <1>1 DEF External, Lose, OnExternal, Tick
<1>2. CASE BeginTick
  BY <1>2 DEF BeginTick
<1>3. CASE Respond
  BY <1>3 DEF Respond, Apply, Answer, EndTick
<1>4. CASE Refused
  BY <1>4 DEF Refused, KeepsForwarded, EndTick
<1>5. CASE GiveUp \/ ServeStray \/ ControllerRestart
  BY <1>5 DEF GiveUp, ServeStray, ControllerRestart
<1>6. CASE Crash
  BY <1>6 DEF Crash
<1>7. CASE UNCHANGED vars
  BY <1>7 DEF vars
<1> QED
  BY <1>1, <1>2, <1>3, <1>4, <1>5, <1>6, <1>7 DEF Next

\* A gateway that has nothing left to forward has the controller on the
\* effective target, unless the controller restarts or serves a POST late.
THEOREM SpecUndisturbedInForce == Spec => []UndisturbedInForce
<1>1. Init => Forwarded
  BY GatewayAssumption DEF Init, Forwarded
<1>2. Forwarded /\ [Next]_vars => Forwarded'
  BY ForwardedStep
<1>3. Forwarded => UndisturbedInForce
  BY DEF Forwarded, UndisturbedInForce, InForce, MustForward
<1> QED
  BY <1>1, <1>2, <1>3, PTL DEF Spec

--------------------------------------------------------------------------------
(* No false takeover *)

\* An external EMS that keeps its period, and whose messages all arrive.
Steady == faults \cap {"silent", "lose", "crash"} = {}

\* The watchdog's clock is bounded by the external EMS's: by the time since the
\* last message was sent if all are received, else by one period more than the
\* age of the oldest one on its way. A message that has come through (its age
\* is no longer counted) is excepted while the lock keeps it waiting, but is
\* received before the gateway's sleep begins to pass.
Heard ==
    /\ quiet <= Period
    /\ state = "external" => extKw # None
    /\ extKw # None =>
        /\ net = <<>> => extAge <= quiet
        /\ net # <<>> /\ (Head(net).age < NetDelay \/ (phase = "sleep" /\ clock > 0))
              => extAge <= Period + Head(net).age

\* A message sent: the queue keeps its head, or gets one.
LEMMA HeardExternal ==
    ASSUME TypeOK, Heard, External
    PROVE  Heard'
<1> USE GatewayAssumption DEF TypeOK, Heard, External
<1>1. CASE net = <<>>
  <2>1. PICK v \in Values : net' = Append(net, [kw |-> v, age |-> 0])
    OBVIOUS
  <2>2. Head(net').age = 0
    BY <1>1, <2>1
  <2> QED
    BY <1>1, <2>1, <2>2
<1>2. CASE net # <<>>
  <2>1. PICK v \in Values : net' = Append(net, [kw |-> v, age |-> 0])
    OBVIOUS
  <2>2. Head(net') = Head(net) /\ net' # <<>>
    BY <1>2, <2>1
  <2> QED
    BY <1>2, <2>1, <2>2
<1> QED
  BY <1>1, <1>2

\* Time passes.
LEMMA HeardTick ==
    ASSUME TypeOK, Heard, Steady, Tick, Period + NetDelay < Timeout
    PROVE  Heard'
<1> USE GatewayAssumption DEF TypeOK
<1>1. quiet \in Nat /\ quiet < Period /\ quiet' = quiet + 1
  <2>1. quiet \in 0..QuietMax /\ quiet < Period /\ quiet' = Smaller(quiet + 1, QuietMax)
    BY DEF Tick, Steady
  <2> QED
    BY <2>1, QuietMaxNat, Timings DEF Smaller
<1>2. /\ extAge \in Nat /\ extAge' \in Nat /\ extAge' <= extAge + 1
      /\ UNCHANGED <<state, extKw, phase>>
  <2>1. extAge \in 0..Timeout /\ extAge' = Smaller(extAge + 1, Timeout)
    BY DEF Tick
  <2> QED
    BY <2>1, CountUp, Timings DEF Tick
<1>3. CASE net = <<>>
  <2>1. net' = <<>>
    BY <1>3 DEF Tick
  <2> QED
    BY <1>1, <1>2, <1>3, <2>1 DEF Heard
<1>4. CASE net # <<>>
  <2>1. /\ net' # <<>>
        /\ Head(net') = Older(Head(net))
    BY <1>4 DEF Tick
  <2>2. /\ Head(net).age \in 0..NetDelay
        /\ Head(net').age = Smaller(Head(net).age + 1, NetDelay)
    BY <1>4, <2>1, HeadAge DEF Older
  <2>3. phase = "sleep" => Head(net).age < NetDelay
    BY <1>4 DEF Tick
  <2>4. ASSUME Head(net').age < NetDelay \/ phase = "sleep"
        PROVE  Head(net).age < NetDelay /\ Head(net').age = Head(net).age + 1
    BY <2>2, <2>3, <2>4, <1>2, GatewayAssumption DEF Smaller
  <2> QED
    BY <1>1, <1>2, <1>4, <2>1, <2>2, <2>4, Timings DEF Heard
<1> QED
  BY <1>3, <1>4

\* The invariant of a steady external EMS.
LEMMA HeardStep ==
    ASSUME TypeOK, Heard, Steady, [Next]_vars, Period + NetDelay < Timeout
    PROVE  Heard'
<1> USE GatewayAssumption
<1>1. CASE External
  BY <1>1, HeardExternal
<1>2. CASE OnExternal
  <2>1. Head(net) \in Message /\ net' \in Seq(Message)
    BY <1>2 DEF OnExternal, TypeOK
  <2>2. extKw' # None
    BY <1>2, <2>1 DEF OnExternal, Message
  <2>3. net' # <<>> => Head(net') \in Message
    BY <2>1
  <2>4. net' # <<>> => Head(net').age \in 0..NetDelay
    BY <2>3 DEF Message
  <2>5. extAge' = 0 /\ quiet' = quiet /\ quiet \in Nat
    BY <1>2, QuietMaxNat DEF OnExternal, TypeOK
  <2> QED
    BY <2>2, <2>4, <2>5, Timings DEF Heard
<1>3. CASE BeginTick
  BY <1>3 DEF BeginTick, Fresh, TypeOK, Heard
<1>4. CASE Respond
  <2>1. UNCHANGED <<external, watchdog>> /\ (phase' = "sleep" => clock' = 0)
    BY <1>4 DEF Respond, Apply, Answer, EndTick
  <2> QED
    BY <2>1 DEF Heard
<1>5. CASE Refused \/ GiveUp
  <2>1. UNCHANGED <<external, watchdog>> /\ phase' = "sleep" /\ clock' = 0
    BY <1>5 DEF Refused, GiveUp, EndTick
  <2> QED
    BY <2>1 DEF Heard
<1>6. CASE ServeStray
  BY <1>6 DEF ServeStray, Heard
<1>7. CASE ControllerRestart
  BY <1>7 DEF ControllerRestart, EndTick, Heard
<1>8. CASE Tick
  BY <1>8, HeardTick
<1>9. CASE UNCHANGED vars
  BY <1>9 DEF vars, Heard
<1> QED
  BY <1>1, <1>2, <1>3, <1>4, <1>5, <1>6, <1>7, <1>8, <1>9 DEF Next, Lose, Crash, Steady

\* A steady external EMS is never taken for silent, however long a POST keeps
\* the lock: it is enough that its period and the network delay are together
\* under the timeout.
THEOREM SpecNoFalseTakeover ==
    ASSUME Period + NetDelay < Timeout
    PROVE  Spec => NoFalseTakeover
<1>1. Init => (Steady => Heard)
  BY GatewayAssumption DEF Init, Heard, Smaller
<1>2. TypeOK /\ (Steady => Heard) /\ [Next]_vars => (Steady => Heard)'
  BY FaultsStay, HeardStep DEF Steady
<1>3. ASSUME TypeOK, Steady => Heard, [Next]_vars
      PROVE  [/\ faults \cap {"silent", "lose", "crash"} = {}
              /\ state = "external"
              => state' = "external"]_vars
  <2> SUFFICES ASSUME Steady, Heard
               PROVE  [state = "external" => state' = "external"]_vars
    BY <1>3 DEF Steady
  <2>1. CASE BeginTick
    <3>1. state = "external" => extKw # None
      BY DEF Heard
    <3>2. extKw # None => extAge < Timeout
      <4>1. net # <<>> => Head(net).age \in 0..NetDelay
        BY <1>3, HeadAge
      <4>2. clock > 0
        BY <2>1, GatewayAssumption DEF BeginTick
      <4> QED
        BY <1>3, <2>1, <4>1, <4>2, GatewayAssumption DEF BeginTick, Heard, TypeOK
    <3> QED
      BY <2>1, <3>1, <3>2 DEF BeginTick, Fresh
  <2>2. CASE External \/ Lose \/ OnExternal \/ Tick
    BY <2>2 DEF External, Lose, OnExternal, Tick
  <2>3. CASE Respond \/ Refused \/ GiveUp \/ ServeStray \/ ControllerRestart
    BY <2>3 DEF Respond, Apply, Answer, Refused, GiveUp, ServeStray, ControllerRestart
  <2>4. CASE UNCHANGED vars
    BY <2>4
  <2> QED
    BY <1>3, <2>1, <2>2, <2>3, <2>4 DEF Next, Crash, Steady
<1> QED
  BY <1>1, <1>2, <1>3, SpecTypeOK, PTL DEF Spec, NoFalseTakeover

--------------------------------------------------------------------------------
(* In time *)

\* Nothing goes wrong but that the external EMS may fall silent.
OnlySilence == faults \subseteq {"silent"}

\* Longest time from a message being sent to its reception: the network, and a
\* POST that keeps the lock.
Longest == NetDelay + PostTimeout

\* Nothing is on its way for longer than that, and what was received last was
\* sent no longer before it was received.
Delivery ==
    /\ \A i \in 1..Len(net) : Smaller(quiet, NetDelay) <= net[i].age
    /\ net # <<>> =>
        quiet <= NetDelay + (IF phase # "sleep" THEN clock
                             ELSE IF clock = 0 THEN PostTimeout ELSE 0)
    /\ last # None => IF net = <<>> THEN extKw = last ELSE net[Len(net)].kw = last
    /\ last = None => net = <<>> /\ extKw = None
    /\ extKw # None /\ extAge < Timeout => quiet <= extAge + Longest
    /\ extKw # None /\ net = <<>> => extAge <= quiet

\* A target received is in force after one sleep and one POST.
Following ==
    Fresh => /\ phase = "sleep" /\ (pcc # extKw \/ forwarded = None) => extAge <= clock
             /\ phase # "sleep" => post = extKw
             /\ phase # "sleep" /\ pcc # extKw => extAge <= Interval + clock

\* Another target than self-consumption is in force, or being posted, only so
\* long after the last message.
Releasing ==
    /\ phase = "sleep" /\ pcc # SelfKw => quiet <= Longest + Timeout + clock
    /\ phase # "sleep" /\ pcc # SelfKw => quiet <= Longest + Timeout + Interval + clock
    /\ phase # "sleep" /\ post # SelfKw => quiet <= Longest + Interval + clock

\* What there is of steps then: faults stay as they are, and no other fault
\* action happens.
LEMMA SilenceSteps ==
    ASSUME OnlySilence, Forwarded, [Next]_vars
    PROVE  /\ OnlySilence'
           /\ \/ External \/ OnExternal \/ BeginTick \/ Apply \/ Answer \/ Tick
              \/ UNCHANGED vars
<1>1. UNCHANGED faults
  BY FaultsStay
<1>2. ~Lose /\ ~Refused /\ ~GiveUp /\ ~ControllerRestart /\ ~Crash
  BY DEF OnlySilence, Lose, Refused, GiveUp, ControllerRestart, Crash
<1>3. ~ServeStray
  BY DEF OnlySilence, Forwarded, Undisturbed, ServeStray
<1> QED
  BY <1>1, <1>2, <1>3 DEF OnlySilence, Next, Respond

\* A queue without its head.
LEMMA TailFacts ==
    ASSUME NEW S, NEW s \in Seq(S), s # <<>>
    PROVE  /\ Len(s) \in Nat \ {0} /\ s[1] \in S
           /\ Len(Tail(s)) = Len(s) - 1
           /\ \A i \in 1..Len(Tail(s)) : Tail(s)[i] = s[i + 1] /\ i + 1 \in 1..Len(s)
           /\ (Tail(s) = <<>> <=> Len(s) = 1)
<1>1. Len(s) \in Nat \ {0} /\ s[1] \in S
  BY EmptySeq
<1>2. /\ Tail(s) \in Seq(S) /\ Len(Tail(s)) = Len(s) - 1
      /\ \A i \in 1..Len(Tail(s)) : Tail(s)[i] = s[i + 1]
  BY HeadTailProperties
<1>3. Tail(s) = <<>> <=> Len(Tail(s)) = 0
  BY <1>2, EmptySeq
<1> QED
  BY <1>1, <1>2, <1>3

\* A queue whose messages have grown older.
LEMMA OlderFacts ==
    ASSUME NEW s \in Seq(Message), NEW t, t = [i \in 1..Len(s) |-> Older(s[i])]
    PROVE  /\ Len(t) = Len(s) /\ Len(s) \in Nat
           /\ (t = <<>> <=> s = <<>>)
           /\ \A i \in 1..Len(s) :
                 /\ s[i].age \in 0..NetDelay
                 /\ t[i].kw = s[i].kw
                 /\ t[i].age = Smaller(s[i].age + 1, NetDelay)
<1>1. t \in Seq(Message)
  BY OlderSeq
<1>2. Len(s) \in Nat /\ Len(t) = Len(s)
  OBVIOUS
<1>3. t = <<>> <=> s = <<>>
  BY <1>1, <1>2
<1>4. ASSUME NEW i \in 1..Len(s)
      PROVE  /\ s[i].age \in 0..NetDelay
             /\ t[i].kw = s[i].kw
             /\ t[i].age = Smaller(s[i].age + 1, NetDelay)
  <2>1. s[i] \in Message /\ t[i] = Older(s[i])
    OBVIOUS
  <2> QED
    BY <2>1 DEF Older, Message
<1> QED
  BY <1>2, <1>3, <1>4

\* A message is sent: it is the last on its way, and as old as the silence.
LEMMA DeliveryExternal ==
    ASSUME TypeOK, Delivery, External
    PROVE  Delivery'
<1> USE Timings
<1>1. PICK v \in Values : net' = Append(net, [kw |-> v, age |-> 0]) /\ last' = v
  BY DEF External
<1>2. /\ quiet' = 0 /\ v # None
      /\ UNCHANGED <<extKw, extAge, phase, clock>>
  BY GatewayAssumption DEF External
<1>3. /\ Len(net') = Len(net) + 1 /\ net' # <<>>
      /\ net'[Len(net')] = [kw |-> v, age |-> 0]
      /\ \A i \in 1..Len(net) : net'[i] = net[i] /\ net'[i] \in Message
      /\ Len(net) \in Nat
  BY <1>1 DEF TypeOK
<1>4. \A i \in 1..Len(net') : 0 <= net'[i].age
  BY <1>3, GatewayAssumption DEF Message
<1>5. Smaller(quiet', NetDelay) = 0
  BY <1>2 DEF Smaller
<1>6. clock \in Nat /\ extAge \in Nat
  BY DEF TypeOK
<1> QED
  BY <1>1, <1>2, <1>3, <1>4, <1>5, <1>6 DEF Delivery, Longest

\* A message is received.
LEMMA DeliveryOnExternal ==
    ASSUME TypeOK, Delivery, OnExternal
    PROVE  Delivery'
<1> USE Timings
<1>1. /\ phase = "sleep" /\ net # <<>> /\ net' = Tail(net)
      /\ extKw' = net[1].kw /\ extAge' = 0
      /\ UNCHANGED <<last, quiet, phase, clock>>
  BY DEF OnExternal, TypeOK
<1>2. /\ Len(net) \in Nat \ {0} /\ Len(net') = Len(net) - 1
      /\ \A i \in 1..Len(net') : net'[i] = net[i + 1] /\ i + 1 \in 1..Len(net)
      /\ (net' = <<>> <=> Len(net) = 1)
      /\ net[1] \in Message
  <2>1. net \in Seq(Message)
    BY DEF TypeOK
  <2> QED
    BY <1>1, <2>1, TailFacts
<1>3. extKw' \in Values /\ extKw' # None
  BY <1>1, <1>2, GatewayAssumption DEF Message
<1>4. quiet \in Nat /\ clock \in Nat /\ quiet <= Longest
  BY <1>1 DEF TypeOK, Delivery, Longest
<1>5. last # None => IF net' = <<>> THEN extKw' = last' ELSE net'[Len(net')].kw = last'
  BY <1>1, <1>2 DEF Delivery
<1>6. last # None
  BY <1>1 DEF Delivery
<1>7. \A i \in 1..Len(net') : Smaller(quiet', NetDelay) <= net'[i].age
  BY <1>1, <1>2 DEF Delivery
<1>8. net' # <<>> => quiet' <= NetDelay + (IF clock' = 0 THEN PostTimeout ELSE 0)
  BY <1>1 DEF Delivery
<1> QED
  BY <1>1, <1>3, <1>4, <1>5, <1>6, <1>7, <1>8 DEF Delivery, Longest

\* Time passes.
LEMMA DeliveryTick ==
    ASSUME TypeOK, Delivery, Tick
    PROVE  Delivery'
<1> USE Timings
<1>1. /\ Len(net') = Len(net) /\ Len(net) \in Nat
      /\ (net' = <<>> <=> net = <<>>)
      /\ \A i \in 1..Len(net) :
            /\ net[i].age \in 0..NetDelay
            /\ net'[i].kw = net[i].kw
            /\ net'[i].age = Smaller(net[i].age + 1, NetDelay)
  <2>1. net \in Seq(Message)
    BY DEF TypeOK
  <2>2. net' = [i \in 1..Len(net) |-> Older(net[i])]
    BY DEF Tick
  <2> QED
    BY <2>1, <2>2, OlderFacts
<1>2. /\ quiet \in Nat /\ quiet' \in Nat /\ quiet' <= quiet + 1 /\ quiet <= quiet'
      /\ quiet <= QuietMax /\ (quiet < QuietMax => quiet' = quiet + 1)
  <2>1. quiet \in 0..QuietMax
    BY DEF TypeOK
  <2>2. quiet' = Smaller(quiet + 1, QuietMax)
    BY DEF Tick
  <2> QED
    BY <2>1, <2>2, QuietMaxNat DEF Smaller
<1>3. /\ extAge \in Nat /\ extAge' \in Nat /\ extAge' <= extAge + 1
      /\ (extAge' < Timeout => extAge' = extAge + 1 /\ extAge < Timeout)
  BY DEF Tick, TypeOK, Smaller
<1>4. /\ clock \in Nat /\ clock' = clock + 1
      /\ UNCHANGED <<last, extKw, phase>>
  BY DEF Tick, TypeOK
<1>5. \A i \in 1..Len(net') : Smaller(quiet', NetDelay) <= net'[i].age
  <2>1. TAKE i \in 1..Len(net')
  <2>2. net[i].age \in 0..NetDelay /\ Smaller(quiet, NetDelay) <= net[i].age
    BY <1>1 DEF Delivery
  <2> QED
    BY <1>1, <1>2, <2>2 DEF Smaller
<1>6. net' # <<>> =>
        quiet' <= NetDelay + (IF phase' # "sleep" THEN clock'
                              ELSE IF clock' = 0 THEN PostTimeout ELSE 0)
  <2> SUFFICES ASSUME net' # <<>>
               PROVE  quiet' <= NetDelay + (IF phase # "sleep" THEN clock + 1 ELSE 0)
    BY <1>4
  <2>1. CASE phase # "sleep"
    BY <1>1, <1>2, <1>4, <2>1 DEF Delivery
  <2>2. CASE phase = "sleep"
    <3>1. 1 \in 1..Len(net) /\ net[1].age < NetDelay /\ net[1].age \in Nat
      BY <1>1, <2>2 DEF Tick
    <3>2. Smaller(quiet, NetDelay) <= net[1].age
      BY <3>1 DEF Delivery
    <3> QED
      BY <1>2, <2>2, <3>1, <3>2 DEF Smaller
  <2> QED
    BY <2>1, <2>2
<1>7. last' # None => IF net' = <<>> THEN extKw' = last' ELSE net'[Len(net')].kw = last'
  <2>1. net # <<>> => Len(net) \in 1..Len(net)
    BY <1>1
  <2> QED
    BY <1>1, <1>4, <2>1 DEF Delivery
<1>8. extKw' # None /\ net' = <<>> => extAge' <= quiet'
  BY <1>1, <1>2, <1>3, <1>4, QuietMaxNat DEF Delivery, Tick, TypeOK, Smaller
<1>9. extKw' # None /\ extAge' < Timeout => quiet' <= extAge' + Longest
  BY <1>2, <1>3, <1>4 DEF Delivery, Longest
<1> QED
  BY <1>1, <1>4, <1>5, <1>6, <1>7, <1>8, <1>9 DEF Delivery

\* The messages keep to their time.
LEMMA DeliveryStep ==
    ASSUME TypeOK, OnlySilence, Forwarded, Delivery, [Next]_vars
    PROVE  Delivery'
<1> USE Timings DEF TypeOK, Delivery
<1>1. CASE External
  BY <1>1, DeliveryExternal
<1>2. CASE OnExternal
  BY <1>2, DeliveryOnExternal
<1>3. CASE Tick
  BY <1>3, DeliveryTick
<1>4. CASE BeginTick
  <2>1. UNCHANGED <<net, last, quiet, extKw, extAge>>
    BY <1>4 DEF BeginTick
  <2>2. net' # <<>> => quiet' <= NetDelay
    BY <1>4, <2>1 DEF BeginTick
  <2>3. clock' = 0 /\ quiet' \in Nat
    BY <1>4 DEF BeginTick
  <2> QED
    BY <2>1, <2>2, <2>3
<1>5. CASE Apply
  BY <1>5 DEF Apply
<1>6. CASE Answer
  <2>1. /\ UNCHANGED <<net, last, quiet, extKw, extAge>>
        /\ phase = "applied" /\ clock <= PostTimeout /\ phase' = "sleep" /\ clock' = 0
    BY <1>6 DEF Answer, EndTick
  <2> QED
    BY <2>1
<1>7. CASE UNCHANGED vars
  BY <1>7 DEF vars
<1> QED
  BY <1>1, <1>2, <1>3, <1>4, <1>5, <1>6, <1>7, SilenceSteps

\* The effective target reaches the controller in time.
LEMMA FollowingStep ==
    ASSUME TypeOK, OnlySilence, Forwarded, Following, [Next]_vars
    PROVE  Following'
<1> USE Timings
<1>1. Undisturbed /\ clock \in Nat /\ extAge \in Nat
  BY DEF OnlySilence, Undisturbed, TypeOK
<1>2. CASE External
  BY <1>2 DEF External, Following, Fresh
<1>3. CASE OnExternal
  BY <1>1, <1>3 DEF OnExternal, Following
<1>4. CASE BeginTick
  <2>1. /\ UNCHANGED <<extKw, extAge, pcc, forwarded>>
        /\ phase = "sleep" /\ clock = Interval /\ clock' = 0
    BY <1>4 DEF BeginTick
  <2>2. Fresh' <=> Fresh
    BY <2>1 DEF Fresh
  <2>3. CASE MustForward
    BY <1>1, <1>4, <2>1, <2>2, <2>3 DEF BeginTick, Following, Effective
  <2>4. CASE ~MustForward
    <3>1. phase' = "sleep" /\ forwarded' # None /\ (Fresh => pcc = extKw)
      BY <1>1, <1>4, <2>1, <2>4 DEF BeginTick, MustForward, Effective, Forwarded
    <3> QED
      BY <2>1, <2>2, <3>1 DEF Following
  <2> QED
    BY <2>3, <2>4
<1>5. CASE Apply
  BY <1>5 DEF Apply, Following, Fresh
<1>6. CASE Answer
  BY <1>1, <1>6 DEF Answer, EndTick, Following, Fresh, Forwarded
<1>7. CASE Tick
  <2>1. /\ UNCHANGED <<extKw, pcc, post, phase, forwarded>>
        /\ clock' = clock + 1
        /\ extAge' = Smaller(extAge + 1, Timeout)
    BY <1>7 DEF Tick
  <2>2. Fresh' => Fresh /\ extAge' = extAge + 1
    BY <1>1, <2>1 DEF Fresh, Smaller
  <2> QED
    BY <1>1, <2>1, <2>2 DEF Following
<1>8. CASE UNCHANGED vars
  BY <1>8 DEF vars, Following, Fresh
<1> QED
  BY <1>2, <1>3, <1>4, <1>5, <1>6, <1>7, <1>8, SilenceSteps

\* Nor does a target stay in force for long after the silence has begun.  (A
\* POST of the external target may be in progress when the timeout expires, but
\* not one that began after the first tick that could send it.)
LEMMA ReleasingStep ==
    ASSUME TypeOK, OnlySilence, Forwarded, Delivery, Following, Releasing, [Next]_vars,
           Interval + PostTimeout <= Timeout
    PROVE  Releasing'
<1> USE Timings DEF Longest
<1>1. /\ Undisturbed
      /\ clock \in Nat /\ extAge \in Nat /\ quiet \in Nat
      /\ clock <= (IF phase = "sleep" THEN Interval ELSE PostTimeout)
      /\ phase \in {"sleep", "post", "applied"}
  BY DEF OnlySilence, Undisturbed, TypeOK
<1>2. CASE External
  <2>1. quiet' = 0 /\ UNCHANGED <<phase, clock, post, pcc>>
    BY <1>2 DEF External
  <2> QED
    BY <1>1, <2>1 DEF Releasing
<1>3. CASE OnExternal
  BY <1>3 DEF OnExternal, Releasing
<1>4. CASE BeginTick
  <2>1. /\ UNCHANGED <<extKw, extAge, pcc, forwarded, quiet>>
        /\ phase = "sleep" /\ clock = Interval /\ clock' = 0
    BY <1>4 DEF BeginTick
  <2>2. Fresh => quiet <= extAge + Longest /\ extAge < Timeout
    BY DEF Fresh, Delivery
  <2>3. Effective # SelfKw => Fresh
    BY DEF Effective
  <2>4. CASE ~MustForward
    <3>1. phase' = "sleep" /\ pcc = Effective
      BY <1>1, <1>4, <2>1, <2>4 DEF BeginTick, MustForward, Forwarded
    <3> QED
      BY <1>1, <2>1, <2>2, <2>3, <3>1 DEF Releasing
  <2>5. CASE MustForward
    <3>1. phase' = "post" /\ post' = Effective
      BY <1>4, <2>5 DEF BeginTick
    <3>2. Fresh => extAge <= Interval
      <4>1. Fresh => pcc # extKw \/ forwarded = None
        BY <1>1, <2>1, <2>5 DEF MustForward, Effective, Forwarded
      <4> QED
        BY <1>1, <2>1, <4>1 DEF Following
    <3> QED
      BY <1>1, <2>1, <2>2, <2>3, <3>1, <3>2 DEF Releasing
  <2> QED
    BY <2>4, <2>5
<1>5. CASE Apply
  <2>1. /\ phase = "post" /\ phase' = "applied" /\ pcc' = post
        /\ UNCHANGED <<clock, quiet, post>>
    BY <1>5 DEF Apply
  <2> QED
    BY <1>1, <2>1 DEF Releasing
<1>6. CASE Answer
  <2>1. /\ phase = "applied" /\ phase' = "sleep" /\ clock' = 0
        /\ pcc = post /\ UNCHANGED <<pcc, quiet, post>>
    BY <1>1, <1>6 DEF Answer, EndTick, Forwarded
  <2> QED
    BY <1>1, <2>1 DEF Releasing
<1>7. CASE Tick
  <2>1. /\ UNCHANGED <<pcc, post, phase>>
        /\ clock' = clock + 1
        /\ quiet' = Smaller(quiet + 1, QuietMax)
    BY <1>7 DEF Tick
  <2>2. quiet' <= quiet + 1 /\ quiet' \in Nat
    BY <1>1, <2>1, QuietMaxNat DEF Smaller
  <2> QED
    BY <1>1, <2>1, <2>2 DEF Releasing
<1>8. CASE UNCHANGED vars
  BY <1>8 DEF vars, Releasing
<1> QED
  BY <1>2, <1>3, <1>4, <1>5, <1>6, <1>7, <1>8, SilenceSteps

\* The invariant of a gateway that meets nothing but silence, by parts.
LEMMA SpecDelivery ==
    Spec => [](TypeOK /\ Forwarded /\ (OnlySilence => Delivery /\ Following))
<1> DEFINE Inv == Forwarded /\ (OnlySilence => Delivery /\ Following)
<1>1. Init => Inv
  <2> SUFFICES ASSUME Init PROVE Inv
    OBVIOUS
  <2>1. Delivery
    BY Timings DEF Init, Delivery
  <2>2. Following
    BY DEF Init, Following, Fresh
  <2> QED
    BY <2>1, <2>2, GatewayAssumption DEF Init, Forwarded
<1>2. TypeOK /\ Inv /\ [Next]_vars => Inv'
  <2> SUFFICES ASSUME TypeOK, Inv, [Next]_vars PROVE Inv'
    OBVIOUS
  <2>1. Forwarded'
    BY ForwardedStep
  <2>2. OnlySilence' => OnlySilence
    BY FaultsStay DEF OnlySilence
  <2>3. OnlySilence => Delivery' /\ Following'
    BY DeliveryStep, FollowingStep
  <2> QED
    BY <2>1, <2>2, <2>3
<1> QED
  BY <1>1, <1>2, SpecTypeOK, PTL DEF Spec

\* A target the external EMS sent is the one the controller regulates to,
\* within the time it may be on its way, wait for the lock and the next tick,
\* and be posted; for every timing.
THEOREM SpecFollowsInTime == Spec => []FollowsInTime
<1>1. TypeOK /\ Forwarded /\ (OnlySilence => Delivery /\ Following) => FollowsInTime
  <2> SUFFICES ASSUME TypeOK, Delivery, Following,
                      last # None, quiet \in (Reach + 1)..(Timeout - 1)
               PROVE  pcc = last
    BY DEF FollowsInTime, OnlySilence
  <2> USE Timings DEF Reach, Longest
  <2>1. /\ quiet \in Nat /\ extAge \in Nat /\ clock \in Nat
        /\ clock <= (IF phase = "sleep" THEN Interval ELSE PostTimeout)
    BY DEF TypeOK
  <2>2. net = <<>>
    BY <2>1 DEF Delivery
  <2>3. extKw = last /\ extAge <= quiet
    BY <2>2 DEF Delivery
  <2>4. Fresh /\ quiet <= extAge + Longest
    BY <2>1, <2>3 DEF Fresh, Delivery
  <2> QED
    BY <2>1, <2>3, <2>4 DEF Following
<1> QED
  BY <1>1, SpecDelivery, PTL

\* And after a silence the controller regulates to the self-consumption target
\* within that time from the timeout. (A tick and its POST are together no
\* longer than the timeout: otherwise a POST of the external target can begin
\* before the timeout and keep the gateway from taking over in time.)
THEOREM SpecTakesOverInTime ==
    ASSUME Interval + PostTimeout <= Timeout
    PROVE  Spec => []TakesOverInTime
<1>1. Init => (OnlySilence => Releasing)
  BY Timings DEF Init, Releasing, Longest, Smaller
<1>2. /\ TypeOK /\ Forwarded /\ (OnlySilence => Delivery /\ Following)
      /\ (OnlySilence => Releasing) /\ [Next]_vars
      => (OnlySilence => Releasing)'
  BY FaultsStay, ReleasingStep DEF OnlySilence
<1>3. TypeOK /\ (OnlySilence => Releasing) => TakesOverInTime
  <2> SUFFICES ASSUME TypeOK, Releasing, quiet > Timeout + Reach
               PROVE  pcc = SelfKw
    BY DEF TakesOverInTime, OnlySilence
  <2> QED
    BY Timings DEF TypeOK, Releasing, Reach, Longest
<1> QED
  BY <1>1, <1>2, <1>3, SpecDelivery, PTL DEF Spec

================================================================================
