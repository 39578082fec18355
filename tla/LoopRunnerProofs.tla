--------------------------- MODULE LoopRunnerProofs ----------------------------
(***************************************************************************)
(* Theorems about the life of the control-loop thread, for any number of   *)
(* requests and threads and any timings: what holds of calm behaviours,    *)
(* with one request at a time and no cycle as long as the join.            *)
(***************************************************************************)
EXTENDS LoopRunner, FiniteSetTheorems, TLAPS

USE DEF runner, timing, handlers, asking

--------------------------------------------------------------------------------
(* Type correctness *)

\* The timings, one by one.
LEMMA Timings ==
    /\ Period \in Nat /\ Period > 0 /\ JoinTimeout \in Nat
    /\ MaxCycle \in Nat /\ CalmCycle \in Nat /\ CalmCycle < JoinTimeout
    /\ None \notin Threads
  BY LoopRunnerAssumption

\* The bound of a cycle does not change within a behaviour.
LEMMA Limits == calm \in BOOLEAN => Longest \in Nat /\ (calm => Longest = CalmCycle)
  BY Timings DEF Longest

\* A thread's step preserves the types.
LEMMA ThreadTypes == ASSUME TypeOK, NEW t \in Threads, ThreadStep(t) PROVE TypeOK'
<1> USE Timings, Limits DEF TypeOK
<1>1. calm' = calm /\ Longest' = Longest
  BY DEF ThreadStep, TestStop, EndCycle, WakeUp, Longest
<1>2. CASE TestStop(t)
  <2>1. starts[t] \in (0..Period) \X (0..Period)
    OBVIOUS
  <2>2. <<0, starts[t][1]>> \in (0..Period) \X (0..Period)
    BY <2>1
  <2>3. starts' \in [Threads -> (0..Period) \X (0..Period)]
    <3>1. starts' \in {starts, [starts EXCEPT ![t] = <<0, starts[t][1]>>]}
      BY <1>2 DEF TestStop
    <3> QED
      BY <2>2, <3>1
  <2>4. 0 \in 0..Longest
    OBVIOUS
  <2>5. /\ loop' \in [Threads -> {"new", "test", "cycle", "wait", "dead"}]
        /\ busy' \in [Threads -> 0..Longest]
    BY <1>2, <2>4 DEF TestStop
  <2> HIDE DEF TypeOK
  <2> QED
    BY <1>1, <1>2, <2>3, <2>5 DEF TestStop, TypeOK
<1>3. CASE EndCycle(t)
  BY <1>1, <1>3 DEF EndCycle, Resync
<1>4. CASE WakeUp(t)
  BY <1>1, <1>4 DEF WakeUp
<1> QED
  BY <1>2, <1>3, <1>4 DEF ThreadStep

\* So does a step of a request.
LEMMA RequestTypes ==
    ASSUME TypeOK, NEW r \in Requests, Start(r) \/ Stop(r) PROVE TypeOK'
<1> USE Timings, Limits DEF TypeOK
<1>1. CASE StartCheck(r)
  BY <1>1 DEF StartCheck, Longest
<1>2. CASE StartClear(r)
  BY <1>2 DEF StartClear, Longest
<1>3. CASE StartCreate(r)
  BY <1>3 DEF StartCreate, Longest, Unused
<1>4. CASE StartLaunch(r)
  <2>1. <<Period, Period>> \in (0..Period) \X (0..Period)
    OBVIOUS
  <2> QED
    BY <1>4, <2>1 DEF StartLaunch, Longest
<1>5. CASE StopCheck(r)
  BY <1>5 DEF StopCheck, Longest
<1>6. CASE StopSet(r)
  BY <1>6 DEF StopSet, Longest
<1>7. CASE StopJoin(r)
  BY <1>7 DEF StopJoin, Longest
<1>8. CASE StopJoined(r)
  BY <1>8 DEF StopJoined, Longest
<1>9. CASE StopDrop(r)
  BY <1>9 DEF StopDrop, Longest
<1> QED
  BY <1>1, <1>2, <1>3, <1>4, <1>5, <1>6, <1>7, <1>8, <1>9 DEF Start, Stop

LEMMA TickTypes == ASSUME TypeOK, Tick PROVE TypeOK'
<1> USE Timings, Limits DEF TypeOK
<1>1. calm' = calm /\ Longest' = Longest
  BY DEF Tick, Longest
<1>2. due' \in [Threads -> Int]
  BY DEF Tick
<1>3. busy' \in [Threads -> 0..Longest]
  BY DEF Tick
<1>4. starts' \in [Threads -> (0..Period) \X (0..Period)]
  <2>1. \A t \in Threads : starts[t][1] \in 0..Period /\ starts[t][2] \in 0..Period
    OBVIOUS
  <2>2. \A t \in Threads :
           <<IF starts[t][1] < Period THEN starts[t][1] + 1 ELSE Period,
             IF starts[t][2] < Period THEN starts[t][2] + 1 ELSE Period>>
           \in (0..Period) \X (0..Period)
    BY <2>1
  <2> QED
    BY <2>2 DEF Tick
<1>5. waited' \in [Requests -> 0..JoinTimeout]
  BY DEF Tick
<1> QED
  BY <1>1, <1>2, <1>3, <1>4, <1>5 DEF Tick

LEMMA StepTypes == ASSUME TypeOK, [Next]_vars PROVE TypeOK'
<1>1. CASE Confirm
  <2>1. overtaken' \in BOOLEAN
    BY <1>1, Zenon DEF Confirm, Starting
  <2> QED
    BY <1>1, <2>1 DEF Confirm, TypeOK, Longest
<1>2. CASE Commit
  BY <1>2 DEF Commit, TypeOK, Longest
<1>3. CASE UNCHANGED vars
  BY <1>3 DEF vars, TypeOK, Longest
<1> QED
  BY <1>1, <1>2, <1>3, ThreadTypes, RequestTypes, TickTypes DEF Next

LEMMA InitTypes == Init => TypeOK
<1> SUFFICES ASSUME Init PROVE TypeOK
  OBVIOUS
<1>1. starts \in [Threads -> (0..Period) \X (0..Period)]
  <2>1. <<Period, Period>> \in (0..Period) \X (0..Period)
    BY Timings
  <2> QED
    BY <2>1 DEF Init
<1>2. busy \in [Threads -> 0..Longest] /\ waited \in [Requests -> 0..JoinTimeout]
  BY Timings, Limits DEF Init
<1>3. loop \in [Threads -> {"new", "test", "cycle", "wait", "dead"}]
  BY DEF Init
<1>4. due \in [Threads -> Int]
  BY DEF Init
<1>5. pc \in [Requests -> {"idle", "clear", "create", "launch",
                           "set", "join", "joining", "drop"}]
  BY DEF Init
<1>6. joining \in [Requests -> Threads \cup {None}]
  BY DEF Init
<1>7. calm \in BOOLEAN /\ thread = None /\ stopSet = FALSE /\ gate = "idle" /\ overtaken = FALSE
  BY DEF Init
<1> QED
  BY <1>1, <1>2, <1>3, <1>4, <1>5, <1>6, <1>7 DEF TypeOK

\* Every variable has its type in every reachable state.
THEOREM SpecTypeOK == Spec => []TypeOK
  BY InitTypes, StepTypes, PTL DEF Spec

--------------------------------------------------------------------------------
(* Calm behaviours: where the only request is, and what it has left behind *)

\* No loop, and none expected; a loop that goes on; one that was told to stop.
Stopped == thread = None /\ Alive = {}
Going == thread \in Threads /\ Alive = {thread} /\ ~stopSet
Stopping ==
    /\ stopSet /\ thread \in Threads /\ loop[thread] # "new"
    /\ Alive \subseteq {thread}

\* A join has not waited longer than the cycle it waits for has lasted.
Waits(r) ==
    /\ joining[r] = thread
    /\ thread \in Alive => waited[r] <= CalmCycle
    /\ loop[thread] = "cycle" => waited[r] <= busy[thread]

\* What a request at pc[r] can rely on.
Relies(r) ==
    /\ pc[r] \in {"clear", "create"} => Stopped
    /\ pc[r] = "create" => ~stopSet
    /\ pc[r] = "launch" =>
          Alive = {} /\ thread \in Threads /\ loop[thread] = "new" /\ ~stopSet
    /\ pc[r] = "set" => Going
    /\ pc[r] \in {"join", "joining"} => Stopping
    /\ pc[r] = "joining" => Waits(r)
    /\ pc[r] = "drop" => Alive = {}

AllIdle == \A r \in Requests : pc[r] = "idle"

\* What core was told is still so, if no start has come in between.
Answered == gate = "confirmed" /\ ~overtaken => Alive = {} /\ ~Starting

CalmInv ==
    calm =>
        /\ \A r, s \in Requests : pc[r] # "idle" /\ pc[s] # "idle" => r = s
        /\ Answered
        /\ AllIdle => Stopped \/ Going
        /\ \A r \in Requests : Relies(r)

\* The invariant gives what the state of the runner promises.
LEMMA CalmGives == ASSUME TypeOK, CalmInv, calm PROVE OneLoop /\ StoppedIsStopped
<1>1. Stopped \/ Going \/ Stopping \/ Alive = {}
  <2>1. CASE AllIdle
    BY <2>1 DEF CalmInv
  <2>2. CASE ~AllIdle
    <3>1. PICK r \in Requests : pc[r] # "idle"
      BY <2>2 DEF AllIdle
    <3>2. Relies(r)
      BY DEF CalmInv
    <3> QED
      BY <3>1, <3>2 DEF Relies, TypeOK
  <2> QED
    BY <2>1, <2>2
<1>2. Alive = {} \/ (thread \in Threads /\ Alive = {thread})
  BY <1>1 DEF Stopped, Going, Stopping
<1>3. OneLoop
  <2>1. Cardinality(Alive) \in {0, 1}
    BY <1>2, FS_EmptySet, FS_Singleton
  <2> QED
    BY <2>1 DEF OneLoop
<1>4. StoppedIsStopped
  BY <1>2, Timings DEF StoppedIsStopped, Running
<1> QED
  BY <1>3, <1>4

\* A request begins only where nothing else is under way.
LEMMA Begins ==
    ASSUME CalmInv, calm, Free
    PROVE  AllIdle /\ (Stopped \/ Going)
  BY DEF CalmInv, Free, AllIdle

\* A thread's step, in a calm behaviour.
LEMMA ThreadCalm ==
    ASSUME TypeOK, CalmInv, NEW t \in Threads, ThreadStep(t) PROVE CalmInv'
<1> SUFFICES ASSUME calm PROVE CalmInv'
  BY DEF ThreadStep, TestStop, EndCycle, WakeUp, CalmInv
<1>1. /\ UNCHANGED <<calm, thread, stopSet, pc, joining, waited, gate, overtaken>>
      /\ t \in Alive
      /\ loop' = [loop EXCEPT ![t] = loop'[t]]
      /\ loop'[t] \in {"test", "cycle", "wait", "dead"}
      /\ loop'[t] = "dead" <=> (loop[t] = "test" /\ stopSet)
      /\ loop'[t] = "cycle" => loop[t] = "test" /\ ~stopSet
      /\ loop'[t] # "cycle" => busy' = busy
  BY DEF ThreadStep, TestStop, EndCycle, WakeUp, TypeOK, Alive
<1>2. Alive' = IF loop'[t] = "dead" THEN Alive \ {t} ELSE Alive
  BY <1>1 DEF Alive, TypeOK
<1>3. Stopped => Stopped'
  BY <1>1, <1>2 DEF Stopped
<1>4. Going => Going'
  BY <1>1, <1>2 DEF Going
<1>5. Stopping => Stopping'
  BY <1>1, <1>2 DEF Stopping, TypeOK
<1>6. Alive = {} => FALSE
  BY <1>1
<1>7. ASSUME NEW r \in Requests PROVE Relies(r)'
  <2>1. Relies(r)
    BY DEF CalmInv
  <2>2. pc[r] = "joining" => Waits(r)'
    <3> SUFFICES ASSUME pc[r] = "joining" PROVE Waits(r)'
      OBVIOUS
    <3>1. Stopping /\ Waits(r) /\ thread = t
      BY <1>1, <2>1 DEF Relies, Stopping
    <3> QED
      BY <1>1, <1>2, <3>1 DEF Waits, Stopping
  <2> QED
    BY <1>1, <1>3, <1>4, <1>5, <1>6, <2>1, <2>2 DEF Relies, Stopped
<1>8. Answered => Answered'
  BY <1>1, <1>6 DEF Answered
<1> QED
  BY <1>1, <1>3, <1>4, <1>7, <1>8 DEF CalmInv, AllIdle

\* A step of a request leaves core's answer true, or is one of a start.
LEMMA RequestAnswered ==
    ASSUME TypeOK, Answered, NEW r \in Requests, Start(r) \/ Stop(r) PROVE Answered'
<1> SUFFICES ASSUME (gate = "confirmed" /\ ~overtaken)' PROVE (Alive = {} /\ ~Starting)'
  BY DEF Answered
<1>1. ~StartCheck(r)
  BY DEF StartCheck
<1>2. UNCHANGED <<gate, overtaken>>
  BY <1>1 DEF Start, Stop, StartClear, StartCreate, StartLaunch, StopCheck, StopSet,
              StopJoin, StopJoined, StopDrop
<1>3. Alive = {} /\ ~Starting
  BY <1>2 DEF Answered
<1>4. pc[r] \notin {"clear", "create", "launch"}
  BY <1>3 DEF Starting
<1>5. Stop(r)
  BY <1>1, <1>4 DEF Start, StartClear, StartCreate, StartLaunch
<1>6. loop' = loop /\ \E p : pc' = [pc EXCEPT ![r] = p] /\ p \notin {"clear", "create", "launch"}
  BY <1>5 DEF Stop, StopCheck, StopSet, StopJoin, StopJoined, StopDrop
<1> QED
  BY <1>3, <1>6 DEF Starting, Alive, TypeOK

\* A step of a request, in a calm behaviour: it was the only one, and its steps
\* find what the step before left.
LEMMA RequestCalm ==
    ASSUME TypeOK, CalmInv, NEW r \in Requests, Start(r) \/ Stop(r) PROVE CalmInv'
<1>0. calm' = calm
  BY DEF Start, Stop, StartCheck, StartClear, StartCreate, StartLaunch, StopCheck,
         StopSet, StopJoin, StopJoined, StopDrop
<1> SUFFICES ASSUME calm PROVE CalmInv'
  BY <1>0 DEF CalmInv
<1>1. Relies(r)
  BY DEF CalmInv
<1>2. \A s \in Requests : s # r => pc[s] = "idle"
  <2>1. CASE pc[r] = "idle"
    <3>1. Free
      BY <2>1 DEF Start, Stop, StartCheck, StartClear, StartCreate, StartLaunch,
                  StopCheck, StopSet, StopJoin, StopJoined, StopDrop
    <3> QED
      BY <3>1, Begins DEF AllIdle
  <2>2. CASE pc[r] # "idle"
    BY <2>2 DEF CalmInv
  <2> QED
    BY <2>1, <2>2
<1>3. Answered'
  BY RequestAnswered DEF CalmInv
<1>4. \A s \in Requests : s # r => pc'[s] = "idle"
  BY <1>2 DEF Start, Stop, StartCheck, StartClear, StartCreate, StartLaunch,
              StopCheck, StopSet, StopJoin, StopJoined, StopDrop, TypeOK
<1>5. SUFFICES Relies(r)' /\ (pc'[r] = "idle" => Stopped' \/ Going')
  <2>1. \A s \in Requests : s # r => Relies(s)'
    BY <1>4 DEF Relies
  <2> QED
    BY <1>0, <1>3, <1>4, <1>5, <2>1 DEF CalmInv, AllIdle
<1> USE DEF TypeOK
<1>6. CASE StartCheck(r)
  <2>1. Stopped /\ pc'[r] = "clear"
    BY <1>6, Begins, Timings DEF StartCheck, Running, Stopped, Going
  <2> QED
    BY <1>6, <2>1 DEF StartCheck, Relies, Stopped, Alive
<1>7. CASE StartClear(r)
  BY <1>1, <1>7 DEF StartClear, Relies, Stopped, Alive
<1>8. CASE StartCreate(r)
  <2>1. Stopped /\ ~stopSet /\ pc'[r] = "launch"
    BY <1>1, <1>8 DEF StartCreate, Relies
  <2>2. PICK t \in Unused : thread' = t /\ loop' = [loop EXCEPT ![t] = "new"]
    BY <1>8 DEF StartCreate
  <2>3. t \in Threads /\ Alive' = {}
    BY <2>1, <2>2 DEF Unused, Stopped, Alive
  <2> QED
    BY <1>8, <2>1, <2>2, <2>3 DEF StartCreate, Relies
<1>9. CASE StartLaunch(r)
  <2>1. Alive = {} /\ thread \in Threads /\ loop[thread] = "new" /\ ~stopSet /\ pc'[r] = "idle"
    BY <1>1, <1>9 DEF StartLaunch, Relies
  <2>2. loop' = [loop EXCEPT ![thread] = "test"] /\ thread' = thread /\ stopSet' = stopSet
    BY <1>9, <2>1, Timings DEF StartLaunch, Startable
  <2>3. Alive' = {thread}
    BY <2>1, <2>2 DEF Alive
  <2> QED
    BY <2>1, <2>2, <2>3 DEF Relies, Going
<1>10. CASE StopCheck(r)
  <2>1. Going /\ pc'[r] = "set"
    BY <1>10, Begins DEF StopCheck, Running, Stopped
  <2> QED
    BY <1>10, <2>1 DEF StopCheck, Relies, Going, Alive
<1>11. CASE StopSet(r)
  <2>1. Going /\ pc'[r] = "join" /\ stopSet'
    BY <1>1, <1>11 DEF StopSet, Relies
  <2>2. Stopping'
    BY <1>11, <2>1 DEF StopSet, Going, Stopping, Alive
  <2> QED
    BY <2>1, <2>2 DEF Relies
<1>12. CASE StopJoin(r)
  <2>1. Stopping
    BY <1>1, <1>12 DEF StopJoin, Relies
  <2>2. Joinable
    BY <2>1, Timings DEF Stopping, Joinable
  <2>3. Stopping' /\ pc'[r] = "joining" /\ joining'[r] = thread' /\ waited'[r] = 0
    BY <1>12, <2>1, <2>2 DEF StopJoin, Stopping, Alive
  <2>4. busy' = busy /\ loop' = loop /\ thread' = thread
    BY <1>12 DEF StopJoin
  <2>5. loop[thread] = "cycle" => busy[thread] >= 0
    BY <2>1, Limits DEF Stopping
  <2> QED
    BY <2>3, <2>4, <2>5, Timings DEF Relies, Waits
<1>13. CASE StopJoined(r)
  <2>1. Stopping /\ Waits(r) /\ JoinOver(r) /\ pc'[r] = "drop"
    BY <1>1, <1>13 DEF StopJoined, Relies
  <2>2. thread \notin Alive
    BY <2>1, Timings DEF JoinOver, Waits, Alive
  <2> QED
    BY <1>13, <2>1, <2>2 DEF StopJoined, Relies, Stopping, Alive
<1>14. CASE StopDrop(r)
  BY <1>1, <1>14 DEF StopDrop, Relies, Stopped, Alive
<1> QED
  BY <1>6, <1>7, <1>8, <1>9, <1>10, <1>11, <1>12, <1>13, <1>14 DEF Start, Stop

\* Time passes, in a calm behaviour: a join waits no longer than the cycle lasts.
LEMMA TickCalm == ASSUME TypeOK, CalmInv, Tick PROVE CalmInv'
<1> SUFFICES ASSUME calm PROVE CalmInv'
  BY DEF Tick, CalmInv
<1>1. UNCHANGED <<calm, thread, stopSet, loop, pc, joining, gate, overtaken>> /\ Alive' = Alive
  BY DEF Tick, Alive
<1>2. ASSUME NEW r \in Requests PROVE Relies(r)'
  <2>1. Relies(r)
    BY DEF CalmInv
  <2>2. ASSUME pc[r] = "joining" PROVE Waits(r)'
    <3>1. Stopping /\ Waits(r)
      BY <2>1, <2>2 DEF Relies
    <3>2. thread \in Threads /\ waited[r] \in Nat /\ busy[thread] \in Nat
      BY <3>1, Limits DEF Stopping, TypeOK
    <3>3. ASSUME thread \in Alive
          PROVE  loop[thread] = "cycle" /\ busy[thread] < CalmCycle
      <4>1. loop[thread] \in {"test", "cycle", "wait"}
        BY <3>3 DEF Alive
      <4>2. loop[thread] # "test" /\ loop[thread] # "wait"
        BY <3>1, <3>2 DEF Tick, Stopping
      <4>3. busy[thread] < Longest
        BY <3>2, <4>1, <4>2 DEF Tick
      <4> QED
        BY <4>1, <4>2, <4>3, Limits DEF TypeOK
    <3>4. waited'[r] \in Nat /\ waited'[r] <= waited[r] + 1
      BY <3>2, Timings DEF Tick
    <3>5. loop[thread] = "cycle" => busy'[thread] = busy[thread] + 1
      BY <3>2 DEF Tick
    <3>6. loop[thread] = "cycle" => thread \in Alive
      BY <3>2 DEF Alive
    <3>7. loop[thread] = "cycle" =>
             waited'[r] <= busy'[thread] /\ waited'[r] <= CalmCycle
      BY <3>1, <3>2, <3>3, <3>4, <3>5, <3>6, Timings DEF Waits
    <3> QED
      BY <1>1, <3>1, <3>3, <3>7 DEF Waits
  <2> QED
    BY <1>1, <2>1, <2>2 DEF Relies, Stopped, Going, Stopping
<1> QED
  BY <1>1, <1>2 DEF CalmInv, Answered, Starting, AllIdle, Stopped, Going

\* Nothing but core's part has changed.
LEMMA CalmFrame ==
    ASSUME CalmInv, UNCHANGED <<calm, runner, timing, handlers>>, calm => Answered'
    PROVE  CalmInv'
  BY DEF CalmInv, AllIdle, Relies, Waits, Stopped, Going, Stopping, Alive

\* Every step preserves the invariant of calm behaviours.
LEMMA StepCalm == ASSUME TypeOK, CalmInv, [Next]_vars PROVE CalmInv'
<1>1. CASE Confirm
  <2>1. calm => Alive = {}
    BY <1>1, CalmGives DEF Confirm, Confirmed, StoppedIsStopped
  <2>2. UNCHANGED <<calm, runner, timing, handlers>> /\ overtaken' = Starting
    BY <1>1 DEF Confirm
  <2>3. calm => Answered'
    BY <2>1, <2>2 DEF Answered, Starting, Alive
  <2> QED
    BY <2>2, <2>3, CalmFrame
<1>2. CASE Commit
  <2>1. UNCHANGED <<calm, runner, timing, handlers>> /\ Answered'
    BY <1>2 DEF Commit, Answered
  <2> QED
    BY <2>1, CalmFrame
<1>3. CASE UNCHANGED vars
  <2>1. UNCHANGED <<calm, runner, timing, handlers>> /\ (Answered => Answered')
    BY <1>3 DEF vars, Answered, Starting, Alive
  <2> QED
    BY <2>1, CalmFrame DEF CalmInv
<1> QED
  BY <1>1, <1>2, <1>3, ThreadCalm, RequestCalm, TickCalm DEF Next

LEMMA InitCalm == Init => CalmInv
  BY DEF Init, CalmInv, Answered, AllIdle, Relies, Stopped, Alive

LEMMA Calm == Spec => [](TypeOK /\ CalmInv)
<1>1. Init => TypeOK /\ CalmInv
  BY InitTypes, InitCalm
<1>2. (TypeOK /\ CalmInv) /\ [Next]_vars => (TypeOK /\ CalmInv)'
  BY StepTypes, StepCalm
<1> QED
  BY <1>1, <1>2, PTL DEF Spec

--------------------------------------------------------------------------------
(* The theorems about calm behaviours *)

\* At most one control loop, and "stopped" is true.
THEOREM SpecCalmIsSafe == Spec => []CalmIsSafe
<1>1. TypeOK /\ CalmInv => CalmIsSafe
  BY CalmGives DEF CalmIsSafe
<1> QED
  BY <1>1, Calm, PTL

\* No structural change is committed under a running loop, unless a start was at
\* work between core's question and its commit.
THEOREM SpecCommitWhenStopped == Spec => CommitWhenStopped
<1>1. TypeOK /\ CalmInv /\ [Next]_vars
        => [calm /\ gate = "confirmed" /\ gate' = "idle" => overtaken \/ Alive = {}]_vars
  BY DEF CalmInv, Answered
<1> QED
  BY <1>1, Calm, PTL DEF Spec, CommitWhenStopped

--------------------------------------------------------------------------------
(* The schedule *)

\* Where the next tick is, by what has passed since the last two cycles began:
\* a cycle that is over has the next one at least a period after the one before
\* it, however late it was.
Scheduled(t) ==
    /\ loop[t] = "cycle" => starts[t][2] = Period \/ due[t] + starts[t][2] >= 0
    /\ loop[t] \in {"wait", "test"} => due[t] >= 0 /\ due[t] + starts[t][2] >= Period
    /\ loop[t] = "test" /\ ~stopSet => due[t] <= 0

Schedule == calm => \A t \in Threads : Scheduled(t)

LEMMA StepScheduled ==
    ASSUME TypeOK, CalmInv, Schedule, [Next]_vars PROVE Schedule'
<1> SUFFICES ASSUME calm, NEW t \in Threads PROVE Scheduled(t)'
  <2>1. calm' = calm
    BY DEF Next, vars, ThreadStep, TestStop, EndCycle, WakeUp, Start, Stop, StartCheck,
           StartClear, StartCreate, StartLaunch, StopCheck, StopSet, StopJoin,
           StopJoined, StopDrop, Confirm, Commit, Tick
  <2> QED
    BY <2>1 DEF Schedule
<1>1. Scheduled(t)
  BY DEF Schedule
<1>2. /\ due[t] \in Int /\ starts[t] \in (0..Period) \X (0..Period)
      /\ starts[t][1] \in 0..Period /\ starts[t][2] \in 0..Period
  BY DEF TypeOK
<1> DEFINE same == loop'[t] = loop[t] /\ due'[t] = due[t] /\ starts'[t] = starts[t]
<1>3. ASSUME same, stopSet' = stopSet \/ stopSet' PROVE Scheduled(t)'
  BY <1>1, <1>3 DEF Scheduled
<1>4. ASSUME NEW u \in Threads, ThreadStep(u) PROVE Scheduled(t)'
  <2>1. CASE u # t
    BY <1>3, <1>4, <2>1 DEF ThreadStep, TestStop, EndCycle, WakeUp, TypeOK
  <2>2. CASE u = t /\ TestStop(t)
    <3>1. CASE stopSet
      BY <2>2, <3>1 DEF TestStop, Scheduled, TypeOK
    <3>2. CASE ~stopSet
      <4>1. loop[t] = "test" /\ loop'[t] = "cycle" /\ due'[t] = due[t]
              /\ starts'[t] = <<0, starts[t][1]>>
        BY <2>2, <3>2 DEF TestStop, TypeOK
      <4>2. due[t] >= 0
        BY <1>1, <4>1 DEF Scheduled
      <4> QED
        BY <1>2, <4>1, <4>2 DEF Scheduled
    <3> QED
      BY <3>1, <3>2
  <2>3. CASE u = t /\ EndCycle(t)
    <3>1. loop[t] = "cycle" /\ loop'[t] = "wait" /\ due'[t] = Resync(due[t] + Period)
            /\ starts'[t] = starts[t]
      BY <2>3 DEF EndCycle, TypeOK
    <3> QED
      BY <1>1, <1>2, <3>1, Timings DEF Scheduled, Resync
  <2>4. CASE u = t /\ WakeUp(t)
    <3>1. loop[t] = "wait" /\ loop'[t] = "test" /\ due'[t] = due[t] /\ starts'[t] = starts[t]
            /\ stopSet' = stopSet /\ (stopSet \/ due[t] <= 0)
      BY <2>4 DEF WakeUp, TypeOK
    <3> QED
      BY <1>1, <3>1 DEF Scheduled
  <2> QED
    BY <1>4, <2>1, <2>2, <2>3, <2>4 DEF ThreadStep
<1>5. ASSUME NEW r \in Requests, Start(r) \/ Stop(r) PROVE Scheduled(t)'
  <2>1. CASE StartClear(r)
    <3>1. Alive = {} /\ same
      BY <2>1 DEF StartClear, CalmInv, Relies, Stopped
    <3> QED
      BY <3>1 DEF Alive, Scheduled
  <2>2. CASE StartCreate(r)
    <3>1. PICK u \in Unused : loop' = [loop EXCEPT ![u] = "new"]
      BY <2>2 DEF StartCreate
    <3>2. loop'[t] = "new" \/ same
      BY <2>2, <3>1 DEF StartCreate, TypeOK
    <3>3. stopSet' = stopSet
      BY <2>2 DEF StartCreate
    <3> QED
      BY <1>3, <3>2, <3>3 DEF Scheduled
  <2>3. CASE StartLaunch(r)
    <3>1. stopSet' = stopSet
      BY <2>3 DEF StartLaunch
    <3>2. same \/ (loop'[t] = "test" /\ due'[t] = 0 /\ starts'[t] = <<Period, Period>>)
      BY <2>3 DEF StartLaunch, Startable, TypeOK
    <3> QED
      BY <1>3, <3>1, <3>2, Timings DEF Scheduled
  <2>4. CASE StartCheck(r) \/ Stop(r)
    <3>1. same /\ (stopSet' = stopSet \/ stopSet')
      BY <2>4 DEF StartCheck, Stop, StopCheck, StopSet, StopJoin, StopJoined, StopDrop
    <3> QED
      BY <1>3, <3>1
  <2> QED
    BY <1>5, <2>1, <2>2, <2>3, <2>4 DEF Start
<1>6. CASE Tick
  <2>1. loop' = loop /\ stopSet' = stopSet /\ loop[t] # "test"
    BY <1>6 DEF Tick
  <2>2. due'[t] = (IF t \in Alive THEN due[t] - 1 ELSE due[t])
    BY <1>6 DEF Tick
  <2>3. starts'[t][2] = IF starts[t][2] < Period THEN starts[t][2] + 1 ELSE Period
    BY <1>6 DEF Tick
  <2>4. loop[t] = "wait" => due[t] > 0
    BY <1>6 DEF Tick
  <2>5. loop[t] \in {"cycle", "wait"} => t \in Alive
    BY DEF Alive
  <2> QED
    BY <1>1, <1>2, <2>1, <2>2, <2>3, <2>4, <2>5, Timings DEF Scheduled
<1>7. CASE Confirm \/ Commit \/ UNCHANGED vars
  BY <1>3, <1>7 DEF Confirm, Commit, vars
<1> QED
  BY <1>4, <1>5, <1>6, <1>7 DEF Next

LEMMA InitScheduled == Init => Schedule
  BY DEF Init, Schedule, Scheduled

\* However late a cycle was, the missed ticks are dropped: no three cycles of a
\* loop begin within one period.
THEOREM SpecNoBurst == Spec => NoBurst
<1>1. TypeOK /\ CalmInv /\ Schedule /\ [Next]_vars
        => [calm => \A t \in Threads : loop[t] = "test" /\ loop'[t] = "cycle"
                => starts[t][2] >= Period]_vars
  <2> SUFFICES ASSUME TypeOK, Schedule, Next, calm, NEW t \in Threads,
                      loop[t] = "test", loop'[t] = "cycle"
               PROVE  starts[t][2] >= Period
    OBVIOUS
  <2>1. ~stopSet
    BY DEF Next, ThreadStep, TestStop, EndCycle, WakeUp, Start, Stop, StartCheck,
           StartClear, StartCreate, StartLaunch, StopCheck, StopSet, StopJoin,
           StopJoined, StopDrop, Confirm, Commit, Tick, TypeOK
  <2>2. due[t] \in Int /\ starts[t][2] \in 0..Period
    BY DEF TypeOK
  <2> QED
    BY <2>1, <2>2, Timings DEF Schedule, Scheduled
<1>2. Schedule /\ TypeOK /\ CalmInv /\ [Next]_vars => Schedule'
  BY StepScheduled
<1> QED
  BY <1>1, <1>2, InitScheduled, Calm, PTL DEF Spec, NoBurst
================================================================================
