------------------------------- MODULE LoopRunner ------------------------------
(***************************************************************************)
(* The life of the control-loop thread: LoopRunner's start, stop and state *)
(* as HTTP requests call them, the thread's own schedule, and core's gate, *)
(* which asks for the state before it commits a structural change.         *)
(*                                                                         *)
(* Handlers run in a thread pool, so two requests may interleave at every  *)
(* read or write of the runner's attributes; a step of a handler is one    *)
(* such read or write.  A control cycle (ControlLoop) is here an interval  *)
(* of time during which the thread owns the ControlLoop object.            *)
(***************************************************************************)
EXTENDS Integers, FiniteSets

CONSTANTS
    Requests,     \* HTTP handlers that may be at work
    Threads,      \* thread objects
    Period,       \* update_period, in ticks
    JoinTimeout,  \* timeout of the join in stop: five periods
    MaxCycle,     \* longest run_once, in ticks
    CalmCycle,    \* longest run_once of a calm behaviour, shorter than the join
    None          \* Python's None

ASSUME LoopRunnerAssumption ==
    /\ Period \in Nat \ {0}
    /\ JoinTimeout \in Nat \ {0}
    /\ MaxCycle \in Nat
    /\ CalmCycle \in Nat /\ CalmCycle < JoinTimeout
    /\ None \notin Threads

VARIABLES
    calm,     \* no two starts or stops overlap and no cycle lasts longer than
              \* CalmCycle; never changes
    thread,   \* LoopRunner._thread
    stopSet,  \* LoopRunner._stop is set
    loop,     \* what each thread object is at
    due,      \* next_tick minus the present, per thread
    busy,     \* ticks its cycle has lasted, per thread
    starts,   \* cycles started less than a period ago, as their ages (history)
    pc,       \* where each request is
    joining,  \* the thread a stop request waits for
    waited,   \* ticks it has waited
    gate,     \* core's put_assets: "idle", or "confirmed" that the loop is stopped
    overtaken \* a start has been at work since core asked (history)

runner == <<thread, stopSet>>
timing == <<loop, due, busy, starts>>
handlers == <<pc, joining, waited>>
asking == <<gate, overtaken>>
vars == <<calm, runner, timing, handlers, asking>>

\* A thread object is alive from its start to the end of _run.
Alive == {t \in Threads : loop[t] \in {"test", "cycle", "wait"}}

\* LoopRunner.state
Running == thread # None /\ thread \in Alive

\* A request may begin.
Free == ~calm \/ \A r \in Requests : pc[r] = "idle"

\* A start is at work.
Starting == \E r \in Requests : pc[r] \in {"clear", "create", "launch"}

--------------------------------------------------------------------------------
(* LoopRunner._run *)

\* `while not self._stop.is_set()`, and the start of run_once.
TestStop(t) ==
    /\ loop[t] = "test"
    /\ IF stopSet THEN loop' = [loop EXCEPT ![t] = "dead"] /\ UNCHANGED <<busy, starts>>
                  ELSE /\ loop' = [loop EXCEPT ![t] = "cycle"]
                       /\ busy' = [busy EXCEPT ![t] = 0]
                       /\ starts' = [starts EXCEPT ![t] = <<0, @[1]>>]
    /\ UNCHANGED <<calm, runner, due, handlers, asking>>

\* Mutant: the missed ticks are not dropped.
ResyncNever(d) == d

\* Overrun: drop missed ticks, resync.
Resync(d) == IF d < 0 THEN 0 ELSE d

\* run_once returns or raises; the next tick is computed.
EndCycle(t) ==
    /\ loop[t] = "cycle"
    /\ loop' = [loop EXCEPT ![t] = "wait"]
    /\ due' = [due EXCEPT ![t] = Resync(@ + Period)]
    /\ UNCHANGED <<calm, runner, busy, starts, handlers, asking>>

\* `self._stop.wait(sleep)` returns: set, or the sleep is over.
WakeUp(t) ==
    /\ loop[t] = "wait"
    /\ stopSet \/ due[t] <= 0
    /\ loop' = [loop EXCEPT ![t] = "test"]
    /\ UNCHANGED <<calm, runner, due, busy, starts, handlers, asking>>

--------------------------------------------------------------------------------
(* LoopRunner.start *)

\* A thread object nobody refers to is as good as a new one.
Unused == {t \in Threads : /\ loop[t] \in {"new", "dead"}
                           /\ t # thread
                           /\ \A r \in Requests : joining[r] # t}

\* Bounds: a thread object is left for every start at work and this one; and a
\* start that may revive a stopping loop, which moves its next tick one period
\* away, waits until an earlier delay has passed.
Room ==
    /\ Cardinality(Unused) > Cardinality({r \in Requests : pc[r] \in {"clear", "create"}})
    /\ \A t \in Alive : due[t] <= Period

StartCheck(r) ==
    /\ pc[r] = "idle" /\ Free
    /\ ~Running
    /\ Room
    /\ pc' = [pc EXCEPT ![r] = "clear"]
    /\ overtaken' = (gate = "confirmed")
    /\ UNCHANGED <<calm, runner, timing, joining, waited, gate>>

StartClear(r) ==
    /\ pc[r] = "clear"
    /\ stopSet' = FALSE
    /\ pc' = [pc EXCEPT ![r] = "create"]
    /\ UNCHANGED <<calm, thread, timing, joining, waited, asking>>

StartCreate(r) ==
    /\ pc[r] = "create"
    /\ \E t \in Unused :
        /\ thread' = t
        /\ loop' = [loop EXCEPT ![t] = "new"]
    /\ pc' = [pc EXCEPT ![r] = "launch"]
    /\ UNCHANGED <<calm, stopSet, due, busy, starts, joining, waited, asking>>

\* The thread object referred to can be started, can be joined.
Startable == thread # None /\ loop[thread] = "new"
Joinable == thread # None /\ loop[thread] # "new"

\* `self._thread.start()`, which raises if another request has set _thread to
\* None or has already started that thread.
StartLaunch(r) ==
    /\ pc[r] = "launch"
    /\ pc' = [pc EXCEPT ![r] = "idle"]
    /\ \/ /\ Startable
          /\ loop' = [loop EXCEPT ![thread] = "test"]
          /\ due' = [due EXCEPT ![thread] = 0]
          /\ starts' = [starts EXCEPT ![thread] = <<Period, Period>>]
       \/ /\ ~Startable
          /\ UNCHANGED <<loop, due, starts>>
    /\ UNCHANGED <<calm, runner, busy, joining, waited, asking>>

--------------------------------------------------------------------------------
(* LoopRunner.stop *)

StopCheck(r) ==
    /\ pc[r] = "idle" /\ Free
    /\ Running
    /\ pc' = [pc EXCEPT ![r] = "set"]
    /\ UNCHANGED <<calm, runner, timing, joining, waited, asking>>

StopSet(r) ==
    /\ pc[r] = "set"
    /\ stopSet' = TRUE
    /\ pc' = [pc EXCEPT ![r] = "join"]
    /\ UNCHANGED <<calm, thread, timing, joining, waited, asking>>

\* `self._thread.join(...)`, which raises on None and on a thread not started.
StopJoin(r) ==
    /\ pc[r] = "join"
    /\ \/ /\ Joinable
          /\ joining' = [joining EXCEPT ![r] = thread]
          /\ waited' = [waited EXCEPT ![r] = 0]
          /\ pc' = [pc EXCEPT ![r] = "joining"]
       \/ /\ ~Joinable
          /\ pc' = [pc EXCEPT ![r] = "idle"]
          /\ UNCHANGED <<joining, waited>>
    /\ UNCHANGED <<calm, runner, timing, asking>>

\* Mutants: the join waits for ever; it does not wait at all.
JoinForEver(r) == loop[joining[r]] = "dead"
JoinAtOnce(r) == TRUE

\* The join is over: the thread has ended, or the timeout has.
JoinOver(r) == loop[joining[r]] = "dead" \/ waited[r] = JoinTimeout

StopJoined(r) ==
    /\ pc[r] = "joining"
    /\ JoinOver(r)
    /\ joining' = [joining EXCEPT ![r] = None]
    /\ waited' = [waited EXCEPT ![r] = 0]
    /\ pc' = [pc EXCEPT ![r] = "drop"]
    /\ UNCHANGED <<calm, runner, timing, asking>>

StopDrop(r) ==
    /\ pc[r] = "drop"
    /\ thread' = None
    /\ pc' = [pc EXCEPT ![r] = "idle"]
    /\ UNCHANGED <<calm, stopSet, timing, joining, waited, asking>>

--------------------------------------------------------------------------------
(* Core: create_config_app.put_assets, for a structural change. *)

\* Mutant: the state is not asked for.
ConfirmedAlways == TRUE

Confirmed == ~Running

\* GET /loop/state says "stopped"; requests may be at work, and may come.
Confirm ==
    /\ gate = "idle"
    /\ Confirmed
    /\ gate' = "confirmed"
    /\ overtaken' = Starting
    /\ UNCHANGED <<calm, runner, timing, handlers>>

\* cm.update
Commit ==
    /\ gate = "confirmed"
    /\ gate' = "idle"
    /\ overtaken' = FALSE
    /\ UNCHANGED <<calm, runner, timing, handlers>>

--------------------------------------------------------------------------------
Longest == IF calm THEN CalmCycle ELSE MaxCycle

\* Time passes, but no cycle lasts longer than Longest, no wait of a thread longer
\* than asked for, and a thread does not rest between the two.
Tick ==
    /\ \A t \in Threads :
        /\ loop[t] # "test"
        /\ loop[t] = "cycle" => busy[t] < Longest
        /\ loop[t] = "wait" => ~stopSet /\ due[t] > 0
    /\ due' = [t \in Threads |-> IF t \in Alive THEN due[t] - 1 ELSE due[t]]
    /\ busy' = [t \in Threads |-> IF loop[t] = "cycle" THEN busy[t] + 1 ELSE busy[t]]
    /\ starts' = [t \in Threads |->
                    <<IF starts[t][1] < Period THEN starts[t][1] + 1 ELSE Period,
                      IF starts[t][2] < Period THEN starts[t][2] + 1 ELSE Period>>]
    /\ waited' = [r \in Requests |-> IF pc[r] = "joining" /\ waited[r] < JoinTimeout
                                    THEN waited[r] + 1 ELSE waited[r]]
    /\ UNCHANGED <<calm, runner, loop, pc, joining, asking>>

--------------------------------------------------------------------------------
Init ==
    /\ calm \in BOOLEAN
    /\ thread = None
    /\ stopSet = FALSE
    /\ loop = [t \in Threads |-> "new"]
    /\ due = [t \in Threads |-> 0]
    /\ busy = [t \in Threads |-> 0]
    /\ starts = [t \in Threads |-> <<Period, Period>>]
    /\ pc = [r \in Requests |-> "idle"]
    /\ joining = [r \in Requests |-> None]
    /\ waited = [r \in Requests |-> 0]
    /\ gate = "idle" /\ overtaken = FALSE

ThreadStep(t) == TestStop(t) \/ EndCycle(t) \/ WakeUp(t)

Start(r) == StartCheck(r) \/ StartClear(r) \/ StartCreate(r) \/ StartLaunch(r)

Stop(r) == StopCheck(r) \/ StopSet(r) \/ StopJoin(r) \/ StopJoined(r) \/ StopDrop(r)

\* What a request that is at work does next.
Work(r) == pc[r] # "idle" /\ (Start(r) \/ Stop(r))

Next ==
    \/ \E t \in Threads : ThreadStep(t)
    \/ \E r \in Requests : Start(r) \/ Stop(r)
    \/ Confirm
    \/ Commit
    \/ Tick

Spec == Init /\ [][Next]_vars

\* Threads and the handlers at work are scheduled and time passes, however many
\* requests are served meanwhile; nobody has to send a request.
FairSpec ==
    /\ Spec
    /\ \A t \in Threads : WF_vars(ThreadStep(t))
    /\ \A r \in Requests : WF_vars(Work(r))
    /\ SF_vars(Tick)

--------------------------------------------------------------------------------
TypeOK ==
    /\ calm \in BOOLEAN
    /\ thread \in Threads \cup {None}
    /\ stopSet \in BOOLEAN
    /\ loop \in [Threads -> {"new", "test", "cycle", "wait", "dead"}]
    /\ due \in [Threads -> Int]
    /\ busy \in [Threads -> 0..Longest]
    /\ starts \in [Threads -> (0..Period) \X (0..Period)]
    /\ pc \in [Requests -> {"idle", "clear", "create", "launch",
                            "set", "join", "joining", "drop"}]
    /\ joining \in [Requests -> Threads \cup {None}]
    /\ waited \in [Requests -> 0..JoinTimeout]
    /\ gate \in {"idle", "confirmed"}
    /\ overtaken \in BOOLEAN

\* The ControlLoop object is never run by two threads at once.
OneLoop == Cardinality(Alive) <= 1

\* "stopped" means that no control cycle is under way or will be.
StoppedIsStopped == ~Running => Alive = {}

\* With one request at a time and no cycle longer than the join, there is at
\* most one loop and its state is what LoopRunner.state says.
CalmIsSafe == calm => OneLoop /\ StoppedIsStopped

\* Nor is then a structural change committed under a running loop, unless a start
\* was at work at some time between core's question and its commit: nothing else
\* that goes on meanwhile makes the answer untrue (config_api.py:116).
CommitWhenStopped ==
    [][calm /\ gate = "confirmed" /\ gate' = "idle" => overtaken \/ Alive = {}]_vars

\* Overrun protection: however late a cycle was, no three cycles of a thread
\* start within one period. (A start that clears the stop event of a stopping
\* loop cuts its sleep short; calm behaviours have none.)
NoBurst ==
    [][calm => \A t \in Threads : loop[t] = "test" /\ loop'[t] = "cycle"
        => starts[t][2] >= Period]_vars

\* Every request is answered: no stop waits for ever, even when another request
\* revives the loop it waits for.
RequestsEnd == \A r \in Requests : pc[r] # "idle" ~> pc[r] = "idle"

================================================================================
