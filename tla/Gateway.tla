-------------------------------- MODULE Gateway --------------------------------
(***************************************************************************)
(* The external-EMS gateway: it follows the PCC targets an external EMS    *)
(* publishes, takes over with the self-consumption target when that EMS is *)
(* silent, and forwards the effective target to the controller over HTTP.  *)
(*                                                                         *)
(* One lock covers a whole tick of the gateway, its POST included; MQTT    *)
(* messages wait for it and count as received when they get it.            *)
(***************************************************************************)
EXTENDS Integers, Sequences

CONSTANTS
    Values,       \* PCC targets the external EMS sends
    SelfKw,       \* self_consumption_kw
    ConfigKw,     \* the PCC target in the controller's configuration
    Timeout,      \* watchdog timeout, in ticks
    Interval,     \* tick_interval_s
    PostTimeout,  \* of the HTTP client
    NetDelay,     \* longest delay of an external message
    Period,       \* the external EMS publishes at least this often, unless silent
    MaxNet,       \* bound on messages on their way
    Scenarios,    \* sets of faults that a behaviour may meet: see the actions
    None          \* Python's None

ASSUME GatewayAssumption ==
    /\ {Timeout, Interval, PostTimeout, NetDelay, Period, MaxNet} \subseteq Nat \ {0}
    /\ Scenarios \subseteq SUBSET {"silent", "lose", "refuse", "late", "restart", "crash"}
    /\ None \notin Values \cup {SelfKw}

VARIABLES
    faults,     \* what may go wrong in this behaviour; never changes
    last,       \* the external EMS's last target (history)
    quiet,      \* ticks since it was sent (history)
    net,        \* external messages on their way, in order
    extKw,      \* Watchdog._last_external_kw
    extAge,     \* now - Watchdog._last_external_ts
    state,      \* Watchdog._state
    forwarded,  \* Gateway._last_forwarded
    phase,      \* gateway_loop: "sleep", or in forward: "post", "applied"
    clock,      \* ticks slept, or since the POST was sent
    post,       \* the target being posted
    stray,      \* posts given up by the gateway that the controller may still serve
    pcc         \* ControlLoop.pcc_setpoint_kw

external == <<last, quiet, net>>
watchdog == <<extKw, extAge, state>>
posting == <<forwarded, phase, clock, post>>
controller == <<stray, pcc>>
vars == <<faults, external, watchdog, posting, controller>>

Message == [kw : Values, age : 0..NetDelay]

Targets == Values \cup {SelfKw}

\* Worst time from a message being sent to its target being in force: on its
\* way, waiting for the lock, for the next tick, and for the controller.
Reach == NetDelay + PostTimeout + Interval + PostTimeout

\* Bound of the history clock.
QuietMax == Timeout + Reach + 1

Smaller(a, b) == IF a < b THEN a ELSE b

\* The age of a message counts until it has surely come through.
Older(m) == [kw |-> m.kw, age |-> Smaller(m.age + 1, NetDelay)]

--------------------------------------------------------------------------------
(* The external EMS and the broker *)

External ==
    /\ Len(net) < MaxNet
    /\ \E v \in Values :
        /\ net' = Append(net, [kw |-> v, age |-> 0])
        /\ last' = v
    /\ quiet' = 0
    /\ UNCHANGED <<faults, watchdog, posting, controller>>

Lose ==
    /\ "lose" \in faults
    /\ net # <<>>
    /\ net' = Tail(net)
    /\ UNCHANGED <<faults, last, quiet, watchdog, posting, controller>>

--------------------------------------------------------------------------------
(* The gateway *)

\* on_message, once it has the lock: Watchdog.on_external.
OnExternal ==
    /\ phase = "sleep"
    /\ net # <<>>
    /\ net' = Tail(net)
    /\ extKw' = Head(net).kw
    /\ extAge' = 0
    /\ UNCHANGED <<faults, last, quiet, state, posting, controller>>

\* Mutants: an off-by-one; a watchdog that never expires.
FreshLess == extKw # None /\ extAge < Timeout - 1
FreshForEver == extKw # None

Fresh == extKw # None /\ extAge < Timeout

Effective == IF Fresh THEN extKw ELSE SelfKw

\* Mutants: forward on transitions only; once and for all.
ForwardOnTransition == forwarded = None \/ Fresh # (state = "external")
ForwardOnce == forwarded = None

\* Forward a target that differs from the last one forwarded.
MustForward == forwarded = None \/ Effective # forwarded

\* Gateway.tick up to the POST. (takeover_count and the telemetry point only
\* report the transition and the target.)
BeginTick ==
    /\ phase = "sleep"
    /\ clock = Interval
    /\ state' = IF Fresh THEN "external" ELSE "self"
    /\ clock' = 0
    /\ IF MustForward THEN phase' = "post" /\ post' = Effective
                      ELSE UNCHANGED <<phase, post>>
    /\ UNCHANGED <<faults, external, extKw, extAge, forwarded, controller>>

\* The end of a tick: the lock is released and the loop sleeps.
EndTick == phase' = "sleep" /\ clock' = 0

\* The controller's set_setpoint assigns the target of the running loop object.
Apply ==
    /\ phase = "post"
    /\ pcc' = post
    /\ phase' = "applied"
    /\ UNCHANGED <<faults, external, watchdog, forwarded, clock, post, stray>>

\* Its answer is in time.
Answer ==
    /\ phase = "applied"
    /\ forwarded' = post
    /\ EndTick
    /\ UNCHANGED <<faults, external, watchdog, post, controller>>

\* Mutant: what could not be forwarded is taken for forwarded.
KeepsAttempt == forwarded' = post

KeepsForwarded == UNCHANGED forwarded

\* Connection refused, or an error answer: forward returns False.
Refused ==
    /\ "refuse" \in faults
    /\ phase = "post"
    /\ KeepsForwarded
    /\ EndTick
    /\ UNCHANGED <<faults, external, watchdog, post, controller>>

\* The client gives up; the controller has served the request or still will.
GiveUp ==
    /\ "late" \in faults
    /\ phase # "sleep"
    /\ clock = PostTimeout
    /\ KeepsForwarded
    /\ stray' = IF phase = "post" THEN stray \cup {post} ELSE stray
    /\ EndTick
    /\ UNCHANGED <<faults, external, watchdog, post, pcc>>

ServeStray ==
    \E v \in stray :
        /\ pcc' = v
        /\ stray' = stray \ {v}
        /\ UNCHANGED <<faults, external, watchdog, posting>>

\* The controller's process is restarted: its loop regulates to the configured
\* target, and the request it was serving fails.
ControllerRestart ==
    /\ "restart" \in faults
    /\ pcc' = ConfigKw
    /\ stray' = {}
    /\ IF phase = "sleep" THEN UNCHANGED <<phase, clock>> ELSE EndTick
    /\ UNCHANGED <<faults, external, watchdog, forwarded, post>>

\* The gateway's process is restarted; its session, and what the broker had for
\* it, is gone, and on_connect subscribes anew.
Crash ==
    /\ "crash" \in faults
    /\ net' = <<>>
    /\ extKw' = None
    /\ extAge' = Timeout
    /\ state' = "self"
    /\ forwarded' = None
    /\ phase' = "sleep"
    /\ clock' = Interval
    /\ UNCHANGED <<faults, last, quiet, post, controller>>

--------------------------------------------------------------------------------
\* A message that has come through waits for nothing but the lock; neither a
\* sleep nor a POST lasts longer than asked for; the external EMS keeps its
\* period unless it may fall silent.
Tick ==
    /\ phase = "sleep" => clock < Interval /\ \A i \in 1..Len(net) : net[i].age < NetDelay
    /\ phase # "sleep" => clock < PostTimeout
    /\ "silent" \in faults \/ quiet < Period
    /\ clock' = clock + 1
    /\ net' = [i \in 1..Len(net) |-> Older(net[i])]
    /\ quiet' = Smaller(quiet + 1, QuietMax)
    /\ extAge' = Smaller(extAge + 1, Timeout)
    /\ UNCHANGED <<faults, last, extKw, state, forwarded, phase, post, controller>>

--------------------------------------------------------------------------------
Init ==
    /\ faults \in Scenarios
    /\ last = None
    /\ quiet = Smaller(Timeout, Period)
    /\ net = <<>>
    /\ extKw = None
    /\ extAge = Timeout
    /\ state = "self"
    /\ forwarded = None
    /\ phase = "sleep"
    /\ clock = Interval
    /\ post = SelfKw
    /\ stray = {}
    /\ pcc = ConfigKw

Respond == Apply \/ Answer

Next ==
    \/ External
    \/ Lose
    \/ OnExternal
    \/ BeginTick
    \/ Respond
    \/ Refused
    \/ GiveUp
    \/ ServeStray
    \/ ControllerRestart
    \/ Crash
    \/ Tick

Spec == Init /\ [][Next]_vars

\* The gateway's tasks run and time passes; the controller answers a POST now
\* and then, however many it refuses.
FairSpec ==
    /\ Spec
    /\ WF_vars(OnExternal)
    /\ WF_vars(BeginTick)
    /\ SF_vars(Apply)
    /\ WF_vars(Answer \/ GiveUp)
    /\ WF_vars(ServeStray)
    /\ WF_vars(Tick)

--------------------------------------------------------------------------------
TypeOK ==
    /\ faults \in Scenarios
    /\ last \in Values \cup {None}
    /\ quiet \in 0..QuietMax
    /\ net \in Seq(Message)
    /\ extKw \in Values \cup {None}
    /\ extAge \in 0..Timeout
    /\ state \in {"external", "self"}
    /\ forwarded \in Targets \cup {None}
    /\ phase \in {"sleep", "post", "applied"}
    /\ clock \in 0..(IF phase = "sleep" THEN Interval ELSE PostTimeout)
    /\ post \in Targets
    /\ stray \subseteq Targets
    /\ pcc \in Targets \cup {ConfigKw}

--------------------------------------------------------------------------------
\* Nobody interferes with the targets the gateway has forwarded.
Undisturbed == faults \cap {"late", "restart"} = {}

\* An external EMS that publishes in time is never taken for silent, however
\* long its messages wait for a POST in progress, and whatever POSTs fail, hang
\* or are served late. (Period and NetDelay together are under Timeout.)
NoFalseTakeover ==
    [][/\ faults \cap {"silent", "lose", "crash"} = {}
       /\ state = "external"
       => state' = "external"]_vars

\* As long as its messages arrive and POSTs succeed, a target sent more than
\* Reach ago, and less than the timeout ago, is the one the controller
\* regulates to.
FollowsInTime ==
    /\ faults \subseteq {"silent"}
    /\ last # None
    /\ quiet \in (Reach + 1)..(Timeout - 1)
    => pcc = last

\* Silent for longer than the timeout and Reach, the controller regulates
\* to the self-consumption target.
TakesOverInTime == faults \subseteq {"silent"} /\ quiet > Timeout + Reach => pcc = SelfKw

\* A gateway that has nothing left to forward, and no POST on its way, has the
\* controller on the effective target: it will not forward that target again.
InForce == phase = "sleep" /\ stray = {} /\ ~MustForward => pcc = Effective

\* So it is as long as no POST is served late and the controller does not
\* restart, whatever messages are lost, POSTs refused and gateways restarted.
UndisturbedInForce == Undisturbed => InForce

\* Whatever POSTs the controller refuses meanwhile, and over restarts of the
\* gateway: an external EMS that stays silent ends in self-consumption.
SilenceEndsSelf == Undisturbed /\ <>[](quiet = QuietMax) => <>[](pcc = SelfKw)

================================================================================
