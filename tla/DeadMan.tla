------------------------------- MODULE DeadMan ---------------------------------
(***************************************************************************)
(* What the setpoint path promises to the devices, whatever happens to the *)
(* controller, the broker or a message: a device command comes from an     *)
(* accepted setpoint or is the safe value, and time does not run past      *)
(* Limit ticks since the last accepted setpoint, or since core started,    *)
(* unless every class that has a safe state is in it.                      *)
(***************************************************************************)
EXTENDS Integers

CONSTANTS
    Classes,        \* of devices
    SafeClasses,    \* those with a safe state, which is 0
    Vals,           \* of commands, integers
    Limit           \* longest unsafe silence, in ticks

VARIABLES dev, quiet

vars == <<dev, quiet>>

Safe == \A c \in SafeClasses : dev[c] = 0

Init ==
    /\ dev \in [Classes -> Vals]
    /\ quiet = 0

\* An accepted setpoint, also one whose write fails.
Command ==
    /\ quiet' = 0
    /\ \/ UNCHANGED dev
       \/ \E c \in Classes, v \in Vals : dev' = [dev EXCEPT ![c] = v]

\* The safe state may be commanded at any time.
Release ==
    /\ dev' = [c \in Classes |-> IF c \in SafeClasses THEN 0 ELSE dev[c]]
    /\ UNCHANGED quiet

Restart ==
    /\ quiet' = 0
    /\ UNCHANGED dev

Tick ==
    /\ quiet < Limit \/ Safe
    /\ quiet' = IF quiet > Limit THEN quiet ELSE quiet + 1
    /\ UNCHANGED dev

Next == Command \/ Release \/ Restart \/ Tick

Spec == Init /\ [][Next]_vars

\* What the switch is for.
SafeWhenSilent == quiet > Limit => Safe

================================================================================
