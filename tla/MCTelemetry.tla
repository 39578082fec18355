---------------------------- MODULE MCTelemetry ----------------------------
(***************************************************************************)
(* Two battery units and the meter at the coupling point.  Power has a     *)
(* scale factor, headroom has none, as the setpoint; headroom is too far   *)
(* off for the request that reads power.                                   *)
(***************************************************************************)
EXTENDS Telemetry

MCOrder == <<"bess1", "pcc", "bess2">>
MCPoints == {"active_power_kw", Headroom}
MCExposed == [u \in {"pcc", "bess1", "bess2"} |->
                IF u = "pcc" THEN {"active_power_kw"} ELSE MCPoints]
MCAddr == [p \in MCPoints |-> IF p = Headroom THEN 9 ELSE 1] @@ [setpoint |-> 20]
MCWords == [p \in MCPoints \cup {"setpoint"} |-> 1]
MCSf == [p \in MCPoints \cup {"setpoint"} |->
            IF p = "active_power_kw" THEN "W_SF" ELSE None]

MCReports == [Members -> {[charge |-> c, discharge |-> d] : c \in {-1, 0, 2}, d \in {0, 1}}]
MCTotals == {-3, -1, 0, 1, 2, 5}
ASSUME MCGranted == Uniform /\ PeriodFits
=============================================================================
