--------------------------- MODULE MCSignalBridge ---------------------------
\* A battery, a PV plant and a load of 4 kW each, in halves of their bases.
EXTENDS SignalBridge

MCBase == [b \in Blocks |-> 4]
MCSetpoints == {-4, 0, 2}

ASSUME MCGranted == RegistersFit /\ Resolved
=============================================================================
