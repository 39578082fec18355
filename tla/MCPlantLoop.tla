---------------------------- MODULE MCPlantLoop ----------------------------
EXTENDS PlantLoop

\* The P(f) curve of configs/edge_ems_config.example.yaml, in 0.1 Hz and power
\* units (base 1000 kW).
Frequencies == <<495, 498, 502, 505>>
Corrections == <<-4, -2, 2, 4>>

\* Self-consumption, and an external target that exports 400 kW.
Setpoints == {0, -8}
=============================================================================
