------------------------- MODULE MC_ThermalController -------------------------
(* Temperatures 0 .. 3 put the zone on, above, below and between setpoints    *)
(* in every order; a band of 2 reaches both stages and saturation.            *)
EXTENDS ThermalController
=============================================================================
