----------------------------- MODULE MCEnergyGuard -----------------------------
(***************************************************************************)
(* Small instances of EnergyGuard for TLC.  The first domain draws at most *)
(* a unit and a half per unit of time, the second half a unit, so that     *)
(* rounding up matters.                                                    *)
(***************************************************************************)
EXTENDS EnergyGuard

MCPower  == [d \in Domain |-> IF d = 1 THEN 3 ELSE 1]
MCMargin == [d \in Domain |-> 0]
===============================================================================
