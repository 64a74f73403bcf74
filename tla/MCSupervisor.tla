----------------------------- MODULE MCSupervisor -----------------------------
(***************************************************************************)
(* Small instances of Supervisor for TLC.                                  *)
(***************************************************************************)
EXTENDS Supervisor, TLC

MCChannel  == {Root} \cup ActionId
MCStopSources == {"OPERATOR", "SIGNAL", "ROOT_EXIT", "WALL_CAP", "SENSOR_FAULT",
                  "ENERGY_GUARD", "MEASUREMENT_OVERRUN", "CONTAINMENT_FAULT"}
MCCharge   == [w \in Work |-> 2]
MCEnvelope == [w \in Work |-> 1]

\* Identifiers are only ever compared.
IdSymmetry == Permutations(TokenId) \cup Permutations(ActionId)
===============================================================================
