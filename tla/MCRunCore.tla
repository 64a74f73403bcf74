------------------------------ MODULE MCRunCore ------------------------------
(***************************************************************************)
(* A small instance of RunCore for TLC.  Two work items: the small one     *)
(* fits the FLOP cap twice with one unit to spare, the large one fits it   *)
(* exactly.  One more token identifier than spawn slots, so that the cap   *)
(* and not the bound refuses the last token.                               *)
(***************************************************************************)
EXTENDS RunCore, TLC

MCCharge   == [w \in Work |-> IF w = "small" THEN 1 ELSE 3]
MCEnvelope == [w \in Work |-> 1]

\* Identifiers are only ever compared.
IdSymmetry == Permutations(TokenId) \cup Permutations(ActionId) \cup Permutations(ComputeId)

===============================================================================
