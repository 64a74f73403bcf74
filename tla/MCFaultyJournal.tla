---------------------------- MODULE MCFaultyJournal ----------------------------
(***************************************************************************)
(* Small instances of FaultyJournal for TLC.                               *)
(***************************************************************************)
EXTENDS FaultyJournal, TLC

\* Request keys and identifiers are only ever compared.
FaultySymmetry ==
    Permutations(Key) \cup Permutations(TokenId) \cup Permutations(ActionId)
===============================================================================
