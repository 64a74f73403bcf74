------------------------------ MODULE MCProcesses ------------------------------
(***************************************************************************)
(* Small instances of Processes for TLC.                                   *)
(***************************************************************************)
EXTENDS Processes, TLC

\* Processes and requests are only ever compared.
ProcessesSymmetry == Permutations(Proc) \cup Permutations(Key)
===============================================================================
