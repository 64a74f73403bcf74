------------------------------ MODULE LaunchOnce ------------------------------
(***************************************************************************)
(* What run.start promises (Launcher.run_start of src/lexwatt/engine.py    *)
(* over LaunchIndex of ledger.py), whatever happens to the launchers: a    *)
(* request owns one run for ever, the workload of a run is released at     *)
(* most once, and the reply stored for a request is never replaced.  A     *)
(* retry that comes before a reply is stored may be told anything.         *)
(***************************************************************************)
EXTENDS Naturals

CONSTANTS
    Key,     \* launch requests: owner and request id
    RunId,   \* run identifiers
    NoRun

Verdict == {"ARMING", "REJECTED"}

VARIABLES
    owned,     \* the run each request owns
    releases,  \* how often the workload of a run was released
    stored     \* the stored reply of each request

onceVars == <<owned, releases, stored>>

OnceInit ==
    /\ owned = [k \in Key |-> NoRun]
    /\ releases = [r \in RunId |-> 0]
    /\ stored = [k \in Key |-> "none"]

Own(k, r) ==
    /\ owned[k] = NoRun
    /\ \A l \in Key : owned[l] # r
    /\ owned' = [owned EXCEPT ![k] = r]
    /\ UNCHANGED <<releases, stored>>

\* A workload is released once, and never for a request that was refused for good.
Release(k) ==
    /\ owned[k] # NoRun
    /\ releases[owned[k]] = 0
    /\ stored[k] # "REJECTED"
    /\ releases' = [releases EXCEPT ![owned[k]] = 1]
    /\ UNCHANGED <<owned, stored>>

\* A request is refused for good only if nothing was released.
Store(k, v) ==
    /\ owned[k] # NoRun
    /\ stored[k] = "none"
    /\ v = "REJECTED" => releases[owned[k]] = 0
    /\ stored' = [stored EXCEPT ![k] = v]
    /\ UNCHANGED <<owned, releases>>

OnceNext ==
    \E k \in Key :
       \/ \E r \in RunId : Own(k, r)
       \/ Release(k)
       \/ \E v \in Verdict : Store(k, v)

OnceSpec == OnceInit /\ [][OnceNext]_onceVars
===============================================================================
