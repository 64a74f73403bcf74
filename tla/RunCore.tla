-------------------------------- MODULE RunCore --------------------------------
(***************************************************************************)
(* The run reducer, src/lexwatt/core.py, with the journal its outcomes are *)
(* committed to (Run._commit of engine.py).                                *)
(*                                                                         *)
(* One action is one reducer operation and the transaction that commits    *)
(* its events.  The reducer is passive: the specification calls every      *)
(* operation at every moment with every argument, as any engine might, so  *)
(* what holds here is owed to the reducer's own guards and not to the      *)
(* order in which Supervisor calls it.                                     *)
(*                                                                         *)
(* The journal is represented by its replay (module Replay): two journals  *)
(* with the same replay are the same to everything the code reads back.    *)
(* This module commits every transaction.                                  *)
(***************************************************************************)
EXTENDS Replay, Integers, FiniteSets, Functions

CONSTANTS
    Root,         \* the channel of the root process
    Channel,      \* all workload channels
    Approved,     \* action payloads the admission policy accepts
    Forbidden,    \* action payloads it refuses with ACTION_DENIED
    Work,         \* compute work descriptions for catalogued models
    Charge,       \* the estimated FLOPs of each work item
    Envelope,     \* the max_output_tokens of each work item
    MaxObserved,  \* bound: output tokens a client reports
    SpawnCap,     \* budgets.spawns
    FlopsCap,     \* budgets.max_flops, or NoCap
    StopSources,  \* the reasons the engine calls stop and fault with
    NoCap,
    MaxInflight,  \* MAX_INFLIGHT_ACTIONS
    TTL,          \* TOKEN_TTL_US
    MaxNow,       \* bound: the clock stops there
    NoReason, NoGrant, NoOrigin, NoBooking

FaultReasons  == {"SENSOR_FAULT", "AUDIT_FAULT", "WATCHDOG_LOST",
                  "CONTAINMENT_FAULT", "RESOURCE_LIMIT"}
BudgetReasons == {"ENERGY_GUARD", "FLOPS_CAP", "SPAWN_CAP", "WALL_CAP",
                  "MEASUREMENT_OVERRUN"}
OperatorReasons  == {"OPERATOR", "SIGNAL", "ROOT_EXIT"}
Reasons       == FaultReasons \cup BudgetReasons \cup OperatorReasons

ASSUME CoreAssumption ==
    /\ Root \in Channel
    /\ Approved \cap Forbidden = {}
    /\ Charge \in [Work -> Nat]
    /\ Envelope \in [Work -> Nat]
    /\ MaxObserved \in Nat
    /\ SpawnCap \in Nat
    /\ FlopsCap \in Nat \cup {NoCap}
    /\ NoCap \notin Nat
    /\ MaxInflight \in Nat
    /\ TTL \in Nat
    /\ MaxNow \in Nat
    /\ StopSources \subseteq Reasons
    /\ NoReason \notin Reasons
    /\ IsFiniteSet(TokenId) /\ IsFiniteSet(ActionId) /\ IsFiniteSet(ComputeId)

VARIABLES
    state,         \* RunCore.state
    stopReason,    \* RunCore.stop_reason
    stopAt,        \* RunCore.stop_latched_us
    killIssued,    \* RunCore.kill_issued_at_us is set
    tokenState,    \* RunCore.tokens: TokenRec.state
    grant,         \*   and the channel, payload and expiry the token binds
    spawnIssued,   \* RunCore.spawn_issued
    actionState,   \* RunCore.actions: ActionRec.state
    origin,        \*   and the token, channel and payload it was dispatched with
    inflight,      \* RunCore.inflight
    computeState,  \* RunCore.computes: reservation["state"]
    booking,       \*   and its channel, work and observed output tokens
    chargedFlops,  \* RunCore.charged_flops
    now,           \* boottime
    journal        \* the replay of the committed events

stopVars    == <<stopReason, stopAt, killIssued>>
tokenVars   == <<tokenState, grant, spawnIssued>>
actionVars  == <<actionState, origin, inflight>>
computeVars == <<computeState, booking, chargedFlops>>
workVars    == <<tokenVars, actionVars, computeVars>>
coreVars    == <<state, stopVars, workVars, now, journal>>

Payload == Approved \cup Forbidden
Grants  == [chan : Channel, payload : Payload, expires : Nat]
Origins == [token : TokenId, chan : Channel, payload : Payload]
Bookings == [chan : Channel, work : Work, observed : 0..MaxObserved]

-------------------------------------------------------------------------------
(***************************************************************************)
(* Committing: the transaction appends these events.                       *)
(***************************************************************************)
Commit(e)      == journal' = Apply(journal, e)
Commit2(e, f)  == journal' = Apply(Apply(journal, e), f)

Denied == Event("RequestDenied")

\* RunCore._latch, the caller having checked that a stop may latch.
Latch(reason) ==
    /\ state' = "STOPPING"
    /\ stopReason' = reason
    /\ stopAt' = now
    /\ UNCHANGED killIssued

\* Faulty: a second source overwrites the first.
MayLatch_Again == state \in {"ARMING", "RUNNING", "STOPPING"}

MayLatch == state \in {"ARMING", "RUNNING"} /\ stopReason = NoReason

CoreInit ==
    /\ state = "CREATED"
    /\ stopReason = NoReason
    /\ stopAt = 0
    /\ killIssued = FALSE
    /\ tokenState = [t \in TokenId |-> "NONE"]
    /\ grant = [t \in TokenId |-> NoGrant]
    /\ spawnIssued = 0
    /\ actionState = [a \in ActionId |-> "NONE"]
    /\ origin = [a \in ActionId |-> NoOrigin]
    /\ inflight = 0
    /\ computeState = [c \in ComputeId |-> "NONE"]
    /\ booking = [c \in ComputeId |-> NoBooking]
    /\ chargedFlops = 0
    /\ now = 0
    /\ journal = EmptyReplay

\* The boottime clock.
Elapse ==
    /\ now < MaxNow
    /\ now' = now + 1
    /\ UNCHANGED <<state, stopVars, workVars, journal>>

-------------------------------------------------------------------------------
(***************************************************************************)
(* Launch: Run.created, Run.arming, the RunStarted transaction of Run.arm, *)
(* and RunCore.reject.                                                     *)
(***************************************************************************)
Create ==
    /\ journal.st = "NEW"
    /\ Commit(Event("RunCreated"))
    /\ UNCHANGED <<state, stopVars, workVars, now>>

Arm ==
    /\ state = "CREATED"
    /\ journal.st = "CREATED"
    /\ state' = "ARMING"
    /\ Commit(Event("RunArming"))
    /\ UNCHANGED <<stopVars, workVars, now>>

Start ==
    /\ state = "ARMING"
    /\ state' = "RUNNING"
    /\ Commit(Event("RunStarted"))
    /\ UNCHANGED <<stopVars, workVars, now>>

Reject ==
    /\ state \in {"CREATED", "ARMING"}
    /\ journal.st # "NEW"
    /\ state' = "REJECTED"
    /\ Commit(Event("RunRejected"))
    /\ UNCHANGED <<stopVars, workVars, now>>

-------------------------------------------------------------------------------
(***************************************************************************)
(* Requests.  A request that is refused leaves every part of the reducer   *)
(* alone and appends RequestDenied while the run is live; a request that   *)
(* gets STOPPED or BUSY appends nothing and is not an action here.         *)
(***************************************************************************)
\* Every admission starts with "if self.state != RUNNING: STOPPED".
\* Faulty: requests in flight at the stop are still admitted.
Admitting_Late == state \in {"RUNNING", "STOPPING"}

Admitting == state = "RUNNING"

\* RunCore._deny: malformed, forged, unbound, used or unauthorised requests.
Deny ==
    /\ state \in LiveStates
    /\ journal.st # "NEW"
    /\ Commit(Denied)
    /\ UNCHANGED <<state, stopVars, workVars, now>>

\* Faulty: one slot too many.
BelowSpawnCap_Inclusive == spawnIssued <= SpawnCap

BelowSpawnCap == spawnIssued < SpawnCap

\* token_issue below the cap: the slot is charged for good.
IssueToken(ch, p, t) ==
    /\ Admitting
    /\ p \in Approved
    /\ BelowSpawnCap
    /\ tokenState[t] = "NONE"
    /\ spawnIssued' = spawnIssued + 1
    /\ tokenState' = [tokenState EXCEPT ![t] = "ISSUED"]
    /\ grant' = [grant EXCEPT ![t] = [chan |-> ch, payload |-> p, expires |-> now + TTL]]
    /\ Commit(About("TokenIssued", {t}, "ISSUED"))
    /\ UNCHANGED <<state, stopVars, actionVars, computeVars, now>>

\* token_issue at the cap: deny and latch in one transaction.
SpawnCapReached(p) ==
    /\ Admitting
    /\ MayLatch
    /\ p \in Approved
    /\ ~BelowSpawnCap
    /\ Latch("SPAWN_CAP")
    /\ Commit2(Denied, Event("StopLatched"))
    /\ UNCHANGED <<workVars, now>>

\* Faulty: a token buys any payload on its channel.
Binds_AnyPayload(ch, p, t) ==
    /\ tokenState[t] # "NONE"
    /\ grant[t].chan = ch

\* The binding checks of dispatch: the token is known and was issued to this
\* channel for this payload.
Binds(ch, p, t) ==
    /\ tokenState[t] # "NONE"
    /\ grant[t].chan = ch
    /\ grant[t].payload = p

Due(t) == tokenState[t] = "ISSUED" /\ now >= grant[t].expires

Dispatch(ch, p, t, a) ==
    /\ Admitting
    /\ Binds(ch, p, t)
    /\ tokenState[t] = "ISSUED"
    /\ ~Due(t)
    /\ inflight < MaxInflight
    /\ actionState[a] = "NONE"
    /\ tokenState' = [tokenState EXCEPT ![t] = "SPENT"]
    /\ actionState' = [actionState EXCEPT ![a] = "DISPATCHED"]
    /\ origin' = [origin EXCEPT ![a] = [token |-> t, chan |-> ch, payload |-> p]]
    /\ inflight' = inflight + 1
    /\ Commit(TokenSpent(t, a))
    /\ UNCHANGED <<state, stopVars, grant, spawnIssued, computeVars, now>>

\* dispatch of a token past its time that the sweep has not reached yet.
DispatchLate(ch, p, t) ==
    /\ Admitting
    /\ Binds(ch, p, t)
    /\ Due(t)
    /\ tokenState' = [tokenState EXCEPT ![t] = "EXPIRED"]
    /\ Commit2(About("TokenExpired", {t}, "EXPIRED"), Denied)
    /\ UNCHANGED <<state, stopVars, grant, spawnIssued, actionVars, computeVars, now>>

\* expire_tokens: every token that is due, in one transaction.
DueTokens == {t \in TokenId : Due(t)}

ExpireTokens ==
    /\ state = "RUNNING"
    /\ DueTokens # {}
    /\ tokenState' = Mark(tokenState, DueTokens, "EXPIRED")
    /\ Commit(About("TokenExpired", DueTokens, "EXPIRED"))
    /\ UNCHANGED <<state, stopVars, grant, spawnIssued, actionVars, computeVars, now>>

-------------------------------------------------------------------------------
(***************************************************************************)
(* Resolving dispatched actions.                                           *)
(***************************************************************************)
Unresolved == {a \in ActionId : actionState[a] = "DISPATCHED"}

\* Faulty: a late result resolves the action a second time.
Resolvable_Twice(a) ==
    /\ actionState[a] # "NONE"
    /\ state \in {"RUNNING", "STOPPING", "UNCONFIRMED"}

\* Faulty: a result is accepted after containment was journalled empty.
Resolvable_Ever(a) == actionState[a] = "DISPATCHED"

Resolvable(a) ==
    /\ actionState[a] = "DISPATCHED"
    /\ state \in {"RUNNING", "STOPPING", "UNCONFIRMED"}

\* action_finish, with or without an error.
FinishAction(a, to) ==
    /\ Resolvable(a)
    /\ to \in {"SUCCEEDED", "FAILED"}
    /\ actionState' = [actionState EXCEPT ![a] = to]
    /\ inflight' = inflight - 1
    /\ Commit(About("ActionFinished", {a}, to))
    /\ UNCHANGED <<state, stopVars, tokenVars, origin, computeVars, now>>

\* The drain of Run._check_empty: action_finish for those in "failed" and
\* action_unknown for those in "unknown", all in one transaction.
Drain(failed, unknown) ==
    /\ failed \cup unknown # {}
    /\ failed \cap unknown = {}
    /\ \A a \in failed \cup unknown : Resolvable(a)
    /\ actionState' = Mark(Mark(actionState, failed, "FAILED"), unknown, "UNKNOWN")
    /\ inflight' = inflight - Cardinality(failed \cup unknown)
    /\ Commit2(About("ActionFinished", failed, "FAILED"),
               About("ActionUnknown", unknown, "UNKNOWN"))
    /\ UNCHANGED <<state, stopVars, tokenVars, origin, computeVars, now>>

-------------------------------------------------------------------------------
(***************************************************************************)
(* Compute reservations.                                                   *)
(***************************************************************************)
\* Faulty: compares the charge before adding it.
Admitted_Before(charge) == FlopsCap = NoCap \/ chargedFlops <= FlopsCap

\* admit_flops: an exact fit is admitted.
Admitted(charge) == FlopsCap = NoCap \/ chargedFlops + charge <= FlopsCap

Reserve(ch, w, c) ==
    /\ Admitting
    /\ Admitted(Charge[w])
    /\ computeState[c] = "NONE"
    /\ chargedFlops' = chargedFlops + Charge[w]
    /\ computeState' = [computeState EXCEPT ![c] = "CHARGED"]
    /\ booking' = [booking EXCEPT ![c] = [chan |-> ch, work |-> w, observed |-> 0]]
    /\ Commit(About("ComputeReserved", {c}, "CHARGED"))
    /\ UNCHANGED <<state, stopVars, tokenVars, actionVars, now>>

FlopsCapReached(w) ==
    /\ Admitting
    /\ MayLatch
    /\ ~Admitted(Charge[w])
    /\ Latch("FLOPS_CAP")
    /\ Commit2(Denied, Event("StopLatched"))
    /\ UNCHANGED <<workVars, now>>

\* compute_finish within the envelope: nothing is refunded.
FinishCompute(ch, c, observed) ==
    /\ computeState[c] = "CHARGED"
    /\ booking[c].chan = ch
    /\ state = "RUNNING"
    /\ observed <= Envelope[booking[c].work]
    /\ computeState' = [computeState EXCEPT ![c] = "FINISHED"]
    /\ booking' = [booking EXCEPT ![c].observed = observed]
    /\ Commit(About("ComputeFinished", {c}, "FINISHED"))
    /\ UNCHANGED <<state, stopVars, tokenVars, actionVars, chargedFlops, now>>

\* compute_finish over the envelope.  A CHARGED reservation answers STOPPED
\* outside RUNNING; a FINISHED one reported with another count is checked in
\* every state, and latches only where a stop may latch.
OverEnvelope(ch, c, observed) ==
    /\ computeState[c] # "NONE"
    /\ booking[c].chan = ch
    /\ computeState[c] = "CHARGED" => state = "RUNNING"
    /\ computeState[c] = "FINISHED" => booking[c].observed # observed
    /\ observed > Envelope[booking[c].work]
    /\ \/ /\ MayLatch
          /\ Latch("FLOPS_CAP")
          /\ Commit2(Denied, Event("StopLatched"))
       \/ /\ ~MayLatch
          /\ state \in LiveStates
          /\ Commit(Denied)
          /\ UNCHANGED <<state, stopVars>>
    /\ UNCHANGED <<workVars, now>>

-------------------------------------------------------------------------------
(***************************************************************************)
(* Stopping and containment.                                               *)
(***************************************************************************)
\* RunCore.stop and the latching half of RunCore.fault.
Stop(reason) ==
    /\ MayLatch
    /\ Latch(reason)
    /\ Commit(Event("StopLatched"))
    /\ UNCHANGED <<workVars, now>>

\* RunCore.fault once a stop is under way: a diagnostic.
ObserveFault ==
    /\ state \in {"STOPPING", "UNCONFIRMED", "FINALIZING"}
    /\ Commit(Event("FaultObserved"))
    /\ UNCHANGED <<state, stopVars, workVars, now>>

\* SampleRecorded, appended by Run._sample without the reducer.
RecordSample ==
    /\ state \in {"RUNNING", "STOPPING", "UNCONFIRMED"}
    /\ Commit(Event("SampleRecorded"))
    /\ UNCHANGED <<state, stopVars, workVars, now>>

RecordKill ==
    /\ state \in {"STOPPING", "UNCONFIRMED"}
    /\ killIssued' = TRUE
    /\ Commit(Event("KillIssued"))
    /\ UNCHANGED <<state, stopReason, stopAt, workVars, now>>

KillUnconfirmed ==
    /\ state = "STOPPING"
    /\ state' = "UNCONFIRMED"
    /\ Commit(Event("KillUnconfirmed"))
    /\ UNCHANGED <<stopVars, workVars, now>>

ContainmentEmpty ==
    /\ state \in {"STOPPING", "UNCONFIRMED"}
    /\ state' = "FINALIZING"
    /\ Commit(Event("ContainmentEmpty"))
    /\ UNCHANGED <<stopVars, workVars, now>>

\* Faulty: the reason is taken for the state.
Outcome_Raw(reason) == IF reason \in FaultReasons THEN "FAILED" ELSE reason

\* The final state RunCore.finalize derives from the first stop source.
Outcome(reason) ==
    CASE reason \in FaultReasons            -> "FAILED"
      [] reason \in {"ROOT_EXIT", NoReason} -> "COMPLETED"
      [] OTHER                              -> "KILLED"

Finalize ==
    /\ state = "FINALIZING"
    /\ state' = Outcome(stopReason)
    /\ Commit(About("RunFinalized", {}, Outcome(stopReason)))
    /\ UNCHANGED <<stopVars, workVars, now>>

-------------------------------------------------------------------------------
Launch == Create \/ Arm \/ Start \/ Reject

Admission ==
    \/ Deny
    \/ \E p \in Payload : SpawnCapReached(p)
    \/ ExpireTokens
    \/ \E ch \in Channel, p \in Payload, t \in TokenId :
          \/ IssueToken(ch, p, t)
          \/ DispatchLate(ch, p, t)
          \/ \E a \in ActionId : Dispatch(ch, p, t, a)

Resolution ==
    \/ \E a \in ActionId, to \in {"SUCCEEDED", "FAILED"} : FinishAction(a, to)
    \/ \E failed, unknown \in SUBSET ActionId : Drain(failed, unknown)

Compute ==
    \/ \E w \in Work : FlopsCapReached(w)
    \/ \E ch \in Channel, c \in ComputeId :
          \/ \E w \in Work : Reserve(ch, w, c)
          \/ \E n \in 0..MaxObserved : FinishCompute(ch, c, n) \/ OverEnvelope(ch, c, n)

Stopping ==
    \/ \E reason \in StopSources : Stop(reason)
    \/ ObserveFault
    \/ RecordSample
    \/ RecordKill
    \/ KillUnconfirmed
    \/ ContainmentEmpty
    \/ Finalize

CoreNext == Elapse \/ Launch \/ Admission \/ Resolution \/ Compute \/ Stopping

CoreSpec == CoreInit /\ [][CoreNext]_coreVars
-------------------------------------------------------------------------------
(***************************************************************************)
(* Properties.                                                             *)
(***************************************************************************)

\* Every variable holds a value of its type.
TypeOK ==
    /\ state \in RunStates
    /\ stopReason \in Reasons \cup {NoReason}
    /\ stopAt \in Nat
    /\ killIssued \in BOOLEAN
    /\ tokenState \in [TokenId -> TokenStates]
    /\ grant \in [TokenId -> Grants \cup {NoGrant}]
    /\ spawnIssued \in Nat
    /\ actionState \in [ActionId -> ActionStates]
    /\ origin \in [ActionId -> Origins \cup {NoOrigin}]
    /\ inflight \in Int
    /\ computeState \in [ComputeId -> ComputeStates]
    /\ booking \in [ComputeId -> Bookings \cup {NoBooking}]
    /\ chargedFlops \in Nat
    /\ now \in Nat
    /\ journal \in Replays

\* The journal never contains an event that replay_events refuses, and its
\* replay is the reducer's own state: what Launcher._rebuild and the offline
\* verifier read is what the supervisor held.  Two transition tables written
\* apart (core.py's guards and replay.py's TRANSITIONS) have to agree on
\* every path.
JournalAgrees ==
    /\ journal.ok
    /\ journal.st = IF journal.st = "NEW" THEN "NEW" ELSE state
    /\ journal.st = "NEW" => state = "CREATED"
    /\ journal.tok = tokenState
    /\ journal.act = actionState
    /\ journal.cmp = computeState

\* The in-flight counter, which only ever moves by one at a time or by a
\* whole drain, counts exactly the unresolved actions and respects
\* MAX_INFLIGHT_ACTIONS.
InflightExact ==
    /\ inflight = Cardinality(Unresolved)
    /\ inflight <= MaxInflight

\* Spawn slots are charged once per issued token, are never given back (an
\* expired or failed token refunds nothing) and stay within budgets.spawns.
SpawnSlotsExact ==
    /\ spawnIssued = Cardinality({t \in TokenId : tokenState[t] # "NONE"})
    /\ spawnIssued <= SpawnCap

Reserved == {c \in ComputeId : computeState[c] # "NONE"}

Charges == [c \in Reserved |-> Charge[booking[c].work]]

\* FLOPs are charged once per reservation, a smaller observed count refunds
\* nothing, and the total stays within budgets.max_flops.
FlopsExact ==
    /\ chargedFlops = SumFunction(Charges)
    /\ FlopsCap = NoCap \/ chargedFlops <= FlopsCap

\* A token buys one action: no two actions come from one token, every action
\* ran the payload on the channel its token was issued for, and a token is
\* SPENT exactly when an action holds it.
OneActionPerToken ==
    /\ \A a, b \in ActionId :
          actionState[a] # "NONE" /\ actionState[b] # "NONE"
             /\ origin[a].token = origin[b].token => a = b
    /\ \A a \in ActionId : actionState[a] # "NONE" =>
          LET t == origin[a].token
          IN  /\ tokenState[t] = "SPENT"
              /\ grant[t].chan = origin[a].chan
              /\ grant[t].payload = origin[a].payload
    /\ \A t \in TokenId : tokenState[t] = "SPENT" =>
          \E a \in ActionId : actionState[a] # "NONE" /\ origin[a].token = t

\* The first committed stop source is the one the run ends with: later
\* sources never replace it and the final state follows from it.
FirstStopWins ==
    [][/\ stopReason # NoReason => stopReason' = stopReason /\ stopAt' = stopAt
       /\ state' \in {"COMPLETED", "KILLED", "FAILED"} /\ state' # state
             => stopReason # NoReason /\ state' = Outcome(stopReason)]_coreVars

\* Once a stop is latched nothing more is admitted: no token is issued, spent
\* or expired, no reservation is made or finished, no charge grows, and the
\* actions that were unresolved only ever get resolved.
NothingAdmittedAfterStop ==
    [][stopReason # NoReason =>
          /\ UNCHANGED <<tokenVars, computeVars>>
          /\ \A a \in ActionId :
                actionState'[a] # actionState[a] => actionState[a] = "DISPATCHED"]_coreVars
===============================================================================
