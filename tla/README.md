# Specifications of LexWatt

LexWatt (`agent-cap`) runs one agent workload inside a cgroup and stops it when a
budget is spent: estimated FLOPs, package energy, spawn tokens or wall time. This
directory holds TLA+ modules translated from the Python sources under
`src/src/lexwatt/`, TLC configurations that check them on small instances, and
proofs of the most important properties for all instances.

    tlc -config MCSupervisor.cfg MCSupervisor     # one run of TLC
    tlapm SupervisorProofs.tla                    # one module of proofs

Paths below are relative to `src/src/lexwatt/` unless they say otherwise.


## 1. The system

### 1.1 Components

| Component | State | Operations | What makes it correct |
|---|---|---|---|
| Run reducer, `core.py` | run state, stop reason, tokens, actions, reservations, counters | `token_issue`, `dispatch`, `expire_tokens`, `action_finish`, `action_unknown`, `compute_reserve`, `compute_finish`, `stop`, `fault`, `kill_issued`, `kill_unconfirmed`, `containment_empty`, `finalize`, `reject`; each returns the events to append | a token buys one action; budgets are never passed; the first stop wins and nothing is admitted after it |
| Event replay, `replay.py` | a fold over events | `replay_events` | accepts exactly what the reducer can append |
| Run supervisor, `engine.py` class `Run`, `containment.py` | the reducer, `_exec_after_commit`, `child_procs`, sampling state | `created`/`arming`/`arm`, `handle`, `tick`, `_latch`, `_fault`, `_issue_kill`, `_stop_progress`, `_finalize` | effects only after their transaction and never after a stop; every stop kills; closed containment is empty; every run ends |
| Journal, `ledger.py` class `Journal` | one SQLite file per run: events, request table, object rows | one `BEGIN IMMEDIATE` transaction per operation | events, state and stored reply change together |
| Energy meter and guard, `meter.py`, `Run._sample` | previous readings, `energy_uj`, `energy_complete`, stuck window | `rapl_delta`, `reserve_uj`, `guard_eval` | exact over wraps; the cap holds while a process lives; frozen counters are noticed |
| Foreground driver, `cli.py` `_drive_run` | loop position | `tick_all` in a loop, SIGINT handler, bounded wait | a started run is driven to its end |
| Launcher and launch index, `engine.py` class `Launcher`, `ledger.py` class `LaunchIndex` | runs in memory, reserved launches and their replies | `run_start`, `_reconcile_launch`, `open_run`, `control`, `workload`, `tick_all` | one launch per request key; a retry tells the truth |
| Recovery, `recovery.py` | none of its own: the manifest, the journal, the cgroup | `recover_run`, `recover_action`, `resume_run` | no orphan survives; no action is replayed |
| Host adapters, `host/*.py` | cgroup, processes, network namespaces, UIDs | spawn, kill, populated, read counters | outside the model except for what the engine sees |
| Sandbox, `sandbox.py`, `seccomp.py` | none | process setup | not modelled |
| FLOP estimator, `estimator.py`, `route_choose` of `core.py` | none | the dense-v1 estimate, `compute.reserve`, `compute.finish`, `route.choose` | the charge covers the counted work and no split of it is cheaper; the choice is the best one |
| Configuration, `config.py`, `schema.py`, `units.py` | none | validation, tightening, `parse_joules`, canonical form | a tightened budget is never larger; what is admitted can be enforced |
| Offline verifier, `verify.py`, `src/ts/src/verify.ts`, `src/ts/src/replay.ts` | none | chain, signatures, replay | both languages give one verdict |
| Sockets and SDKs, `server.py`, `sdk.py`, `src/ts/src/sdk.ts` | connections | framing, calls | one frame, one answer |
| JSON, hashing, signatures, scalars, ids, units | none | encodings | not modelled |
| Integrations, `adapters/*`, `redact.py` | none | projections of receipts | not modelled |

### 1.2 How they interact

The supervisor is one thread. An *entry* is a launch, a request (`Run.handle`), a
tick or a signal; it runs to its end before the next one starts (a signal handler
excepted, see 5). Inside an entry the supervisor calls the reducer, which changes
memory and returns events, then `_commit`, which signs and appends the events,
stores the projection and the idempotent reply in one transaction, and only then the
host: release a child, fetch a URL, kill the cgroup. Workload processes run at the same
time as all of that: they exit, die of a kill and send requests whenever they like.
The driver calls `tick` for ever. A tick looks at the root process, the wall clock,
the counters, the children, the expiring tokens and, for a stopping run, at the
cgroup, in this order; each step may commit, latch a stop and kill.

Several `agent-cap` processes share one state root: the launch index, one journal and
one manifest per run, and the cgroups of the machine. `run` creates a run and drives it;
`meter`, `receipt` and `kill` open it from its journal (`Launcher.open_run`), without its
cgroup and with a seed of zeros; `recover` reads manifest, journal and cgroup. Nothing
but the SQLite transactions keeps them apart.

### 1.3 What is hard

* An effect follows its transaction: what happens in between (a stop, a refused
  transaction, a death) decides whether it is released once, never or twice.
* Eight sources may stop a run in one tick.
* An action is resolved by the poll of its child, by the drain of the containment or
  by a failed release, and must be resolved exactly once.
* The reducer's guards and the replay's table are written independently.
* The reducer changes before the transaction; a refused transaction is rolled back in
  the journal only.
* The energy budget must hold over the time nobody looks: between two samples and
  between the latch and the last death.
* A sample reads several domains one after the other and may fail in the middle.
* `run.start` is many transactions; its process may die between any two of them, and
  another process may send the same request again meanwhile.
* Two processes may hold the same run in memory, each with a state of its own.

`PROJECT.json` lists each hazard at its line with the properties that cover it, and
those no property covers yet.


## 2. The modules

    Replay ── RunCore ── Supervisor ── (MCSupervisor)
       │         └── (MCRunCore)
       ├── FaultyJournal ── (MCFaultyJournal)
       └── Processes ── (MCProcesses)
              └─ INSTANCE LaunchOnce
    EnergyGuard ── (MCEnergyGuard)
    Admission ── (MCAdmission)

The proofs are in modules of their own, each of which extends the module it is about:

    ReplayProofs ─┬─ RunCoreProofs ── SupervisorProofs
                  ├─ FaultyProofs
                  └─ ProcessesProofs
    SumProofs ────┬─ RunCoreProofs
                  ├─ EnergyProofs
                  └─ AdmissionProofs

**Replay** (`replay.py`). `Sources` and `PostState` are the two tables, `Apply` one
turn of the loop of `replay_events`. A replay is a record of the run state, one status
per token, action and reservation, and `ok`, which becomes false where the code
raises. Events that one transaction appends about several subjects are one event
with a set of ids.

**RunCore** (`core.py`). One action per operation of the class, under any order of
calls: the abstract specification `CoreSpec` of what a run promises. `journal` is the
replay of what was committed, so that every action applies its events to
it (`Commit`). Payloads, channels and work items are small sets; a token's `grant`
and an action's `origin` are the fields that `dispatch` compares. Time is `now`.

**Supervisor** (`engine.py` class `Run`, `_drive_run`). `pc` is the next step of the
engine; each step is one transaction with the host calls around it, and processes exit and
die between any two steps. A look at the cgroup may fail, which `_check_empty` takes for a
populated one. It EXTENDS RunCore: what changes the reducer is an
operation of RunCore, so that refinement is `Spec => CoreSpec` under the identity
mapping. A host that refuses kills, launches that fail in every place, failing
samples, a guard that trips, a driver that leaves and signals between entries are
nondeterministic choices. `task` and `doomed` are the processes of the cgroup and
the kills pending; `released` counts what was handed to the host.

**FaultyJournal** (`Run._commit`, `_handle_checked`, `_safety_pass`, `Journal`). A
running run whose transactions may be refused. `disk` and `rows` are what SQLite
holds; the rest is memory and the host. A refused transaction leaves both untouched
and raises: a request answers `AUDIT_FAULT` and may be retried, a tick ends the
driver (`pc = "gone"`), `_fault` and `_issue_kill` go on. Budgets, channels, payloads
and the clock are in RunCore and Supervisor; here any token may expire and any run be
given up at any tick.

**EnergyGuard** (`meter.py`, `_sample`, `_read_final_sample`). Counters that move as
hardware may move them (any draw up to the configured power, wrapping, standing still),
samples at any spacing up to `MaxGap`, readings that fail in any domain.
`unread`, `lost`, `skipped`, `stillFor` and `stillCpu` are history: what the counters
counted that no reading has covered, that a reading covered without metering it, that
the first reading left out, and since when nothing moved.

**LaunchOnce** is what `run.start` promises, in three actions: a request comes to own a
run (`Own`), the workload of a run is released (`Release`), a reply is stored (`Store`).
It knows no processes and no crashes.

**Processes** (`Launcher` and the opening, arming and stopping parts of `Run` in
`engine.py`, `LaunchIndex`, the commands of `cli.py`, `recovery.py`, `verify_bundle`).
Any number of processes over one state root. `pc` is the next step of a process, one
transaction or host call each: reservation, journal, `RunCreated`, `RunArming`,
preflight, `RunStarted`, `spawn_root`, manifest, reply; then ticks, stops and
finalisation, of which RunCore and Supervisor hold the detail. `mem` is
`Launcher.runs` of each process: the state of the run, whether this process created it
(`own`: it has the seed) and whether `RunContext.cgroup` is set (`box`). `index`,
`journal` and `manifest` survive, the rest does not. A journal is its replay and whether
every event was written with the run's key and clock (`genuine`), which is what
`verify_bundle` finds out. The faults: a process ends between any two steps (`Exit`, a
death or the end of a command); a reboot; a refused transaction of `run.start`; a refused
kill; a preflight, a spawn or a manifest that fails, after which `arm` rejects the run
(`Reject`) or, when its cgroup is populated or cannot be read, latches a fault and kills
(`ArmFault`). `recovery` is a `recover` command at work: it reads the journal, the manifest
and the cgroup of a run one after the other (`ReadJournal`, `ReadManifest`, `StatCgroup`,
`KillOrphan`), with steps of everybody else in between, and may die, or be overtaken by
another, at any of them. Processes implements LaunchOnce under `owned <- run of the index row`, `stored <- its reply`,
`releases` as it is.

**Admission** (`config.py`, `schema.check_config`, `estimator.py`, `units.py`,
`cmd_run` and `run_start`, `RunCore.compute_reserve`, `compute_finish`,
`route_choose`). Functions of their arguments: a behaviour is one call and its reply.
The order of the checks decides which error is answered, and is kept. What `run_start` asks
of the host before it allocates a run, the capabilities of the profile and the digests of the
catalogue, is an input (`Hosts`).


## 3. What TLC checks

Deadlock checking is off everywhere: a run that has ended has no step left, and the
bounds on time stop the others.

| Run | Module and config | Shows |
|---|---|---|
| core | MCRunCore | `TypeOK`, `JournalAgrees`, `InflightExact`, `SpawnSlotsExact`, `OneActionPerToken`, `FlopsExact`, `FirstStopWins`, `NothingAdmittedAfterStop` |
| supervisor | MCSupervisor | `SupervisorTypeOK`, `ReleasedOnceAndDurable`, `StopIsKilled`, `LiveChildIsWatched`, `ContainmentIsClosed`, `NothingReleasedAfterStop`; `CoreSpec` (the refinement, which carries the properties of *core* over) |
| supervisor_live | MCSupervisor, MCSupervisorLive.cfg | `StopSettles`, `RunIsStopped`, `EveryActionResolves` |
| energy | MCEnergyGuard | `EnergyTypeOK`, `MeteredExactly`, `DrawnBelowCap`, `StuckIsCaught` |
| faulty_journal | MCFaultyJournal | `FaultyTypeOK`, `TokenBuysOneEffect`, `AnsweredIsDurable`; `SlotsAccounted`: the spawn slots taken in memory are those of the journal and at most one per refused transaction; `LatchedIsKilled` |
| processes | MCProcesses | `LaunchesOnce` (the refinement of LaunchOnce): deaths and retries never launch a request twice nor change its stored reply; `EvidenceIsTrue`: a receipt that verifies and is complete is about a workload that is gone; `SoleWriterVerifies`: while no transaction was refused, a run written by its owner alone verifies after any crash; `RecoverContains`: what `CONTAINED` means, from readings that others may have overtaken; `ProcessesTypeOK` |
| admission | MCAdmission | `NeverLoosened`, `AdmittedIsEnforceable` of budgets; `ChargeIsExact`, `FinishedWithinCharge`, `NoDiscountBySplitting` of the estimate, against the work counted token by token; `RouteIsBest`; `JoulesExact` |

### 3.1 Where the code does not do what it says

Each of these runs ends in a counterexample; `PROJECT.json` quotes the line it
contradicts.

| Run | Property | What happens |
|---|---|---|
| energy_baseline | `MeteredFromBaseline` | the baseline sample does not become the first previous reading: what is drawn before the first tick is never metered |
| energy_complete | `CompleteIsExact` | a sample fails at its second domain after the first was read: that delta is lost, and `energy_complete` stays true |
| faulty_release | `OnlyDurableReleased` | a dispatch whose transaction was refused stays in `_exec_after_commit` and is executed by the next request that commits |
| faulty_kill | `KillNeverWaits` | a stop whose transaction is refused latches in memory and is not followed by a kill; a later tick kills (`LatchedIsKilled` holds) |
| processes_kill | `ConfirmedIsEmpty` | `kill` opens the run from its journal and so has no cgroup: it kills nothing, takes the containment for empty, finalises the run and confirms, while the workload lives |

What `processes_kill` finalises is not signed with the run's key, so `verify_bundle`
refuses that receipt: `EvidenceIsTrue` holds all the same.

More of the kind is part of the models without a run of its own. In Processes, `recover`
answers `CONTAINED` after a write of `cgroup.kill` that raised, of a workload that nobody
has killed (`recovery.py:65-70`; the second disjunct of `KillOrphan`), although the module
says that it "contains same-boot orphans": `RecoverContains` excludes the answers after
such a write. It also never looks whether a cgroup that it did write to became empty, so that
the property promises SIGKILL, not an empty cgroup. In FaultyJournal, memory runs ahead of
the journal after a refused transaction: a retry takes a second spawn slot, and a later event
may be one that the replay rejects (`disk.ok` becomes false); `AnsweredIsDurable` and
`SlotsAccounted` speak of journals that are still legal. And a transaction refused in a tick ends the driver and leaves the
workload alive (`pc = "gone"`): `LatchedIsKilled` allows for it.

### 3.2 Bounds and why they are enough

* *core*: three tokens for two slots (so that the cap is met), two actions for
  one in-flight place (so that `BUSY` and the drain matter), a time to live of 1 within
  `MaxNow` 1 (so that tokens expire unspent, and a late dispatch finds them expired), two channels and
  two approved payloads (so that binding can fail in each part), two reservations of
  charges 1 and 3 under a cap of 3: an exact fit, an overshoot and a report over the
  envelope.
* *supervisor*: two actions (a spawned and a fetched one, or two children), a wall cap
  of 2 and a kill deadline of 1 within `MaxNow` 3. Nothing refers to more than two
  actions at once. *supervisor_live* has one token, one action and one reservation and
  uses no symmetry, which would not be sound for liveness.
* *energy*: one domain that draws up to 3 half units per unit of time, a range of
  4, samples up to 3 units of time apart (the stale limit), a cap just above the
  reserve. Three units may draw more than the range, so a wrap can be ambiguous and
  has to be refused; one and two may not. One domain is enough, because domains are
  only added up; *energy_complete* needs two. `DrawnBelowCap` rests on ticks no further
  apart than `meter.stale_us`: a later sample is refused and stops the run, but what was
  drawn before it is not bounded by the reserve. The theorem has this as its hypothesis,
  `MaxGap <= Stale`. What the first readings skip (`energy_baseline`) is not in the sum.
* *faulty_journal*: four keys, two tokens for one slot, two actions, two refused
  transactions: enough to issue a token, lose a slot, have a dispatch refused and retried, and
  a request left to release what was left behind. No symmetry, because of
  `LatchedIsKilled`.
* *processes*: two processes, one of which may retry, open, kill or recover what the
  other launches, one `recover` at a time, one request and two runs, of which one is metered,
  and two refused transactions (of `RunStarted` and of the latch behind it). A request reserves one run for ever, so that the second run is there to be
  taken instead of the first. With two requests the state space passes seven million
  states with no end in sight; that requests do not get in each other's way is left to the
  proofs, which hold for any number. Processes and requests are only compared.
* *admission*: hosts with and without the capabilities and with right and wrong digests; caps
  on both sides of the reserve (1) and of 0, every combination with
  every override; five models, three of them at one cost and two of those with one id
  (`route.choose` does not check that ids differ), in every catalogue of up to three;
  lengths up to three, batches up to three, observations below and above the envelope. The
  arithmetic has no threshold above these: products and a sum of an arithmetic
  progression, and one rounding of which the safety factors 1000, 1200 and 1500 meet
  exact and inexact cases. The proofs cover all naturals.

`MaxNow`, `MaxFailures`, `MaxRefused` and `MaxObserved` bound what the code leaves unbounded; they
occur only in guards. Identifiers are compared and never ordered, which makes the
symmetry sets sound for the invariants.

### 3.3 Fairness

`_drive_run` calls `tick` on every turn of an endless loop and requests and signals only come
in between: strong fairness of the start of a tick (requests may disable it again and
again), weak fairness of the steps of an entry once it has begun (one thread, no waiting).
Boottime advances. A process with SIGKILL pending dies, a `cgroup.kill` that is retried for
ever works once, and so does a look at a cgroup that stays empty (strong fairness of
`DrainEffects`, since a failed look counts as a populated cgroup): properties of the kernel
that the code relies on.
Nothing is assumed of clients, of signals or of processes exiting by
themselves. The driver may leave an UNCONFIRMED run after its bounded wait; the liveness
properties say so. Processes and Admission state no fairness: a process may die at any
step, so nothing must happen.


## 4. What is proved

| Theorem | Module | About |
|---|---|---|
| `TypeCorrect`, `JournalCorrect`, `FirstStopWinsAlways`, `NothingAdmittedAfterStopAlways` | RunCoreProofs | the reducer |
| `SpawnSlotsCorrect`, `InflightCorrect`, `OneActionPerTokenCorrect`, `FlopsCapRespected`, `FlopsExactAlways` | RunCoreProofs | its ledgers |
| `EngineRefinesCore`, `EngineJournalCorrect` | SupervisorProofs | the engine implements the reducer |
| `SupervisorTypesAlways`, `StopIsKilledAlways`, `ReleasedOnceAndDurableAlways`, `NothingReleasedAfterStopAlways`, `LiveChildIsWatchedAlways`, `ContainmentIsClosedAlways` | SupervisorProofs | what the engine does to the host |
| `LaunchesOnceAlways` | ProcessesProofs | Processes implements LaunchOnce |
| `EvidenceIsTrueAlways`, `SoleWriterVerifiesAlways`, `RecoverContainsAlways`, `ProcessesTypesAlways` | ProcessesProofs | complete, verified evidence is true; a sole writer's receipt verifies while no transaction was refused; what `CONTAINED` means |
| `FaultyTypesAlways`, `TokenBuysOneEffectAlways`, `AnsweredIsDurableAlways`, `SlotsAccountedAlways` | FaultyProofs | a journal that refuses transactions |
| `EnergyInvAlways`, `EnergyTypesAlways`, `MeteredExactlyAlways`, `DrawnBelowCapAlways`, `StuckIsCaughtAlways` | EnergyProofs | the meter and the guard |
| `NeverLoosenedAlways`, `AdmittedIsEnforceableAlways` | AdmissionProofs | what is admitted |
| `ChargeIsExactAlways`, `FinishedWithinChargeAlways`, `NoDiscountBySplittingAlways` | AdmissionProofs | what is charged |
| `RouteIsBestAlways`, `JoulesExactAlways` | AdmissionProofs | what is chosen and read |

Every invariant, action property and refinement that a passing run checks is stated
by one of these theorems. ReplayProofs and SumProofs hold the lemmas they share: what one
event does to a replay, and what a sum over a finite set is.

The only assumptions are the named ones on the constants, which TLC evaluates in every
run, and the one hypothesis `MaxGap <= Stale` of `DrawnBelowCapAlways`:

* `CoreAssumption`: caps are naturals or absent, payloads of a kind are approved payloads,
  and the sets of identifiers are finite where they are counted or summed over.
* `SupervisorAssumption`: a child talks on the channel its action opened.
* `FaultyAssumption`, `ProcessesAssumption`: the budget and the bound on refused
  transactions are naturals; tokens, which are counted, are finitely many; what stands for
  nothing is not an identifier.
* `EnergyAssumption`: powers, margins, ranges and spacings are naturals, and the cap
  is above the reserve, as `run_start` enforces (`BUDGET_TOO_SMALL`).
* `AdmissionAssumption`: dimensions and budgets are naturals, catalogues are sequences of
  models, joule texts are sequences of digits.

*Arguments.* `TypeOK` is inductive together with `Booked` (a reservation that exists
has a booking, without which its charge has no type). `JournalAgrees` is inductive with
the types and with `Unused` (no reservation exists in a created run): each operation's
event is legal in the replay exactly because the reducer's guard and the replay's table
name the same states, and the replay's update is the reducer's; `JournalStep` has one case
per operation. `FirstStopWins` and `NothingAdmittedAfterStop` need `StopInv`, which ties
the states to the presence of a stop reason. The two counters are proved equal to
cardinalities by adding or removing one element, and the drain by the cardinality of a
difference. `OneActionPerToken` is inductive with `Originated`.

For the engine, `EngineRefinesCore` shows that every step is an operation of RunCore or
leaves the reducer alone, so every property of the reducer carries over
(`EngineJournalCorrect`). `KillInv`, a stop has been killed or the kill is the next
step, gives `StopIsKilled`; it holds because no step latches without going
to `"kill"`. `EffectInv` has five parts: types, `Unborn` (no effect before its action),
`Fresh` (the action about to be executed was just dispatched, in a running run),
`LiveChildIsWatched` and `Drained` (nothing is alive or unresolved from the drain on).
`Fresh` is the heart of it: between the transaction and the release there is no step
at which a stop could be latched, which is exactly what a handler inside an entry, or a
refused transaction (`OnlyDurableReleased`), would break.

For launches, the refinement needs `LaunchInv`: a run belongs to one request (`Rows`); a
process at a request has the run of its row (`Held`); a request is launched by at most one
process and has no reply while it is (`Sole`), because only a fresh row is launched and a
process that dies is never taken over; only owned runs are released (`Owned`), none before
`spawn_root` (`Before`); and a released run is remembered past the states that `Run.reject`
rejects (`Armed`), without which a request could be answered `REJECTED` for good with its
workload running. Each step of Processes is then an `Own`, a `Release`, a `Store` or a
stutter.

`EvidenceIsTrue` needs to follow the owner of a run (`EvidenceInv`). A run has one owner,
its launcher (`Owners`), and only an owner's events keep a journal good. An owner has the
cgroup of a living workload in memory, so that it really looks before it closes (`Boxed`);
nothing is closed before it was released (`Unclosed`), nor finalised by its owner with a
workload alive (`Emptied`); and since the owner is the only one who could release the
workload, what is closed stays empty (`Gone`). The counterexample of `processes_kill` is
this argument without ownership.

`SoleWriterVerifies` needs the memory of the owner (`WriterInv`): at every step its run is
in the state that step is about (`InPlace`), a run that is remembered has a journal and a
new one has none (`Known`), and while no transaction was refused the replay ends in the
state the owner remembers (`Agrees`). So every event is legal where it is appended. A
refused transaction breaks just that, memory runs ahead, and the property says so.

`RecoverContains` is about readings that may be stale. A living workload has a journal
(`Filed`), so that none is read where there is a workload. A journal that was good evidence
of the end of a run when it was read says that nobody is alive in it (`Gone`) and that nobody
launches it (`Unclosed`), and this stays so whatever comes between (`Over`, `Warned`): only a
launch releases, and no launch of a run begins that the index has. If another process has
written to the journal by the time of the answer, the property says nothing; otherwise it was
good when it was read (`GenuineStep`).

For the estimate the step is from half of `n * (n - 1)`, an exact division, to
monotonicity: pairs, work and rounding are monotone in the output length, and rounding up
is subadditive, which gives `FinishedWithinCharge` and `NoDiscountBySplitting`.

`SupervisorTypesAlways` adds the types of the host to those of the reducer, which come from
the refinement, and of the effects. `ProcessesTypesAlways` needs where a cgroup is: who has
one in memory is the owner (`Hers`), a run that starts has its cgroup (`Caged`), a workload
is in one (`Housed`). No process removes the cgroup of a living workload, which is what
"a workload lives inside its cgroup" comes to.

*Sums.* `FlopsExact`, the meter and the reserve speak of sums over finite sets, which the
library defines by a recursive function on subsets. SumProofs shows that this function
exists and obeys its equation by a smallest counterexample (`SmallestSet`), and from there
the facts that the proofs use: one element more, one summand changed, sums of sums, larger
summands. `FlopsExactAlways` is then one summand more for each reservation and none for
a finished one.

*The meter.* `EnergyInv` is inductive. While the run is RUNNING every sample has read every
domain, so that all readings have one age and what was drawn is metered or unread
(`Exact`): a delta is the unread draw modulo the range, and it is only accepted when what
could have been drawn is below the range (`WRAP_AMBIGUOUS` otherwise), so it is the draw. From
the latch on samples may fail half way; then only the sum of metered, lost and unread is
followed, and it stays below the sum at the last good sample plus what each domain could
draw since (`Spending`). That sample did not trip the guard, so it left room for the
reserve, and the reserve covers the stale limit and the kill deadline, which is where
`MaxGap <= Stale` comes in. `StuckIsCaught` follows the age of the last movement (`Watched`).
TLC agrees with `EnergyInv` on the bounds of *energy*.

*Refused transactions.* The journal of FaultyJournal only grows (`Grows`): while it replays, a
token or action in it stays. A reply is stored by a transaction that committed its
events, so its subject is in the journal from then on (`Durable`), which gives
`AnsweredIsDurable`. `TokenBuysOneEffect` rests on memory alone (`Tokens`): a token is spent
before the transaction and never given back, so the refused dispatch that is executed
later (`OnlyDurableReleased`) still was the only one. For `SlotsAccounted` each step is shown
to move the counter and the journal's tokens together or, when its transaction is refused, the
counter alone by at most one; no step gives a slot back.

*Folds over sequences.* `ChargeIsExact`, `RouteIsBest` and `JoulesExact` compare with folds,
for which the library has no induction that the prover can use. AdmissionProofs follows the
fold element by element instead: `CarriesExists` gives the function of its intermediate
values, whose neighbours are one step apart, and an invariant of these is shown by its
smallest counterexample. The pairs counted up to n are n(n-1)/2, digits to the left of a
text shift it by a power of ten, and the best of the first n models stays best of n + 1.

*Only model-checked.* The liveness properties `StopSettles`, `RunIsStopped`,
`EveryActionResolves` and `LatchedIsKilled`: liveness under fairness is out of the prover's
reach.


## 5. What is not modelled, and the plan

Left to do, in this order:

1. The SIGINT handler inside a tick or a transaction. `Interrupt` of Supervisor comes
   between two steps of an entry; CPython runs the handler between any two byte codes, and
   the state it meets is not one that the steps of the model have.
2. `src/ts/src/replay.ts` against Replay over the journals RunCore can write, which needs
   request ids in the journal.
3. Task UIDs: `_cleanup_arming` and `_finalize` both free the UID of a run whose start
   failed late.
4. A theorem for each of these as it is modelled, and one that relates FaultyJournal
   without refusals to RunCore.

Left out, with the reason:

* Cryptography and encodings (JSON, hashes, signatures, ids): no small set of values says
  anything about them. Processes keeps the one bit that matters, whether the events are
  signed with the run's key.
* Sandbox and seccomp setup: straight-line code without state of the system.
* The Linux host. Processes and Supervisor model the contract of `host/base.py` as
  `SimHost` realises it. cgroup files, namespaces and netns plumbing are kernel interfaces;
  a cgroup whose inode is another than the manifest names, which `recover_run` tells apart,
  cannot occur in the model.
* `recover_action` and `resume_run`: no code calls them, and they change nothing.
* The loop of `recover --all`, which ends at the first journal that does not replay, and
  `tick_all` over several runs, which no command has in one process.
* The socket server and the SDKs: framing; what a repeated request does is in FaultyJournal
  and Processes.
* `config validate` (`cmd_config`): a second copy of the budget checks of `run_start`, without
  its questions to the host, so that it may pass what `run_start` refuses.
* Receipts, their projections and the integrations: reads.
* The answer a retry gets while nothing is stored: it may be told `ARMING` about a launch
  that has failed, or `REJECTED` about one that still goes on. LaunchOnce leaves it free on
  purpose.
