------------------------------ MODULE Supervisor ------------------------------
(***************************************************************************)
(* The supervisor of one run, class Run of src/lexwatt/engine.py, with the *)
(* processes of the run's cgroup.                                          *)
(*                                                                         *)
(* The engine is one thread.  It is idle between entries, and an entry (a  *)
(* launch, one request, one tick, a signal between two ticks) is a series  *)
(* of steps; a step is one journal transaction with the host calls around  *)
(* it.  "pc" names the next step.  Processes run, exit and die of a        *)
(* pending SIGKILL between any two steps.  Every step that changes the     *)
(* reducer is an operation of RunCore.                                     *)
(*                                                                         *)
(* Every transaction commits here; module FaultyJournal lets them fail.    *)
(* Boottime stands still inside an entry.                                  *)
(***************************************************************************)
EXTENDS RunCore

CONSTANTS
    SpawnPayload,  \* the approved payloads of kind "spawn"; the rest are http_get
    WallCap,       \* budgets.max_wall_us
    KillDeadline,  \* meter.kill_deadline_us
    Sampled,       \* profile linux-rapl-v1
    NoAction

\* A child talks on the channel its action opened, so it has that action's name.
ASSUME SupervisorAssumption ==
    /\ SpawnPayload \subseteq Approved
    /\ WallCap \in Nat
    /\ KillDeadline \in Nat
    /\ Sampled \in BOOLEAN
    /\ Root \notin ActionId
    /\ NoAction \notin ActionId
    /\ Channel = {Root} \cup ActionId
    /\ {"OPERATOR", "SIGNAL", "ROOT_EXIT", "WALL_CAP", "SENSOR_FAULT", "ENERGY_GUARD",
        "MEASUREMENT_OVERRUN", "CONTAINMENT_FAULT"} \subseteq StopSources

VARIABLES
    pc,        \* the next step of the engine
    ret,       \* the step after a hard stop
    pending,   \* Run._exec_after_commit
    watched,   \* the keys of Run.child_procs
    released,  \* how often each action's effect was released to the host
    task,      \* the processes in the cgroup, by channel
    doomed,    \* those with a SIGKILL pending
    driving    \* _drive_run is still in its loop

control == <<pc, ret>>
hostVars == <<task, doomed, driving>>
engineVars == <<pending, watched, released>>
vars == <<coreVars, control, engineVars, hostVars>>

Steps == {"create", "arm", "probe", "spawn", "idle", "kill", "exec", "wall",
          "sample", "guard", "reap", "sweep", "progress", "empty", "close",
          "finalize"}

Alive     == {c \in Channel : task[c] = "alive"}

\* Faulty: asks about the root process only.
Populated_Root == task[Root] = "alive"

Populated == Alive # {}

Init ==
    /\ CoreInit
    /\ pc = "create"
    /\ ret = "idle"
    /\ pending = NoAction
    /\ watched = {}
    /\ released = [a \in ActionId |-> 0]
    /\ task = [c \in Channel |-> "none"]
    /\ doomed = {}
    /\ driving = TRUE

Goto(step) == pc' = step /\ UNCHANGED ret

\* Every latch is followed by the hard stop before anything else is done.
Kill(next) == pc' = "kill" /\ ret' = next

-------------------------------------------------------------------------------
(***************************************************************************)
(* Kernel.                                                                 *)
(***************************************************************************)
Exit(c) ==
    /\ task[c] = "alive"
    /\ task' = [task EXCEPT ![c] = "exited"]
    /\ UNCHANGED <<coreVars, control, engineVars, doomed, driving>>

Die(c) == c \in doomed /\ Exit(c)

\* Time passes between entries.
Pass ==
    /\ pc = "idle"
    /\ Elapse
    /\ UNCHANGED <<control, engineVars, hostVars>>

\* Faulty: the first attempt is the only one.
CgroupKill_Once(works) ==
    /\ doomed' = IF works /\ ~killIssued THEN doomed \cup Alive ELSE doomed
    /\ UNCHANGED <<task, driving>>

\* A write to cgroup.kill, which the host may refuse.
CgroupKill(works) ==
    /\ doomed' = IF works THEN doomed \cup Alive ELSE doomed
    /\ UNCHANGED <<task, driving>>

-------------------------------------------------------------------------------
(***************************************************************************)
(* Launch: Launcher.run_start from run.created to the end of run.arm.      *)
(***************************************************************************)
RunCreated == pc = "create" /\ Create /\ Goto("arm") /\ UNCHANGED <<engineVars, hostVars>>

RunArming == pc = "arm" /\ Arm /\ Goto("probe") /\ UNCHANGED <<engineVars, hostVars>>

\* Faulty: the run is RUNNING before anything is committed.
RunStarted_Unlogged ==
    /\ pc = "probe"
    /\ state = "ARMING"
    /\ state' = "RUNNING"
    /\ Goto("spawn")
    /\ UNCHANGED <<stopVars, workVars, now, journal, engineVars, hostVars>>

\* arm(): lease, UID, cgroup and domains are all there.
RunStarted == pc = "probe" /\ Start /\ Goto("spawn") /\ UNCHANGED <<engineVars, hostVars>>

\* arm(): one of them is refused and the cgroup is absent or empty.
RunRejected == pc = "probe" /\ Reject /\ Goto("idle") /\ UNCHANGED <<engineVars, hostVars>>

\* arm(): one of them is refused and the cgroup cannot be seen to be empty.
RunUncertain ==
    /\ pc = "probe"
    /\ Stop("CONTAINMENT_FAULT")
    /\ Kill("idle")
    /\ UNCHANGED <<engineVars, hostVars>>

\* arm(): the root process is released, after RunStarted is durable.
SpawnRoot ==
    /\ pc = "spawn"
    /\ task' = [task EXCEPT ![Root] = "alive"]
    /\ Goto("idle")
    /\ UNCHANGED <<coreVars, engineVars, doomed, driving>>

\* arm(): spawn_root fails and the cgroup is empty.  reject() finds the run
\* RUNNING and commits nothing.
SpawnRootFails ==
    /\ pc = "spawn"
    /\ Goto("idle")
    /\ UNCHANGED <<coreVars, engineVars, hostVars>>

\* arm(): the launch fails with the root process in the cgroup.
SpawnRootUncertain ==
    /\ pc = "spawn"
    /\ task' = [task EXCEPT ![Root] = "alive"]
    /\ Stop("CONTAINMENT_FAULT")
    /\ Kill("idle")
    /\ UNCHANGED <<engineVars, doomed, driving>>

LaunchStep ==
    \/ RunCreated \/ RunArming \/ RunStarted \/ RunRejected \/ RunUncertain
    \/ SpawnRoot \/ SpawnRootFails \/ SpawnRootUncertain

-------------------------------------------------------------------------------
(***************************************************************************)
(* Hard stop: Run._issue_kill.                                             *)
(***************************************************************************)
IssueKill(works) ==
    /\ pc = "kill"
    /\ CgroupKill(works)
    /\ RecordKill
    /\ Goto(ret)
    /\ UNCHANGED engineVars

-------------------------------------------------------------------------------
(***************************************************************************)
(* Requests: Run.handle.  Workload requests come from the processes that   *)
(* were given a channel.                                                   *)
(***************************************************************************)
\* Faulty: a request or a signal is handled between a commit and its effect.
Serving_Between == pc \in {"idle", "exec"} /\ driving

Serving == pc = "idle" /\ driving

Connected(ch) == task[ch] # "none"

\* handle(), after the commit: the effect waiting in _exec_after_commit, if any.
AfterCommit == IF pending # NoAction THEN "exec" ELSE "idle"

Answered == Goto(AfterCommit) /\ UNCHANGED <<engineVars, hostVars>>

\* Faulty: the kill is left to the next tick.
AnsweredThenKill_Later == Answered

\* A request whose transaction latched a stop.
AnsweredThenKill == Kill(AfterCommit) /\ UNCHANGED <<engineVars, hostVars>>

RequestToken(ch) ==
    /\ Serving
    /\ Connected(ch)
    /\ \/ \E p \in Approved, t \in TokenId : IssueToken(ch, p, t) /\ Answered
       \/ \E p \in Approved : SpawnCapReached(p) /\ AnsweredThenKill

RequestDispatch(ch) ==
    /\ Serving
    /\ Connected(ch)
    /\ \E p \in Payload, t \in TokenId :
          \/ /\ DispatchLate(ch, p, t)
             /\ Answered
          \/ \E a \in ActionId :
                /\ Dispatch(ch, p, t, a)
                /\ pending' = a
                /\ Goto("exec")
                /\ UNCHANGED <<watched, released, hostVars>>

RequestCompute(ch) ==
    /\ Serving
    /\ Connected(ch)
    /\ \E w \in Work :
          \/ FlopsCapReached(w) /\ AnsweredThenKill
          \/ \E c \in ComputeId : Reserve(ch, w, c) /\ Answered

ReportCompute(ch) ==
    /\ Serving
    /\ Connected(ch)
    /\ \E c \in ComputeId, n \in 0..MaxObserved :
          \/ FinishCompute(ch, c, n) /\ Answered
          \/ /\ OverEnvelope(ch, c, n)
             /\ IF MayLatch THEN AnsweredThenKill ELSE Answered

Refuse == Serving /\ Deny /\ Answered

\* run.stop; repeated, it only answers.
OperatorStop == Serving /\ Stop("OPERATOR") /\ AnsweredThenKill

\* SIGINT while _drive_run sleeps: Run._latch, which kills again when the run
\* is already stopping.
Interrupt ==
    /\ Serving
    /\ \/ Stop("SIGNAL")
       \/ state = "STOPPING" /\ UNCHANGED coreVars
    /\ AnsweredThenKill

Request ==
    \/ \E ch \in Channel :
          RequestToken(ch) \/ RequestDispatch(ch) \/ RequestCompute(ch) \/ ReportCompute(ch)
    \/ Refuse
    \/ OperatorStop
    \/ Interrupt

-------------------------------------------------------------------------------
(***************************************************************************)
(* Run._execute_action: the effect of the action just committed.           *)
(***************************************************************************)
\* Faulty: the hand-over variable is not cleared.
ExecDone_Sticky == UNCHANGED pending /\ Goto("idle")

ExecDone == pending' = NoAction /\ Goto("idle")

Released == [released EXCEPT ![pending] = @ + 1]

\* spawn_child succeeds: the completion is observed by a later tick.
ReleaseChild ==
    /\ pc = "exec"
    /\ origin[pending].payload \in SpawnPayload
    /\ task' = [task EXCEPT ![pending] = "alive"]
    /\ watched' = watched \cup {pending}
    /\ released' = Released
    /\ ExecDone
    /\ UNCHANGED <<coreVars, doomed, driving>>

\* spawn_child fails before exec.
ReleaseFails ==
    /\ pc = "exec"
    /\ origin[pending].payload \in SpawnPayload
    /\ FinishAction(pending, "FAILED")
    /\ ExecDone
    /\ UNCHANGED <<watched, released, hostVars>>

\* http_get, synchronous.
ReleaseGet ==
    /\ pc = "exec"
    /\ origin[pending].payload \notin SpawnPayload
    /\ \E to \in {"SUCCEEDED", "FAILED"} : FinishAction(pending, to)
    /\ released' = Released
    /\ ExecDone
    /\ UNCHANGED <<watched, hostVars>>

Execute == ReleaseChild \/ ReleaseFails \/ ReleaseGet

-------------------------------------------------------------------------------
(***************************************************************************)
(* One tick: Run._safety_pass.                                             *)
(***************************************************************************)
\* Faulty: stopping runs are not ticked.
Ticking_Running == state = "RUNNING"

Ticking == state \in {"RUNNING", "STOPPING", "UNCONFIRMED"}

RootGone == state = "RUNNING" /\ task[Root] = "exited"

TickBegin ==
    /\ pc = "idle"
    /\ driving
    /\ Ticking
    /\ \/ RootGone /\ Stop("ROOT_EXIT") /\ Kill("wall")
       \/ ~RootGone /\ Goto("wall") /\ UNCHANGED coreVars
    /\ UNCHANGED <<engineVars, hostVars>>

\* Faulty: the deadline is only watched for a live root.
WallSpent_Rooted == state = "RUNNING" /\ now >= WallCap /\ task[Root] = "alive"

WallSpent == state = "RUNNING" /\ now >= WallCap

CheckWall ==
    /\ pc = "wall"
    /\ \/ WallSpent /\ Stop("WALL_CAP") /\ Kill("sample")
       \/ ~WallSpent /\ Goto("sample") /\ UNCHANGED coreVars
    /\ UNCHANGED <<engineVars, hostVars>>

\* _sample reads the domains and records the sample, or raises.
TakeSample ==
    /\ pc = "sample"
    /\ \/ ~Sampled /\ Goto("reap") /\ UNCHANGED coreVars
       \/ Sampled /\ RecordSample /\ Goto(IF state = "RUNNING" THEN "guard" ELSE "reap")
    /\ UNCHANGED <<engineVars, hostVars>>

\* _fault after a failed sample.
SampleFails ==
    /\ pc = "sample"
    /\ Sampled
    /\ Stop("SENSOR_FAULT") \/ ObserveFault
    /\ IF state = "UNCONFIRMED" THEN Goto("reap") ELSE Kill("reap")
    /\ UNCHANGED <<engineVars, hostVars>>

\* The energy guard on the sample just recorded (module EnergyGuard).
CheckGuard ==
    /\ pc = "guard"
    /\ \/ Goto("reap") /\ UNCHANGED coreVars
       \/ \E reason \in {"ENERGY_GUARD", "MEASUREMENT_OVERRUN"} :
             Stop(reason) /\ Kill("reap")
    /\ UNCHANGED <<engineVars, hostVars>>

\* Faulty: takes every watched child for exited.
Reapable_All == watched

Reapable == {a \in watched : task[a] = "exited"}

\* _observe_children: exit status 0 is a success.
ReapChild(a) ==
    /\ pc = "reap"
    /\ a \in Reapable
    /\ \E to \in {"SUCCEEDED", "FAILED"} :
          /\ a \in doomed => to = "FAILED"
          /\ FinishAction(a, to)
    /\ watched' = watched \ {a}
    /\ Goto("reap")
    /\ UNCHANGED <<pending, released, hostVars>>

ReapDone ==
    /\ pc = "reap"
    /\ Reapable = {}
    /\ Goto("sweep")
    /\ UNCHANGED <<coreVars, engineVars, hostVars>>

Sweep ==
    /\ pc = "sweep"
    /\ \/ ExpireTokens
       \/ (state # "RUNNING" \/ DueTokens = {}) /\ UNCHANGED coreVars
    /\ Goto("progress")
    /\ UNCHANGED <<engineVars, hostVars>>

-------------------------------------------------------------------------------
(***************************************************************************)
(* Run._stop_progress.                                                     *)
(***************************************************************************)
StopInProgress == state \in {"STOPPING", "UNCONFIRMED"}

NothingToStop ==
    /\ pc = "progress"
    /\ ~StopInProgress
    /\ Goto("idle")
    /\ UNCHANGED <<coreVars, engineVars, hostVars>>

Overdue == state = "STOPPING" /\ now - stopAt >= KillDeadline

\* The cgroup is seen populated, or the look fails, which counts for the same and
\* may happen of an empty one.
GiveUpConfirming ==
    /\ pc = "progress"
    /\ StopInProgress
    /\ Overdue
    /\ KillUnconfirmed
    /\ Goto("idle")
    /\ UNCHANGED <<engineVars, hostVars>>

RetryKill(works) ==
    /\ pc = "progress"
    /\ StopInProgress
    /\ ~Overdue
    /\ CgroupKill(works)
    /\ Goto("idle")
    /\ UNCHANGED <<coreVars, engineVars>>

\* _check_empty of a cgroup that is seen to be empty: an action whose child is
\* still watched is FAILED when its exit is seen and UNKNOWN when it is not, or when
\* the look fails; one that was never released is FAILED.
DrainEffects ==
    /\ pc = "progress"
    /\ StopInProgress
    /\ ~Populated
    /\ \E unknown \in SUBSET (Unresolved \cap watched) :
          IF Unresolved = {} THEN UNCHANGED coreVars
                             ELSE Drain(Unresolved \ unknown, unknown)
    /\ watched' = watched \ Unresolved
    /\ Goto("empty")
    /\ UNCHANGED <<pending, released, hostVars>>

\* The final sample, whose failure is only a diagnostic.
FinalSample ==
    /\ pc = "empty"
    /\ \/ UNCHANGED coreVars
       \/ Sampled /\ ObserveFault
    /\ Goto("close")
    /\ UNCHANGED <<engineVars, hostVars>>

CloseContainment ==
    pc = "close" /\ ContainmentEmpty /\ Goto("finalize") /\ UNCHANGED <<engineVars, hostVars>>

FinalizeRun ==
    pc = "finalize" /\ Finalize /\ Goto("idle") /\ UNCHANGED <<engineVars, hostVars>>

\* _drive_run waits for an UNCONFIRMED run for a bounded time and leaves.
Leave ==
    /\ pc = "idle"
    /\ driving
    /\ state = "UNCONFIRMED"
    /\ driving' = FALSE
    /\ UNCHANGED <<coreVars, control, engineVars, task, doomed>>

Tick ==
    \/ TickBegin \/ CheckWall \/ TakeSample \/ SampleFails \/ CheckGuard
    \/ \E a \in ActionId : ReapChild(a)
    \/ ReapDone \/ Sweep
    \/ NothingToStop \/ GiveUpConfirming
    \/ \E works \in BOOLEAN : RetryKill(works)
    \/ DrainEffects \/ FinalSample \/ CloseContainment \/ FinalizeRun

-------------------------------------------------------------------------------
Next ==
    \/ LaunchStep
    \/ \E works \in BOOLEAN : IssueKill(works)
    \/ Request
    \/ Execute
    \/ Tick
    \/ Leave
    \/ Pass
    \/ \E c \in Channel : Exit(c)

\* A step of the engine once an entry has begun.
Proceed == pc # "idle" /\ (LaunchStep \/ Execute \/ Tick
                           \/ \E works \in BOOLEAN : IssueKill(works))

(***************************************************************************)
(* _drive_run calls tick on every turn of its loop, whatever requests and  *)
(* signals come between; the engine finishes what it began; boottime       *)
(* advances; a process with SIGKILL pending dies; cgroup.kill, and a look  *)
(* at an empty cgroup, work in the end when they are retried for ever.     *)
(***************************************************************************)
Fairness ==
    /\ SF_vars(TickBegin)
    /\ WF_vars(Proceed)
    /\ SF_vars(Pass)
    /\ \A c \in Channel : WF_vars(Die(c))
    /\ SF_vars(RetryKill(TRUE))
    /\ SF_vars(DrainEffects)

Spec == Init /\ [][Next]_vars /\ Fairness

-------------------------------------------------------------------------------
(***************************************************************************)
(* Properties.                                                             *)
(***************************************************************************)

\* The engine's variables hold values of their types.
SupervisorTypeOK ==
    /\ TypeOK
    /\ pc \in Steps
    /\ ret \in {"idle", "exec", "wall", "sample", "reap"}
    /\ pending \in ActionId \cup {NoAction}
    /\ watched \subseteq ActionId
    /\ released \in [ActionId -> Nat]
    /\ task \in [Channel -> {"none", "alive", "exited"}]
    /\ doomed \subseteq Channel
    /\ driving \in BOOLEAN

\* The effect of an action is released to the host at most once, and never
\* before the spending of its token is in the journal (Run._execute_action:
\* "the one allowed attempt for a durably-dispatched action").
ReleasedOnceAndDurable ==
    \A a \in ActionId :
        /\ released[a] <= 1
        /\ released[a] = 1 => /\ journal.act[a] # "NONE"
                              /\ journal.tok[origin[a].token] = "SPENT"

\* No effect is released once a stop has been latched: a dispatch that was
\* committed before the stop is not executed after it.
NothingReleasedAfterStop ==
    [][released' # released => stopReason = NoReason]_vars

\* Whenever the engine comes back to idle with a stop latched, a hard stop
\* has been attempted and journalled, whichever source latched it.
StopIsKilled ==
    pc = "idle" /\ stopReason # NoReason => killIssued

\* A live child belongs to an unresolved action and is watched, so that its
\* exit will be seen; resolving an action never orphans a running process.
LiveChildIsWatched ==
    \A a \in ActionId : task[a] = "alive" => a \in watched /\ actionState[a] = "DISPATCHED"

\* What RunFinalized claims with closed_effects: once containment is journalled
\* empty no process of the run is alive, no action is unresolved, and none is
\* waiting to be released.
ContainmentIsClosed ==
    state \in {"FINALIZING", "COMPLETED", "KILLED", "FAILED"} =>
        Alive = {} /\ Unresolved = {} /\ inflight = 0 /\ pending = NoAction

\* A run that stops reaches a terminal state, unless its driver leaves it
\* UNCONFIRMED.
StopSettles ==
    state = "STOPPING" ~> state \in TerminalStates \/ (state = "UNCONFIRMED" /\ ~driving)

\* A started run is stopped, by the wall cap at the latest, even when its root
\* process never came to exist.
RunIsStopped == state = "RUNNING" ~> stopReason # NoReason

\* Every dispatched action is resolved, or its run is left UNCONFIRMED.
EveryActionResolves ==
    \A a \in ActionId :
        actionState[a] = "DISPATCHED" ~> actionState[a] # "DISPATCHED" \/ ~driving
===============================================================================
