------------------------------ MODULE Processes ------------------------------
(***************************************************************************)
(* The processes of agent-cap over one state root: Launcher and the parts  *)
(* of Run that open, arm, stop and finalise a run (src/lexwatt/engine.py), *)
(* the launch index (ledger.py), the commands run, meter, kill and recover *)
(* (cli.py, recovery.py) and verify_bundle (verify.py).                    *)
(*                                                                         *)
(* Every process has a Launcher with a memory of its own; the index, the   *)
(* journals and the manifests are shared, and so is the machine.  run.start*)
(* is taken step by step, because a process may die between any two of its *)
(* transactions and another may retry the same request meanwhile.  A run   *)
(* opened from its journal has the state the replay gives, but no cgroup   *)
(* and a seed of zeros.                                                    *)
(*                                                                         *)
(* What happens inside a run is in RunCore, Supervisor and FaultyJournal:  *)
(* here a workload is alive or not, a run is latched for any reason, and a *)
(* tick is one step of the progress it makes.  The journal may refuse the  *)
(* transactions of run.start only; the host may refuse any kill, and a     *)
(* cgroup that cannot be read counts as populated.                         *)
(***************************************************************************)
EXTENDS Replay

CONSTANTS
    Proc,       \* processes; one that has died is replaced by a fresh one
    Key,        \* launch requests: owner and request id
    RunId,
    Metered,    \* the runs of profile linux-rapl-v1
    MaxRefused, \* bound: transactions of run.start that are refused
    NoRun, NoKey

ASSUME ProcessesAssumption ==
    /\ Metered \subseteq RunId
    /\ MaxRefused \in Nat
    /\ NoRun \notin RunId
    /\ NoKey \notin Key

VARIABLES
    index,     \* launches.sqlite: the run and the stored reply of each request
    journal,   \* runs/<id>/journal.sqlite
    manifest,  \* runs/<id>/launch-manifest.json: "none", of "this" boot or an "old" one
    pc,        \* the next step of each process
    job,       \* the request and the run of that step
    mem,       \* Launcher.runs of each process
    cgroup,    \* the cgroups there are
    alive,     \* the runs with a process in their cgroup
    killed,    \* those whose processes have been sent SIGKILL
    recovery,  \* a recover command: its run, its next step, the state it has read
               \* from the journal, its answer and whether its kill was written
    releases,  \* how often each workload was released
    refused    \* the transactions refused so far

disk    == <<index, journal, manifest>>
machine == <<cgroup, alive, killed, releases>>
vars    == <<disk, pc, job, mem, machine, recovery, refused>>

NoRow == [run |-> NoRun, reply |-> "none"]
NoJob == [key |-> NoKey, run |-> NoRun]

\* A run in memory: its state, whether this process created it and so has its
\* seed, and whether RunContext.cgroup is set.
Blank == [st |-> "NONE", own |-> FALSE, box |-> FALSE]

\* The journal of a run: the file, the replay of its events, and whether all of
\* them are signed with the run's key and timed from its origin.
NoJournal == [file |-> FALSE, rs |-> EmptyReplay, genuine |-> TRUE]

NoRecovery ==
    [run |-> NoRun, step |-> "idle", saw |-> "NEW", answer |-> "none", written |-> TRUE]

Init ==
    /\ index = [k \in Key |-> NoRow]
    /\ journal = [r \in RunId |-> NoJournal]
    /\ manifest = [r \in RunId |-> "none"]
    /\ pc = [p \in Proc |-> "idle"]
    /\ job = [p \in Proc |-> NoJob]
    /\ mem = [p \in Proc |-> [r \in RunId |-> Blank]]
    /\ cgroup = {}
    /\ alive = {}
    /\ killed = {}
    /\ recovery = NoRecovery
    /\ releases = [r \in RunId |-> 0]
    /\ refused = 0

-------------------------------------------------------------------------------
(***************************************************************************)
(* Run._commit by process p, and the steps of a process.                   *)
(***************************************************************************)
Append(p, r, e) ==
    journal' = [journal EXCEPT ![r] = [file    |-> journal[r].file,
                                       rs      |-> Apply(journal[r].rs, e),
                                       genuine |-> journal[r].genuine /\ mem[p][r].own]]

Refuse ==
    /\ refused < MaxRefused
    /\ refused' = refused + 1
    /\ UNCHANGED journal

Remember(p, r, st) == mem' = [mem EXCEPT ![p][r].st = st]

At(p, step) == pc[p] = step

Idle(p) == At(p, "idle")

Go(p, step) == pc' = [pc EXCEPT ![p] = step] /\ UNCHANGED job

GoFor(p, step, k, r) ==
    /\ pc' = [pc EXCEPT ![p] = step]
    /\ job' = [job EXCEPT ![p] = [key |-> k, run |-> r]]

Done(p) == GoFor(p, "idle", NoKey, NoRun)

Verdict(st) == IF st = "REJECTED" THEN "REJECTED" ELSE "ARMING"

\* SIGKILL to the owned cgroup, which the host may refuse.
SigKill(r) == killed' = killed \cup ({r} \cap alive)

Kill(r) == SigKill(r) \/ UNCHANGED killed

-------------------------------------------------------------------------------
(***************************************************************************)
(* run.start up to its reservation.  A retry with another digest gets      *)
(* CONFLICT and changes nothing.                                           *)
(***************************************************************************)

\* Faulty: a request without a stored reply is launched again.
Unreserved_NoReply(k) == index[k].reply = "none"

Unreserved(k) == index[k] = NoRow

\* The run id is new.
Reserve(p, k, r) ==
    /\ Idle(p)
    /\ Unreserved(k)
    /\ \A l \in Key : index[l].run # r
    /\ index' = [index EXCEPT ![k].run = r]
    /\ GoFor(p, "journal", k, r)
    /\ UNCHANGED <<journal, manifest, mem, machine, recovery, refused>>

\* A reservation without a reply.  Where there is a reply it is the answer, and
\* nothing changes.
Retry(p, k) ==
    /\ Idle(p)
    /\ index[k].run # NoRun
    /\ index[k].reply = "none"
    /\ GoFor(p, "reconcile", k, index[k].run)
    /\ UNCHANGED <<disk, mem, machine, recovery, refused>>

\* Faulty: a reopened run has the seed it was created with.
Opened_Signing(r) == [st |-> journal[r].rs.st, own |-> TRUE, box |-> FALSE]

\* open_run and _rebuild: the journal has the configuration since RunCreated,
\* and its events must replay.  No code inserts the row of the run that _rebuild
\* compares with the replay, so the comparison is never made.
Openable(r) == journal[r].file /\ journal[r].rs.ok /\ journal[r].rs.st # "NEW"

Opened(r) == [st |-> journal[r].rs.st, own |-> FALSE, box |-> FALSE]

\* _reconcile_launch: the answer is read from memory, else from the journal, which
\* is opened if there is one; open_run may raise.
Reconcile(p) ==
    /\ At(p, "reconcile")
    /\ LET r == job[p].run
       IN  IF mem[p][r].st = "NONE" /\ Openable(r)
           THEN mem' = [mem EXCEPT ![p][r] = Opened(r)]
           ELSE UNCHANGED mem
    /\ Done(p)
    /\ UNCHANGED <<disk, machine, recovery, refused>>

-------------------------------------------------------------------------------
(***************************************************************************)
(* run.start after the reservation: Run.created, arming and arm.           *)
(***************************************************************************)
OpenJournal(p) ==
    /\ At(p, "journal")
    /\ journal' = [journal EXCEPT ![job[p].run].file = TRUE]
    /\ mem' = [mem EXCEPT ![p][job[p].run] = [Blank EXCEPT !.st = "CREATED", !.own = TRUE]]
    /\ Go(p, "create")
    /\ UNCHANGED <<index, manifest, machine, recovery, refused>>

\* A refused transaction outside arm is answered AUDIT_FAULT.
RecordedOrRefused(p, e, next) ==
    \/ Append(p, job[p].run, Event(e)) /\ Go(p, next) /\ UNCHANGED refused
    \/ Refuse /\ Done(p)

Created(p) ==
    /\ At(p, "create")
    /\ RecordedOrRefused(p, "RunCreated", "arming")
    /\ UNCHANGED <<index, manifest, mem, machine, recovery>>

Arming(p) ==
    /\ At(p, "arming")
    /\ Remember(p, job[p].run, "ARMING")
    /\ RecordedOrRefused(p, "RunArming", "arm")
    /\ UNCHANGED <<index, manifest, machine, recovery>>

\* Workspace, task UID, cgroup, domains and the baseline sample; a failure may
\* come before or after the cgroup is made.
Preflight(p) ==
    /\ At(p, "arm")
    /\ \E made \in BOOLEAN, next \in {"start", "reject"} :
          /\ next = "start" => made
          /\ mem' = [mem EXCEPT ![p][job[p].run].box = made]
          /\ cgroup' = IF made THEN cgroup \cup {job[p].run} ELSE cgroup
          /\ Go(p, next)
    /\ UNCHANGED <<disk, alive, killed, releases, recovery, refused>>

\* RUNNING before its transaction: a refused one leaves the run RUNNING in memory.
Started(p) ==
    /\ At(p, "start")
    /\ Remember(p, job[p].run, "RUNNING")
    /\ \/ Append(p, job[p].run, Event("RunStarted")) /\ Go(p, "spawn") /\ UNCHANGED refused
       \/ Refuse /\ Go(p, "reject")
    /\ UNCHANGED <<index, manifest, machine, recovery>>

SpawnRoot(p) ==
    /\ At(p, "spawn")
    /\ \/ /\ alive' = alive \cup {job[p].run}
          /\ killed' = killed \ {job[p].run}
          /\ releases' = [releases EXCEPT ![job[p].run] = @ + 1]
          /\ Go(p, "manifest")
       \/ Go(p, "reject") /\ UNCHANGED <<alive, killed, releases>>
    /\ UNCHANGED <<disk, mem, cgroup, recovery, refused>>

\* An OSError leaves run_start, and with it the command: no reply is stored.
WriteManifest(p) ==
    /\ At(p, "manifest")
    /\ \/ manifest' = [manifest EXCEPT ![job[p].run] = "this"] /\ Go(p, "respond")
       \/ Done(p) /\ UNCHANGED manifest
    /\ UNCHANGED <<index, journal, mem, machine, recovery, refused>>

\* The manifest fails its check.
ManifestRefused(p) ==
    /\ At(p, "manifest")
    /\ Go(p, "reject")
    /\ UNCHANGED <<disk, mem, machine, recovery, refused>>

\* Faulty: RunRejected is written in every state.
Rejectable_Always(p, r) == TRUE

Rejectable(p, r) == mem[p][r].st \in {"CREATED", "ARMING"}

\* arm has failed and its cgroup, if there is one, is found empty: Run.reject, which
\* does nothing to a run that is RUNNING.  The kill of _cleanup_arming finds nobody.
Reject(p) ==
    /\ At(p, "reject")
    /\ LET r == job[p].run
       IN  /\ mem[p][r].box => r \notin alive
           /\ IF Rejectable(p, r)
              THEN Remember(p, r, "REJECTED") /\ RecordedOrRefused(p, "RunRejected", "respond")
              ELSE Go(p, "respond") /\ UNCHANGED <<mem, journal, refused>>
    /\ UNCHANGED <<index, manifest, machine, recovery>>

\* arm has failed and its cgroup is populated, or cannot be read:
\* _fault(CONTAINMENT_FAULT), which latches and then kills, recorded or not.
ArmFault(p) ==
    /\ At(p, "reject")
    /\ LET r == job[p].run
       IN  /\ mem[p][r].box
           /\ mem[p][r].st \in {"ARMING", "RUNNING"}
           /\ Remember(p, r, "STOPPING")
           /\ \/ Append(p, r, Event("StopLatched")) /\ UNCHANGED refused
              \/ Refuse
    /\ Go(p, "kill")
    /\ UNCHANGED <<index, manifest, machine, recovery>>

\* The reply is given whether or not the index takes it.
Respond(p) ==
    /\ At(p, "respond")
    /\ \/ index' = [index EXCEPT ![job[p].key].reply = Verdict(mem[p][job[p].run].st)]
       \/ UNCHANGED index
    /\ Done(p)
    /\ UNCHANGED <<journal, manifest, mem, machine, recovery, refused>>

RunStart(p) ==
    \/ \E k \in Key : Retry(p, k) \/ \E r \in RunId : Reserve(p, k, r)
    \/ Reconcile(p)
    \/ OpenJournal(p) \/ Created(p) \/ Arming(p) \/ Preflight(p) \/ Started(p)
    \/ SpawnRoot(p) \/ WriteManifest(p) \/ ManifestRefused(p) \/ Reject(p) \/ ArmFault(p)
    \/ Respond(p)

-------------------------------------------------------------------------------
(***************************************************************************)
(* Commands on a run: meter, receipt and kill open it, kill and meter      *)
(* --follow tick it, as run does with the run it started.                  *)
(***************************************************************************)
Open(p, r) ==
    /\ Idle(p)
    /\ mem[p][r].st = "NONE"
    /\ Openable(r)
    /\ mem' = [mem EXCEPT ![p][r] = Opened(r)]
    /\ UNCHANGED <<disk, pc, job, machine, recovery, refused>>

\* A stop latch, of run.stop or of a tick, and the kill that follows it.
Latch(p, r) ==
    /\ Remember(p, r, "STOPPING")
    /\ Append(p, r, Event("StopLatched"))
    /\ GoFor(p, "kill", NoKey, r)
    /\ UNCHANGED <<index, manifest, machine, recovery, refused>>

\* run.stop of cmd_kill; it latches an arming run too.
RunStop(p, r) == Idle(p) /\ mem[p][r].st \in {"ARMING", "RUNNING"} /\ Latch(p, r)

\* Root exit, the wall cap, the guard or a fault.
TickLatch(p, r) == Idle(p) /\ mem[p][r].st = "RUNNING" /\ Latch(p, r)

\* _issue_kill: a run without a cgroup kills nothing and records KillIssued.
\* _fault inside arm goes on with the reply, everything else with the tick.
IssueKill(p) ==
    /\ At(p, "kill")
    /\ LET r == job[p].run
       IN  /\ IF mem[p][r].box THEN Kill(r) ELSE UNCHANGED killed
           /\ \/ Append(p, r, Event("KillIssued")) /\ UNCHANGED refused
              \/ job[p].key # NoKey /\ Refuse
    /\ IF job[p].key = NoKey THEN Done(p) ELSE Go(p, "respond")
    /\ UNCHANGED <<index, manifest, mem, cgroup, alive, releases, recovery>>

\* A metered run samples before it progresses; without a cgroup to read the tick
\* raises and gets no further.
Sampling(p, r) == r \in Metered => mem[p][r].box

TickSample(p, r) ==
    /\ Idle(p)
    /\ r \in Metered
    /\ mem[p][r].box
    /\ mem[p][r].st \in {"RUNNING", "STOPPING", "UNCONFIRMED"}
    /\ Append(p, r, Event("SampleRecorded"))
    /\ UNCHANGED <<index, manifest, pc, job, mem, machine, recovery, refused>>

Stopping(p, r) ==
    Idle(p) /\ mem[p][r].st \in {"STOPPING", "UNCONFIRMED"} /\ Sampling(p, r)

\* Faulty: cgroup.events is not looked at.
Empty_Unread(p, r) == TRUE

\* _check_empty: a run without a cgroup counts as empty.
Empty(p, r) == mem[p][r].box => r \notin alive

\* The cgroup is populated, or cannot be read.
KillUnconfirmed(p, r) ==
    /\ Stopping(p, r)
    /\ mem[p][r].box
    /\ mem[p][r].st = "STOPPING"
    /\ Remember(p, r, "UNCONFIRMED")
    /\ Append(p, r, Event("KillUnconfirmed"))
    /\ UNCHANGED <<index, manifest, pc, job, machine, recovery, refused>>

RetryKill(p, r) ==
    /\ Stopping(p, r)
    /\ mem[p][r].box
    /\ Kill(r)
    /\ UNCHANGED <<disk, pc, job, mem, cgroup, alive, releases, recovery, refused>>

Close(p, r) ==
    /\ Stopping(p, r)
    /\ Empty(p, r)
    /\ Remember(p, r, "FINALIZING")
    /\ Append(p, r, Event("ContainmentEmpty"))
    /\ GoFor(p, "finalize", NoKey, r)
    /\ UNCHANGED <<index, manifest, machine, recovery, refused>>

\* The final state depends on the reason; see RunCore.
Finalize(p) ==
    /\ At(p, "finalize")
    /\ LET r == job[p].run
       IN  /\ Remember(p, r, "KILLED")
           /\ Append(p, r, About("RunFinalized", {}, "KILLED"))
           /\ cgroup' = IF mem[p][r].box THEN cgroup \ {r} ELSE cgroup
    /\ Done(p)
    /\ UNCHANGED <<index, manifest, alive, killed, releases, recovery, refused>>

Command(p) ==
    \/ \E r \in RunId :
          \/ Open(p, r) \/ RunStop(p, r) \/ TickLatch(p, r) \/ TickSample(p, r)
          \/ KillUnconfirmed(p, r) \/ RetryKill(p, r) \/ Close(p, r)
    \/ IssueKill(p) \/ Finalize(p)

-------------------------------------------------------------------------------
(***************************************************************************)
(* recover_run, one run after the other and read by read, while drivers    *)
(* may be at work.  A new command begins when the last has ended, answered,*)
(* killed or raised: a journal that does not replay makes it raise.        *)
(***************************************************************************)
RecoverBegins(r) ==
    /\ recovery' = [NoRecovery EXCEPT !.run = r, !.step = "journal"]
    /\ UNCHANGED <<disk, pc, job, mem, machine, refused>>

Recovering(step) == recovery.step = step

Answer(result, written) ==
    recovery' = [NoRecovery EXCEPT !.run = recovery.run, !.answer = result, !.written = written]

ReadJournal ==
    /\ Recovering("journal")
    /\ LET j == journal[recovery.run]
       IN  \/ ~j.file /\ Answer("CONTAINED", TRUE)
           \/ /\ j.file /\ j.rs.ok
              /\ recovery' = [recovery EXCEPT !.step = "manifest", !.saw = j.rs.st]
    /\ UNCHANGED <<disk, pc, job, mem, machine, refused>>

\* Faulty: a stopped run is taken for one that has ended.
Ended_Stopped(st) == st \in TerminalStates \cup {"STOPPING", "UNCONFIRMED"}

Ended(st) == st \in TerminalStates

SameBoot(r) == manifest[r] = "this"

ReadManifest ==
    /\ Recovering("manifest")
    /\ \/ Ended(recovery.saw) /\ Answer("CONTAINED", TRUE)
       \/ ~Ended(recovery.saw) /\ ~SameBoot(recovery.run) /\ Answer("INCOMPLETE", TRUE)
       \/ /\ ~Ended(recovery.saw) /\ SameBoot(recovery.run)
          /\ recovery' = [recovery EXCEPT !.step = "cgroup"]
    /\ UNCHANGED <<disk, pc, job, mem, machine, refused>>

\* Without the cgroup, ContainmentEmpty in the journal decides.
StatCgroup ==
    /\ Recovering("cgroup")
    /\ IF recovery.run \in cgroup
       THEN recovery' = [recovery EXCEPT !.step = "kill"]
       ELSE Answer(IF recovery.saw = "FINALIZING" THEN "CONTAINED" ELSE "INCOMPLETE", TRUE)
    /\ UNCHANGED <<disk, pc, job, mem, machine, refused>>

\* An OSError of the write is passed over, and the answer is the same.
KillOrphan ==
    /\ Recovering("kill")
    /\ \/ recovery.run \in cgroup /\ SigKill(recovery.run) /\ Answer("CONTAINED", TRUE)
       \/ UNCHANGED killed /\ Answer("CONTAINED", FALSE)
    /\ UNCHANGED <<disk, pc, job, mem, cgroup, alive, releases, refused>>

Recover ==
    \/ \E r \in RunId : RecoverBegins(r)
    \/ ReadJournal \/ ReadManifest \/ StatCgroup \/ KillOrphan

-------------------------------------------------------------------------------
(***************************************************************************)
(* verify_bundle on the bundle of run r: signatures, chain and times, then *)
(* the replay; complete if the last event closes the run.                  *)
(***************************************************************************)
Verifies(r) == journal[r].genuine /\ journal[r].rs.ok

Complete(r) == journal[r].rs.st \in TerminalStates

-------------------------------------------------------------------------------
(***************************************************************************)
(* A process ends, killed or at the end of its command; the workload does  *)
(* not end with it.  A reboot ends everything.                             *)
(***************************************************************************)
Exit(p) ==
    /\ mem' = [mem EXCEPT ![p] = [r \in RunId |-> Blank]]
    /\ Done(p)
    /\ UNCHANGED <<disk, machine, recovery, refused>>

WorkloadExits(r) ==
    /\ r \in alive
    /\ alive' = alive \ {r}
    /\ killed' = killed \ {r}
    /\ UNCHANGED <<disk, pc, job, mem, cgroup, releases, recovery, refused>>

Reboot ==
    /\ mem' = [p \in Proc |-> [r \in RunId |-> Blank]]
    /\ pc' = [p \in Proc |-> "idle"]
    /\ job' = [p \in Proc |-> NoJob]
    /\ cgroup' = {} /\ alive' = {} /\ killed' = {}
    /\ manifest' = [r \in RunId |-> IF manifest[r] = "this" THEN "old" ELSE manifest[r]]
    /\ recovery' = NoRecovery
    /\ UNCHANGED <<index, journal, releases, refused>>

Next ==
    \/ \E p \in Proc : RunStart(p) \/ Command(p) \/ Exit(p)
    \/ Recover
    \/ \E r \in RunId : WorkloadExits(r)
    \/ Reboot

Spec == Init /\ [][Next]_vars

-------------------------------------------------------------------------------
(***************************************************************************)
(* Properties.                                                             *)
(***************************************************************************)

\* The variables hold values of their types.
ProcessesTypeOK ==
    /\ index \in [Key -> [run : RunId \cup {NoRun}, reply : {"none", "ARMING", "REJECTED"}]]
    /\ journal \in [RunId -> [file : BOOLEAN, rs : Replays, genuine : BOOLEAN]]
    /\ manifest \in [RunId -> {"none", "this", "old"}]
    /\ pc \in [Proc -> {"idle", "reconcile", "journal", "create", "arming", "arm", "start",
                        "spawn", "manifest", "kill", "reject", "respond", "finalize"}]
    /\ job \in [Proc -> [key : Key \cup {NoKey}, run : RunId \cup {NoRun}]]
    /\ mem \in [Proc -> [RunId -> [st : RunStates \cup {"NONE"}, own : BOOLEAN, box : BOOLEAN]]]
    /\ cgroup \subseteq RunId
    /\ alive \subseteq cgroup
    /\ killed \subseteq alive
    /\ recovery \in [run     : RunId \cup {NoRun},
                    step    : {"idle", "journal", "manifest", "cgroup", "kill"},
                    saw     : RunStates \cup {"NEW"},
                    answer  : {"none", "CONTAINED", "INCOMPLETE"},
                    written : BOOLEAN]
    /\ releases \in [RunId -> Nat]
    /\ refused \in 0..MaxRefused

\* However launchers die, retry and overlap, a request launches one workload at
\* most and its stored reply is final (Launcher.run_start, _reconcile_launch).
Once == INSTANCE LaunchOnce WITH
            owned  <- [k \in Key |-> index[k].run],
            stored <- [k \in Key |-> index[k].reply]

LaunchesOnce == Once!OnceSpec

\* While no transaction has been refused, at every moment and after any crash, the
\* receipt of a run that only its own driver wrote verifies (Run._commit,
\* verify_bundle).
SoleWriterVerifies ==
    \A r \in RunId : journal[r].genuine /\ refused = 0 => journal[r].rs.ok

\* A receipt that verifies and is complete is about a workload that is gone,
\* whoever else has written to the journal (verify_bundle, Run._finalize).
EvidenceIsTrue ==
    \A r \in RunId : Verifies(r) /\ Complete(r) => r \notin alive

\* recover answers CONTAINED only about a workload that is gone or that it has sent
\* SIGKILL, however its three readings and the steps of a driver interleave: unless
\* a second process has written to the journal, or its own write of cgroup.kill
\* raised and was passed over (recover_run).
RecoverContains ==
    [][recovery.answer = "none" /\ recovery'.answer = "CONTAINED" /\ recovery'.written
          /\ journal[recovery.run].genuine
       => recovery.run \notin alive' \ killed']_vars

\* A process that takes a run for stopped and empty, which is what kill and run
\* print as "confirmed", is right: "containment confirmed" (Run._stop_progress).
ConfirmedIsEmpty ==
    \A p \in Proc, r \in RunId :
       mem[p][r].st \in {"FINALIZING"} \cup TerminalStates => r \notin alive
===============================================================================
