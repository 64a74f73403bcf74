---------------------------- MODULE ProcessesProofs ----------------------------
(***************************************************************************)
(* Theorems about Processes, for any processes, requests and runs: that it *)
(* implements LaunchOnce; that complete, verified evidence is true; that   *)
(* what a sole writer wrote verifies; what CONTAINED means; the types.     *)
(*                                                                         *)
(* The inductive invariant follows a launch: the process at it holds a row *)
(* of the index that no other process is launching and that has no reply,  *)
(* nothing was released before its step "spawn", and what was released is  *)
(* remembered as a state from which Run.reject does nothing.  Each further *)
(* theorem strengthens it: by owners and cgroups, by what an owner knows   *)
(* of its journal, by where a cgroup is.                                   *)
(***************************************************************************)
EXTENDS Processes, ReplayProofs

Steps == {"idle", "reconcile", "journal", "create", "arming", "arm", "start",
          "spawn", "manifest", "kill", "reject", "respond", "finalize"}

Replies == {"none", "ARMING", "REJECTED"}

Memory == [st : RunStates \cup {"NONE"}, own : BOOLEAN, box : BOOLEAN]

Types ==
    /\ index \in [Key -> [run : RunId \cup {NoRun}, reply : Replies]]
    /\ journal \in [RunId -> [file : BOOLEAN, rs : Replays, genuine : BOOLEAN]]
    /\ pc \in [Proc -> Steps]
    /\ job \in [Proc -> [key : Key \cup {NoKey}, run : RunId \cup {NoRun}]]
    /\ mem \in [Proc -> [RunId -> Memory]]
    /\ releases \in [RunId -> Nat]

\* A process between two steps of one thing knows its run; at a launch it also
\* knows the request that owns it.
Jobs ==
    \A p \in Proc :
       /\ pc[p] # "idle" => job[p].run \in RunId
       /\ pc[p] \notin {"idle", "kill", "finalize"} => job[p].key \in Key
       /\ pc[p] \in {"idle", "finalize"} => job[p].key = NoKey

\* The events of this module have no subjects.
Subjectless(e) ==
    /\ e.kind \notin TokenKinds \cup ActionKinds \cup ComputeKinds
    /\ e.kind = "RunFinalized" => e.to \in TerminalStates

\* The events of this module have no subjects.
LEMMA Events ==
    /\ \A kind \in {"RunCreated", "RunArming", "RunStarted", "RunRejected", "StopLatched",
                   "KillIssued", "SampleRecorded", "KillUnconfirmed", "ContainmentEmpty"} :
          Subjectless(Event(kind)) /\ Event(kind).kind = kind
    /\ LET e == About("RunFinalized", {}, "KILLED")
       IN  Subjectless(e) /\ e.kind = "RunFinalized" /\ e.to = "KILLED"
  BY DEF Subjectless, Event, About, TokenKinds, ActionKinds, ComputeKinds, TerminalStates

\* So they are well typed.
LEMMA SubjectlessTyped ==
    ASSUME NEW e, Subjectless(e)
    PROVE  WellTyped(e)
  BY DEF Subjectless, WellTyped, RunStates

\* Appending one keeps the journals typed.
LEMMA AppendType ==
    ASSUME Types, NEW p \in Proc, NEW r \in RunId, NEW e, Append(p, r, e), Subjectless(e)
    PROVE  journal' \in [RunId -> [file : BOOLEAN, rs : Replays, genuine : BOOLEAN]]
  <1>1. Apply(journal[r].rs, e) \in Replays
    BY ApplyType, SubjectlessTyped DEF Types
  <1> QED
    BY <1>1 DEF Types, Append, Memory

-------------------------------------------------------------------------------
(***************************************************************************)
(* How a step moves each variable.                                         *)
(***************************************************************************)
Reserves(p) == \E k \in Key, r \in RunId : Reserve(p, k, r)
Retries(p)  == \E k \in Key : Retry(p, k)

StartKinds   == {"RunCreated", "RunArming", "RunStarted", "RunRejected", "StopLatched"}
CommandKinds == {"StopLatched", "KillIssued", "SampleRecorded", "KillUnconfirmed",
                 "ContainmentEmpty"}

\* All that a step of a launch does to the index, the journals and its own place.
LEMMA StartMoves ==
    ASSUME NEW p \in Proc, RunStart(p)
    PROVE  /\ Reserves(p) \/ Respond(p) \/ index' = index
           /\ SpawnRoot(p) \/ releases' = releases
           /\ \/ Reserves(p) \/ Retries(p) \/ Done(p)
              \/ /\ job' = job
                 /\ pc[p] \notin {"idle", "finalize", "reconcile"}
                 /\ \E s \in Steps \ {"idle", "finalize", "reconcile"} : pc' = [pc EXCEPT ![p] = s]
           /\ \/ journal' = journal \/ OpenJournal(p)
              \/ \E kind \in StartKinds : Append(p, job[p].run, Event(kind))
           /\ \/ mem' = mem \/ OpenJournal(p) \/ Preflight(p) \/ Reconcile(p)
              \/ \E st \in RunStates : Remember(p, job[p].run, st)
  <1> USE DEF RunStart, disk, machine
  <1>1. ASSUME ~Reserves(p), ~Respond(p)
        PROVE  index' = index
    BY <1>1 DEF Reserves, Retry, Reconcile, OpenJournal, Created, Arming, Preflight, Started,
                SpawnRoot, WriteManifest, ManifestRefused, Reject, ArmFault
  <1>2. ASSUME ~SpawnRoot(p)
        PROVE  releases' = releases
    BY <1>2 DEF Retry, Reserve, Reconcile, OpenJournal, Created, Arming, Preflight, Started,
                Respond, WriteManifest, ManifestRefused, Reject, ArmFault
  <1>3. ASSUME ~Reserves(p), ~Retries(p)
        PROVE  \/ Done(p)
               \/ /\ job' = job
                  /\ pc[p] \notin {"idle", "finalize", "reconcile"}
                  /\ \E s \in Steps \ {"idle", "finalize", "reconcile"} : pc' = [pc EXCEPT ![p] = s]
    BY <1>3 DEF Reserves, Retries, Reconcile, OpenJournal, Created, Arming, Preflight, Started,
                SpawnRoot, Respond, RecordedOrRefused, WriteManifest, ManifestRefused, Reject,
                ArmFault,
                Go, Steps, At
  <1>4. \/ journal' = journal \/ OpenJournal(p)
        \/ \E kind \in StartKinds : Append(p, job[p].run, Event(kind))
    BY DEF Retry, Reserve, Reconcile, Created, Arming, Preflight, Started, SpawnRoot, Respond,
           RecordedOrRefused, WriteManifest, ManifestRefused, Reject, ArmFault, Refuse, StartKinds
  <1>5. \/ mem' = mem \/ OpenJournal(p) \/ Preflight(p) \/ Reconcile(p)
        \/ \E st \in RunStates : Remember(p, job[p].run, st)
    BY DEF Retry, Reserve, Created, Arming, Started, SpawnRoot, Respond, WriteManifest,
           ManifestRefused, Reject, ArmFault, RunStates, LiveStates, TerminalStates
  <1> QED
    BY <1>1, <1>2, <1>3, <1>4, <1>5

\* All that a step of another command does to them.
LEMMA CommandMoves ==
    ASSUME NEW p \in Proc, Command(p)
    PROVE  /\ index' = index /\ releases' = releases
           /\ \/ UNCHANGED <<pc, job>> \/ Done(p)
              \/ \E r \in RunId, s \in {"kill", "finalize"} : GoFor(p, s, NoKey, r)
              \/ pc[p] = "kill" /\ job[p].key # NoKey /\ Go(p, "respond")
           /\ \/ journal' = journal
              \/ /\ pc[p] = "idle"
                 /\ \E r \in RunId, kind \in CommandKinds : Append(p, r, Event(kind))
              \/ pc[p] = "kill" /\ Append(p, job[p].run, Event("KillIssued"))
              \/ pc[p] = "finalize" /\ Append(p, job[p].run, About("RunFinalized", {}, "KILLED"))
           /\ \/ mem' = mem
              \/ \E r \in RunId : Open(p, r)
              \/ pc[p] = "idle" /\ \E r \in RunId, st \in RunStates : Remember(p, r, st)
              \/ pc[p] = "finalize" /\ Remember(p, job[p].run, "KILLED")
  <1> USE DEF Command, Open, RunStop, TickLatch, Latch, TickSample, KillUnconfirmed, RetryKill,
              Close, IssueKill, Finalize, Refuse, Stopping, Idle, At, disk, machine
  <1>1. index' = index /\ releases' = releases
    OBVIOUS
  <1>2. \/ UNCHANGED <<pc, job>> \/ Done(p)
        \/ \E r \in RunId, s \in {"kill", "finalize"} : GoFor(p, s, NoKey, r)
        \/ pc[p] = "kill" /\ job[p].key # NoKey /\ Go(p, "respond")
    OBVIOUS
  <1>3. \/ journal' = journal
        \/ /\ pc[p] = "idle"
           /\ \E r \in RunId, kind \in CommandKinds : Append(p, r, Event(kind))
        \/ pc[p] = "kill" /\ Append(p, job[p].run, Event("KillIssued"))
        \/ pc[p] = "finalize" /\ Append(p, job[p].run, About("RunFinalized", {}, "KILLED"))
    BY DEF CommandKinds
  <1>4. \/ mem' = mem
        \/ \E r \in RunId : Open(p, r)
        \/ pc[p] = "idle" /\ \E r \in RunId, st \in RunStates : Remember(p, r, st)
        \/ pc[p] = "finalize" /\ Remember(p, job[p].run, "KILLED")
    BY DEF RunStates, LiveStates
  <1> QED
    BY <1>1, <1>2, <1>3, <1>4

\* Remembering a state keeps the memory typed.
LEMMA RememberType ==
    ASSUME Types, NEW p \in Proc, NEW r \in RunId, NEW st \in RunStates, Remember(p, r, st)
    PROVE  mem' \in [Proc -> [RunId -> Memory]]
  <1>1. mem[p] \in [RunId -> Memory] /\ mem[p][r] \in Memory
    BY DEF Types
  <1>2. [mem[p][r] EXCEPT !.st = st] \in Memory
    BY <1>1 DEF Memory
  <1>3. mem' = [mem EXCEPT ![p] = [mem[p] EXCEPT ![r] = [mem[p][r] EXCEPT !.st = st]]]
    BY DEF Types, Remember
  <1> QED
    BY <1>1, <1>2, <1>3 DEF Types

-------------------------------------------------------------------------------
(***************************************************************************)
(* The types.                                                              *)
(***************************************************************************)
LEMMA StartTypes ==
    ASSUME Types, Jobs, NEW p \in Proc, RunStart(p)
    PROVE  Types' /\ Jobs'
  <1> USE ProcessesAssumption
  <1>1. index' \in [Key -> [run : RunId \cup {NoRun}, reply : Replies]]
    <2>1. CASE Reserves(p)
      BY <2>1 DEF Reserves, Reserve, Types, Replies
    <2>2. CASE Respond(p)
      BY <2>2 DEF Respond, Verdict, Types, Replies
    <2> QED
      BY <2>1, <2>2, StartMoves DEF Types
  <1>2. journal' \in [RunId -> [file : BOOLEAN, rs : Replays, genuine : BOOLEAN]]
    <2>1. CASE OpenJournal(p)
      BY <2>1 DEF OpenJournal, Types
    <2>2. ASSUME NEW kind \in StartKinds, Append(p, job[p].run, Event(kind)), pc[p] # "idle"
          PROVE  journal' \in [RunId -> [file : BOOLEAN, rs : Replays, genuine : BOOLEAN]]
      BY <2>2, Events, AppendType DEF StartKinds, Jobs
    <2>3. pc[p] = "idle" => journal' = journal
      BY DEF RunStart, Retry, Reserve, Reconcile, OpenJournal, Created, Arming, Preflight, Started,
             SpawnRoot, Respond, WriteManifest, ManifestRefused, Reject, ArmFault, disk, At
    <2> QED
      BY <2>1, <2>2, <2>3, StartMoves DEF Types
  <1>3. pc' \in [Proc -> Steps]
    BY StartMoves DEF Types, Reserves, Retries, Reserve, Retry, Done, GoFor, Steps
  <1>4. job' \in [Proc -> [key : Key \cup {NoKey}, run : RunId \cup {NoRun}]]
    BY StartMoves DEF Types, Reserves, Retries, Reserve, Retry, Done, GoFor
  <1>5. mem' \in [Proc -> [RunId -> Memory]]
    <2>1. CASE OpenJournal(p)
      BY <2>1 DEF OpenJournal, Types, Memory, Blank, RunStates, LiveStates
    <2>2. CASE Preflight(p)
      <3>1. PICK made \in BOOLEAN : mem' = [mem EXCEPT ![p][job[p].run].box = made]
        BY <2>2 DEF Preflight
      <3>2. job[p].run \in RunId
        BY <2>2 DEF Preflight, At, Jobs
      <3>3. mem[p] \in [RunId -> Memory] /\ mem[p][job[p].run] \in Memory
        BY <3>2 DEF Types
      <3>4. [mem[p][job[p].run] EXCEPT !.box = made] \in Memory
        BY <3>3 DEF Memory
      <3>5. mem' = [mem EXCEPT ![p] = [mem[p] EXCEPT ![job[p].run] =
                                          [mem[p][job[p].run] EXCEPT !.box = made]]]
        BY <3>1 DEF Types
      <3> QED
        BY <3>3, <3>4, <3>5 DEF Types
    <2>3. CASE Reconcile(p)
      <3>1. \A r \in RunId : Openable(r) => Opened(r) \in Memory
        BY DEF Openable, Opened, Types, Replays, Memory
      <3>2. job[p].run \in RunId
        BY <2>3 DEF Reconcile, At, Jobs
      <3>3. mem' = mem \/ (/\ Openable(job[p].run)
                           /\ mem' = [mem EXCEPT ![p][job[p].run] = Opened(job[p].run)])
        BY <2>3 DEF Reconcile
      <3>4. CASE mem' = mem
        BY <3>4 DEF Types
      <3>5. CASE /\ Openable(job[p].run)
                 /\ mem' = [mem EXCEPT ![p][job[p].run] = Opened(job[p].run)]
        <4>1. Opened(job[p].run) \in Memory
          BY <3>1, <3>2, <3>5
        <4> QED
          BY <3>2, <3>5, <4>1 DEF Types
      <3> QED
        BY <3>3, <3>4, <3>5
    <2>4. ASSUME NEW st \in RunStates, Remember(p, job[p].run, st), pc[p] # "idle"
          PROVE  mem' \in [Proc -> [RunId -> Memory]]
      BY <2>4, RememberType DEF Jobs
    <2>5. pc[p] = "idle" => mem' = mem
      BY DEF RunStart, Retry, Reserve, Reconcile, OpenJournal, Created, Arming, Preflight, Started,
             SpawnRoot, Respond, WriteManifest, ManifestRefused, Reject, ArmFault, At
    <2> QED
      BY <2>1, <2>2, <2>3, <2>4, <2>5, StartMoves DEF Types
  <1>6. releases' \in [RunId -> Nat]
    <2>1. CASE SpawnRoot(p)
      BY <2>1 DEF SpawnRoot, Types, Jobs, At
    <2> QED
      BY <2>1, StartMoves DEF Types
  <1>7. Jobs'
    <2>1. CASE Reserves(p)
      BY <2>1 DEF Reserves, Reserve, GoFor, Types, Jobs
    <2>2. CASE Retries(p)
      BY <2>2 DEF Retries, Retry, GoFor, Types, Jobs
    <2>3. CASE Done(p)
      BY <2>3 DEF Done, GoFor, Types, Jobs
    <2>4. ASSUME job' = job, pc[p] \notin {"idle", "finalize", "reconcile"},
                 NEW s \in Steps \ {"idle", "finalize", "reconcile"}, pc' = [pc EXCEPT ![p] = s],
                 job[p].key \in Key
          PROVE  Jobs'
      BY <2>4 DEF Types, Jobs
    <2>5. pc[p] = "kill" => FALSE
      BY DEF RunStart, Retry, Reserve, Reconcile, OpenJournal, Created, Arming, Preflight, Started,
             SpawnRoot, Respond, WriteManifest, ManifestRefused, Reject, ArmFault, At, Idle
    <2>6. pc[p] \notin {"idle", "finalize", "reconcile"} => job[p].key \in Key
      BY <2>5 DEF Jobs
    <2> QED
      BY <2>1, <2>2, <2>3, <2>4, <2>6, StartMoves
  <1> QED
    BY <1>1, <1>2, <1>3, <1>4, <1>5, <1>6, <1>7 DEF Types

\* The steps of a command keep the types.
LEMMA CommandTypes ==
    ASSUME Types, Jobs, NEW p \in Proc, Command(p)
    PROVE  Types' /\ Jobs'
  <1> USE ProcessesAssumption
  <1>1. pc[p] \in {"kill", "finalize"} => job[p].run \in RunId
    BY DEF Jobs
  <1>2. journal' \in [RunId -> [file : BOOLEAN, rs : Replays, genuine : BOOLEAN]]
    <2>1. ASSUME NEW r \in RunId, NEW kind \in CommandKinds, Append(p, r, Event(kind))
          PROVE  journal' \in [RunId -> [file : BOOLEAN, rs : Replays, genuine : BOOLEAN]]
      BY <2>1, Events, AppendType DEF CommandKinds
    <2>2. ASSUME NEW r \in RunId, Append(p, r, About("RunFinalized", {}, "KILLED"))
          PROVE  journal' \in [RunId -> [file : BOOLEAN, rs : Replays, genuine : BOOLEAN]]
      BY <2>2, Events, AppendType
    <2> QED
      BY <1>1, <2>1, <2>2, CommandMoves DEF Types, CommandKinds
  <1>3. pc' \in [Proc -> Steps] /\ job' \in [Proc -> [key : Key \cup {NoKey}, run : RunId \cup {NoRun}]]
    <2>1. CASE UNCHANGED <<pc, job>>
      BY <2>1 DEF Types
    <2>2. CASE Done(p)
      BY <2>2 DEF Done, GoFor, Types, Steps
    <2>3. CASE \E r \in RunId, s \in {"kill", "finalize"} : GoFor(p, s, NoKey, r)
      BY <2>3 DEF GoFor, Types, Steps
    <2>4. CASE Go(p, "respond")
      BY <2>4 DEF Go, Types, Steps
    <2> QED
      BY <2>1, <2>2, <2>3, <2>4, CommandMoves
  <1>4. mem' \in [Proc -> [RunId -> Memory]]
    <2>1. ASSUME NEW r \in RunId, Open(p, r)
          PROVE  mem' \in [Proc -> [RunId -> Memory]]
      <3>1. Openable(r) /\ Openable(r) => Opened(r) \in Memory
        BY <2>1 DEF Open, Openable, Opened, Types, Replays, Memory
      <3> QED
        BY <2>1, <3>1 DEF Open, Types
    <2>2. "KILLED" \in RunStates
      BY DEF RunStates, TerminalStates
    <2> QED
      BY <1>1, <2>1, <2>2, RememberType, CommandMoves DEF Types
  <1>5. Jobs'
    <2>1. CASE UNCHANGED <<pc, job>>
      BY <2>1 DEF Jobs
    <2>2. CASE Done(p)
      BY <2>2 DEF Done, GoFor, Types, Jobs
    <2>3. CASE \E r \in RunId, s \in {"kill", "finalize"} : GoFor(p, s, NoKey, r)
      BY <2>3 DEF GoFor, Types, Jobs
    <2>4. CASE pc[p] = "kill" /\ job[p].key # NoKey /\ Go(p, "respond")
      BY <2>4 DEF Go, Types, Jobs
    <2> QED
      BY <2>1, <2>2, <2>3, <2>4, CommandMoves
  <1> QED
    BY <1>2, <1>3, <1>4, <1>5, CommandMoves DEF Types

\* Recovery reads; it changes nothing but its own place and the kills.
LEMMA RecoverMoves ==
    ASSUME Recover
    PROVE  /\ UNCHANGED <<disk, pc, job, mem, cgroup, alive, releases, refused>>
           /\ UNCHANGED killed \/ (KillOrphan /\ SigKill(recovery.run))
  BY DEF Recover, RecoverBegins, ReadJournal, ReadManifest, StatCgroup, KillOrphan, machine

\* Everything else leaves the processes alone or ends them.
Ends(p) ==
    /\ pc' = [pc EXCEPT ![p] = "idle"]
    /\ job' = [job EXCEPT ![p] = NoJob]
    /\ mem' = [mem EXCEPT ![p] = [r \in RunId |-> Blank]]

EndAll ==
    /\ pc' = [p \in Proc |-> "idle"]
    /\ job' = [p \in Proc |-> NoJob]
    /\ mem' = [p \in Proc |-> [r \in RunId |-> Blank]]

\* What is not a step of a process only ends processes or workloads.
LEMMA OtherMoves ==
    ASSUME \/ UNCHANGED vars
           \/ \E p \in Proc : Exit(p)
           \/ Recover
           \/ \E r \in RunId : WorkloadExits(r)
           \/ Reboot
    PROVE  /\ UNCHANGED <<index, journal, releases>>
           /\ UNCHANGED <<pc, job, mem>> \/ (\E p \in Proc : Ends(p)) \/ EndAll
  BY RecoverMoves
     DEF vars, disk, machine, Exit, Done, GoFor, WorkloadExits, Reboot, Ends, EndAll, NoJob

\* Every step keeps the types.
LEMMA TypesStep ==
    ASSUME Types, Jobs, [Next]_vars
    PROVE  Types' /\ Jobs'
  <1>1. CASE \E p \in Proc : RunStart(p) \/ Command(p)
    BY <1>1, StartTypes, CommandTypes
  <1>2. ASSUME UNCHANGED <<index, journal, releases>>, UNCHANGED <<pc, job, mem>>
        PROVE  Types' /\ Jobs'
    BY <1>2 DEF Types, Jobs
  <1>3. Blank \in Memory /\ NoJob \in [key : Key \cup {NoKey}, run : RunId \cup {NoRun}]
        /\ "idle" \in Steps /\ NoJob.key = NoKey
    BY DEF Blank, Memory, NoJob, Steps
  <1>4. ASSUME UNCHANGED <<index, journal, releases>>, NEW p \in Proc, Ends(p)
        PROVE  Types' /\ Jobs'
    <2>1. Types'
      BY <1>3, <1>4 DEF Ends, Types
    <2> QED
      BY <1>3, <1>4, <2>1 DEF Ends, Types, Jobs
  <1>5. ASSUME UNCHANGED <<index, journal, releases>>, EndAll
        PROVE  Types' /\ Jobs'
    <2>1. Types'
      BY <1>3, <1>5 DEF EndAll, Types
    <2> QED
      BY <1>3, <1>5, <2>1 DEF EndAll, Types, Jobs
  <1> QED
    BY <1>1, <1>2, <1>4, <1>5, OtherMoves DEF Next

-------------------------------------------------------------------------------
(***************************************************************************)
(* The invariant of a launch.                                              *)
(***************************************************************************)
BeforeRelease == {"journal", "create", "arming", "arm", "start", "spawn"}

\* A process that launches, rather than reads what became of a launch.
Launching(p) == job[p].key # NoKey /\ pc[p] # "reconcile"

\* The index gives no run to two requests.
Rows == \A k, l \in Key : index[k].run # NoRun /\ index[k].run = index[l].run => k = l

\* A process at a request has the run that the index gives it.
Held == \A p \in Proc : job[p].key # NoKey => index[job[p].key].run = job[p].run

\* A request is launched by one process at most, and has no reply until it is done.
Sole ==
    \A p \in Proc : Launching(p) =>
       /\ index[job[p].key].reply = "none"
       /\ \A q \in Proc : Launching(q) /\ job[q].key = job[p].key => q = p

\* Only what a request owns is released.
Owned == \A r \in RunId : releases[r] # 0 => \E k \in Key : index[k].run = r

\* Nothing is released before its time.
Before == \A p \in Proc : pc[p] \in BeforeRelease => releases[job[p].run] = 0

\* A released run is past the states that Run.reject rejects.
Armed ==
    \A p \in Proc :
       /\ pc[p] = "spawn" => mem[p][job[p].run].st = "RUNNING"
       /\ Launching(p) /\ releases[job[p].run] # 0
             => mem[p][job[p].run].st \notin {"CREATED", "ARMING", "REJECTED"}

LaunchInv == Types /\ Jobs /\ Rows /\ Held /\ Sole /\ Owned /\ Before /\ Armed

\* The initial state satisfies the invariant of launches.
LEMMA LaunchInit == Init => LaunchInv
  <1> SUFFICES ASSUME Init PROVE LaunchInv
    OBVIOUS
  <1> USE ProcessesAssumption
  <1>1. NoJournal \in [file : BOOLEAN, rs : Replays, genuine : BOOLEAN]
    BY DEF NoJournal, EmptyReplay, Replays, TokenStates, ActionStates, ComputeStates
  <1>2. Types
    BY <1>1 DEF Init, Types, NoRow, NoJob, Blank, Replies, Steps, Memory
  <1>3. Jobs /\ Held /\ Sole /\ Before /\ Armed
    BY DEF Init, Jobs, Held, Sole, Before, Armed, Launching, BeforeRelease, NoJob
  <1>4. Rows /\ Owned
    BY DEF Init, Rows, Owned, NoRow
  <1> QED
    BY <1>2, <1>3, <1>4 DEF LaunchInv

-------------------------------------------------------------------------------
(***************************************************************************)
(* Its step.                                                               *)
(***************************************************************************)
LEMMA OthersStay ==
    ASSUME Types, NEW p \in Proc, RunStart(p) \/ Command(p), NEW q \in Proc, q # p
    PROVE  pc'[q] = pc[q] /\ job'[q] = job[q] /\ mem'[q] = mem[q]
  <1>1. CASE RunStart(p)
    <2>1. pc'[q] = pc[q] /\ job'[q] = job[q]
      <3>1. CASE Reserves(p) \/ Retries(p) \/ Done(p)
        BY <3>1 DEF Types, Reserves, Retries, Reserve, Retry, Done, GoFor
      <3>2. ASSUME job' = job, NEW s \in Steps, pc' = [pc EXCEPT ![p] = s]
            PROVE  pc'[q] = pc[q] /\ job'[q] = job[q]
        BY <3>2 DEF Types
      <3> QED
        BY <1>1, <3>1, <3>2, StartMoves
    <2>2. mem'[q] = mem[q]
      <3>1. CASE OpenJournal(p) \/ Reconcile(p) \/ mem' = mem
        BY <3>1 DEF Types, OpenJournal, Reconcile
      <3>2. CASE Preflight(p)
        BY <3>2 DEF Types, Preflight
      <3>3. ASSUME NEW st \in RunStates, Remember(p, job[p].run, st)
            PROVE  mem'[q] = mem[q]
        BY <3>3 DEF Types, Remember
      <3> QED
        BY <1>1, <3>1, <3>2, <3>3, StartMoves
    <2> QED
      BY <2>1, <2>2
  <1>2. CASE Command(p)
    <2>1. pc'[q] = pc[q] /\ job'[q] = job[q]
      BY <1>2, CommandMoves DEF Types, Done, GoFor, Go
    <2>2. mem'[q] = mem[q]
      BY <1>2, CommandMoves DEF Types, Open, Remember
    <2> QED
      BY <2>1, <2>2
  <1> QED
    BY <1>1, <1>2

\* A launch begins with a reservation, and goes forward only.
LEMMA LaunchMoves ==
    ASSUME Types, Jobs, NEW p \in Proc, RunStart(p) \/ Command(p), ~Reserves(p)
    PROVE  /\ Launching(p)' => Launching(p) /\ job'[p] = job[p] /\ ~Respond(p)
           /\ pc'[p] \in BeforeRelease =>
                 pc[p] \in BeforeRelease /\ job'[p] = job[p] /\ ~SpawnRoot(p)
           /\ pc'[p] = "spawn" => Started(p) /\ Remember(p, job[p].run, "RUNNING")
           /\ job'[p].key # NoKey => job'[p] = job[p] \/ Retries(p)
  <1> USE ProcessesAssumption
  <1>1. CASE RunStart(p)
    <2>1. CASE Retries(p)
      BY <2>1 DEF Retries, Retry, GoFor, Launching, BeforeRelease, Types
    <2>2. CASE Done(p)
      BY <2>2 DEF Done, GoFor, Launching, BeforeRelease, Types
    <2>3. CASE OpenJournal(p) \/ Created(p) \/ Arming(p) \/ Preflight(p) \/ Started(p)
      <3>1. /\ pc[p] \in {"journal", "create", "arming", "arm", "start"}
            /\ pc'[p] = "spawn" => Started(p) /\ Remember(p, job[p].run, "RUNNING")
            /\ Done(p) \/ job' = job
        <4>1. CASE OpenJournal(p) \/ Preflight(p)
          BY <4>1 DEF OpenJournal, Preflight, Go, At, Types
        <4>2. CASE Created(p)
          BY <4>2, <2>2 DEF Created, RecordedOrRefused, Go, At, Types
        <4>3. CASE Arming(p)
          BY <4>3, <2>2 DEF Arming, RecordedOrRefused, Go, At, Types
        <4>4. CASE Started(p)
          BY <4>4 DEF Started, Go, At, Types
        <4> QED
          BY <2>3, <4>1, <4>2, <4>3, <4>4
      <3>2. ~Respond(p) /\ ~SpawnRoot(p) /\ job[p].key \in Key
        BY <3>1 DEF Respond, SpawnRoot, At, Jobs
      <3> QED
        BY <2>2, <3>1, <3>2 DEF Launching, BeforeRelease
    <2>4. CASE SpawnRoot(p) \/ WriteManifest(p) \/ ManifestRefused(p) \/ Reject(p) \/ ArmFault(p)
      <3>1. /\ pc[p] \in {"spawn", "manifest", "reject"}
            /\ Done(p) \/ (job' = job /\ pc'[p] \in {"manifest", "kill", "reject", "respond"})
        BY <2>4 DEF SpawnRoot, WriteManifest, ManifestRefused, Reject, ArmFault, RecordedOrRefused,
                 Go, At, Types
      <3>2. ~Respond(p) /\ job[p].key \in Key
        BY <3>1 DEF Respond, At, Jobs
      <3> QED
        BY <2>2, <3>1, <3>2 DEF Launching, BeforeRelease
    <2>5. Reconcile(p) \/ Respond(p) => Done(p)
      BY DEF Reconcile, Respond
    <2> QED
      BY <1>1, <2>1, <2>2, <2>3, <2>4, <2>5 DEF RunStart, Reserves, Retries
  <1>2. CASE Command(p)
    <2>1. ~SpawnRoot(p) /\ ~Respond(p)
      BY <1>2 DEF Command, SpawnRoot, Respond, Open, RunStop, TickLatch, Latch, TickSample,
                  KillUnconfirmed, RetryKill, Close, IssueKill, Finalize, Stopping, Idle, At
    <2>2. CASE UNCHANGED <<pc, job>>
      <3>1. pc[p] # "spawn"
        BY <1>2, <2>2 DEF Command, Open, RunStop, TickLatch, Latch, TickSample, KillUnconfirmed,
                  RetryKill, Close, IssueKill, Finalize, Stopping, Idle, At, Go, GoFor, Done, Types
      <3> QED
        BY <2>1, <2>2, <3>1 DEF Launching, BeforeRelease
    <2>3. CASE Done(p) \/ (\E r \in RunId, s \in {"kill", "finalize"} : GoFor(p, s, NoKey, r))
      BY <2>3 DEF Done, GoFor, Launching, BeforeRelease, Types
    <2>4. CASE pc[p] = "kill" /\ job[p].key # NoKey /\ Go(p, "respond")
      BY <2>1, <2>4 DEF Go, Launching, BeforeRelease, Types
    <2> QED
      BY <1>2, <2>2, <2>3, <2>4, CommandMoves
  <1> QED
    BY <1>1, <1>2

\* Two launches of one run are one launch.
LEMMA OneLaunch ==
    ASSUME LaunchInv, NEW p \in Proc, NEW q \in Proc, Launching(p), Launching(q),
           pc[p] # "idle", pc[q] # "idle", job[p].run = job[q].run
    PROVE  q = p
  <1>1. job[p].key \in Key /\ job[q].key \in Key
    BY DEF LaunchInv, Types, Launching
  <1>2. job[p].run \in RunId /\ job[p].run # NoRun
    BY ProcessesAssumption DEF LaunchInv, Jobs
  <1>3. index[job[p].key].run = job[p].run /\ index[job[q].key].run = job[p].run
    BY <1>1 DEF LaunchInv, Held, Launching
  <1>4. job[p].key = job[q].key
    BY <1>1, <1>2, <1>3 DEF LaunchInv, Rows
  <1> QED
    BY <1>4 DEF LaunchInv, Sole

\* A reservation takes a run that no row has.
LEMMA ReserveStep ==
    ASSUME LaunchInv, Types', Jobs', NEW p \in Proc, NEW k \in Key, NEW r \in RunId, Reserve(p, k, r)
    PROVE  LaunchInv'
  <1> USE ProcessesAssumption
  <1>1. /\ index' = [index EXCEPT ![k].run = r] /\ index[k] = NoRow
        /\ \A l \in Key : index[l].run # r
        /\ pc' = [pc EXCEPT ![p] = "journal"]
        /\ job' = [job EXCEPT ![p] = [key |-> k, run |-> r]]
        /\ mem' = mem /\ releases' = releases
    BY DEF Reserve, GoFor, Unreserved, machine
  <1>2. /\ \A l \in Key : l # k => index'[l] = index[l]
        /\ index'[k].run = r /\ index'[k].reply = "none"
        /\ pc'[p] = "journal" /\ job'[p].key = k /\ job'[p].run = r
        /\ \A q \in Proc : q # p => pc'[q] = pc[q] /\ job'[q] = job[q]
    BY <1>1 DEF LaunchInv, Types, NoRow
  <1>3. \A q \in Proc : job[q].key # k
    <2> SUFFICES ASSUME NEW q \in Proc, job[q].key = k PROVE FALSE
      OBVIOUS
    <2>1. job[q].run \in RunId
      BY DEF LaunchInv, Jobs
    <2>2. index[k].run = job[q].run
      BY DEF LaunchInv, Held
    <2> QED
      BY <1>1, <2>1, <2>2 DEF NoRow
  <1>4. releases[r] = 0
    BY <1>1 DEF LaunchInv, Owned
  <1>5. Rows'
    BY <1>1, <1>2 DEF LaunchInv, Rows
  <1>6. Held'
    <2> SUFFICES ASSUME NEW q \in Proc, job'[q].key # NoKey
                 PROVE  index'[job'[q].key].run = job'[q].run
      BY DEF Held
    <2>1. CASE q = p
      BY <1>2, <2>1
    <2>2. CASE q # p
      BY <1>2, <1>3, <2>2 DEF LaunchInv, Types, Held
    <2> QED
      BY <2>1, <2>2
  <1>7. Sole'
    <2> SUFFICES ASSUME NEW q \in Proc, Launching(q)'
                 PROVE  /\ index'[job'[q].key].reply = "none"
                        /\ \A o \in Proc : Launching(o)' /\ job'[o].key = job'[q].key => o = q
      BY DEF Sole
    <2>1. CASE q = p
      BY <1>2, <1>3, <2>1
    <2>2. CASE q # p
      <3>1. Launching(q) /\ job'[q] = job[q] /\ job[q].key \in Key \ {k}
        BY <1>2, <1>3, <2>2 DEF LaunchInv, Types, Launching
      <3>2. ASSUME NEW o \in Proc, Launching(o)', job'[o].key = job'[q].key
            PROVE  Launching(o) /\ job[o].key = job[q].key
        BY <1>2, <3>1, <3>2 DEF Launching
      <3> QED
        BY <1>2, <3>1, <3>2 DEF LaunchInv, Sole
    <2> QED
      BY <2>1, <2>2
  <1>8. Owned'
    <2> SUFFICES ASSUME NEW o \in RunId, releases[o] # 0
                 PROVE  \E l \in Key : index'[l].run = o
      BY <1>1 DEF Owned
    <2>1. PICK l \in Key : index[l].run = o
      BY DEF LaunchInv, Owned
    <2>2. l # k
      BY <1>1, <2>1 DEF NoRow
    <2> QED
      BY <1>2, <2>1, <2>2
  <1>9. Before' /\ Armed'
    BY <1>1, <1>2, <1>4 DEF LaunchInv, Before, Armed, Launching
  <1> QED
    BY <1>5, <1>6, <1>7, <1>8, <1>9 DEF LaunchInv

\* Every other step of a process keeps it.
LEMMA ProcessStep ==
    ASSUME LaunchInv, Types', Jobs', NEW p \in Proc, RunStart(p) \/ Command(p), ~Reserves(p)
    PROVE  LaunchInv'
  <1> USE ProcessesAssumption
  <1>1. \A k \in Key : /\ index'[k].run = index[k].run
                       /\ ~(Respond(p) /\ job[p].key = k) => index'[k] = index[k]
    <2>1. CASE index' = index
      BY <2>1
    <2>2. CASE Respond(p)
      BY <2>2 DEF Respond, LaunchInv, Types
    <2> QED
      BY <2>1, <2>2, StartMoves, CommandMoves
  <1>2. \A r \in RunId : ~(SpawnRoot(p) /\ job[p].run = r) => releases'[r] = releases[r]
    BY StartMoves, CommandMoves DEF SpawnRoot, LaunchInv, Types
  <1>3. Rows'
    BY <1>1 DEF LaunchInv, Rows
  <1>4. Held'
    <2>1. Retries(p) => \E k \in Key : job'[p].key = k /\ job'[p].run = index[k].run
      BY DEF Retries, Retry, GoFor, LaunchInv, Types
    <2>2. \A q \in Proc : job[q].key \in Key \cup {NoKey}
      BY DEF LaunchInv, Types
    <2> QED
      BY <1>1, <2>1, <2>2, OthersStay, LaunchMoves DEF LaunchInv, Held
  <1>5. \A q \in Proc : Launching(q)' => Launching(q) /\ job'[q] = job[q]
    BY OthersStay, LaunchMoves DEF LaunchInv, Launching
  <1>6. Sole'
    <2>1. ASSUME NEW q \in Proc, Launching(q)', Respond(p) PROVE job[p].key # job[q].key
      <3>1. Launching(p)
        BY <2>1 DEF Respond, At, Launching, LaunchInv, Jobs
      <3>2. q # p
        BY <2>1, LaunchMoves DEF LaunchInv
      <3> QED
        BY <1>5, <2>1, <3>1, <3>2 DEF LaunchInv, Sole
    <2> QED
      BY <1>1, <1>5, <2>1 DEF LaunchInv, Types, Sole, Launching
  <1>7. Owned'
    <2>1. SpawnRoot(p) => index[job[p].key].run = job[p].run /\ job[p].key \in Key
      BY DEF SpawnRoot, At, LaunchInv, Jobs, Held
    <2> QED
      BY <1>1, <1>2, <2>1 DEF LaunchInv, Owned
  <1>8. ASSUME NEW q \in Proc, q # p, Launching(q), pc[q] # "idle"
        PROVE  releases'[job[q].run] = releases[job[q].run]
    <2>1. job[q].run \in RunId
      BY <1>8 DEF LaunchInv, Jobs
    <2>2. SpawnRoot(p) => Launching(p) /\ pc[p] # "idle"
      BY DEF SpawnRoot, At, Launching, LaunchInv, Jobs
    <2> QED
      BY <1>2, <1>8, <2>1, <2>2, OneLaunch
  <1>9. Before'
    <2> SUFFICES ASSUME NEW q \in Proc, pc'[q] \in BeforeRelease
                 PROVE  releases'[job'[q].run] = 0
      BY DEF Before
    <2>1. pc[q] \in BeforeRelease /\ job'[q] = job[q] /\ (q = p => ~SpawnRoot(p))
      BY OthersStay, LaunchMoves DEF LaunchInv
    <2>2. Launching(q) /\ pc[q] # "idle" /\ job[q].run \in RunId
      BY <2>1 DEF BeforeRelease, Launching, LaunchInv, Jobs
    <2> QED
      BY <1>2, <1>8, <2>1, <2>2 DEF LaunchInv, Before
  <1>10. Armed'
    <2>1. ASSUME NEW q \in Proc, pc'[q] = "spawn" PROVE mem'[q][job'[q].run].st = "RUNNING"
      <3>1. CASE q = p
        <4>1. Remember(p, job[p].run, "RUNNING") /\ job'[p] = job[p] /\ pc[p] # "idle"
          BY <2>1, <3>1, LaunchMoves DEF LaunchInv, BeforeRelease
        <4> QED
          BY <3>1, <4>1 DEF Remember, LaunchInv, Types, Jobs, Memory
      <3>2. CASE q # p
        BY <2>1, <3>2, OthersStay DEF LaunchInv, Armed
      <3> QED
        BY <3>1, <3>2
    <2>2. ASSUME NEW q \in Proc, Launching(q)', releases'[job'[q].run] # 0
          PROVE  mem'[q][job'[q].run].st \notin {"CREATED", "ARMING", "REJECTED"}
      <3>1. Launching(q) /\ job'[q] = job[q] /\ pc[q] # "idle" /\ job[q].run \in RunId
        BY <1>5, <2>2 DEF Launching, LaunchInv, Jobs
      <3>2. CASE q # p
        BY <1>8, <2>2, <3>1, <3>2, OthersStay DEF LaunchInv, Armed
      <3>3. CASE q = p /\ SpawnRoot(p)
        BY <3>1, <3>3 DEF SpawnRoot, At, LaunchInv, Armed
      <3>4. CASE q = p /\ ~SpawnRoot(p)
        <4>1. releases[job[p].run] # 0
          BY <1>2, <2>2, <3>1, <3>4
        <4>2. /\ mem[p][job[p].run].st \notin {"CREATED", "ARMING", "REJECTED"}
              /\ pc[p] \notin BeforeRelease \cup {"idle", "finalize"}
          BY <3>1, <3>4, <4>1 DEF LaunchInv, Armed, Before, Jobs, Launching
        <4>3. mem' = mem \/ (ArmFault(p) /\ Remember(p, job[p].run, "STOPPING"))
          <5>1. CASE RunStart(p)
            BY <3>1, <3>4, <4>2, <5>1 DEF RunStart, Reserves, Retry, Reconcile, OpenJournal, Created,
               Arming, Preflight, Started, WriteManifest, ManifestRefused, Reject, ArmFault, Rejectable,
               Respond, At, Idle, BeforeRelease, Launching
          <5>2. CASE Command(p)
            BY <4>2, <5>2 DEF Command, Open, RunStop, TickLatch, TickSample, KillUnconfirmed,
               RetryKill, Close, IssueKill, Finalize, Stopping, At, Idle
          <5> QED
            BY <5>1, <5>2
        <4> QED
          BY <3>1, <3>4, <4>2, <4>3 DEF Remember, LaunchInv, Types, Memory
      <3> QED
        BY <3>2, <3>3, <3>4
    <2> QED
      BY <2>1, <2>2 DEF Armed
  <1> QED
    BY <1>3, <1>4, <1>6, <1>7, <1>9, <1>10 DEF LaunchInv

Stays(q)      == pc'[q] = pc[q] /\ job'[q] = job[q] /\ mem'[q] = mem[q]
StartsOver(q) == pc'[q] = "idle" /\ job'[q] = NoJob

\* Every step keeps it.
LEMMA LaunchStep ==
    ASSUME LaunchInv, [Next]_vars
    PROVE  LaunchInv'
  <1>1. Types' /\ Jobs'
    BY TypesStep DEF LaunchInv
  <1>2. CASE \E p \in Proc : Reserves(p)
    BY <1>1, <1>2, ReserveStep DEF Reserves
  <1>3. ASSUME NEW p \in Proc, RunStart(p) \/ Command(p), ~Reserves(p)
        PROVE  LaunchInv'
    BY <1>1, <1>3, ProcessStep
  <1>4. ASSUME UNCHANGED <<index, journal, releases>>, UNCHANGED <<pc, job, mem>>
        PROVE  LaunchInv'
    BY <1>1, <1>4 DEF LaunchInv, Rows, Held, Sole, Owned, Before, Armed, Launching
  <1>5. NoJob.key = NoKey /\ "idle" \notin BeforeRelease
    BY DEF NoJob, BeforeRelease
  <1>6. ASSUME UNCHANGED <<index, journal, releases>>,
               \A q \in Proc : Stays(q) \/ StartsOver(q)
        PROVE  LaunchInv'
    <2>1. Rows' /\ Owned'
      BY <1>6 DEF LaunchInv, Rows, Owned
    <2>2. Held' /\ Sole'
      BY <1>5, <1>6 DEF LaunchInv, Held, Sole, Launching, Stays, StartsOver
    <2>3. Before' /\ Armed'
      BY <1>5, <1>6 DEF LaunchInv, Before, Armed, Launching, Stays, StartsOver
    <2> QED
      BY <1>1, <2>1, <2>2, <2>3 DEF LaunchInv
  <1>7. (\E p \in Proc : Ends(p)) \/ EndAll => \A q \in Proc : Stays(q) \/ StartsOver(q)
    <2>1. ASSUME NEW p \in Proc, Ends(p), NEW q \in Proc
          PROVE  Stays(q) \/ StartsOver(q)
      <3>1. CASE q = p
        BY <2>1, <3>1 DEF Ends, StartsOver, LaunchInv, Types
      <3>2. CASE q # p
        BY <2>1, <3>2 DEF Ends, Stays, LaunchInv, Types
      <3> QED
        BY <3>1, <3>2
    <2>2. EndAll => \A q \in Proc : StartsOver(q)
      BY DEF EndAll, StartsOver
    <2> QED
      BY <2>1, <2>2
  <1> QED
    <2>1. CASE \E p \in Proc : RunStart(p) \/ Command(p)
      BY <1>2, <1>3, <2>1
    <2>2. CASE ~\E p \in Proc : RunStart(p) \/ Command(p)
      BY <1>4, <1>6, <1>7, <2>2, OtherMoves DEF Next
    <2> QED
      BY <2>1, <2>2

\* The invariant of launches holds.
LEMMA LaunchCorrect == Spec => []LaunchInv
  BY LaunchInit, LaunchStep, PTL DEF Spec

-------------------------------------------------------------------------------
(***************************************************************************)
(* The refinement.                                                         *)
(***************************************************************************)

\* Every step is a step of LaunchOnce or changes nothing it speaks of.
LEMMA LaunchRefines ==
    ASSUME LaunchInv, [Next]_vars
    PROVE  [Once!OnceNext]_(Once!onceVars)
  <1> USE ProcessesAssumption
  <1> DEFINE owned  == [k \in Key |-> index[k].run]
             stored == [k \in Key |-> index[k].reply]
  <1>1. ASSUME NEW p \in Proc, NEW k \in Key, NEW r \in RunId, Reserve(p, k, r)
        PROVE  Once!OnceNext
    <2>1. /\ owned[k] = NoRun /\ \A l \in Key : owned[l] # r
          /\ index' = [index EXCEPT ![k].run = r] /\ releases' = releases
      BY <1>1 DEF Reserve, Unreserved, NoRow, machine
    <2>2. \A l \in Key : /\ index'[l].run = (IF l = k THEN r ELSE index[l].run)
                        /\ index'[l].reply = index[l].reply
      BY <2>1 DEF LaunchInv, Types
    <2>3. owned' = [owned EXCEPT ![k] = r] /\ stored' = stored
      BY <2>2
    <2> QED
      BY <2>1, <2>3 DEF Once!OnceNext, Once!Own
  <1>2. ASSUME NEW p \in Proc, SpawnRoot(p), releases' # releases
        PROVE  Once!OnceNext
    <2>1. /\ job[p].key \in Key /\ job[p].run \in RunId /\ owned[job[p].key] = job[p].run
          /\ stored[job[p].key] = "none" /\ releases[job[p].run] = 0
      BY <1>2 DEF SpawnRoot, At, LaunchInv, Jobs, Held, Sole, Launching, Before, BeforeRelease
    <2>2. releases' = [releases EXCEPT ![owned[job[p].key]] = 1]
      BY <1>2, <2>1 DEF SpawnRoot, LaunchInv, Types
    <2>3. owned' = owned /\ stored' = stored
      BY <1>2 DEF SpawnRoot, disk
    <2> QED
      BY <2>1, <2>2, <2>3 DEF Once!OnceNext, Once!Release
  <1>3. ASSUME NEW p \in Proc, Respond(p), index' # index
        PROVE  Once!OnceNext
    <2>1. /\ job[p].key \in Key /\ job[p].run \in RunId /\ owned[job[p].key] = job[p].run
          /\ stored[job[p].key] = "none"
      BY <1>3 DEF Respond, At, LaunchInv, Jobs, Held, Sole, Launching
    <2>2. PICK k \in Key : k = job[p].key
      BY <2>1
    <2>3. PICK v \in {"ARMING", "REJECTED"} : v = Verdict(mem[p][job[p].run].st)
      BY DEF Verdict
    <2>4. v = "REJECTED" => releases[owned[k]] = 0
      BY <1>3, <2>1, <2>2, <2>3 DEF Respond, At, Verdict, LaunchInv, Armed, Launching
    <2>5. index' = [index EXCEPT ![k].reply = v] /\ releases' = releases
      BY <1>3, <2>2, <2>3 DEF Respond, machine
    <2>6. \A l \in Key : /\ index'[l].run = index[l].run
                        /\ index'[l].reply = (IF l = k THEN v ELSE index[l].reply)
      BY <2>5 DEF LaunchInv, Types
    <2>7. owned' = owned /\ stored' = [stored EXCEPT ![k] = v]
      BY <2>6
    <2>8. owned[k] # NoRun /\ stored[k] = "none"
      BY <2>1, <2>2
    <2> QED
      BY <2>4, <2>5, <2>7, <2>8 DEF Once!OnceNext, Once!Store, Once!Verdict
  <1>4. index' = index /\ releases' = releases => UNCHANGED Once!onceVars
    BY DEF Once!onceVars
  <1>5. ASSUME NEW p \in Proc, RunStart(p) \/ Command(p)
        PROVE  Once!OnceNext \/ (index' = index /\ releases' = releases)
    <2>1. SpawnRoot(p) => index' = index
      BY DEF SpawnRoot, disk
    <2>2. Respond(p) => releases' = releases
      BY DEF Respond, machine
    <2> QED
      BY <1>1, <1>2, <1>3, <1>5, <2>1, <2>2, StartMoves, CommandMoves DEF Reserves
  <1> QED
    BY <1>4, <1>5, OtherMoves DEF Next

\* However launchers die, retry and overlap, a request launches one workload at
\* most and its stored reply is final (Launcher.run_start, _reconcile_launch).
THEOREM LaunchesOnceAlways == Spec => LaunchesOnce
  <1>1. Init => Once!OnceInit
    BY DEF Init, Once!OnceInit, NoRow
  <1>2. LaunchInv /\ [Next]_vars => [Once!OnceNext]_(Once!onceVars)
    BY LaunchRefines
  <1> QED
    BY <1>1, <1>2, LaunchCorrect, PTL DEF Spec, LaunchesOnce, Once!OnceSpec


-------------------------------------------------------------------------------
(***************************************************************************)
(* A receipt that verifies and is complete is about a workload that is     *)
(* gone, for any processes, requests and runs (EvidenceIsTrue).            *)
(*                                                                         *)
(* Only the process that created a run signs with its key, and it stays    *)
(* the only one: what anybody else appends makes the journal worthless as  *)
(* evidence.  So the proof follows the owner of a run.  While it launches  *)
(* the journal is not closed; the cgroup it released the workload into is  *)
(* in its memory, so that it looks before it closes; and once it closes    *)
(* nobody is left who could release the workload.                          *)
(***************************************************************************)

Closed == {"FINALIZING"} \cup TerminalStates

\* The journal of r is good evidence that r is closed.
Evidence(r) == journal[r].genuine /\ journal[r].rs.ok /\ journal[r].rs.st \in Closed

Indexed(r) == \E k \in Key : index[k].run = r

\* A run has one owner, a run of the index; its launcher, once it has a journal.
Owners ==
    /\ \A p, q \in Proc, r \in RunId : mem[p][r].own /\ mem[q][r].own => p = q
    /\ \A p \in Proc, r \in RunId : mem[p][r].own => Indexed(r)
    /\ \A p \in Proc : Launching(p) /\ pc[p] # "journal" => mem[p][job[p].run].own
    /\ \A p, q \in Proc : pc[p] = "journal" => ~mem[q][job[p].run].own

\* The owner of a living workload has its cgroup.
Boxed ==
    /\ \A p \in Proc : pc[p] \in {"start", "spawn"} => mem[p][job[p].run].box
    /\ \A p \in Proc, r \in RunId : mem[p][r].own /\ r \in alive => mem[p][r].box

Released == \A r \in alive : r \in RunId /\ releases[r] # 0

\* Nothing is closed before it is released, nor finalised by its owner with a
\* living workload.
Unclosed ==
    /\ \A r \in RunId : Evidence(r) => Indexed(r)
    /\ \A p \in Proc : pc[p] \in BeforeRelease => ~Evidence(job[p].run)

Emptied ==
    \A p \in Proc : pc[p] = "finalize" /\ mem[p][job[p].run].own => job[p].run \notin alive

Gone == \A r \in RunId : Evidence(r) => r \notin alive

EvidenceInv == LaunchInv /\ Owners /\ Boxed /\ Released /\ Unclosed /\ Emptied /\ Gone

\* The initial state satisfies the invariant of evidence.
LEMMA EvidenceInit == Init => EvidenceInv
  <1> SUFFICES ASSUME Init PROVE EvidenceInv
    OBVIOUS
  <1>1. LaunchInv
    BY LaunchInit
  <1>2. Owners /\ Boxed /\ Released /\ Emptied
    BY DEF Init, Owners, Boxed, Released, Emptied, Launching, Blank, NoJob
  <1>3. Unclosed /\ Gone
    BY DEF Init, Unclosed, Gone, Evidence, Closed, TerminalStates, NoJournal, EmptyReplay,
           BeforeRelease
  <1> QED
    BY <1>1, <1>2, <1>3 DEF EvidenceInv

-------------------------------------------------------------------------------
(***************************************************************************)
(* How a step of a process moves what the invariant speaks of.             *)
(***************************************************************************)

\* Whatever is appended by another than the owner is no evidence.
LEMMA AppendEvidence ==
    ASSUME Types, NEW p \in Proc, NEW r \in RunId, NEW e, Append(p, r, e),
           NEW s \in RunId, Evidence(s)'
    PROVE  Evidence(s) \/ (s = r /\ mem[p][r].own /\ PostState(journal[r].rs, e) \in Closed)
  <1>1. s # r => journal'[s] = journal[s]
    BY DEF Append, Types
  <1>2. ASSUME s = r
        PROVE  /\ journal[r].genuine /\ mem[p][r].own
               /\ Legal(journal[r].rs, e) /\ PostState(journal[r].rs, e) \in Closed
    <2>1. journal'[r] = [file |-> journal[r].file, rs |-> Apply(journal[r].rs, e),
                         genuine |-> journal[r].genuine /\ mem[p][r].own]
      BY DEF Append, Types
    <2>2. journal[r].genuine /\ mem[p][r].own
      <3>1. journal'[r].genuine
        BY <1>2 DEF Evidence
      <3>2. journal'[r].genuine = (journal[r].genuine /\ mem[p][r].own)
        BY <2>1
      <3> QED
        BY <3>1, <3>2
    <2>3. Apply(journal[r].rs, e).ok /\ Apply(journal[r].rs, e).st \in Closed
      BY <1>2, <2>1 DEF Evidence
    <2>4. Legal(journal[r].rs, e)
      <3>1. journal[r].rs \in Replays
        BY DEF Types
      <3>2. ~Legal(journal[r].rs, e) => ~Apply(journal[r].rs, e).ok
        BY <3>1 DEF Apply, Replays
      <3> QED
        BY <2>3, <3>2
    <2>5. Apply(journal[r].rs, e).st = PostState(journal[r].rs, e)
      BY <2>4 DEF Apply
    <2> QED
      BY <2>2, <2>3, <2>4, <2>5
  <1> QED
    BY <1>1, <1>2 DEF Evidence

OpenKinds == {"RunCreated", "RunArming", "RunStarted", "StopLatched", "KillIssued",
              "SampleRecorded", "KillUnconfirmed"}

\* An event of an open run makes no evidence that a run is closed.
LEMMA OpenEvidence ==
    ASSUME Types, NEW p \in Proc, NEW r \in RunId, NEW kind \in OpenKinds,
           Append(p, r, Event(kind)), NEW s \in RunId, Evidence(s)'
    PROVE  Evidence(s)
  <1>1. Evidence(s) \/ (s = r /\ PostState(journal[r].rs, Event(kind)) \in Closed)
    BY AppendEvidence
  <1>2. CASE kind \in {"RunCreated", "RunArming", "RunStarted", "StopLatched", "KillUnconfirmed"}
    BY <1>1, <1>2 DEF PostState, Event, Closed, TerminalStates
  <1>3. CASE kind \in {"KillIssued", "SampleRecorded"}
    <2>1. PostState(journal[r].rs, Event(kind)) = journal[r].rs.st
      BY <1>3 DEF PostState, Event
    <2>2. s = r => journal[r].genuine /\ journal[r].rs.ok
      <3>1. s = r => /\ journal'[r].genuine = (journal[r].genuine /\ mem[p][r].own)
                     /\ journal'[r].rs = Apply(journal[r].rs, Event(kind))
        BY DEF Append, Types
      <3>2. journal[r].rs \in Replays
        BY DEF Types
      <3>3. Apply(journal[r].rs, Event(kind)).ok => journal[r].rs.ok
        BY <3>2 DEF Apply, Legal, Replays
      <3> QED
        BY <3>1, <3>3 DEF Evidence
    <2> QED
      BY <1>1, <2>1, <2>2 DEF Evidence
  <1> QED
    BY <1>2, <1>3 DEF OpenKinds

\* A run becomes evidence of its end only by its owner, who rejects, closes or
\* finalises it.
LEMMA EvidenceMoves ==
    ASSUME Types, Jobs, NEW p \in Proc, RunStart(p) \/ Command(p),
           NEW r \in RunId, Evidence(r)', ~Evidence(r)
    PROVE  /\ mem[p][r].own
           /\ \/ Reject(p) /\ r = job[p].run /\ Rejectable(p, r)
              \/ Close(p, r)
              \/ Finalize(p) /\ r = job[p].run
  <1>1. journal' # journal
    BY DEF Evidence
  <1>2. CASE RunStart(p)
    <2>1. \/ OpenJournal(p)
          \/ pc[p] # "idle" /\ \E kind \in OpenKinds : Append(p, job[p].run, Event(kind))
          \/ pc[p] # "idle" /\ Reject(p) /\ Rejectable(p, job[p].run)
                /\ Append(p, job[p].run, Event("RunRejected"))
      BY <1>1, <1>2 DEF RunStart, Retry, Reserve, Reconcile, Created, Arming, Preflight, Started,
         SpawnRoot, Respond, RecordedOrRefused, WriteManifest, ManifestRefused, Reject, ArmFault,
         Refuse,
         OpenKinds, disk, At
    <2>2. ~OpenJournal(p)
      <3> SUFFICES ASSUME OpenJournal(p) PROVE FALSE
        OBVIOUS
      <3>1. journal' = [journal EXCEPT ![job[p].run] = [journal[job[p].run] EXCEPT !.file = TRUE]]
        BY DEF OpenJournal, Types
      <3>2. journal[r] \in [file : BOOLEAN, rs : Replays, genuine : BOOLEAN]
        BY DEF Types
      <3>3. journal'[r].rs = journal[r].rs /\ journal'[r].genuine = journal[r].genuine
        BY <3>1, <3>2 DEF Types
      <3> QED
        BY <3>3 DEF Evidence
    <2>3. pc[p] # "idle" => job[p].run \in RunId
      BY DEF Jobs
    <2> QED
      BY <2>1, <2>2, <2>3, OpenEvidence, AppendEvidence
  <1>3. CASE Command(p)
    <2>1. \/ \E o \in RunId, kind \in OpenKinds : Append(p, o, Event(kind))
          \/ pc[p] = "kill" /\ Append(p, job[p].run, Event("KillIssued"))
          \/ \E o \in RunId : Close(p, o) /\ Append(p, o, Event("ContainmentEmpty"))
          \/ /\ pc[p] = "finalize" /\ Finalize(p)
             /\ Append(p, job[p].run, About("RunFinalized", {}, "KILLED"))
      BY <1>1, <1>3 DEF Command, Open, RunStop, TickLatch, Latch, TickSample, KillUnconfirmed,
         RetryKill, Close, IssueKill, Finalize, Refuse, disk, At, OpenKinds
    <2>2. pc[p] \in {"kill", "finalize"} => job[p].run \in RunId
      BY DEF Jobs
    <2>3. "KillIssued" \in OpenKinds
      BY DEF OpenKinds
    <2> QED
      BY <2>1, <2>2, <2>3, OpenEvidence, AppendEvidence
  <1> QED
    BY <1>2, <1>3

\* How a step of a process changes what it remembers of a run.
LEMMA MemMoves ==
    ASSUME Types, Jobs, NEW p \in Proc, RunStart(p) \/ Command(p), NEW r \in RunId
    PROVE  \/ OpenJournal(p) /\ r = job[p].run
           \/ Preflight(p) /\ r = job[p].run /\ mem'[p][r].own = mem[p][r].own
           \/ ~mem'[p][r].own /\ (pc[p] = "idle" \/ pc[p] = "reconcile")
           \/ mem'[p][r].own = mem[p][r].own /\ mem'[p][r].box = mem[p][r].box
  <1>1. mem[p] \in [RunId -> Memory] /\ mem[p][r] \in Memory
    BY DEF Types
  <1>2. CASE mem' = mem
    BY <1>2
  <1>3. CASE OpenJournal(p)
    BY <1>1, <1>3 DEF OpenJournal, Types
  <1>4. CASE Preflight(p)
    <2>1. PICK made \in BOOLEAN : mem' = [mem EXCEPT ![p][job[p].run].box = made]
      BY <1>4 DEF Preflight
    <2>2. mem' = [mem EXCEPT ![p] = [mem[p] EXCEPT ![job[p].run] =
                                        [mem[p][job[p].run] EXCEPT !.box = made]]]
      BY <2>1 DEF Types
    <2>3. mem'[p] = [mem[p] EXCEPT ![job[p].run] = [mem[p][job[p].run] EXCEPT !.box = made]]
      BY <2>2 DEF Types
    <2>4. CASE r = job[p].run
      BY <1>1, <1>4, <2>3, <2>4 DEF Memory
    <2>5. CASE r # job[p].run
      BY <1>1, <2>3, <2>5
    <2> QED
      BY <2>4, <2>5
  <1>5. CASE Reconcile(p)
    BY <1>1, <1>5 DEF Reconcile, At, Opened, Types
  <1>6. ASSUME NEW o \in RunId, Open(p, o)
        PROVE  \/ ~mem'[p][r].own /\ pc[p] = "idle"
               \/ mem'[p][r].own = mem[p][r].own /\ mem'[p][r].box = mem[p][r].box
    BY <1>1, <1>6 DEF Open, Idle, At, Opened, Types
  <1>7. ASSUME NEW o, NEW st, Remember(p, o, st)
        PROVE  mem'[p][r].own = mem[p][r].own /\ mem'[p][r].box = mem[p][r].box
    BY <1>1, <1>7 DEF Remember, Types, Memory
  <1> QED
    BY <1>2, <1>3, <1>4, <1>5, <1>6, <1>7, StartMoves, CommandMoves

\* Only the spawn of a root brings a workload to life.
LEMMA AliveMoves ==
    ASSUME NEW p \in Proc, RunStart(p) \/ Command(p)
    PROVE  /\ alive' = alive \/ (SpawnRoot(p) /\ alive' = alive \cup {job[p].run}
                                  /\ releases' = [releases EXCEPT ![job[p].run] = @ + 1])
           /\ SpawnRoot(p) => mem' = mem /\ index' = index /\ journal' = journal
  <1>1. CASE RunStart(p)
    BY <1>1 DEF RunStart, Retry, Reserve, Reconcile, OpenJournal, Created, Arming, Preflight,
       Started, SpawnRoot, Respond, WriteManifest, ManifestRefused, Reject, ArmFault, machine, disk
  <1>2. CASE Command(p)
    BY <1>2 DEF Command, Open, RunStop, TickLatch, Latch, TickSample, KillUnconfirmed, RetryKill,
       Close, IssueKill, Finalize, machine, SpawnRoot, disk, At
  <1> QED
    BY <1>1, <1>2

\* How a process gets to the places the invariant speaks of.
LEMMA PlaceMoves ==
    ASSUME Types, NEW p \in Proc, RunStart(p) \/ Command(p)
    PROVE  /\ pc'[p] = "journal" => Reserves(p)
           /\ pc'[p] = "start" => Preflight(p) /\ mem'[p] = [mem[p] EXCEPT ![job[p].run].box = TRUE]
                                  /\ job' = job
           /\ pc'[p] = "finalize" => \E r \in RunId : Close(p, r) /\ job'[p].run = r
           /\ pc[p] = "journal" /\ Launching(p)' /\ pc'[p] # "journal" => OpenJournal(p)
  <1>1. CASE RunStart(p) /\ ~Reserves(p)
    <2>1. CASE Retries(p) \/ Reconcile(p) \/ Respond(p)
      BY <2>1 DEF Retries, Retry, Reconcile, Respond, Done, GoFor, At, Idle, Types
    <2>2. CASE Preflight(p)
      BY <2>2 DEF Preflight, Go, At, Types
    <2>3. CASE OpenJournal(p) \/ Created(p) \/ Arming(p) \/ Started(p)
      BY <2>3 DEF OpenJournal, Created, Arming, Started, RecordedOrRefused, Done, Go, GoFor, At, Types
    <2>4. CASE SpawnRoot(p) \/ WriteManifest(p) \/ ManifestRefused(p) \/ Reject(p) \/ ArmFault(p)
      BY <2>4 DEF SpawnRoot, WriteManifest, ManifestRefused, Reject, ArmFault, RecordedOrRefused,
                  Done, Go, GoFor, At, Types
    <2> QED
      BY <1>1, <2>1, <2>2, <2>3, <2>4 DEF RunStart, Reserves, Retries
  <1>2. CASE Reserves(p)
    BY <1>2 DEF Reserves, Reserve, GoFor, Idle, At, Types
  <1>3. CASE Command(p)
    <2>1. CASE IssueKill(p) \/ Finalize(p)
      BY <2>1 DEF IssueKill, Finalize, Done, Go, GoFor, At, Types
    <2>2. ASSUME NEW r \in RunId, Close(p, r)
          PROVE  pc'[p] = "finalize" /\ job'[p].run = r /\ pc[p] = "idle"
      BY <2>2 DEF Close, Stopping, Idle, At, GoFor, Types
    <2>3. ASSUME NEW r \in RunId,
                 \/ Open(p, r) \/ RunStop(p, r) \/ TickLatch(p, r) \/ TickSample(p, r)
                 \/ KillUnconfirmed(p, r) \/ RetryKill(p, r)
          PROVE  pc[p] = "idle" /\ pc'[p] \in {"idle", "kill"}
      BY <2>3 DEF Open, RunStop, TickLatch, Latch, TickSample, KillUnconfirmed, RetryKill,
                  Stopping, Idle, At, GoFor, Types
    <2> QED
      BY <1>3, <2>1, <2>2, <2>3 DEF Command
  <1> QED
    BY <1>1, <1>2, <1>3

-------------------------------------------------------------------------------
(***************************************************************************)
(* The step of a process, one conjunct after the other.                    *)
(***************************************************************************)
LEMMA IndexedStays ==
    ASSUME Types, NEW p \in Proc, RunStart(p) \/ Command(p), NEW r \in RunId, Indexed(r)
    PROVE  Indexed(r)'
  <1> USE ProcessesAssumption
  <1>1. PICK k \in Key : index[k].run = r
    BY DEF Indexed
  <1>2. index'[k].run = r
    <2>1. CASE Reserves(p)
      <3>1. PICK l \in Key, o \in RunId : Reserve(p, l, o)
        BY <2>1 DEF Reserves
      <3>2. k # l
        BY <1>1, <3>1 DEF Reserve, Unreserved, NoRow
      <3> QED
        BY <1>1, <3>1, <3>2 DEF Reserve, Types
    <2>2. CASE Respond(p)
      <3>1. index' = index \/ \E v : index' = [index EXCEPT ![job[p].key].reply = v]
        BY <2>2 DEF Respond
      <3>2. ASSUME NEW v, index' = [index EXCEPT ![job[p].key].reply = v]
            PROVE  index'[k].run = r
        <4>1. index'[k] = index[k] \/ index'[k] = [index[k] EXCEPT !.reply = v]
          BY <3>2 DEF Types
        <4>2. index[k] \in [run : RunId \cup {NoRun}, reply : Replies]
          BY DEF Types
        <4> QED
          BY <1>1, <4>1, <4>2
      <3> QED
        BY <1>1, <3>1, <3>2
    <2>3. CASE index' = index
      BY <1>1, <2>3
    <2> QED
      BY <2>1, <2>2, <2>3, StartMoves, CommandMoves
  <1> QED
    BY <1>2 DEF Indexed

\* No step gives a run a second owner.
LEMMA OwnersStep ==
    ASSUME EvidenceInv, NEW p \in Proc, RunStart(p) \/ Command(p)
    PROVE  Owners'
  <1> USE ProcessesAssumption DEF EvidenceInv, LaunchInv
  <1>1. ASSUME NEW r \in RunId, mem'[p][r].own
        PROVE  mem[p][r].own \/ (OpenJournal(p) /\ r = job[p].run)
    BY <1>1, MemMoves
  <1>2. OpenJournal(p) => pc[p] = "journal" /\ Launching(p) /\ job[p].key \in Key
    BY DEF OpenJournal, At, Launching, Jobs
  <1>3. ASSUME NEW o \in Proc, NEW q \in Proc, NEW r \in RunId, mem'[o][r].own, mem'[q][r].own
        PROVE  o = q
    <2>1. CASE o = p \/ q = p
      BY <1>1, <1>2, <1>3, <2>1, OthersStay DEF Owners
    <2>2. CASE o # p /\ q # p
      BY <1>3, <2>2, OthersStay DEF Owners
    <2> QED
      BY <2>1, <2>2
  <1>4. ASSUME NEW q \in Proc, NEW r \in RunId, mem'[q][r].own
        PROVE  Indexed(r)'
    <2>1. CASE mem[q][r].own
      BY <2>1, IndexedStays DEF Owners
    <2>2. CASE OpenJournal(p) /\ r = job[p].run
      BY <1>2, <2>2, IndexedStays DEF Indexed, Held
    <2> QED
      BY <1>1, <1>4, <2>1, <2>2, OthersStay
  <1>5. ASSUME NEW q \in Proc, Launching(q)', pc'[q] # "journal"
        PROVE  mem'[q][job'[q].run].own
    <2>1. CASE q # p
      BY <1>5, <2>1, OthersStay DEF Owners, Launching
    <2>2. CASE q = p
      <3>1. ~Reserves(p)
        BY <1>5, <2>2 DEF Reserves, Reserve, GoFor, Types
      <3>2. Launching(p) /\ job'[p] = job[p] /\ pc[p] \notin {"idle", "reconcile"} /\ job[p].run \in RunId
        BY <1>5, <2>2, <3>1, LaunchMoves DEF Launching, Jobs
      <3>3. CASE OpenJournal(p)
        BY <2>2, <3>2, <3>3 DEF OpenJournal, Blank, Types
      <3>4. CASE ~OpenJournal(p)
        <4>1. mem[p][job[p].run].own
          BY <1>5, <2>2, <3>2, <3>4, PlaceMoves DEF Owners
        <4> QED
          BY <2>2, <3>2, <3>4, <4>1, MemMoves
      <3> QED
        BY <3>3, <3>4
    <2> QED
      BY <2>1, <2>2
  <1>6. ASSUME NEW o \in Proc, NEW q \in Proc, pc'[o] = "journal"
        PROVE  ~mem'[q][job'[o].run].own
    <2>1. CASE o = p
      <3>1. PICK k \in Key, r \in RunId : Reserve(p, k, r)
        BY <1>6, <2>1, PlaceMoves DEF Reserves
      <3>2. job'[o].run = r /\ mem' = mem /\ ~Indexed(r)
        BY <2>1, <3>1 DEF Reserve, GoFor, Indexed, Types
      <3> QED
        BY <3>2 DEF Owners
    <2>2. CASE o # p
      <3>1. pc[o] = "journal" /\ job'[o] = job[o] /\ Launching(o) /\ job[o].run \in RunId
        BY <1>6, <2>2, OthersStay DEF Launching, Jobs
      <3>2. ~mem[q][job[o].run].own
        BY <3>1 DEF Owners
      <3>3. ~(OpenJournal(p) /\ job[o].run = job[p].run)
        BY <1>2, <2>2, <3>1, OneLaunch
      <3> QED
        BY <1>1, <3>1, <3>2, <3>3, OthersStay
    <2> QED
      BY <2>1, <2>2
  <1> QED
    BY <1>3, <1>4, <1>5, <1>6 DEF Owners

\* The process that releases a workload owns its run.
LEMMA SpawnOwns ==
    ASSUME EvidenceInv, NEW p \in Proc, SpawnRoot(p)
    PROVE  /\ pc[p] = "spawn" /\ job[p].run \in RunId
           /\ mem[p][job[p].run].own /\ mem[p][job[p].run].box /\ ~Evidence(job[p].run)
  <1>1. pc[p] = "spawn" /\ job[p].run \in RunId /\ Launching(p)
    BY ProcessesAssumption DEF SpawnRoot, At, EvidenceInv, LaunchInv, Jobs, Launching
  <1> QED
    BY <1>1 DEF EvidenceInv, Owners, Boxed, Unclosed, BeforeRelease

\* No step leaves a living workload without the cgroup its owner kills.
LEMMA BoxedStep ==
    ASSUME EvidenceInv, NEW p \in Proc, RunStart(p) \/ Command(p)
    PROVE  Boxed'
  <1> USE DEF EvidenceInv, LaunchInv
  <1>1. ASSUME NEW q \in Proc, pc'[q] \in {"start", "spawn"}
        PROVE  mem'[q][job'[q].run].box
    <2>1. CASE q # p
      BY <1>1, <2>1, OthersStay DEF Boxed
    <2>2. CASE q = p /\ pc'[p] = "start"
      <3>1. Preflight(p) /\ mem'[p] = [mem[p] EXCEPT ![job[p].run].box = TRUE] /\ job' = job
        BY <2>2, PlaceMoves
      <3>2. job[p].run \in RunId /\ mem[p] \in [RunId -> Memory]
        BY <3>1 DEF Preflight, At, Jobs, Types
      <3> QED
        BY <2>2, <3>1, <3>2 DEF Memory
    <2>3. CASE q = p /\ pc'[p] = "spawn"
      <3>1. ~Reserves(p)
        BY <2>3 DEF Reserves, Reserve, GoFor, Types
      <3>2. Started(p) /\ Remember(p, job[p].run, "RUNNING") /\ job'[p] = job[p]
        BY <2>3, <3>1, LaunchMoves DEF BeforeRelease
      <3>3. pc[p] = "start" /\ job[p].run \in RunId /\ mem[p] \in [RunId -> Memory]
        BY <3>2 DEF Started, At, Jobs, Types
      <3>4. mem'[p] = [mem[p] EXCEPT ![job[p].run] = [mem[p][job[p].run] EXCEPT !.st = "RUNNING"]]
        BY <3>2, <3>3 DEF Remember, Types
      <3>5. mem'[p][job[p].run].box = mem[p][job[p].run].box
        BY <3>3, <3>4 DEF Memory
      <3> QED
        BY <2>3, <3>2, <3>3, <3>5 DEF Boxed
    <2> QED
      BY <1>1, <2>1, <2>2, <2>3
  <1>2. ASSUME NEW q \in Proc, NEW r \in RunId, mem'[q][r].own, r \in alive'
        PROVE  mem'[q][r].box
    <2>1. CASE r \in alive /\ q # p
      BY <1>2, <2>1, OthersStay DEF Boxed
    <2>2. CASE r \in alive /\ q = p
      <3>1. releases[r] # 0
        BY <2>2 DEF Released
      <3>2. ~((OpenJournal(p) \/ Preflight(p)) /\ r = job[p].run)
        BY <3>1 DEF OpenJournal, Preflight, At, Before, BeforeRelease
      <3>3. mem'[p][r].own = mem[p][r].own /\ mem'[p][r].box = mem[p][r].box
        BY <1>2, <2>2, <3>2, MemMoves
      <3> QED
        BY <1>2, <2>2, <3>3 DEF Boxed
    <2>3. CASE r \notin alive
      <3>1. SpawnRoot(p) /\ r = job[p].run /\ mem' = mem
        BY <1>2, <2>3, AliveMoves
      <3> QED
        BY <1>2, <3>1, SpawnOwns DEF Owners
    <2> QED
      BY <2>1, <2>2, <2>3
  <1> QED
    BY <1>1, <1>2 DEF Boxed

\* No step brings a workload to life without a release.
LEMMA ReleasedStep ==
    ASSUME EvidenceInv, NEW p \in Proc, RunStart(p) \/ Command(p)
    PROVE  Released'
  <1> SUFFICES ASSUME NEW r \in alive' PROVE r \in RunId /\ releases'[r] # 0
    BY DEF Released
  <1>1. CASE releases' = releases /\ alive' = alive
    BY <1>1 DEF EvidenceInv, Released
  <1>2. CASE SpawnRoot(p) /\ alive' = alive \cup {job[p].run}
             /\ releases' = [releases EXCEPT ![job[p].run] = @ + 1]
    <2>1. releases \in [RunId -> Nat]
      BY DEF EvidenceInv, LaunchInv, Types
    <2>2. CASE r = job[p].run
      <3>1. r \in RunId /\ releases'[r] = releases[r] + 1 /\ releases[r] \in Nat
        BY <1>2, <2>1, <2>2, SpawnOwns
      <3> QED
        BY <3>1
    <2>3. CASE r # job[p].run
      BY <1>2, <2>1, <2>3 DEF EvidenceInv, Released
    <2> QED
      BY <2>2, <2>3
  <1>3. CASE SpawnRoot(p) /\ alive' = alive
    <2>1. releases' = releases \/ r \in alive
      BY <1>3
    <2>2. r \in RunId /\ releases[r] # 0 /\ releases[r] \in Nat
      BY <1>3 DEF EvidenceInv, Released, LaunchInv, Types
    <2>3. \/ releases' = releases
          \/ releases' = [releases EXCEPT ![job[p].run] = @ + 1]
      BY <1>3 DEF SpawnRoot
    <2> QED
      BY <2>2, <2>3 DEF EvidenceInv, LaunchInv, Types
  <1> QED
    BY <1>1, <1>2, <1>3, AliveMoves, StartMoves, CommandMoves

\* No step closes a run before its release.
LEMMA UnclosedStep ==
    ASSUME EvidenceInv, NEW p \in Proc, RunStart(p) \/ Command(p)
    PROVE  Unclosed'
  <1> USE DEF EvidenceInv, LaunchInv
  <1>1. ASSUME NEW r \in RunId, Evidence(r)'
        PROVE  Indexed(r)'
    <2>1. Indexed(r)
      BY <1>1, EvidenceMoves DEF Unclosed, Owners
    <2> QED
      BY <2>1, IndexedStays
  <1>2. ASSUME NEW q \in Proc, pc'[q] \in BeforeRelease
        PROVE  ~Evidence(job[q].run)'
    <2>1. CASE q = p /\ Reserves(p)
      <3>1. PICK k \in Key, r \in RunId : Reserve(p, k, r)
        BY <2>1 DEF Reserves
      <3>2. job'[p].run = r /\ journal' = journal /\ ~Indexed(r)
        BY <3>1 DEF Reserve, GoFor, Indexed, Types
      <3>3. ~Evidence(r)
        BY <3>2 DEF Unclosed
      <3> QED
        BY <2>1, <3>2, <3>3 DEF Evidence
    <2>2. CASE ~(q = p /\ Reserves(p))
      <3>1. pc[q] \in BeforeRelease /\ job'[q] = job[q]
        BY <1>2, <2>2, OthersStay, LaunchMoves
      <3>2. job[q].run \in RunId /\ ~Evidence(job[q].run) /\ Launching(q)
        BY <3>1, ProcessesAssumption DEF Jobs, Unclosed, BeforeRelease, Launching
      <3>3. PICK r \in RunId : r = job[q].run
        BY <3>2
      <3>4. ASSUME Evidence(r)'
            PROVE  FALSE
        <4>1. /\ mem[p][r].own
              /\ Reject(p) \/ Close(p, r) \/ Finalize(p)
          BY <3>2, <3>3, <3>4, EvidenceMoves
        <4>2. pc[p] \notin BeforeRelease
          BY <4>1 DEF Reject, Close, Stopping, Idle, Finalize, At, BeforeRelease
        <4>3. q # p
          BY <3>1, <4>2
        <4> QED
          BY <3>2, <3>3, <4>1, <4>3 DEF Owners
      <3> QED
        BY <3>1, <3>3, <3>4 DEF Evidence
    <2> QED
      BY <2>1, <2>2
  <1> QED
    BY <1>1, <1>2 DEF Unclosed

\* A run closed by its owner has no workload.
LEMMA CloseEmpty ==
    ASSUME EvidenceInv, NEW p \in Proc, NEW r \in RunId, Close(p, r), mem[p][r].own
    PROVE  r \notin alive
  BY DEF Close, Empty, EvidenceInv, Boxed

\* No step takes an owner to "finalize" with a living workload.
LEMMA EmptiedStep ==
    ASSUME EvidenceInv, NEW p \in Proc, RunStart(p) \/ Command(p)
    PROVE  Emptied'
  <1> USE DEF EvidenceInv, LaunchInv
  <1> SUFFICES ASSUME NEW q \in Proc, pc'[q] = "finalize", mem'[q][job'[q].run].own
               PROVE  job'[q].run \notin alive'
    BY DEF Emptied
  <1>1. CASE q = p
    <2>1. PICK r \in RunId : Close(p, r) /\ job'[p].run = r
      BY <1>1, PlaceMoves
    <2>2. pc[p] = "idle"
      BY <2>1 DEF Close, Stopping, Idle, At
    <2>3. ~OpenJournal(p) /\ ~Preflight(p) /\ ~SpawnRoot(p)
      BY <2>2 DEF OpenJournal, Preflight, SpawnRoot, At
    <2>4. mem[p][r].own
      BY <1>1, <2>1, <2>3, MemMoves
    <2> QED
      BY <1>1, <2>1, <2>3, <2>4, CloseEmpty, AliveMoves
  <1>2. CASE q # p
    <2>1. pc[q] = "finalize" /\ job'[q] = job[q] /\ mem'[q] = mem[q]
      BY <1>2, OthersStay
    <2>2. job[q].run \in RunId /\ job[q].run \notin alive /\ mem[q][job[q].run].own
      BY <2>1 DEF Jobs, Emptied
    <2>3. ~(SpawnRoot(p) /\ job[p].run = job[q].run)
      BY <1>2, <2>2, SpawnOwns DEF Owners
    <2> QED
      BY <2>1, <2>2, <2>3, AliveMoves
  <1> QED
    BY <1>1, <1>2

\* No step closes a run whose workload lives.
LEMMA GoneStep ==
    ASSUME EvidenceInv, NEW p \in Proc, RunStart(p) \/ Command(p)
    PROVE  Gone'
  <1> USE DEF EvidenceInv, LaunchInv
  <1> SUFFICES ASSUME NEW r \in RunId, Evidence(r)'
               PROVE  r \notin alive'
    BY DEF Gone
  <1>1. CASE Evidence(r)
    <2>1. ~(SpawnRoot(p) /\ job[p].run = r)
      BY <1>1, SpawnOwns
    <2> QED
      BY <1>1, <2>1, AliveMoves DEF Gone
  <1>2. CASE ~Evidence(r)
    <2>1. /\ mem[p][r].own
          /\ \/ Reject(p) /\ r = job[p].run /\ Rejectable(p, r)
             \/ Close(p, r)
             \/ Finalize(p) /\ r = job[p].run
      BY <1>2, EvidenceMoves
    <2>2. alive' = alive
      <3>1. pc[p] # "spawn"
        BY <2>1 DEF Reject, Close, Stopping, Idle, Finalize, At
      <3> QED
        BY <3>1, AliveMoves DEF SpawnRoot, At
    <2>3. CASE Reject(p) /\ r = job[p].run /\ Rejectable(p, r)
      <3>1. pc[p] = "reject" /\ Launching(p)
        BY <2>3, ProcessesAssumption DEF Reject, At, Jobs, Launching
      <3>2. releases[r] = 0
        BY <2>3, <3>1 DEF Rejectable, Armed
      <3> QED
        BY <2>2, <3>2 DEF Released
    <2>4. CASE Close(p, r)
      BY <2>1, <2>2, <2>4, CloseEmpty
    <2>5. CASE Finalize(p) /\ r = job[p].run
      BY <2>1, <2>2, <2>5 DEF Finalize, At, Emptied
    <2> QED
      BY <2>1, <2>3, <2>4, <2>5
  <1> QED
    BY <1>1, <1>2

-------------------------------------------------------------------------------
(***************************************************************************)
(* The other steps end processes and workloads, and write to no journal.   *)
(***************************************************************************)
Forgets(q) == StartsOver(q) /\ mem'[q] = [r \in RunId |-> Blank]

\* What is not a step of a process lets each process stay or forget.
LEMMA OtherEnds ==
    ASSUME Types,
           \/ UNCHANGED vars
           \/ \E p \in Proc : Exit(p)
           \/ Recover
           \/ \E r \in RunId : WorkloadExits(r)
           \/ Reboot
    PROVE  /\ UNCHANGED <<index, journal, releases>> /\ alive' \subseteq alive
           /\ \A q \in Proc : Stays(q) \/ Forgets(q)
  <1>1. alive' \subseteq alive
    BY RecoverMoves DEF vars, machine, Exit, WorkloadExits, Reboot
  <1>2. CASE UNCHANGED <<pc, job, mem>>
    BY <1>1, <1>2, OtherMoves DEF Stays
  <1>3. ASSUME NEW p \in Proc, Ends(p), NEW q \in Proc
        PROVE  Stays(q) \/ Forgets(q)
    <2>1. CASE q = p
      BY <1>3, <2>1 DEF Ends, Forgets, StartsOver, Types
    <2>2. CASE q # p
      BY <1>3, <2>2 DEF Ends, Stays, Types
    <2> QED
      BY <2>1, <2>2
  <1>4. EndAll => \A q \in Proc : Forgets(q)
    BY DEF EndAll, Forgets, StartsOver
  <1> QED
    BY <1>1, <1>2, <1>3, <1>4, OtherMoves

\* Staying and forgetting keep the invariant of evidence.
LEMMA OtherEvidence ==
    ASSUME EvidenceInv, LaunchInv', UNCHANGED <<index, journal, releases>>, alive' \subseteq alive,
           \A q \in Proc : Stays(q) \/ Forgets(q)
    PROVE  EvidenceInv'
  <1>1. ASSUME NEW q \in Proc, NEW r \in RunId, mem'[q][r].own
        PROVE  Stays(q) /\ mem[q][r].own
    BY <1>1 DEF Forgets, Stays, Blank
  <1>2. ASSUME NEW q \in Proc, pc'[q] # "idle"
        PROVE  Stays(q)
    BY <1>2 DEF Forgets, StartsOver
  <1>3. ASSUME NEW q \in Proc, Launching(q)'
        PROVE  Stays(q) /\ Launching(q)
    BY <1>3 DEF Forgets, StartsOver, Stays, NoJob, Launching
  <1>4. Owners'
    <2>1. \A p, q \in Proc, r \in RunId : mem'[p][r].own /\ mem'[q][r].own => p = q
      BY <1>1 DEF EvidenceInv, Owners
    <2>2. \A p \in Proc, r \in RunId : mem'[p][r].own => Indexed(r)'
      BY <1>1 DEF EvidenceInv, Owners, Indexed
    <2>3. \A p \in Proc : Launching(p)' /\ pc'[p] # "journal" => mem'[p][job'[p].run].own
      BY <1>3 DEF EvidenceInv, Owners, Stays
    <2>4. \A p, q \in Proc : pc'[p] = "journal" => ~mem'[q][job'[p].run].own
      <3> SUFFICES ASSUME NEW p \in Proc, NEW q \in Proc, pc'[p] = "journal"
                   PROVE  ~mem'[q][job'[p].run].own
        OBVIOUS
      <3>1. Stays(p) /\ job'[p].run \in RunId
        BY <1>2 DEF LaunchInv, Jobs
      <3> QED
        BY <1>1, <3>1 DEF EvidenceInv, Owners, Stays
    <2> QED
      BY <2>1, <2>2, <2>3, <2>4 DEF Owners
  <1>5. Boxed'
    BY <1>1, <1>2 DEF EvidenceInv, Boxed, Stays
  <1>6. Released' /\ Gone'
    BY DEF EvidenceInv, Released, Gone, Evidence
  <1>7. Unclosed'
    BY <1>2 DEF EvidenceInv, Unclosed, Evidence, Indexed, Stays, BeforeRelease
  <1>8. Emptied'
    BY <1>2 DEF EvidenceInv, Emptied, Stays
  <1> QED
    BY <1>4, <1>5, <1>6, <1>7, <1>8 DEF EvidenceInv

\* Every step keeps it.
LEMMA EvidenceStep ==
    ASSUME EvidenceInv, [Next]_vars
    PROVE  EvidenceInv'
  <1>1. LaunchInv'
    BY LaunchStep DEF EvidenceInv
  <1>2. ASSUME NEW p \in Proc, RunStart(p) \/ Command(p)
        PROVE  EvidenceInv'
    BY <1>1, <1>2, OwnersStep, BoxedStep, ReleasedStep, UnclosedStep, EmptiedStep, GoneStep
       DEF EvidenceInv
  <1>3. CASE ~\E p \in Proc : RunStart(p) \/ Command(p)
    <2>1. /\ UNCHANGED <<index, journal, releases>> /\ alive' \subseteq alive
          /\ \A q \in Proc : Stays(q) \/ Forgets(q)
      BY <1>3, OtherEnds DEF Next, EvidenceInv, LaunchInv
    <2> QED
      BY <1>1, <2>1, OtherEvidence
  <1> QED
    BY <1>2, <1>3

\* A receipt that verifies and is complete is about a workload that is gone,
\* whoever else has written to the journal (verify_bundle, Run._finalize).
THEOREM EvidenceIsTrueAlways == Spec => []EvidenceIsTrue
  <1>1. EvidenceInv => EvidenceIsTrue
    BY DEF EvidenceInv, Gone, Evidence, EvidenceIsTrue, Verifies, Complete, Closed
  <1> QED
    BY <1>1, EvidenceInit, EvidenceStep, PTL DEF Spec

-------------------------------------------------------------------------------
(***************************************************************************)
(* The receipt of a run that only its own driver wrote verifies at every   *)
(* moment, as long as the journal has taken every transaction.             *)
(*                                                                         *)
(* As long as no transaction was refused, the owner of a run remembers the *)
(* state that the replay of the journal ends in, between any two of its    *)
(* steps but the one that opens the journal; so each event it appends is   *)
(* legal there.                                                            *)
(***************************************************************************)

\* What a process remembers of its run at each step.
Placed(step) ==
    CASE step \in {"create", "arming"}   -> {"CREATED"}
      [] step \in {"arm", "start"}       -> {"ARMING"}
      [] step \in {"spawn", "manifest"}  -> {"RUNNING"}
      [] step = "kill"                   -> {"STOPPING"}
      [] step = "finalize"               -> {"FINALIZING"}
      [] step \in {"reject", "respond"}  -> RunStates
      [] OTHER                           -> RunStates \cup {"NONE"}

InPlace == \A p \in Proc : pc[p] # "idle" => mem[p][job[p].run].st \in Placed(pc[p])

\* Only runs with a journal are remembered, and a new run has none.
Known ==
    /\ \A p \in Proc, r \in RunId : mem[p][r].st # "NONE" => journal[r].file
    /\ \A p \in Proc : pc[p] = "journal" => ~journal[job[p].run].file
    /\ \A r \in RunId : ~Indexed(r) => ~journal[r].file
    /\ \A r \in RunId : ~journal[r].file => journal[r].rs = EmptyReplay

\* The state the journal of r should be in, for all that p knows.
Expected(p, r) == IF pc[p] = "create" /\ job[p].run = r THEN "NEW" ELSE mem[p][r].st

Agrees ==
    /\ \A r \in RunId : journal[r].genuine => journal[r].rs.ok
    /\ \A p \in Proc, r \in RunId :
          mem[p][r].own /\ journal[r].genuine => journal[r].rs.st = Expected(p, r)

WriterInv == InPlace /\ Known /\ refused \in Nat /\ (refused = 0 => Agrees)

\* The initial state satisfies the invariant of writers.
LEMMA WriterInit == Init => WriterInv
  <1> SUFFICES ASSUME Init PROVE WriterInv
    OBVIOUS
  <1>1. InPlace /\ refused \in Nat
    BY DEF Init, InPlace
  <1>2. Known
    BY DEF Init, Known, NoJournal, Blank
  <1>3. Agrees
    BY DEF Init, Agrees, NoJournal, EmptyReplay, Blank
  <1> QED
    BY <1>1, <1>2, <1>3 DEF WriterInv

\* Remembering changes the state of one run only.
LEMMA RememberMoves ==
    ASSUME Types, NEW p \in Proc, NEW r \in RunId, NEW st, Remember(p, r, st)
    PROVE  /\ mem'[p][r].st = st /\ mem'[p][r].own = mem[p][r].own
           /\ \A o \in RunId : o # r => mem'[p][o] = mem[p][o]
  <1>1. mem[p] \in [RunId -> Memory] /\ mem[p][r] \in Memory
    BY DEF Types
  <1>2. mem'[p] = [mem[p] EXCEPT ![r] = [mem[p][r] EXCEPT !.st = st]]
    BY DEF Types, Remember
  <1> QED
    BY <1>1, <1>2 DEF Memory

\* The preflight changes no state and no owner.
LEMMA PreflightMoves ==
    ASSUME Types, Jobs, NEW p \in Proc, Preflight(p), NEW r \in RunId
    PROVE  mem'[p][r].st = mem[p][r].st /\ mem'[p][r].own = mem[p][r].own
  <1>1. mem[p] \in [RunId -> Memory] /\ mem[p][r] \in Memory
    BY DEF Types
  <1>2. PICK made \in BOOLEAN : mem' = [mem EXCEPT ![p][job[p].run].box = made]
    BY DEF Preflight
  <1>3. mem'[p] = [mem[p] EXCEPT ![job[p].run] = [mem[p][job[p].run] EXCEPT !.box = made]]
    BY <1>2 DEF Types
  <1>4. mem'[p][r] = mem[p][r] \/ mem'[p][r] = [mem[p][r] EXCEPT !.box = made]
    BY <1>1, <1>3
  <1> QED
    BY <1>1, <1>4 DEF Memory

-------------------------------------------------------------------------------
(***************************************************************************)
(* A process is always in the state that its next step is about.           *)
(***************************************************************************)
LEMMA PlaceStep ==
    ASSUME Types, Jobs, InPlace, Types', Jobs', NEW p \in Proc, RunStart(p) \/ Command(p)
    PROVE  InPlace'
  <1>1. ASSUME pc'[p] # "idle"
        PROVE  mem'[p][job'[p].run].st \in Placed(pc'[p])
    <2>1. job'[p].run \in RunId
      BY <1>1 DEF Jobs
    <2>2. mem'[p][job'[p].run].st \in RunStates \cup {"NONE"}
      BY <2>1 DEF Types, Memory
    <2>3. CASE Retries(p) \/ Reserves(p)
      <3>1. pc'[p] \in {"reconcile", "journal"}
        BY <2>3 DEF Retries, Reserves, Retry, Reserve, GoFor, Types
      <3> QED
        BY <2>2, <3>1 DEF Placed
    <2>4. CASE OpenJournal(p)
      <3>1. pc'[p] = "create" /\ job' = job
        BY <2>4 DEF OpenJournal, Go, Types
      <3>2. mem'[p][job[p].run].st = "CREATED"
        BY <2>1, <2>4, <3>1 DEF OpenJournal, Types, Blank
      <3> QED
        BY <3>1, <3>2 DEF Placed
    <2>5. CASE Created(p)
      <3>1. pc[p] = "create" /\ pc'[p] = "arming" /\ job' = job /\ mem' = mem
        BY <1>1, <2>5 DEF Created, RecordedOrRefused, Done, Go, GoFor, At, Types
      <3> QED
        BY <3>1 DEF InPlace, Placed
    <2>6. CASE Arming(p)
      <3>1. pc'[p] = "arm" /\ job' = job /\ Remember(p, job[p].run, "ARMING")
        BY <1>1, <2>6 DEF Arming, RecordedOrRefused, Done, Go, GoFor, At, Types
      <3> QED
        BY <2>1, <3>1, RememberMoves DEF Placed
    <2>7. CASE Preflight(p)
      <3>1. pc[p] = "arm" /\ pc'[p] \in {"start", "reject"} /\ job' = job
        BY <2>7 DEF Preflight, Go, At, Types
      <3>2. mem'[p][job[p].run].st = "ARMING"
        BY <2>1, <2>7, <3>1, PreflightMoves DEF InPlace, Placed
      <3> QED
        BY <3>1, <3>2 DEF Placed, RunStates, LiveStates
    <2>8. CASE Started(p)
      <3>1. pc'[p] \in {"spawn", "reject"} /\ job' = job /\ Remember(p, job[p].run, "RUNNING")
        BY <2>8 DEF Started, Go, At, Types
      <3>2. mem'[p][job[p].run].st = "RUNNING"
        BY <2>1, <3>1, RememberMoves
      <3> QED
        BY <3>1, <3>2 DEF Placed, RunStates, LiveStates
    <2>9. CASE SpawnRoot(p) \/ WriteManifest(p)
      <3>1. /\ pc[p] \in {"spawn", "manifest"} /\ pc'[p] \in {"manifest", "reject", "respond"}
            /\ (pc'[p] = "manifest" => pc[p] = "spawn") /\ job' = job /\ mem' = mem
        BY <1>1, <2>9 DEF SpawnRoot, WriteManifest, Done, Go, GoFor, At, Types
      <3>2. mem'[p][job'[p].run].st = "RUNNING"
        BY <3>1 DEF InPlace, Placed
      <3> QED
        BY <3>1, <3>2 DEF Placed, RunStates, LiveStates
    <2>10. CASE ManifestRefused(p)
      <3>1. pc[p] = "manifest" /\ pc'[p] = "reject" /\ job' = job /\ mem' = mem
        BY <2>10 DEF ManifestRefused, Go, At, Types
      <3> QED
        BY <3>1 DEF InPlace, Placed, RunStates, LiveStates
    <2>11. CASE Reject(p)
      <3>1. /\ pc[p] = "reject" /\ pc'[p] = "respond" /\ job' = job
            /\ mem' = mem \/ Remember(p, job[p].run, "REJECTED")
        BY <1>1, <2>11 DEF Reject, RecordedOrRefused, Done, Go, GoFor, At, Types
      <3>2. mem'[p][job'[p].run].st \in RunStates
        BY <2>1, <3>1, RememberMoves DEF InPlace, Placed, RunStates, TerminalStates
      <3> QED
        BY <3>1, <3>2 DEF Placed
    <2>16. CASE ArmFault(p)
      <3>1. pc'[p] = "kill" /\ job' = job /\ Remember(p, job[p].run, "STOPPING")
        BY <2>16 DEF ArmFault, Go, At, Types
      <3> QED
        BY <2>1, <3>1, RememberMoves DEF Placed
    <2>12. ~Respond(p) /\ ~Reconcile(p) /\ ~Finalize(p)
      BY <1>1 DEF Respond, Reconcile, Finalize, Done, GoFor, Types
    <2>13. CASE IssueKill(p)
      <3>1. pc[p] = "kill" /\ pc'[p] = "respond" /\ job' = job /\ mem' = mem
        BY <1>1, <2>13 DEF IssueKill, Done, Go, GoFor, At, Types
      <3> QED
        BY <3>1 DEF InPlace, Placed, RunStates, LiveStates
    <2>14. ASSUME NEW r \in RunId,
                  \/ Open(p, r) \/ RunStop(p, r) \/ TickLatch(p, r) \/ TickSample(p, r)
                  \/ KillUnconfirmed(p, r) \/ RetryKill(p, r)
           PROVE  mem'[p][job'[p].run].st \in Placed(pc'[p])
      <3>1. Remember(p, r, "STOPPING") /\ pc'[p] = "kill" /\ job'[p].run = r
        BY <1>1, <2>14 DEF Open, RunStop, TickLatch, Latch, TickSample, KillUnconfirmed, RetryKill,
                           Stopping, Idle, At, GoFor, Types
      <3> QED
        BY <3>1, RememberMoves DEF Placed
    <2>15. ASSUME NEW r \in RunId, Close(p, r)
           PROVE  mem'[p][job'[p].run].st \in Placed(pc'[p])
      <3>1. Remember(p, r, "FINALIZING") /\ pc'[p] = "finalize" /\ job'[p].run = r
        BY <2>15 DEF Close, GoFor, Types
      <3> QED
        BY <3>1, RememberMoves DEF Placed
    <2> QED
      BY <2>3, <2>4, <2>5, <2>6, <2>7, <2>8, <2>9, <2>10, <2>11, <2>12, <2>13, <2>14, <2>15,
         <2>16 DEF RunStart, Command, Retries, Reserves
  <1> QED
    BY <1>1, OthersStay DEF InPlace

-------------------------------------------------------------------------------
(***************************************************************************)
(* Every event is legal in the state its writer expects.                   *)
(***************************************************************************)
After(st, e) == PostState([st |-> st], e)

Keeps(p, r) == mem'[p][r].own => mem[p][r].own /\ Expected(p, r)' = Expected(p, r)

Writes(p, r, e) ==
    /\ Append(p, r, e) /\ Subjectless(e)
    /\ mem[p][r].st # "NONE"
    /\ Expected(p, r) \in Sources(e.kind)
    /\ Expected(p, r)' = After(Expected(p, r), e)
    /\ mem'[p][r].own => mem[p][r].own
    /\ \A o \in RunId : o # r => Keeps(p, o)

WrittenKinds == {"RunCreated", "RunArming", "RunStarted", "RunRejected", "StopLatched",
                 "KillIssued", "SampleRecorded", "KillUnconfirmed", "ContainmentEmpty"}

\* An event appended and remembered, or appended where it changes nothing, is written.
LEMMA RecordedEvent ==
    ASSUME Types, NEW p \in Proc, NEW r \in RunId, NEW e, NEW st,
           Append(p, r, e), Subjectless(e),
           \/ Remember(p, r, st)
           \/ mem' = mem /\ mem[p][r].st = st,
           st = After(Expected(p, r), e),
           mem[p][r].st # "NONE", Expected(p, r) \in Sources(e.kind),
           pc'[p] # "create", pc[p] = "create" => job[p].run = r
    PROVE  Writes(p, r, e)
  <1>1. /\ mem'[p][r].st = st /\ mem'[p][r].own = mem[p][r].own
        /\ \A o \in RunId : o # r => mem'[p][o] = mem[p][o]
    BY RememberMoves
  <1>2. Expected(p, r)' = st
    BY <1>1 DEF Expected
  <1>3. \A o \in RunId : o # r => Keeps(p, o)
    BY <1>1 DEF Keeps, Expected
  <1> QED
    BY <1>1, <1>2, <1>3 DEF Writes

\* The same, of the events without an outcome.
LEMMA Recorded ==
    ASSUME Types, NEW p \in Proc, NEW r \in RunId, NEW kind \in WrittenKinds, NEW st,
           Append(p, r, Event(kind)),
           \/ Remember(p, r, st)
           \/ mem' = mem /\ mem[p][r].st = st,
           st = After(Expected(p, r), Event(kind)),
           mem[p][r].st # "NONE", Expected(p, r) \in Sources(kind),
           pc'[p] # "create", pc[p] = "create" => job[p].run = r
    PROVE  Writes(p, r, Event(kind))
  <1>1. Subjectless(Event(kind)) /\ Event(kind).kind = kind
    BY Events DEF WrittenKinds
  <1> QED
    BY <1>1, RecordedEvent

\* A step of a launch writes one legal event or keeps what is expected.
LEMMA StartWrites ==
    ASSUME Types, Jobs, InPlace, refused \in Nat, refused' = refused,
           NEW p \in Proc, RunStart(p), ~OpenJournal(p)
    PROVE  \/ journal' = journal /\ \A r \in RunId : Keeps(p, r)
           \/ \E r \in RunId : \E e : Writes(p, r, e)
  <1>1. ~Refuse
    BY DEF Refuse
  <1>2. ASSUME mem' = mem, journal' = journal, pc[p] # "create", pc'[p] # "create"
        PROVE  journal' = journal /\ \A r \in RunId : Keeps(p, r)
    BY <1>2 DEF Keeps, Expected
  <1>3. pc[p] # "idle" => job[p].run \in RunId /\ mem[p][job[p].run].st \in Placed(pc[p])
    BY DEF Jobs, InPlace
  <1>4. CASE Retries(p) \/ Reserves(p)
    BY <1>2, <1>4 DEF Retries, Reserves, Retry, Reserve, Idle, At, GoFor, Types, disk
  <1>5. CASE Reconcile(p)
    <2>1. /\ journal' = journal /\ pc[p] = "reconcile" /\ pc'[p] = "idle"
          /\ mem' = mem \/ mem' = [mem EXCEPT ![p][job[p].run] = Opened(job[p].run)]
      BY <1>5 DEF Reconcile, Done, GoFor, At, Types, disk
    <2>2. ASSUME NEW r \in RunId
          PROVE  Keeps(p, r)
      <3>1. mem'[p][r] = mem[p][r] \/ ~mem'[p][r].own
        BY <2>1 DEF Types, Opened
      <3> QED
        BY <2>1, <3>1 DEF Keeps, Expected
    <2> QED
      BY <2>1, <2>2
  <1>6. CASE Created(p)
    <2>1. /\ pc[p] = "create" /\ pc'[p] = "arming" /\ mem' = mem
          /\ Append(p, job[p].run, Event("RunCreated"))
      BY <1>1, <1>6 DEF Created, RecordedOrRefused, Go, At, Types
    <2>2. mem[p][job[p].run].st = "CREATED" /\ Expected(p, job[p].run) = "NEW"
      BY <1>3, <2>1 DEF Placed, Expected
    <2>3. "NEW" \in Sources("RunCreated") /\ After("NEW", Event("RunCreated")) = "CREATED"
      BY DEF Sources, After, PostState, Event
    <2>4. Writes(p, job[p].run, Event("RunCreated"))
      BY <1>3, <2>1, <2>2, <2>3, Recorded DEF WrittenKinds
    <2> QED
      BY <1>3, <2>1, <2>4
  <1>7. CASE Arming(p)
    <2>1. /\ pc[p] = "arming" /\ pc'[p] = "arm" /\ Remember(p, job[p].run, "ARMING")
          /\ Append(p, job[p].run, Event("RunArming"))
      BY <1>1, <1>7 DEF Arming, RecordedOrRefused, Go, At, Types
    <2>2. mem[p][job[p].run].st = "CREATED" /\ Expected(p, job[p].run) = "CREATED"
      BY <1>3, <2>1 DEF Placed, Expected
    <2>3. "CREATED" \in Sources("RunArming") /\ After("CREATED", Event("RunArming")) = "ARMING"
      BY DEF Sources, After, PostState, Event
    <2>4. Writes(p, job[p].run, Event("RunArming"))
      BY <1>3, <2>1, <2>2, <2>3, Recorded DEF WrittenKinds
    <2> QED
      BY <1>3, <2>1, <2>4
  <1>8. CASE Preflight(p)
    <2>1. journal' = journal /\ pc[p] = "arm" /\ pc'[p] # "create"
      BY <1>8 DEF Preflight, Go, At, Types, disk
    <2> QED
      BY <1>8, <2>1, PreflightMoves DEF Keeps, Expected
  <1>9. CASE Started(p)
    <2>1. /\ pc[p] = "start" /\ pc'[p] = "spawn" /\ Remember(p, job[p].run, "RUNNING")
          /\ Append(p, job[p].run, Event("RunStarted"))
      BY <1>1, <1>9 DEF Started, Go, At, Types
    <2>2. mem[p][job[p].run].st = "ARMING" /\ Expected(p, job[p].run) = "ARMING"
      BY <1>3, <2>1 DEF Placed, Expected
    <2>3. "ARMING" \in Sources("RunStarted") /\ After("ARMING", Event("RunStarted")) = "RUNNING"
      BY DEF Sources, After, PostState, Event
    <2>4. Writes(p, job[p].run, Event("RunStarted"))
      BY <1>3, <2>1, <2>2, <2>3, Recorded DEF WrittenKinds
    <2> QED
      BY <1>3, <2>1, <2>4
  <1>10. CASE SpawnRoot(p) \/ WriteManifest(p) \/ Respond(p)
    BY <1>2, <1>10 DEF SpawnRoot, WriteManifest, Respond, Done, Go, GoFor, At, Types, disk
  <1>11. CASE ManifestRefused(p)
    <2>1. journal' = journal /\ mem' = mem /\ pc[p] = "manifest" /\ pc'[p] = "reject"
      BY <1>11 DEF ManifestRefused, disk, Go, At, Types
    <2> QED
      BY <1>2, <2>1
  <1>13. CASE ArmFault(p)
    <2>1. /\ pc[p] = "reject" /\ pc'[p] = "kill" /\ Remember(p, job[p].run, "STOPPING")
          /\ Append(p, job[p].run, Event("StopLatched"))
          /\ mem[p][job[p].run].st \in {"ARMING", "RUNNING"}
      BY <1>1, <1>13 DEF ArmFault, Refuse, Go, At, Types
    <2>2. Expected(p, job[p].run) = mem[p][job[p].run].st
      BY <2>1 DEF Expected
    <2>3. \A st \in {"ARMING", "RUNNING"} :
             st \in Sources("StopLatched") /\ After(st, Event("StopLatched")) = "STOPPING"
      BY DEF Sources, After, PostState, Event
    <2>4. Writes(p, job[p].run, Event("StopLatched"))
      BY <1>3, <2>1, <2>2, <2>3, Recorded DEF WrittenKinds
    <2> QED
      BY <1>3, <2>1, <2>4
  <1>12. CASE Reject(p)
    <2>1. \/ journal' = journal /\ mem' = mem /\ pc[p] = "reject" /\ pc'[p] = "respond"
          \/ /\ pc[p] = "reject" /\ pc'[p] = "respond" /\ Remember(p, job[p].run, "REJECTED")
             /\ Rejectable(p, job[p].run) /\ Append(p, job[p].run, Event("RunRejected"))
      BY <1>1, <1>12 DEF Reject, RecordedOrRefused, Go, At, Types
    <2>2. CASE pc[p] = "reject" /\ pc'[p] = "respond" /\ Remember(p, job[p].run, "REJECTED")
               /\ Rejectable(p, job[p].run) /\ Append(p, job[p].run, Event("RunRejected"))
      <3>1. /\ mem[p][job[p].run].st \in {"CREATED", "ARMING"}
            /\ Expected(p, job[p].run) = mem[p][job[p].run].st
        BY <2>2 DEF Rejectable, Expected
      <3>2. \A st \in {"CREATED", "ARMING"} :
               st \in Sources("RunRejected") /\ After(st, Event("RunRejected")) = "REJECTED"
        BY DEF Sources, After, PostState, Event
      <3>3. Writes(p, job[p].run, Event("RunRejected"))
        BY <1>3, <2>2, <3>1, <3>2, Recorded DEF WrittenKinds
      <3> QED
        BY <1>3, <2>2, <3>3
    <2> QED
      BY <1>2, <2>1, <2>2
  <1> QED
    BY <1>4, <1>5, <1>6, <1>7, <1>8, <1>9, <1>10, <1>11, <1>12, <1>13
       DEF RunStart, Retries, Reserves

\* So does a step of another command.
LEMMA CommandWrites ==
    ASSUME Types, Jobs, InPlace, refused \in Nat, refused' = refused,
           NEW p \in Proc, Command(p)
    PROVE  \/ journal' = journal /\ \A r \in RunId : Keeps(p, r)
           \/ \E r \in RunId : \E e : Writes(p, r, e)
  <1>1. pc[p] # "idle" => job[p].run \in RunId /\ mem[p][job[p].run].st \in Placed(pc[p])
    BY DEF Jobs, InPlace
  <1>2. ASSUME NEW r \in RunId, Open(p, r)
        PROVE  journal' = journal /\ \A o \in RunId : Keeps(p, o)
    <2>1. /\ journal' = journal /\ pc[p] = "idle" /\ pc' = pc
          /\ mem' = [mem EXCEPT ![p][r] = Opened(r)]
      BY <1>2 DEF Open, Idle, At, disk
    <2>2. ASSUME NEW o \in RunId
          PROVE  Keeps(p, o)
      <3>1. mem'[p][o] = mem[p][o] \/ ~mem'[p][o].own
        BY <2>1 DEF Types, Opened
      <3> QED
        BY <2>1, <3>1 DEF Keeps, Expected
    <2> QED
      BY <2>1, <2>2
  <1>3. ASSUME NEW r \in RunId, RunStop(p, r) \/ TickLatch(p, r)
        PROVE  Writes(p, r, Event("StopLatched"))
    <2>1. /\ pc[p] = "idle" /\ pc'[p] = "kill" /\ mem[p][r].st \in {"ARMING", "RUNNING"}
          /\ Remember(p, r, "STOPPING") /\ Append(p, r, Event("StopLatched"))
      BY <1>3 DEF RunStop, TickLatch, Latch, Idle, At, GoFor, Types
    <2>2. Expected(p, r) = mem[p][r].st
      BY <2>1 DEF Expected
    <2>3. \A st \in {"ARMING", "RUNNING"} :
             st \in Sources("StopLatched") /\ After(st, Event("StopLatched")) = "STOPPING"
      BY DEF Sources, After, PostState, Event
    <2> QED
      BY <2>1, <2>2, <2>3, Recorded DEF WrittenKinds
  <1>4. ASSUME NEW r \in RunId, TickSample(p, r)
        PROVE  Writes(p, r, Event("SampleRecorded"))
    <2>1. /\ pc[p] = "idle" /\ pc' = pc /\ mem' = mem
          /\ mem[p][r].st \in {"RUNNING", "STOPPING", "UNCONFIRMED"}
          /\ Append(p, r, Event("SampleRecorded"))
      BY <1>4 DEF TickSample, Idle, At
    <2>2. Expected(p, r) = mem[p][r].st
      BY <2>1 DEF Expected
    <2>3. \A st \in {"RUNNING", "STOPPING", "UNCONFIRMED"} :
             st \in Sources("SampleRecorded") /\ After(st, Event("SampleRecorded")) = st
      BY DEF Sources, After, PostState, Event
    <2> QED
      BY <2>1, <2>2, <2>3, Recorded DEF WrittenKinds
  <1>5. ASSUME NEW r \in RunId, KillUnconfirmed(p, r)
        PROVE  Writes(p, r, Event("KillUnconfirmed"))
    <2>1. /\ pc[p] = "idle" /\ pc' = pc /\ mem[p][r].st = "STOPPING"
          /\ Remember(p, r, "UNCONFIRMED") /\ Append(p, r, Event("KillUnconfirmed"))
      BY <1>5 DEF KillUnconfirmed, Stopping, Idle, At
    <2>2. Expected(p, r) = "STOPPING"
      BY <2>1 DEF Expected
    <2>3. /\ "STOPPING" \in Sources("KillUnconfirmed")
          /\ After("STOPPING", Event("KillUnconfirmed")) = "UNCONFIRMED"
      BY DEF Sources, After, PostState, Event
    <2> QED
      BY <2>1, <2>2, <2>3, Recorded DEF WrittenKinds
  <1>6. ASSUME NEW r \in RunId, RetryKill(p, r)
        PROVE  journal' = journal /\ \A o \in RunId : Keeps(p, o)
    BY <1>6 DEF RetryKill, disk, Keeps, Expected
  <1>7. ASSUME NEW r \in RunId, Close(p, r)
        PROVE  Writes(p, r, Event("ContainmentEmpty"))
    <2>1. /\ pc[p] = "idle" /\ pc'[p] = "finalize" /\ mem[p][r].st \in {"STOPPING", "UNCONFIRMED"}
          /\ Remember(p, r, "FINALIZING") /\ Append(p, r, Event("ContainmentEmpty"))
      BY <1>7 DEF Close, Stopping, Idle, At, GoFor, Types
    <2>2. Expected(p, r) = mem[p][r].st
      BY <2>1 DEF Expected
    <2>3. \A st \in {"STOPPING", "UNCONFIRMED"} :
             st \in Sources("ContainmentEmpty") /\ After(st, Event("ContainmentEmpty")) = "FINALIZING"
      BY DEF Sources, After, PostState, Event
    <2> QED
      BY <2>1, <2>2, <2>3, Recorded DEF WrittenKinds
  <1>8. ASSUME IssueKill(p)
        PROVE  job[p].run \in RunId /\ Writes(p, job[p].run, Event("KillIssued"))
    <2>1. /\ pc[p] = "kill" /\ pc'[p] \in {"idle", "respond"} /\ mem' = mem
          /\ Append(p, job[p].run, Event("KillIssued"))
      BY <1>8 DEF IssueKill, Refuse, Done, Go, GoFor, At, Types
    <2>2. mem[p][job[p].run].st = "STOPPING" /\ Expected(p, job[p].run) = "STOPPING"
      BY <1>1, <2>1 DEF Placed, Expected
    <2>3. "STOPPING" \in Sources("KillIssued") /\ After("STOPPING", Event("KillIssued")) = "STOPPING"
      BY DEF Sources, After, PostState, Event
    <2> QED
      BY <1>1, <2>1, <2>2, <2>3, Recorded DEF WrittenKinds
  <1>9. ASSUME Finalize(p)
        PROVE  job[p].run \in RunId /\ Writes(p, job[p].run, About("RunFinalized", {}, "KILLED"))
    <2>1. /\ pc[p] = "finalize" /\ pc'[p] = "idle" /\ Remember(p, job[p].run, "KILLED")
          /\ Append(p, job[p].run, About("RunFinalized", {}, "KILLED"))
      BY <1>9 DEF Finalize, Done, GoFor, At, Types
    <2>2. mem[p][job[p].run].st = "FINALIZING" /\ Expected(p, job[p].run) = "FINALIZING"
      BY <1>1, <2>1 DEF Placed, Expected
    <2>3. /\ "FINALIZING" \in Sources("RunFinalized")
          /\ After("FINALIZING", About("RunFinalized", {}, "KILLED")) = "KILLED"
      BY DEF Sources, After, PostState, About
    <2> QED
      BY <1>1, <2>1, <2>2, <2>3, Events, RecordedEvent
  <1> QED
    BY <1>2, <1>3, <1>4, <1>5, <1>6, <1>7, <1>8, <1>9 DEF Command

\* Only a run with a journal is written or remembered.
LEMMA Remembered ==
    ASSUME Types, Jobs, InPlace, refused \in Nat, NEW p \in Proc, RunStart(p) \/ Command(p),
           ~OpenJournal(p), NEW r \in RunId
    PROVE  /\ mem'[p][r].st # "NONE" => mem[p][r].st # "NONE" \/ journal[r].file
           /\ journal'[r].file = journal[r].file
           /\ journal'[r] # journal[r] => mem[p][r].st # "NONE"
  <1>1. pc[p] # "idle" => job[p].run \in RunId /\ mem[p][job[p].run].st \in Placed(pc[p])
    BY DEF Jobs, InPlace
  <1>2. mem'[p][r].st # "NONE" => mem[p][r].st # "NONE" \/ journal[r].file
    <2>1. ASSUME NEW o \in RunId, NEW st, Remember(p, o, st), mem[p][o].st # "NONE"
          PROVE  mem'[p][r].st # "NONE" => mem[p][r].st # "NONE"
      BY <2>1, RememberMoves
    <2>2. CASE RunStart(p)
      <3>1. \/ mem' = mem \/ Preflight(p) \/ Reconcile(p)
            \/ /\ pc[p] \in {"arming", "start", "manifest", "reject"}
               /\ \E st : Remember(p, job[p].run, st)
        BY <2>2 DEF RunStart, Retry, Reserve, Created, Arming, Started, SpawnRoot, Respond,
           WriteManifest, ManifestRefused, Reject, ArmFault, At
      <3>2. CASE Reconcile(p)
        BY <1>1, <3>2 DEF Reconcile, At, Openable, Types
      <3>3. pc[p] \in {"arming", "start", "manifest", "reject"} =>
               job[p].run \in RunId /\ mem[p][job[p].run].st # "NONE"
        BY <1>1 DEF Placed, RunStates, LiveStates, TerminalStates
      <3> QED
        BY <2>1, <3>1, <3>2, <3>3, PreflightMoves
    <2>3. CASE Command(p)
      <3>1. \/ mem' = mem
            \/ \E o \in RunId : Open(p, o)
            \/ \E o \in RunId : \E st : mem[p][o].st # "NONE" /\ Remember(p, o, st)
            \/ pc[p] = "finalize" /\ Remember(p, job[p].run, "KILLED")
        BY <2>3 DEF Command, RunStop, TickLatch, Latch, TickSample, KillUnconfirmed, RetryKill,
           Close, IssueKill, Finalize, Stopping, At
      <3>2. ASSUME NEW o \in RunId, Open(p, o)
            PROVE  mem'[p][r].st # "NONE" => mem[p][r].st # "NONE" \/ journal[r].file
        BY <3>2 DEF Open, Openable, Types
      <3>3. pc[p] = "finalize" => job[p].run \in RunId /\ mem[p][job[p].run].st # "NONE"
        BY <1>1 DEF Placed
      <3> QED
        BY <2>1, <3>1, <3>2, <3>3
    <2> QED
      BY <2>2, <2>3
  <1>3. journal'[r].file = journal[r].file
    <2>1. ASSUME NEW o, NEW e, Append(p, o, e)
          PROVE  journal'[r].file = journal[r].file
      BY <2>1 DEF Append, Types
    <2> QED
      BY <2>1, StartMoves, CommandMoves
  <1>4. journal'[r] # journal[r] => mem[p][r].st # "NONE"
    <2>1. ASSUME NEW o \in RunId, NEW e, Writes(p, o, e), journal'[r] # journal[r]
          PROVE  mem[p][r].st # "NONE"
      <3>1. r = o
        BY <2>1 DEF Writes, Append, Types
      <3> QED
        BY <2>1, <3>1 DEF Writes
    <2>2. RunStart(p) => refused' = refused \/ journal' = journal
      BY DEF RunStart, Retry, Reserve, Reconcile, Created, Arming, Preflight, Started, SpawnRoot,
         Respond, RecordedOrRefused, WriteManifest, ManifestRefused, Reject, ArmFault, Refuse
    <2>3. Command(p) => refused' = refused \/ journal' = journal
      BY DEF Command, Open, RunStop, TickLatch, Latch, TickSample, KillUnconfirmed, RetryKill,
         Close, IssueKill, Finalize, Refuse
    <2> QED
      BY <2>1, <2>2, <2>3, StartWrites, CommandWrites
  <1> QED
    BY <1>2, <1>3, <1>4

-------------------------------------------------------------------------------
(***************************************************************************)
(* The step of a process.                                                  *)
(***************************************************************************)

\* No two processes open one journal, and it is one that nobody has written.
LEMMA Opens ==
    ASSUME EvidenceInv, Known, NEW p \in Proc, OpenJournal(p)
    PROVE  /\ job[p].run \in RunId /\ Indexed(job[p].run)
           /\ journal[job[p].run].rs = EmptyReplay
           /\ pc[p] = "journal" /\ pc'[p] = "create" /\ job' = job /\ Launching(p)
           /\ \A r \in RunId : /\ journal'[r].rs = journal[r].rs
                               /\ r # job[p].run => journal'[r] = journal[r]
                               /\ r # job[p].run => mem'[p][r] = mem[p][r]
           /\ journal'[job[p].run].file
  <1> USE DEF EvidenceInv, LaunchInv
  <1>1. /\ pc[p] = "journal" /\ pc'[p] = "create" /\ job' = job
        /\ job[p].run \in RunId /\ job[p].key \in Key /\ Launching(p)
    BY ProcessesAssumption DEF OpenJournal, At, Go, Jobs, Types, Launching
  <1>2. Indexed(job[p].run)
    BY <1>1, ProcessesAssumption DEF Held, Indexed
  <1>3. journal[job[p].run].rs = EmptyReplay
    BY <1>1 DEF Known
  <1>4. journal' = [journal EXCEPT ![job[p].run] = [journal[job[p].run] EXCEPT !.file = TRUE]]
    BY DEF OpenJournal, Types
  <1>5. ASSUME NEW r \in RunId
        PROVE  /\ journal'[r].rs = journal[r].rs
               /\ r # job[p].run => journal'[r] = journal[r]
               /\ r # job[p].run => mem'[p][r] = mem[p][r]
               /\ r = job[p].run => journal'[r].file
    <2>1. journal[r] \in [file : BOOLEAN, rs : Replays, genuine : BOOLEAN]
      BY DEF Types
    <2>2. journal'[r] = journal[r] \/ (r = job[p].run /\ journal'[r] = [journal[r] EXCEPT !.file = TRUE])
      BY <1>4 DEF Types
    <2>3. r # job[p].run => mem'[p][r] = mem[p][r]
      BY DEF OpenJournal, Types
    <2>4. r = job[p].run => journal'[r].file
      BY <1>4, <2>1 DEF Types
    <2> QED
      BY <2>1, <2>2, <2>3, <2>4
  <1> QED
    BY <1>1, <1>2, <1>3, <1>5

\* No step makes a process remember a run without a journal.
LEMMA KnownStep ==
    ASSUME EvidenceInv, WriterInv, NEW p \in Proc, RunStart(p) \/ Command(p)
    PROVE  Known'
  <1> USE DEF EvidenceInv, LaunchInv, WriterInv
  <1>1. ASSUME NEW r \in RunId
        PROVE  journal'[r].file => journal[r].file \/ (OpenJournal(p) /\ r = job[p].run)
    BY Opens, Remembered
  <1>2. ASSUME NEW r \in RunId, journal[r].file
        PROVE  journal'[r].file
    BY <1>2, Opens, Remembered
  <1>3. ASSUME NEW q \in Proc, NEW r \in RunId, mem'[q][r].st # "NONE"
        PROVE  journal'[r].file
    <2>1. CASE q # p
      BY <1>2, <1>3, <2>1, OthersStay DEF Known
    <2>2. CASE q = p /\ ~OpenJournal(p)
      BY <1>2, <1>3, <2>2, Remembered DEF Known
    <2>3. CASE q = p /\ OpenJournal(p)
      BY <1>2, <1>3, <2>3, Opens DEF Known
    <2> QED
      BY <2>1, <2>2, <2>3
  <1>4. ASSUME NEW q \in Proc, pc'[q] = "journal"
        PROVE  ~journal'[job'[q].run].file
    <2>1. CASE q = p
      <3>1. PICK k \in Key, r \in RunId : Reserve(p, k, r)
        BY <1>4, <2>1, PlaceMoves DEF Reserves
      <3>2. job'[q].run = r /\ journal' = journal /\ ~Indexed(r)
        BY <2>1, <3>1 DEF Reserve, GoFor, Indexed, Types
      <3> QED
        BY <3>2 DEF Known
    <2>2. CASE q # p
      <3>1. /\ pc[q] = "journal" /\ job'[q] = job[q] /\ job[q].run \in RunId
            /\ Launching(q) /\ ~journal[job[q].run].file
        BY <1>4, <2>2, OthersStay, ProcessesAssumption DEF Jobs, Launching, Known
      <3>2. ~(OpenJournal(p) /\ job[q].run = job[p].run)
        BY <2>2, <3>1, Opens, OneLaunch
      <3> QED
        BY <1>1, <3>1, <3>2
    <2> QED
      BY <2>1, <2>2
  <1>5. ASSUME NEW r \in RunId, ~Indexed(r)'
        PROVE  ~journal'[r].file
    <2>1. ~Indexed(r)
      BY <1>5, IndexedStays
    <2> QED
      BY <1>1, <2>1, Opens DEF Known
  <1>6. ASSUME NEW r \in RunId, ~journal'[r].file
        PROVE  journal'[r].rs = EmptyReplay
    <2>1. ~journal[r].file /\ journal[r].rs = EmptyReplay
      BY <1>2, <1>6 DEF Known
    <2>2. CASE OpenJournal(p)
      BY <2>1, <2>2, Opens
    <2>3. CASE ~OpenJournal(p)
      BY <2>1, <2>3, Remembered DEF Known
    <2> QED
      BY <2>2, <2>3
  <1> QED
    BY <1>3, <1>4, <1>5, <1>6 DEF Known

\* A replay takes an event that is legal in its state.
LEMMA LegalApplies ==
    ASSUME NEW rs \in Replays, NEW e, Subjectless(e), rs.ok, rs.st \in Sources(e.kind)
    PROVE  Apply(rs, e).ok /\ Apply(rs, e).st = After(rs.st, e)
  <1>1. Legal(rs, e)
    BY DEF Legal, SubjectsLegal, Subjectless, TokenKinds, ActionKinds, ComputeKinds
  <1>2. PostState(rs, e) = After(rs.st, e)
    BY DEF PostState, After
  <1> QED
    BY <1>1, <1>2 DEF Apply

\* As long as no append was refused, journal and owner agree.
LEMMA AgreesStep ==
    ASSUME EvidenceInv, WriterInv, NEW p \in Proc, RunStart(p) \/ Command(p),
           refused = 0, refused' = refused
    PROVE  Agrees'
  <1> USE DEF EvidenceInv, LaunchInv, WriterInv
  <1>1. ASSUME NEW q \in Proc, q # p, NEW r \in RunId
        PROVE  Expected(q, r)' = Expected(q, r) /\ mem'[q][r].own = mem[q][r].own
    BY <1>1, OthersStay DEF Expected
  <1>2. CASE OpenJournal(p)
    <2>1. ASSUME NEW r \in RunId
          PROVE  journal'[r].genuine => journal'[r].rs.ok
      BY <1>2, <2>1, Opens DEF Agrees, EmptyReplay
    <2>2. ASSUME NEW q \in Proc, NEW r \in RunId, mem'[q][r].own, journal'[r].genuine
          PROVE  journal'[r].rs.st = Expected(q, r)'
      <3>1. CASE q = p /\ r = job[p].run
        BY <1>2, <3>1, Opens DEF Expected, EmptyReplay
      <3>2. CASE q = p /\ r # job[p].run
        BY <1>2, <2>2, <3>2, Opens DEF Expected, Agrees
      <3>3. CASE q # p
        <4>1. r # job[p].run
          BY <1>1, <1>2, <2>2, <3>3, Opens DEF Owners
        <4> QED
          BY <1>1, <1>2, <2>2, <3>3, <4>1, Opens DEF Agrees
      <3> QED
        BY <3>1, <3>2, <3>3
    <2> QED
      BY <2>1, <2>2 DEF Agrees
  <1>3. ASSUME journal' = journal, \A r \in RunId : Keeps(p, r)
        PROVE  Agrees'
    <2>1. ASSUME NEW q \in Proc, NEW r \in RunId, mem'[q][r].own
          PROVE  mem[q][r].own /\ Expected(q, r)' = Expected(q, r)
      BY <1>1, <1>3, <2>1 DEF Keeps
    <2> QED
      BY <1>3, <2>1 DEF Agrees
  <1>4. ASSUME NEW s \in RunId, NEW e, Writes(p, s, e)
        PROVE  Agrees'
    <2>1. /\ \A r \in RunId : r # s => journal'[r] = journal[r]
          /\ journal'[s].rs = Apply(journal[s].rs, e)
          /\ journal'[s].genuine = (journal[s].genuine /\ mem[p][s].own)
          /\ journal[s].rs \in Replays
      BY <1>4 DEF Writes, Append, Types
    <2>2. ASSUME journal'[s].genuine
          PROVE  journal'[s].rs.ok /\ journal'[s].rs.st = Expected(p, s)' /\ mem[p][s].own
      <3>1. journal[s].genuine /\ mem[p][s].own
        BY <2>1, <2>2
      <3>2. journal[s].rs.ok /\ journal[s].rs.st = Expected(p, s)
        BY <3>1 DEF Agrees
      <3>3. Subjectless(e) /\ Expected(p, s) \in Sources(e.kind)
            /\ Expected(p, s)' = After(Expected(p, s), e)
        BY <1>4 DEF Writes
      <3> QED
        BY <2>1, <3>1, <3>2, <3>3, LegalApplies
    <2>3. ASSUME NEW r \in RunId, journal'[r].genuine
          PROVE  journal'[r].rs.ok
      BY <2>1, <2>2, <2>3 DEF Agrees
    <2>4. ASSUME NEW q \in Proc, NEW r \in RunId, mem'[q][r].own, journal'[r].genuine
          PROVE  journal'[r].rs.st = Expected(q, r)'
      <3>1. CASE q # p /\ r = s
        BY <1>1, <2>2, <2>4, <3>1 DEF Owners
      <3>2. CASE q # p /\ r # s
        BY <1>1, <2>1, <2>4, <3>2 DEF Agrees
      <3>3. CASE q = p /\ r = s
        BY <2>2, <2>4, <3>3
      <3>4. CASE q = p /\ r # s
        <4>1. mem[p][r].own /\ Expected(p, r)' = Expected(p, r)
          BY <1>4, <2>4, <3>4 DEF Writes, Keeps
        <4> QED
          BY <2>1, <2>4, <3>4, <4>1 DEF Agrees
      <3> QED
        BY <3>1, <3>2, <3>3, <3>4
    <2> QED
      BY <2>3, <2>4 DEF Agrees
  <1> QED
    BY <1>2, <1>3, <1>4, StartWrites, CommandWrites

\* A step refuses one append at most.
LEMMA RefusedMoves ==
    ASSUME refused \in Nat, NEW p \in Proc, RunStart(p) \/ Command(p)
    PROVE  refused' = refused \/ refused' = refused + 1
  <1>1. CASE RunStart(p)
    BY <1>1 DEF RunStart, Retry, Reserve, Reconcile, OpenJournal, Created, Arming, Preflight,
       Started, SpawnRoot, Respond, RecordedOrRefused, WriteManifest, ManifestRefused, Reject,
       ArmFault, Refuse
  <1>2. CASE Command(p)
    BY <1>2 DEF Command, Open, RunStop, TickLatch, Latch, TickSample, KillUnconfirmed, RetryKill,
       Close, IssueKill, Finalize, Refuse
  <1> QED
    BY <1>1, <1>2

\* Every step keeps the invariant of writers.
LEMMA WriterStep ==
    ASSUME EvidenceInv, WriterInv, [Next]_vars
    PROVE  WriterInv'
  <1> USE DEF EvidenceInv, LaunchInv, WriterInv
  <1>1. Types' /\ Jobs'
    BY TypesStep
  <1>2. ASSUME NEW p \in Proc, RunStart(p) \/ Command(p)
        PROVE  WriterInv'
    <2>1. InPlace' /\ Known'
      BY <1>1, <1>2, PlaceStep, KnownStep
    <2>2. refused' \in Nat /\ (refused' = 0 => refused = 0 /\ refused' = refused)
      BY <1>2, RefusedMoves
    <2> QED
      BY <1>2, <2>1, <2>2, AgreesStep
  <1>3. CASE ~\E p \in Proc : RunStart(p) \/ Command(p)
    <2>1. /\ UNCHANGED <<index, journal, releases>>
          /\ \A q \in Proc : Stays(q) \/ Forgets(q)
      BY <1>3, OtherEnds DEF Next
    <2>2. refused' = refused
      BY <1>3, RecoverMoves DEF Next, vars, Exit, WorkloadExits, Reboot
    <2>3. ASSUME NEW q \in Proc, pc'[q] # "idle"
          PROVE  Stays(q)
      BY <2>1, <2>3 DEF Forgets, StartsOver
    <2>4. InPlace'
      BY <2>3 DEF InPlace, Stays
    <2>5. ASSUME NEW q \in Proc, NEW r \in RunId, mem'[q][r].st # "NONE"
          PROVE  mem[q][r].st # "NONE"
      BY <2>1, <2>5 DEF Stays, Forgets, Blank
    <2>6. Known'
      BY <2>1, <2>3, <2>5 DEF Known, Indexed, Stays
    <2>7. ASSUME NEW q \in Proc, NEW r \in RunId, mem'[q][r].own
          PROVE  mem[q][r].own /\ Expected(q, r)' = Expected(q, r)
      BY <2>1, <2>7 DEF Stays, Forgets, Blank, Expected
    <2>8. refused = 0 => Agrees'
      BY <2>1, <2>7 DEF Agrees
    <2> QED
      BY <2>2, <2>4, <2>6, <2>8
  <1> QED
    BY <1>2, <1>3

\* While no transaction has been refused, at every moment and after any crash, the
\* receipt of a run that only its own driver wrote verifies (Run._commit,
\* verify_bundle).
THEOREM SoleWriterVerifiesAlways == Spec => []SoleWriterVerifies
  <1>1. WriterInv => SoleWriterVerifies
    BY DEF WriterInv, Agrees, SoleWriterVerifies
  <1> QED
    BY <1>1, EvidenceInit, EvidenceStep, WriterInit, WriterStep, PTL DEF Spec

-------------------------------------------------------------------------------
(***************************************************************************)
(* Recovery.  What recover read some steps ago is still true of the world  *)
(* when it answers: a workload whose end is on record will not be released *)
(* again (Over), for whoever could release it would have to be launching   *)
(* the run, and nobody launches a run that is closed or that the index     *)
(* already has.                                                            *)
(***************************************************************************)
Filed == \A r \in alive : journal[r].file

Recoveries ==
    [run     : RunId \cup {NoRun},
     step    : {"idle", "journal", "manifest", "cgroup", "kill"},
     saw     : RunStates \cup {"NEW"},
     answer  : {"none", "CONTAINED", "INCOMPLETE"},
     written : BOOLEAN]

\* Nobody is alive in r, and nobody will be.
Over(r) ==
    /\ r \notin alive
    /\ Indexed(r)
    /\ \A p \in Proc : pc[p] \in BeforeRelease => job[p].run # r

\* A recovery has a run, and what it has read of its end holds.
Warned ==
    /\ recovery \in Recoveries
    /\ recovery.step # "idle" => recovery.run \in RunId
    /\ /\ recovery.step \in {"manifest", "cgroup"}
       /\ recovery.saw \in Closed
       /\ journal[recovery.run].genuine
       => Over(recovery.run)

RecoverInv == EvidenceInv /\ WriterInv /\ Filed /\ Warned

\* No step brings to life a workload without a journal.
LEMMA FiledStep ==
    ASSUME EvidenceInv, WriterInv, Filed, [Next]_vars
    PROVE  Filed'
  <1> SUFFICES ASSUME NEW r \in alive' PROVE journal'[r].file
    BY DEF Filed
  <1> USE DEF EvidenceInv, LaunchInv, WriterInv
  <1>1. ASSUME NEW p \in Proc, RunStart(p) \/ Command(p)
        PROVE  journal'[r].file
    <2>1. CASE r \in alive
      <3>1. r \in RunId /\ journal[r].file
        BY <2>1 DEF Filed, Released
      <3> QED
        BY <1>1, <3>1, Opens, Remembered
    <2>2. CASE r \notin alive
      <3>1. SpawnRoot(p) /\ r = job[p].run /\ journal' = journal
        BY <1>1, <2>2, AliveMoves
      <3>2. pc[p] = "spawn" /\ r \in RunId
        BY <3>1, SpawnOwns
      <3>3. mem[p][r].st = "RUNNING"
        BY <3>1, <3>2 DEF InPlace, Placed
      <3> QED
        BY <3>1, <3>2, <3>3 DEF Known
    <2> QED
      BY <2>1, <2>2
  <1>2. CASE ~\E p \in Proc : RunStart(p) \/ Command(p)
    BY <1>2, OtherEnds DEF Next, Filed
  <1> QED
    BY <1>1, <1>2

\* Only recover goes on with a recovery; a reboot ends it.
LEMMA RecoveryMoves ==
    ASSUME [Next]_vars
    PROVE  recovery' = recovery \/ recovery' = NoRecovery \/ Recover
  <1>1. ASSUME NEW p \in Proc, RunStart(p)
        PROVE  recovery' = recovery
    BY <1>1 DEF RunStart, Retry, Reserve, Reconcile, OpenJournal, Created, Arming, Preflight,
       Started, SpawnRoot, Respond, WriteManifest, ManifestRefused, Reject, ArmFault
  <1>2. ASSUME NEW p \in Proc, Command(p)
        PROVE  recovery' = recovery
    BY <1>2 DEF Command, Open, RunStop, TickLatch, Latch, TickSample, KillUnconfirmed, RetryKill,
       Close, IssueKill, Finalize
  <1> QED
    BY <1>1, <1>2 DEF Next, vars, Exit, WorkloadExits, Reboot

\* A journal that somebody else has written to stays worthless as evidence.
LEMMA GenuineStep ==
    ASSUME Types, Jobs, [Next]_vars, NEW r \in RunId, journal'[r].genuine
    PROVE  journal[r].genuine
  <1>1. ASSUME NEW p \in Proc, NEW s, NEW e, Append(p, s, e)
        PROVE  journal[r].genuine
    <2>1. CASE s = r
      <3>1. journal'[r].genuine = (journal[r].genuine /\ mem[p][r].own)
        BY <1>1, <2>1 DEF Append, Types
      <3> QED
        BY <3>1
    <2>2. CASE s # r
      BY <1>1, <2>2 DEF Append, Types
    <2> QED
      BY <2>1, <2>2
  <1>2. ASSUME NEW p \in Proc, OpenJournal(p)
        PROVE  journal[r].genuine
    <2>1. journal'[r] = journal[r] \/ journal'[r] = [journal[r] EXCEPT !.file = TRUE]
      BY <1>2 DEF OpenJournal, Types
    <2> QED
      BY <2>1 DEF Types
  <1>3. CASE ~\E p \in Proc : RunStart(p) \/ Command(p)
    BY <1>3, OtherMoves DEF Next
  <1> QED
    BY <1>1, <1>2, <1>3, StartMoves, CommandMoves

\* What is over stays over.
LEMMA OverStep ==
    ASSUME EvidenceInv, [Next]_vars, NEW r \in RunId, Over(r)
    PROVE  Over(r)'
  <1> USE DEF EvidenceInv, LaunchInv
  <1>1. ASSUME NEW p \in Proc, RunStart(p) \/ Command(p)
        PROVE  Over(r)'
    <2>1. r \notin alive'
      <3>1. SpawnRoot(p) => job[p].run # r
        BY SpawnOwns DEF Over, BeforeRelease
      <3> QED
        BY <1>1, <3>1, AliveMoves DEF Over
    <2>2. Indexed(r)'
      BY <1>1, IndexedStays DEF Over
    <2>3. ASSUME NEW q \in Proc, pc'[q] \in BeforeRelease
          PROVE  job'[q].run # r
      <3>1. CASE q # p
        BY <1>1, <2>3, <3>1, OthersStay DEF Over
      <3>2. CASE q = p /\ ~Reserves(p)
        BY <1>1, <2>3, <3>2, LaunchMoves DEF Over
      <3>3. CASE q = p /\ Reserves(p)
        <4>1. PICK k \in Key, o \in RunId : Reserve(p, k, o)
          BY <3>3 DEF Reserves
        <4>2. o # r
          BY <4>1 DEF Reserve, Over, Indexed
        <4>3. job'[p].run = o
          BY <4>1 DEF Reserve, GoFor, Types
        <4> QED
          BY <3>3, <4>2, <4>3
      <3> QED
        BY <3>1, <3>2, <3>3
    <2> QED
      BY <2>1, <2>2, <2>3 DEF Over
  <1>2. CASE ~\E p \in Proc : RunStart(p) \/ Command(p)
    <2>1. /\ index' = index /\ alive' \subseteq alive
          /\ \A q \in Proc : Stays(q) \/ Forgets(q)
      BY <1>2, OtherEnds DEF Next
    <2> QED
      BY <2>1 DEF Over, Indexed, Stays, Forgets, StartsOver, BeforeRelease
  <1> QED
    BY <1>1, <1>2

\* Every step of a recovery keeps what it has read true.
LEMMA WarnedStep ==
    ASSUME EvidenceInv, Warned, [Next]_vars
    PROVE  Warned'
  <1> USE DEF EvidenceInv, LaunchInv
  <1>1. CASE recovery' = recovery
    BY <1>1, OverStep, GenuineStep DEF Warned
  <1>2. CASE recovery' = NoRecovery
    BY <1>2 DEF Warned, NoRecovery, Recoveries
  <1>3. CASE Recover
    <2>1. UNCHANGED <<journal, pc, job, alive, index>>
      BY <1>3, RecoverMoves DEF disk
    <2>2. \A r : Over(r)' = Over(r)
      BY <2>1 DEF Over, Indexed
    <2>3. ASSUME NEW result \in {"CONTAINED", "INCOMPLETE"}, NEW written \in BOOLEAN,
                 Answer(result, written)
          PROVE  Warned'
      BY <2>3 DEF Answer, Warned, NoRecovery, Recoveries
    <2>4. ASSUME NEW r \in RunId, RecoverBegins(r)
          PROVE  Warned'
      BY <2>4 DEF RecoverBegins, Warned, NoRecovery, Recoveries, RunStates
    <2>5. CASE ReadJournal
      <3> DEFINE j == journal[recovery.run]
      <3>1. recovery.run \in RunId /\ j.rs \in Replays
        BY <2>5 DEF ReadJournal, Recovering, Warned, Types
      <3>2. CASE ~j.file /\ Answer("CONTAINED", TRUE)
        BY <2>3, <3>2
      <3>3. CASE j.rs.ok /\ recovery' = [recovery EXCEPT !.step = "manifest", !.saw = j.rs.st]
        <4>1. j.rs.st \in RunStates \cup {"NEW"}
          BY <3>1 DEF Replays
        <4>2. /\ recovery' \in Recoveries /\ recovery'.run = recovery.run
              /\ recovery'.saw = j.rs.st
          BY <3>3, <4>1 DEF Warned, Recoveries
        <4>3. j.rs.st \in Closed /\ j.genuine => Over(recovery.run)
          BY <3>1, <3>3 DEF Evidence, Gone, Unclosed, Over
        <4> QED
          BY <2>1, <2>2, <3>1, <4>2, <4>3 DEF Warned
      <3> QED
        BY <2>5, <3>2, <3>3 DEF ReadJournal
    <2>6. CASE \E step \in {"cgroup", "kill"} :
                  /\ recovery.step \in {"manifest", "cgroup"}
                  /\ recovery' = [recovery EXCEPT !.step = step]
      <3>1. /\ recovery' \in Recoveries /\ recovery'.run = recovery.run
            /\ recovery'.saw = recovery.saw
        BY <2>6 DEF Warned, Recoveries
      <3> QED
        BY <2>1, <2>2, <2>6, <3>1 DEF Warned
    <2> QED
      BY <1>3, <2>3, <2>4, <2>5, <2>6
         DEF Recover, ReadManifest, StatCgroup, KillOrphan, Recovering
  <1> QED
    BY <1>1, <1>2, <1>3, RecoveryMoves

\* The initial state satisfies the invariant of recovery.
LEMMA RecoverInitial == Init => RecoverInv
  BY EvidenceInit, WriterInit
     DEF RecoverInv, Filed, Warned, Recoveries, NoRecovery, RunStates, Init

\* Every step keeps it.
LEMMA RecoverStep ==
    ASSUME RecoverInv, [Next]_vars
    PROVE  RecoverInv'
  BY EvidenceStep, WriterStep, FiledStep, WarnedStep DEF RecoverInv

\* recover answers CONTAINED only about a workload that is gone or that it has sent
\* SIGKILL, however its three readings and the steps of a driver interleave: unless
\* a second process has written to the journal, or its own write of cgroup.kill
\* raised and was passed over (recover_run).
THEOREM RecoverContainsAlways == Spec => RecoverContains
  <1>1. ASSUME RecoverInv, [Next]_vars, recovery.answer = "none",
               recovery'.answer = "CONTAINED", recovery'.written, journal[recovery.run].genuine
        PROVE  recovery.run \notin alive' \ killed'
    <2>1. Recover
      BY <1>1, RecoveryMoves DEF NoRecovery
    <2>2. alive' = alive
      BY <2>1, RecoverMoves
    <2>3. CASE ReadJournal
      <3>1. recovery.run \in RunId /\ ~journal[recovery.run].file
        BY <1>1, <2>3 DEF ReadJournal, Recovering, RecoverInv, Warned, Recoveries
      <3>2. \A s \in alive : journal[s].file
        BY <1>1 DEF RecoverInv, Filed
      <3> QED
        BY <2>2, <3>1, <3>2
    <2>4. CASE ReadManifest \/ StatCgroup
      <3>1. recovery.step \in {"manifest", "cgroup"} /\ recovery.saw \in Closed
        BY <1>1, <2>4 DEF ReadManifest, StatCgroup, Recovering, Answer, NoRecovery, Ended, Closed,
           RecoverInv, Warned, Recoveries
      <3> QED
        BY <1>1, <2>2, <3>1 DEF RecoverInv, Warned, Over
    <2>5. CASE KillOrphan
      <3>1. ~Answer("CONTAINED", FALSE)
        BY <1>1 DEF Answer, NoRecovery
      <3> QED
        BY <2>2, <2>5, <3>1 DEF KillOrphan, SigKill
    <2>6. ASSUME NEW r \in RunId, RecoverBegins(r)
          PROVE  FALSE
      BY <1>1, <2>6 DEF RecoverBegins, NoRecovery
    <2> QED
      BY <2>1, <2>3, <2>4, <2>5, <2>6 DEF Recover
  <1>2. RecoverInv /\ [Next]_vars
        => [recovery.answer = "none" /\ recovery'.answer = "CONTAINED" /\ recovery'.written
               /\ journal[recovery.run].genuine
            => recovery.run \notin alive' \ killed']_vars
    BY <1>1
  <1> QED
    BY <1>2, RecoverInitial, RecoverStep, PTL DEF Spec, RecoverContains

-------------------------------------------------------------------------------
(***************************************************************************)
(* Type correctness.  That a living workload is in a cgroup (alive is a    *)
(* subset of cgroup) is more than a type: the cgroup is there before the   *)
(* workload is released, and only the process that made it removes it,     *)
(* after it saw it empty.                                                  *)
(***************************************************************************)
\* Only the owner of a run has its cgroup.
Hers == \A p \in Proc, r \in RunId : mem[p][r].box => mem[p][r].own

\* A workload is released into a cgroup that is there.
Caged == \A p \in Proc : pc[p] \in {"start", "spawn"} => job[p].run \in cgroup

Housed ==
    /\ Hers /\ Caged
    /\ cgroup \subseteq RunId /\ alive \subseteq cgroup /\ killed \subseteq alive

Bounded == manifest \in [RunId -> {"none", "this", "old"}] /\ refused \in 0..MaxRefused

\* How a step of a process moves the machine.
LEMMA MachineMoves ==
    ASSUME NEW p \in Proc, RunStart(p) \/ Command(p)
    PROVE  /\ \/ cgroup' = cgroup
              \/ Preflight(p) /\ cgroup' = cgroup \cup {job[p].run}
              \/ Finalize(p) /\ mem[p][job[p].run].box /\ cgroup' = cgroup \ {job[p].run}
           /\ killed' \subseteq killed \cup alive
           /\ manifest' = manifest \/ manifest' = [manifest EXCEPT ![job[p].run] = "this"]
           /\ refused' = refused \/ (refused < MaxRefused /\ refused' = refused + 1)
  <1>1. CASE RunStart(p)
    BY <1>1 DEF RunStart, Retry, Reserve, Reconcile, OpenJournal, Created, Arming, Preflight,
       Started, SpawnRoot, Respond, RecordedOrRefused, WriteManifest, ManifestRefused, Reject,
       ArmFault,
       Refuse, Kill, SigKill, disk, machine
  <1>2. CASE Command(p)
    BY <1>2 DEF Command, Open, RunStop, TickLatch, Latch, TickSample, KillUnconfirmed, RetryKill,
       Close, IssueKill, Finalize, Kill, SigKill, Refuse, disk, machine
  <1> QED
    BY <1>1, <1>2

\* A run that is opened from its journal has no cgroup.
LEMMA OpenedMoves ==
    ASSUME Types, Jobs, NEW p \in Proc, RunStart(p) \/ Command(p), NEW r \in RunId, mem'[p][r].box
    PROVE  \/ Preflight(p) /\ r = job[p].run /\ mem'[p][r].own = mem[p][r].own
           \/ mem'[p][r].own = mem[p][r].own /\ mem[p][r].box
  <1>1. mem[p] \in [RunId -> Memory] /\ mem[p][r] \in Memory
    BY DEF Types
  <1>2. ~(OpenJournal(p) /\ r = job[p].run)
    <2> SUFFICES ASSUME OpenJournal(p), r = job[p].run PROVE FALSE
      OBVIOUS
    <2> DEFINE made == [Blank EXCEPT !.st = "CREATED", !.own = TRUE]
    <2>1. ~made.box
      BY DEF Blank
    <2>2. mem' = [mem EXCEPT ![p][r] = made]
      BY DEF OpenJournal
    <2> HIDE DEF made
    <2>3. mem'[p][r] = made
      BY <1>1, <2>2 DEF Types
    <2> QED
      BY <2>1, <2>3
  <1>3. CASE pc[p] = "idle" \/ pc[p] = "reconcile"
    <2>1. ASSUME NEW o \in RunId, mem' = [mem EXCEPT ![p][o] = Opened(o)]
          PROVE  mem'[p][r] = mem[p][r]
      BY <1>1, <2>1 DEF Opened, Types
    <2>2. ASSUME NEW o, NEW st, Remember(p, o, st)
          PROVE  mem'[p][r].own = mem[p][r].own /\ mem'[p][r].box = mem[p][r].box
      BY <1>1, <2>2 DEF Remember, Types, Memory
    <2>3. \/ mem' = mem
          \/ \E o \in RunId : mem' = [mem EXCEPT ![p][o] = Opened(o)]
          \/ \E o, st : Remember(p, o, st)
      <3>1. CASE Reconcile(p)
        BY <3>1 DEF Reconcile, Jobs, At
      <3>2. CASE RunStart(p) /\ ~Reconcile(p)
        BY <1>3, <3>2, StartMoves DEF OpenJournal, Preflight, At
      <3>3. CASE Command(p)
        BY <3>3, CommandMoves DEF Open
      <3> QED
        BY <3>1, <3>2, <3>3
    <2> QED
      BY <2>1, <2>2, <2>3
  <1>4. CASE pc[p] \notin {"idle", "reconcile"}
    BY <1>2, <1>4, MemMoves
  <1> QED
    BY <1>3, <1>4

\* A process reaches "spawn" from "start" only, and "start" with its cgroup.
LEMMA CageMoves ==
    ASSUME Types, Jobs, NEW p \in Proc, RunStart(p) \/ Command(p), pc'[p] \in {"start", "spawn"}
    PROVE  /\ job'[p] = job[p]
           /\ \/ cgroup' = cgroup \cup {job[p].run}
              \/ pc[p] = "start" /\ cgroup' = cgroup
  <1>1. CASE Reserves(p) \/ Retries(p) \/ Reconcile(p) \/ Respond(p)
    BY <1>1 DEF Reserves, Reserve, Retries, Retry, Reconcile, Respond, Done, GoFor, Types
  <1>2. CASE OpenJournal(p) \/ Created(p) \/ Arming(p)
    BY <1>2 DEF OpenJournal, Created, Arming, RecordedOrRefused, Done, Go, GoFor, Types
  <1>3. CASE Preflight(p)
    BY <1>3 DEF Preflight, Go, Types
  <1>4. CASE Started(p)
    BY <1>4 DEF Started, Go, At, Types, machine
  <1>5. CASE SpawnRoot(p) \/ WriteManifest(p) \/ ManifestRefused(p) \/ Reject(p) \/ ArmFault(p)
    BY <1>5 DEF SpawnRoot, WriteManifest, ManifestRefused, Reject, ArmFault, RecordedOrRefused, Done, Go,
                GoFor, Types
  <1>6. CASE Command(p)
    <2>1. pc' = pc => pc[p] # "idle"
      OBVIOUS
    <2> QED
      BY <1>6, <2>1, CommandMoves DEF Command, Open, RunStop, TickLatch, Latch, TickSample,
         KillUnconfirmed, RetryKill, Close, IssueKill, Finalize, Stopping, Idle, At, Done, Go,
         GoFor, Types
  <1> QED
    BY <1>1, <1>2, <1>3, <1>4, <1>5, <1>6 DEF RunStart, Reserves, Retries

\* The step of a process: it removes the cgroup of a run of its own, after the
\* workload is gone.
LEMMA HousedMoves ==
    ASSUME EvidenceInv, EvidenceInv', Housed, NEW p \in Proc, RunStart(p) \/ Command(p)
    PROVE  Housed'
  <1> USE DEF EvidenceInv, LaunchInv, Housed
  <1>1. Hers'
    <2> SUFFICES ASSUME NEW q \in Proc, NEW r \in RunId, mem'[q][r].box
                 PROVE  mem'[q][r].own
      BY DEF Hers
    <2>1. CASE q # p
      BY <2>1, OthersStay DEF Hers
    <2>2. CASE q = p
      <3>1. CASE Preflight(p) /\ r = job[p].run /\ mem'[p][r].own = mem[p][r].own
        <4>1. Launching(p) /\ pc[p] # "journal"
          BY <3>1, ProcessesAssumption DEF Preflight, At, Jobs, Launching
        <4> QED
          BY <2>2, <3>1, <4>1 DEF Owners
      <3> QED
        BY <2>2, <3>1, OpenedMoves DEF Hers
    <2> QED
      BY <2>1, <2>2
  <1>2. ASSUME NEW r \in cgroup,
               r \in alive \/ \E q \in Proc : q # p /\ pc[q] \in {"start", "spawn"} /\ job[q].run = r
        PROVE  r \in cgroup'
    <2> SUFFICES ASSUME Finalize(p), mem[p][job[p].run].box, job[p].run = r
                 PROVE  FALSE
      BY <1>2, MachineMoves
    <2>1. pc[p] = "finalize" /\ mem[p][r].own
      BY <1>2 DEF Finalize, At, Hers, Jobs
    <2>2. r \notin alive
      BY <2>1 DEF Emptied
    <2>3. PICK q \in Proc : q # p /\ pc[q] \in {"start", "spawn"} /\ job[q].run = r
      BY <1>2, <2>2
    <2>4. Launching(q) /\ pc[q] # "journal"
      BY <2>3, ProcessesAssumption DEF Jobs, Launching
    <2>5. mem[q][r].own
      BY <2>3, <2>4 DEF Owners
    <2> QED
      BY <1>2, <2>1, <2>3, <2>5 DEF Owners
  <1>3. Caged'
    <2> SUFFICES ASSUME NEW q \in Proc, pc'[q] \in {"start", "spawn"}
                 PROVE  job'[q].run \in cgroup'
      BY DEF Caged
    <2>1. CASE q = p
      BY <2>1, CageMoves DEF Caged
    <2>2. CASE q # p
      <3>1. pc[q] \in {"start", "spawn"} /\ job'[q] = job[q] /\ job[q].run \in cgroup
        BY <2>2, OthersStay DEF Caged
      <3> QED
        BY <1>2, <2>2, <3>1
    <2> QED
      BY <2>1, <2>2
  <1>4. cgroup' \subseteq RunId
    BY MachineMoves DEF Preflight, At, Jobs
  <1>5. alive' \subseteq cgroup'
    <2>1. CASE alive' = alive
      BY <1>2, <2>1
    <2>2. CASE SpawnRoot(p) /\ alive' = alive \cup {job[p].run}
      <3>1. cgroup' = cgroup
        BY <2>2 DEF SpawnRoot
      <3>2. job[p].run \in cgroup
        BY <2>2, SpawnOwns DEF Caged
      <3> QED
        BY <2>2, <3>1, <3>2
    <2> QED
      BY <2>1, <2>2, AliveMoves
  <1>6. killed' \subseteq alive'
    BY MachineMoves, AliveMoves
  <1> QED
    BY <1>1, <1>3, <1>4, <1>5, <1>6

\* Every other step ends processes and workloads, and a reboot ends them all.
LEMMA HousedStep ==
    ASSUME EvidenceInv, Housed, [Next]_vars
    PROVE  Housed'
  <1>1. EvidenceInv'
    BY EvidenceStep
  <1>2. CASE \E p \in Proc : RunStart(p) \/ Command(p)
    BY <1>1, <1>2, HousedMoves
  <1>3. CASE ~\E p \in Proc : RunStart(p) \/ Command(p)
    <2>1. \A q \in Proc : Stays(q) \/ Forgets(q)
      BY <1>3, OtherEnds DEF Next, EvidenceInv, LaunchInv
    <2>2. Hers'
      BY <2>1 DEF Housed, Hers, Stays, Forgets, Blank
    <2>3. \/ cgroup' = cgroup /\ alive' \subseteq alive /\ killed' \subseteq alive'
          \/ Reboot
      BY <1>3, RecoverMoves DEF Next, vars, machine, Exit, SigKill, WorkloadExits, Housed
    <2>4. CASE Reboot
      BY <2>2, <2>4 DEF Reboot, Housed, Caged
    <2>5. CASE cgroup' = cgroup /\ alive' \subseteq alive /\ killed' \subseteq alive'
      <3>1. Caged'
        BY <2>1, <2>5 DEF Housed, Caged, Stays, Forgets, StartsOver
      <3> QED
        BY <2>2, <2>5, <3>1 DEF Housed
    <2> QED
      BY <2>3, <2>4, <2>5
  <1> QED
    BY <1>2, <1>3

\* The manifests and the bound on refused transactions.
LEMMA BoundedStep ==
    ASSUME Bounded, [Next]_vars
    PROVE  Bounded'
  <1>1. refused \in Nat /\ MaxRefused \in Nat /\ refused <= MaxRefused
    BY ProcessesAssumption DEF Bounded
  <1>2. ASSUME NEW p \in Proc, RunStart(p) \/ Command(p)
        PROVE  Bounded'
    BY <1>1, <1>2, MachineMoves DEF Bounded
  <1>3. CASE ~\E p \in Proc : RunStart(p) \/ Command(p)
    <2>1. /\ refused' = refused
          /\ \/ manifest' = manifest
             \/ manifest' = [r \in RunId |-> IF manifest[r] = "this" THEN "old" ELSE manifest[r]]
      BY <1>3, RecoverMoves DEF Next, vars, disk, Exit, WorkloadExits, Reboot
    <2> QED
      BY <2>1 DEF Bounded
  <1> QED
    BY <1>2, <1>3

\* The types hold, and with them that a living workload always has its cgroup:
\* no process removes one it has not seen empty (Run._finalize, arm).
THEOREM ProcessesTypesAlways == Spec => []ProcessesTypeOK
  <1>1. Init => Housed /\ Bounded
    BY ProcessesAssumption DEF Init, Housed, Hers, Caged, Bounded, Blank
  <1>2. EvidenceInv /\ Housed /\ [Next]_vars => Housed'
    BY HousedStep
  <1>3. Bounded /\ [Next]_vars => Bounded'
    BY BoundedStep
  <1>4. RecoverInv /\ Housed /\ Bounded => ProcessesTypeOK
    BY DEF RecoverInv, Warned, Recoveries, EvidenceInv, LaunchInv, Types, Replies, Steps, Memory,
           Housed, Bounded, ProcessesTypeOK
  <1>5. RecoverInv => EvidenceInv
    BY DEF RecoverInv
  <1> QED
    BY <1>1, <1>2, <1>3, <1>4, <1>5, RecoverInitial, RecoverStep, PTL DEF Spec
===============================================================================
