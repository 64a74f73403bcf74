--------------------------- MODULE SupervisorProofs ---------------------------
(***************************************************************************)
(* Theorems about Supervisor, for every value of its constants.            *)
(*                                                                         *)
(* The engine implements the reducer's specification: each of its steps is *)
(* one RunCore operation or leaves the reducer alone.  So what is proved   *)
(* of CoreSpec holds of the engine, and only what relates the reducer to   *)
(* processes, effects and kills is proved here.                            *)
(***************************************************************************)
EXTENDS Supervisor, RunCoreProofs

-------------------------------------------------------------------------------
(***************************************************************************)
(* The hand-over of a dispatched action.                                   *)
(***************************************************************************)

\* _exec_after_commit is set exactly while the engine is about to execute it.
PendingInv ==
    /\ pc = "exec" => pending \in ActionId
    /\ pc # "exec" => pending = NoAction
    /\ ret # "exec"

\* Every step but a dispatch and an execution keeps away from the hand-over.
LEMMA PendingStep ==
    ASSUME PendingInv, [Next]_vars
    PROVE  PendingInv'
  <1> USE DEF PendingInv, control, engineVars, hostVars, Goto, Kill
  <1>1. CASE LaunchStep
    BY <1>1 DEF LaunchStep, RunCreated, RunArming, RunStarted, RunRejected, RunUncertain,
       SpawnRoot, SpawnRootFails, SpawnRootUncertain
  <1>2. ASSUME NEW works \in BOOLEAN, IssueKill(works) PROVE PendingInv'
    BY <1>2 DEF IssueKill
  <1>3. ASSUME Serving, Answered \/ AnsweredThenKill PROVE PendingInv'
    BY <1>3 DEF Serving, Answered, AnsweredThenKill, AfterCommit
  <1>4. ASSUME NEW ch \in Channel, RequestDispatch(ch) PROVE PendingInv'
    BY <1>3, <1>4 DEF RequestDispatch
  <1>5. CASE Request
    BY <1>3, <1>4, <1>5 DEF Request, RequestToken, RequestCompute, ReportCompute, Refuse,
       OperatorStop, Interrupt
  <1>6. CASE Execute
    BY <1>6 DEF Execute, ReleaseChild, ReleaseFails, ReleaseGet, ExecDone
  <1>7. CASE Tick
    <2>1. CASE TickBegin \/ CheckWall \/ TakeSample \/ SampleFails \/ CheckGuard
      BY <2>1 DEF TickBegin, CheckWall, TakeSample, SampleFails, CheckGuard
    <2>2. CASE ReapDone \/ Sweep \/ \E a \in ActionId : ReapChild(a)
      BY <2>2 DEF ReapDone, Sweep, ReapChild
    <2>3. CASE NothingToStop \/ GiveUpConfirming \/ \E works \in BOOLEAN : RetryKill(works)
      BY <2>3 DEF NothingToStop, GiveUpConfirming, RetryKill
    <2>4. CASE DrainEffects \/ FinalSample \/ CloseContainment \/ FinalizeRun
      BY <2>4 DEF DrainEffects, FinalSample, CloseContainment, FinalizeRun
    <2> QED
      BY <1>7, <2>1, <2>2, <2>3, <2>4 DEF Tick
  <1>8. CASE Leave \/ Pass \/ (\E c \in Channel : Exit(c)) \/ UNCHANGED vars
    BY <1>8 DEF Leave, Pass, Exit, vars
  <1> QED
    BY <1>1, <1>2, <1>5, <1>6, <1>7, <1>8 DEF Next

-------------------------------------------------------------------------------
(***************************************************************************)
(* The engine implements the reducer.                                      *)
(***************************************************************************)
LEMMA StopRefines ==
    ASSUME NEW reason, Stop(reason),
           reason \in {"OPERATOR", "SIGNAL", "ROOT_EXIT", "WALL_CAP", "SENSOR_FAULT",
                       "ENERGY_GUARD", "MEASUREMENT_OVERRUN", "CONTAINMENT_FAULT"}
    PROVE  CoreNext
  BY SupervisorAssumption DEF CoreNext, Stopping

\* Every step of the engine is a step of RunCore or leaves it alone.
LEMMA StepRefines ==
    ASSUME PendingInv, [Next]_vars
    PROVE  [CoreNext]_coreVars
  <1> USE DEF engineVars, hostVars
  <1>1. CASE LaunchStep
    <2>1. CASE RunUncertain \/ SpawnRootUncertain
      BY <2>1, StopRefines DEF RunUncertain, SpawnRootUncertain
    <2>2. CASE RunCreated \/ RunArming \/ RunStarted \/ RunRejected
      BY <2>2 DEF RunCreated, RunArming, RunStarted, RunRejected, CoreNext, Launch
    <2>3. CASE SpawnRoot \/ SpawnRootFails
      BY <2>3 DEF SpawnRoot, SpawnRootFails
    <2> QED
      BY <1>1, <2>1, <2>2, <2>3 DEF LaunchStep
  <1>2. ASSUME NEW works \in BOOLEAN, IssueKill(works) PROVE CoreNext
    BY <1>2 DEF IssueKill, CoreNext, Stopping
  <1>3. CASE Request
    <2>1. ASSUME NEW ch \in Channel, RequestToken(ch) PROVE CoreNext
      <3>1. Approved \subseteq Payload
        BY DEF Payload
      <3> QED
        BY <2>1, <3>1 DEF RequestToken, CoreNext, Admission
    <2>2. ASSUME NEW ch \in Channel, RequestDispatch(ch) PROVE CoreNext
      BY <2>2 DEF RequestDispatch, CoreNext, Admission
    <2>3. ASSUME NEW ch \in Channel, RequestCompute(ch) PROVE CoreNext
      BY <2>3 DEF RequestCompute, CoreNext, Compute
    <2>4. ASSUME NEW ch \in Channel, ReportCompute(ch) PROVE CoreNext
      BY <2>4 DEF ReportCompute, CoreNext, Compute
    <2>5. CASE Refuse
      BY <2>5 DEF Refuse, CoreNext, Admission
    <2>6. CASE OperatorStop \/ Interrupt
      BY <2>6, StopRefines DEF OperatorStop, Interrupt
    <2> QED
      BY <1>3, <2>1, <2>2, <2>3, <2>4, <2>5, <2>6 DEF Request
  <1>4. CASE Execute
    BY <1>4 DEF Execute, ReleaseChild, ReleaseFails, ReleaseGet, PendingInv, CoreNext,
       Resolution
  <1>5. CASE Tick
    <2>1. CASE TickBegin \/ CheckWall \/ CheckGuard
      BY <2>1, StopRefines DEF TickBegin, CheckWall, CheckGuard
    <2>2. CASE TakeSample \/ SampleFails
      BY <2>2, StopRefines DEF TakeSample, SampleFails, CoreNext, Stopping
    <2>3. ASSUME NEW a \in ActionId, ReapChild(a) PROVE CoreNext
      BY <2>3 DEF ReapChild, CoreNext, Resolution
    <2>4. CASE ReapDone \/ NothingToStop \/ \E works \in BOOLEAN : RetryKill(works)
      BY <2>4 DEF ReapDone, NothingToStop, RetryKill
    <2>5. CASE Sweep
      BY <2>5 DEF Sweep, CoreNext, Admission
    <2>6. CASE GiveUpConfirming \/ FinalSample \/ CloseContainment \/ FinalizeRun
      BY <2>6 DEF GiveUpConfirming, FinalSample, CloseContainment, FinalizeRun, CoreNext,
         Stopping
    <2>7. CASE DrainEffects
      <3>1. Unresolved \subseteq ActionId
        BY DEF Unresolved
      <3> QED
        BY <2>7, <3>1 DEF DrainEffects, CoreNext, Resolution
    <2> QED
      BY <1>5, <2>1, <2>2, <2>3, <2>4, <2>5, <2>6, <2>7 DEF Tick
  <1>6. CASE Leave \/ Pass \/ (\E c \in Channel : Exit(c)) \/ UNCHANGED vars
    BY <1>6 DEF Leave, Pass, Exit, vars, CoreNext
  <1> QED
    BY <1>1, <1>2, <1>3, <1>4, <1>5, <1>6 DEF Next

\* The hand-over is as PendingInv says.
LEMMA PendingCorrect == Spec => []PendingInv
  <1>1. Init => PendingInv
    BY DEF Init, PendingInv
  <1> QED
    BY <1>1, PendingStep, PTL DEF Spec

\* The engine changes the reducer and the journal only by whole reducer
\* operations, each with its transaction (class Run, engine.py).
THEOREM EngineRefinesCore == Spec => CoreSpec
  <1>1. Init => CoreInit
    BY DEF Init
  <1> QED
    BY <1>1, StepRefines, PendingCorrect, PTL DEF Spec, CoreSpec

\* So the supervisor's journal always replays to its own state.
THEOREM EngineJournalCorrect == Spec => []JournalAgrees
  BY EngineRefinesCore, JournalCorrect, PTL

-------------------------------------------------------------------------------
(***************************************************************************)
(* Stops and kills.                                                        *)
(***************************************************************************)

\* Between the latch and the kill the engine does nothing else.
KillInv == stopReason # NoReason => killIssued \/ pc = "kill"

\* A step that neither latches a stop nor comes from the kill keeps KillInv.
LEMMA KillKept ==
    ASSUME KillInv, UNCHANGED <<stopReason, killIssued>>, pc # "kill" \/ UNCHANGED pc
    PROVE  KillInv'
  BY DEF KillInv

\* RunCore operations that latch nothing leave the stop alone.
LEMMA NoLatch ==
    ASSUME \/ Create \/ Arm \/ Start \/ Reject \/ Deny \/ ExpireTokens
           \/ ObserveFault \/ RecordSample \/ KillUnconfirmed \/ ContainmentEmpty \/ Finalize
           \/ Resolution
           \/ \E ch \in Channel, p \in Payload, t \in TokenId :
                 \/ IssueToken(ch, p, t)
                 \/ DispatchLate(ch, p, t)
                 \/ \E a \in ActionId : Dispatch(ch, p, t, a)
           \/ \E ch \in Channel, w \in Work, c \in ComputeId : Reserve(ch, w, c)
           \/ \E ch \in Channel, c \in ComputeId, n \in 0..MaxObserved :
                 FinishCompute(ch, c, n)
    PROVE  UNCHANGED stopVars
  <1>1. CASE Create \/ Arm \/ Start \/ Reject \/ Deny \/ ExpireTokens
    BY <1>1 DEF Create, Arm, Start, Reject, Deny, ExpireTokens
  <1>2. CASE \/ ObserveFault \/ RecordSample \/ KillUnconfirmed \/ ContainmentEmpty
             \/ Finalize
    BY <1>2 DEF ObserveFault, RecordSample, KillUnconfirmed, ContainmentEmpty, Finalize
  <1>3. CASE Resolution
    BY <1>3 DEF Resolution, FinishAction, Drain
  <1>4. ASSUME NEW ch \in Channel, NEW p \in Payload, NEW t \in TokenId,
               \/ IssueToken(ch, p, t)
               \/ DispatchLate(ch, p, t)
               \/ \E a \in ActionId : Dispatch(ch, p, t, a)
        PROVE  UNCHANGED stopVars
    BY <1>4 DEF IssueToken, DispatchLate, Dispatch
  <1>5. ASSUME NEW ch \in Channel, NEW w \in Work, NEW c \in ComputeId, Reserve(ch, w, c)
        PROVE  UNCHANGED stopVars
    BY <1>5 DEF Reserve
  <1>6. ASSUME NEW ch \in Channel, NEW c \in ComputeId, NEW n \in 0..MaxObserved,
               FinishCompute(ch, c, n)
        PROVE  UNCHANGED stopVars
    BY <1>6 DEF FinishCompute
  <1> QED
    BY <1>1, <1>2, <1>3, <1>4, <1>5, <1>6

\* No step leaves a latched stop without its kill.
LEMMA KillStep ==
    ASSUME KillInv, PendingInv, [Next]_vars
    PROVE  KillInv'
  <1> USE DEF engineVars, hostVars, Goto, Kill, stopVars
  <1>0. ASSUME pc' = "kill" PROVE KillInv'
    BY <1>0 DEF KillInv
  <1>1. CASE LaunchStep
    <2>1. CASE RunUncertain \/ SpawnRootUncertain
      BY <1>0, <2>1 DEF RunUncertain, SpawnRootUncertain
    <2>2. CASE RunCreated \/ RunArming \/ RunStarted \/ RunRejected
      BY <2>2, NoLatch, KillKept DEF RunCreated, RunArming, RunStarted, RunRejected
    <2>3. CASE SpawnRoot \/ SpawnRootFails
      BY <2>3, KillKept DEF SpawnRoot, SpawnRootFails, coreVars
    <2> QED
      BY <1>1, <2>1, <2>2, <2>3 DEF LaunchStep
  <1>2. ASSUME NEW works \in BOOLEAN, IssueKill(works) PROVE KillInv'
    BY <1>2 DEF IssueKill, RecordKill, KillInv
  <1>3. CASE Request
    <2>0. AnsweredThenKill => pc' = "kill"
      BY DEF AnsweredThenKill
    <2>1. ASSUME NEW ch \in Channel, RequestToken(ch) PROVE KillInv'
      <3>1. Approved \subseteq Payload
        BY DEF Payload
      <3> QED
        BY <1>0, <2>0, <2>1, <3>1, NoLatch, KillKept DEF RequestToken, Serving
    <2>2. ASSUME NEW ch \in Channel, RequestDispatch(ch) PROVE KillInv'
      BY <2>2, NoLatch, KillKept DEF RequestDispatch, Serving
    <2>3. ASSUME NEW ch \in Channel, RequestCompute(ch) PROVE KillInv'
      BY <1>0, <2>0, <2>3, NoLatch, KillKept DEF RequestCompute, Serving
    <2>4. ASSUME NEW ch \in Channel, ReportCompute(ch) PROVE KillInv'
      <3>1. PICK c \in ComputeId, n \in 0..MaxObserved :
               \/ FinishCompute(ch, c, n) /\ Answered
               \/ /\ OverEnvelope(ch, c, n)
                  /\ IF MayLatch THEN AnsweredThenKill ELSE Answered
        BY <2>4 DEF ReportCompute
      <3>2. CASE FinishCompute(ch, c, n)
        BY <2>4, <3>2, NoLatch, KillKept DEF ReportCompute, Serving
      <3>3. CASE OverEnvelope(ch, c, n) /\ MayLatch /\ AnsweredThenKill
        BY <1>0, <2>0, <3>3
      <3>4. CASE OverEnvelope(ch, c, n) /\ ~MayLatch
        <4>1. UNCHANGED stopVars
          BY <3>4 DEF OverEnvelope
        <4> QED
          BY <2>4, <4>1, KillKept DEF ReportCompute, Serving
      <3> QED
        BY <3>1, <3>2, <3>3, <3>4
    <2>5. CASE Refuse
      BY <2>5, NoLatch, KillKept DEF Refuse, Serving
    <2>6. CASE OperatorStop \/ Interrupt
      BY <1>0, <2>0, <2>6 DEF OperatorStop, Interrupt
    <2> QED
      BY <1>3, <2>1, <2>2, <2>3, <2>4, <2>5, <2>6 DEF Request
  <1>4. CASE Execute
    <2>1. pending \in ActionId /\ pc # "kill"
      BY <1>4 DEF Execute, ReleaseChild, ReleaseFails, ReleaseGet, PendingInv
    <2>2. CASE ReleaseChild
      BY <2>1, <2>2, KillKept DEF ReleaseChild, coreVars
    <2>3. CASE ReleaseFails \/ ReleaseGet
      <3>1. Resolution
        BY <2>1, <2>3 DEF ReleaseFails, ReleaseGet, Resolution
      <3> QED
        BY <2>1, <3>1, NoLatch, KillKept
    <2> QED
      BY <1>4, <2>2, <2>3 DEF Execute
  <1>5. CASE Tick
    <2>1. CASE TickBegin \/ CheckWall \/ CheckGuard
      BY <1>0, <2>1, KillKept DEF TickBegin, CheckWall, CheckGuard, coreVars
    <2>2. CASE TakeSample
      BY <2>2, NoLatch, KillKept DEF TakeSample, coreVars
    <2>3. CASE SampleFails
      <3>1. CASE state = "UNCONFIRMED"
        BY <2>3, <3>1, NoLatch, KillKept DEF SampleFails, Stop, MayLatch
      <3>2. CASE state # "UNCONFIRMED"
        BY <1>0, <2>3, <3>2 DEF SampleFails
      <3> QED
        BY <3>1, <3>2
    <2>4. ASSUME NEW a \in ActionId, ReapChild(a) PROVE KillInv'
      <3>1. Resolution
        BY <2>4 DEF ReapChild, Resolution
      <3> QED
        BY <2>4, <3>1, NoLatch, KillKept DEF ReapChild
    <2>5. CASE ReapDone \/ NothingToStop \/ \E works \in BOOLEAN : RetryKill(works)
      BY <2>5, KillKept DEF ReapDone, NothingToStop, RetryKill, coreVars
    <2>6. CASE Sweep
      BY <2>6, NoLatch, KillKept DEF Sweep, coreVars
    <2>7. CASE GiveUpConfirming \/ FinalSample \/ CloseContainment \/ FinalizeRun
      BY <2>7, NoLatch, KillKept
         DEF GiveUpConfirming, FinalSample, CloseContainment, FinalizeRun, coreVars
    <2>8. CASE DrainEffects
      <3>1. Resolution \/ UNCHANGED coreVars
        <4>1. Unresolved \subseteq ActionId
          BY DEF Unresolved
        <4> QED
          BY <2>8, <4>1 DEF DrainEffects, Resolution
      <3> QED
        BY <2>8, <3>1, NoLatch, KillKept DEF DrainEffects, coreVars
    <2> QED
      BY <1>5, <2>1, <2>2, <2>3, <2>4, <2>5, <2>6, <2>7, <2>8 DEF Tick
  <1>6. CASE Leave \/ Pass \/ (\E c \in Channel : Exit(c)) \/ UNCHANGED vars
    BY <1>6, KillKept DEF Leave, Pass, Elapse, Exit, vars, coreVars, control
  <1> QED
    BY <1>1, <1>2, <1>3, <1>4, <1>5, <1>6 DEF Next

\* Whichever source latches a stop, the engine has attempted and recorded the
\* hard stop by the time it looks at anything else (Run._latch, Run._fault and
\* Run._handle_checked each end in _issue_kill, engine.py).
THEOREM StopIsKilledAlways == Spec => []StopIsKilled
  <1>1. Init => KillInv
    BY DEF Init, CoreInit, KillInv
  <1>2. KillInv => StopIsKilled
    BY DEF KillInv, StopIsKilled
  <1> QED
    BY <1>1, <1>2, KillStep, PendingCorrect, PTL DEF Spec

-------------------------------------------------------------------------------
(***************************************************************************)
(* What the engine does to the host: effects are released once, after      *)
(* their dispatch is durable and before any stop, every live child is      *)
(* watched, and closed containment is empty.                               *)
(***************************************************************************)

Closed == {"FINALIZING", "COMPLETED", "KILLED", "FAILED"}

-------------------------------------------------------------------------------
(***************************************************************************)
(* The inductive invariant.                                                *)
(***************************************************************************)
EffectTypeOK ==
    /\ ret \in {"idle", "wall", "sample", "reap"}
    /\ watched \subseteq ActionId
    /\ released \in [ActionId -> {0, 1}]
    /\ task \in [Channel -> {"none", "alive", "exited"}]

\* An action that does not exist yet has had no effect.
Unborn == \A a \in ActionId : actionState[a] = "NONE" => released[a] = 0 /\ task[a] = "none"

\* The action about to be executed is fresh, and the run is still running.
Fresh ==
    pc = "exec" =>
        /\ actionState[pending] = "DISPATCHED"
        /\ released[pending] = 0
        /\ task[pending] = "none"
        /\ state = "RUNNING"

\* Nothing is started after the drain.
Drained ==
    /\ pc = "spawn" => state = "RUNNING"
    /\ pc \in {"empty", "close"} => Alive = {} /\ Unresolved = {}
    /\ state \in Closed => Alive = {} /\ Unresolved = {}

EffectInv == EffectTypeOK /\ Unborn /\ Fresh /\ LiveChildIsWatched /\ Drained

-------------------------------------------------------------------------------
(***************************************************************************)
(* Steps that start, watch and resolve nothing.                            *)
(***************************************************************************)
LEMMA EffectFrame ==
    ASSUME EffectInv, UNCHANGED <<actionState, released, task, watched>>,
           ret' \in {"idle", "wall", "sample", "reap"},
           pc' \notin {"exec", "spawn", "empty", "close"},
           state' \in Closed => state \in Closed \/ pc = "close"
    PROVE  EffectInv'
  BY DEF EffectInv, EffectTypeOK, Unborn, Fresh, LiveChildIsWatched, Drained, Alive,
     Unresolved

\* Reducer operations that dispatch and resolve nothing, and close nothing.
LEMMA Elsewhere ==
    ASSUME \/ UNCHANGED coreVars
           \/ Create \/ Arm \/ Start \/ Reject \/ Deny \/ ExpireTokens
           \/ ObserveFault \/ RecordSample \/ RecordKill \/ KillUnconfirmed \/ Finalize
           \/ \E reason : Stop(reason)
           \/ \E p : SpawnCapReached(p)
           \/ \E w : FlopsCapReached(w)
           \/ \E ch, p, t : IssueToken(ch, p, t) \/ DispatchLate(ch, p, t)
           \/ \E ch, w, c : Reserve(ch, w, c)
           \/ \E ch, c, n : FinishCompute(ch, c, n) \/ OverEnvelope(ch, c, n)
    PROVE  UNCHANGED actionState /\ (state' \in Closed => state \in Closed)
  <1> USE DEF Closed, stopVars, tokenVars, actionVars, computeVars, workVars
  <1>1. CASE UNCHANGED coreVars
    BY <1>1 DEF coreVars
  <1>2. CASE Create \/ Arm \/ Start \/ Reject \/ Deny \/ ExpireTokens
    BY <1>2 DEF Create, Arm, Start, Reject, Deny, ExpireTokens
  <1>3. CASE ObserveFault \/ RecordSample \/ RecordKill \/ KillUnconfirmed \/ Finalize
    BY <1>3 DEF ObserveFault, RecordSample, RecordKill, KillUnconfirmed, Finalize
  <1>4. CASE \/ \E reason : Stop(reason)
             \/ \E p : SpawnCapReached(p)
             \/ \E w : FlopsCapReached(w)
    BY <1>4 DEF Stop, SpawnCapReached, FlopsCapReached, Latch
  <1>5. CASE \/ \E ch, p, t : IssueToken(ch, p, t) \/ DispatchLate(ch, p, t)
             \/ \E ch, w, c : Reserve(ch, w, c)
    BY <1>5 DEF IssueToken, DispatchLate, Reserve
  <1>6. ASSUME NEW ch, NEW c, NEW n, FinishCompute(ch, c, n) \/ OverEnvelope(ch, c, n)
        PROVE  UNCHANGED actionState /\ (state' \in Closed => state \in Closed)
    BY <1>6 DEF FinishCompute, OverEnvelope, Latch
  <1> QED
    BY <1>1, <1>2, <1>3, <1>4, <1>5, <1>6

\* FinishAction changes the action it names and no other.
LEMMA FinishOne ==
    ASSUME TypeOK, NEW a \in ActionId, NEW to \in {"SUCCEEDED", "FAILED"},
           FinishAction(a, to)
    PROVE  /\ UNCHANGED state
           /\ actionState[a] = "DISPATCHED"
           /\ actionState'[a] = to
           /\ \A b \in ActionId : b # a => actionState'[b] = actionState[b]
           /\ Unresolved' \subseteq Unresolved
  BY DEF FinishAction, Resolvable, TypeOK, Unresolved

\* An entry of a client or an operator: an action it dispatches is new.
LEMMA EffectRequest ==
    ASSUME EffectInv, PendingInv, TypeOK, Request
    PROVE  EffectInv'
  <1> USE DEF Goto, Kill, engineVars, hostVars
  <1>1. ASSUME Serving, Answered \/ AnsweredThenKill,
               UNCHANGED actionState, state' \in Closed => state \in Closed
        PROVE  EffectInv'
    <2>1. AfterCommit = "idle" /\ UNCHANGED <<released, task, watched>>
      BY <1>1 DEF Serving, PendingInv, AfterCommit, Answered, AnsweredThenKill
    <2>2. ret' \in {"idle", "wall", "sample", "reap"} /\ pc' \in {"idle", "kill"}
      BY <1>1, <2>1 DEF EffectInv, EffectTypeOK, Answered, AnsweredThenKill
    <2> QED
      BY <1>1, <2>1, <2>2, EffectFrame
  <1>2. ASSUME NEW ch \in Channel, RequestToken(ch) PROVE EffectInv'
    BY <1>1, <1>2, Elsewhere DEF RequestToken
  <1>3. ASSUME NEW ch \in Channel, NEW p \in Payload, NEW t \in TokenId,
               Serving, DispatchLate(ch, p, t), Answered
        PROVE  EffectInv'
    BY <1>1, <1>3, Elsewhere
  <1>4. ASSUME NEW ch \in Channel, NEW p \in Payload, NEW t \in TokenId, NEW a \in ActionId,
               Dispatch(ch, p, t, a), pending' = a, Goto("exec"),
               UNCHANGED <<watched, released, hostVars>>
        PROVE  EffectInv'
    <2>1. /\ state = "RUNNING" /\ UNCHANGED state /\ actionState[a] = "NONE"
          /\ actionState'[a] = "DISPATCHED"
          /\ \A b \in ActionId : b # a => actionState'[b] = actionState[b]
      BY <1>4 DEF Dispatch, Admitting, TypeOK
    <2>2. EffectTypeOK'
      BY <1>4 DEF EffectInv, EffectTypeOK
    <2>3. Unborn' /\ Fresh'
      BY <1>4, <2>1 DEF EffectInv, Unborn, Fresh
    <2>4. LiveChildIsWatched'
      BY <1>4, <2>1 DEF EffectInv, Unborn, LiveChildIsWatched
    <2>5. Drained'
      BY <1>4, <2>1 DEF Drained, Closed
    <2> QED
      BY <2>2, <2>3, <2>4, <2>5 DEF EffectInv
  <1>5. ASSUME NEW ch \in Channel, RequestDispatch(ch) PROVE EffectInv'
    BY <1>3, <1>4, <1>5 DEF RequestDispatch
  <1>6. ASSUME NEW ch \in Channel, RequestCompute(ch) PROVE EffectInv'
    BY <1>1, <1>6, Elsewhere DEF RequestCompute
  <1>7. ASSUME NEW ch \in Channel, ReportCompute(ch) PROVE EffectInv'
    BY <1>1, <1>7, Elsewhere DEF ReportCompute
  <1>8. CASE Refuse
    BY <1>1, <1>8, Elsewhere DEF Refuse
  <1>9. CASE OperatorStop \/ Interrupt
    BY <1>1, <1>9, Elsewhere DEF OperatorStop, Interrupt
  <1> QED
    BY <1>2, <1>5, <1>6, <1>7, <1>8, <1>9 DEF Request

\* A step of the launch releases no action.
LEMMA EffectLaunch ==
    ASSUME EffectInv, TypeOK, LaunchStep
    PROVE  EffectInv'
  <1> USE DEF Goto, Kill, engineVars, hostVars
  <1>1. CASE RunCreated \/ RunArming \/ RunRejected \/ RunUncertain
    <2>1. UNCHANGED actionState /\ (state' \in Closed => state \in Closed)
      BY <1>1, Elsewhere DEF RunCreated, RunArming, RunRejected, RunUncertain
    <2> QED
      BY <1>1, <2>1, EffectFrame DEF RunCreated, RunArming, RunRejected, RunUncertain,
         EffectInv, EffectTypeOK
  <1>2. CASE RunStarted
    <2>1. UNCHANGED actionState /\ state' = "RUNNING" /\ state # "RUNNING"
      BY <1>2 DEF RunStarted, Start, workVars, actionVars
    <2> QED
      BY <1>2, <2>1 DEF RunStarted, EffectInv, EffectTypeOK, Unborn, Fresh,
         LiveChildIsWatched, Drained, Closed
  <1>3. CASE SpawnRootFails
    BY <1>3, EffectFrame DEF SpawnRootFails, coreVars, workVars, actionVars, EffectInv,
       EffectTypeOK
  <1>4. CASE SpawnRoot \/ SpawnRootUncertain
    <2>1. /\ UNCHANGED <<actionState, released, watched>> /\ pc = "spawn"
          /\ task' = [task EXCEPT ![Root] = "alive"]
          /\ pc' \in {"idle", "kill"} /\ ret' \in {"idle", ret}
          /\ state' \in Closed => state \in Closed
      BY <1>4, Elsewhere DEF SpawnRoot, SpawnRootUncertain
    <2>2. state = "RUNNING"
      BY <2>1 DEF EffectInv, Drained
    <2>3. \A a \in ActionId : task'[a] = task[a]
      BY <2>1, SupervisorAssumption DEF EffectInv, EffectTypeOK
    <2>4. task' \in [Channel -> {"none", "alive", "exited"}]
      BY <2>1 DEF EffectInv, EffectTypeOK
    <2> QED
      BY <2>1, <2>2, <2>3, <2>4 DEF EffectInv, EffectTypeOK, Unborn, Fresh,
         LiveChildIsWatched, Drained, Closed
  <1> QED
    BY <1>1, <1>2, <1>3, <1>4 DEF LaunchStep

\* The dispatched action is executed: a child is started and watched, or it failed.
LEMMA EffectExecute ==
    ASSUME EffectInv, PendingInv, TypeOK, Execute
    PROVE  EffectInv'
  <1> USE DEF Goto, engineVars, hostVars
  <1>1. /\ pc = "exec" /\ pending \in ActionId /\ pc' = "idle" /\ ret' = ret
        /\ actionState[pending] = "DISPATCHED" /\ released[pending] = 0
        /\ task[pending] = "none" /\ state = "RUNNING"
    BY DEF Execute, ReleaseChild, ReleaseFails, ReleaseGet, ExecDone, PendingInv, EffectInv,
       Fresh
  <1>2. CASE ReleaseChild
    <2>1. /\ UNCHANGED <<actionState, state>>
          /\ task' = [task EXCEPT ![pending] = "alive"]
          /\ watched' = watched \cup {pending}
          /\ released' = [released EXCEPT ![pending] = @ + 1]
      BY <1>2 DEF ReleaseChild, Released, coreVars, workVars, actionVars
    <2>2. EffectTypeOK'
      BY <1>1, <2>1, SupervisorAssumption DEF EffectInv, EffectTypeOK
    <2>3. Unborn' /\ LiveChildIsWatched'
      BY <1>1, <2>1, SupervisorAssumption DEF EffectInv, EffectTypeOK, Unborn,
         LiveChildIsWatched
    <2>4. Fresh' /\ Drained'
      BY <1>1, <2>1 DEF Fresh, Drained, Closed
    <2> QED
      BY <2>2, <2>3, <2>4 DEF EffectInv
  <1>3. CASE ReleaseFails \/ ReleaseGet
    <2>1. PICK to \in {"SUCCEEDED", "FAILED"} : FinishAction(pending, to)
      BY <1>3 DEF ReleaseFails, ReleaseGet
    <2>2. /\ UNCHANGED <<state, task, watched>>
          /\ actionState'[pending] = to
          /\ \A b \in ActionId : b # pending => actionState'[b] = actionState[b]
      BY <1>1, <1>3, <2>1, FinishOne DEF ReleaseFails, ReleaseGet
    <2>3. released' = released \/ released' = [released EXCEPT ![pending] = @ + 1]
      BY <1>3 DEF ReleaseFails, ReleaseGet, Released
    <2>4. EffectTypeOK'
      BY <1>1, <2>2, <2>3 DEF EffectInv, EffectTypeOK
    <2>5. Unborn'
      BY <1>1, <2>2, <2>3 DEF EffectInv, EffectTypeOK, Unborn
    <2>6. LiveChildIsWatched'
      BY <1>1, <2>2 DEF EffectInv, LiveChildIsWatched
    <2>7. Fresh' /\ Drained'
      BY <1>1, <2>2 DEF Fresh, Drained, Closed
    <2> QED
      BY <2>4, <2>5, <2>6, <2>7 DEF EffectInv
  <1> QED
    BY <1>2, <1>3 DEF Execute

\* A tick resolves actions whose child is gone.
LEMMA EffectTick ==
    ASSUME EffectInv, PendingInv, TypeOK, Tick
    PROVE  EffectInv'
  <1> USE DEF Goto, Kill, engineVars, hostVars
  <1>1. CASE TickBegin \/ CheckWall \/ CheckGuard
    <2>1. UNCHANGED actionState /\ (state' \in Closed => state \in Closed)
      BY <1>1, Elsewhere DEF TickBegin, CheckWall, CheckGuard
    <2> QED
      BY <1>1, <2>1, EffectFrame DEF TickBegin, CheckWall, CheckGuard, EffectInv,
         EffectTypeOK
  <1>2. CASE TakeSample \/ SampleFails \/ Sweep
    <2>1. UNCHANGED actionState /\ (state' \in Closed => state \in Closed)
      BY <1>2, Elsewhere DEF TakeSample, SampleFails, Sweep
    <2> QED
      BY <1>2, <2>1, EffectFrame DEF TakeSample, SampleFails, Sweep, EffectInv, EffectTypeOK
  <1>3. CASE \/ ReapDone \/ NothingToStop \/ GiveUpConfirming
             \/ \E works \in BOOLEAN : RetryKill(works)
    <2>1. UNCHANGED actionState /\ (state' \in Closed => state \in Closed)
      BY <1>3, Elsewhere DEF ReapDone, NothingToStop, GiveUpConfirming, RetryKill
    <2>2. UNCHANGED <<released, task, watched, ret>> /\ pc' \in {"sweep", "idle"}
      BY <1>3 DEF ReapDone, NothingToStop, GiveUpConfirming, RetryKill, CgroupKill
    <2> QED
      BY <2>1, <2>2, EffectFrame DEF EffectInv, EffectTypeOK
  <1>4. ASSUME NEW a \in ActionId, ReapChild(a) PROVE EffectInv'
    <2>1. PICK to \in {"SUCCEEDED", "FAILED"} : FinishAction(a, to)
      BY <1>4 DEF ReapChild
    <2>2. /\ UNCHANGED <<state, task, released, ret>> /\ pc' = "reap"
          /\ watched' = watched \ {a} /\ task[a] = "exited"
      BY <1>4, <2>1, FinishOne DEF ReapChild, Reapable
    <2>3. /\ actionState[a] = "DISPATCHED" /\ actionState'[a] = to
          /\ \A b \in ActionId : b # a => actionState'[b] = actionState[b]
          /\ Unresolved' \subseteq Unresolved
      BY <2>1, FinishOne
    <2>4. EffectTypeOK' /\ Fresh'
      BY <2>2 DEF EffectInv, EffectTypeOK, Fresh
    <2>5. Unborn' /\ LiveChildIsWatched'
      BY <2>2, <2>3 DEF EffectInv, Unborn, LiveChildIsWatched
    <2>6. Drained'
      BY <2>2, <2>3 DEF EffectInv, Drained, Alive
    <2> QED
      BY <2>4, <2>5, <2>6 DEF EffectInv
  <1>5. CASE DrainEffects
    <2>1. /\ pc' = "empty" /\ Alive = {} /\ UNCHANGED <<released, task, ret>>
          /\ watched' \subseteq watched
      BY <1>5 DEF DrainEffects, Populated
    <2>2. /\ UNCHANGED state /\ Unresolved' = {}
          /\ \A a \in ActionId : actionState'[a] = "NONE" => actionState[a] = "NONE"
      <3>1. CASE UNCHANGED coreVars /\ Unresolved = {}
        BY <3>1 DEF coreVars, workVars, actionVars, Unresolved
      <3>2. ASSUME NEW unknown \in SUBSET (Unresolved \cap watched),
                   Drain(Unresolved \ unknown, unknown)
            PROVE  /\ UNCHANGED state /\ Unresolved' = {}
                   /\ \A a \in ActionId : actionState'[a] = "NONE" => actionState[a] = "NONE"
        BY <3>2 DEF Drain, Mark, Unresolved, TypeOK
      <3> QED
        BY <1>5, <3>1, <3>2 DEF DrainEffects
    <2>3. EffectTypeOK' /\ Fresh' /\ Unborn'
      BY <2>1, <2>2 DEF EffectInv, EffectTypeOK, Fresh, Unborn
    <2>4. \A c \in Channel : task[c] # "alive"
      BY <2>1 DEF Alive
    <2>5. LiveChildIsWatched'
      BY <2>1, <2>4, SupervisorAssumption DEF LiveChildIsWatched
    <2>6. Drained'
      BY <2>1, <2>2 DEF Drained, Alive
    <2> QED
      BY <2>3, <2>5, <2>6 DEF EffectInv
  <1>6. CASE FinalSample
    <2>1. UNCHANGED actionState /\ (state' \in Closed => state \in Closed)
      BY <1>6, Elsewhere DEF FinalSample
    <2> QED
      BY <1>6, <2>1 DEF FinalSample, EffectInv, EffectTypeOK, Unborn, Fresh,
         LiveChildIsWatched, Drained, Alive, Unresolved
  <1>7. CASE CloseContainment \/ FinalizeRun
    <2>1. UNCHANGED actionState
      BY <1>7 DEF CloseContainment, FinalizeRun, ContainmentEmpty, Finalize, workVars,
         actionVars
    <2>2. CASE CloseContainment
      BY <2>1, <2>2, EffectFrame DEF CloseContainment, EffectInv, EffectTypeOK
    <2>3. CASE FinalizeRun
      <3>1. state \in Closed
        BY <2>3 DEF FinalizeRun, Finalize, Closed
      <3> QED
        BY <2>1, <2>3, <3>1, EffectFrame DEF FinalizeRun, EffectInv, EffectTypeOK
    <2> QED
      BY <1>7, <2>2, <2>3
  <1> QED
    BY <1>1, <1>2, <1>3, <1>4, <1>5, <1>6, <1>7 DEF Tick

\* A child exits.
LEMMA EffectExit ==
    ASSUME EffectInv, PendingInv, NEW c \in Channel, Exit(c)
    PROVE  EffectInv'
  <1>1. /\ UNCHANGED <<state, actionState, pc, ret, pending, released, watched>>
        /\ task[c] = "alive" /\ task' = [task EXCEPT ![c] = "exited"]
    BY DEF Exit, coreVars, control, engineVars, workVars, actionVars
  <1>2. task' \in [Channel -> {"none", "alive", "exited"}]
    BY <1>1 DEF EffectInv, EffectTypeOK
  <1>3. \A d \in Channel :
           /\ task'[d] = "alive" => task[d] = "alive"
           /\ task[d] = "none" => task'[d] = "none"
    BY <1>1 DEF EffectInv, EffectTypeOK
  <1>4. Alive' \subseteq Alive
    BY <1>3 DEF Alive
  <1>5. EffectTypeOK' /\ Unborn' /\ LiveChildIsWatched'
    BY <1>1, <1>2, <1>3, SupervisorAssumption DEF EffectInv, EffectTypeOK, Unborn,
       LiveChildIsWatched
  <1>6. Drained'
    BY <1>1, <1>4 DEF EffectInv, Drained, Unresolved
  <1>7. Fresh'
    BY <1>1, <1>3, SupervisorAssumption DEF EffectInv, PendingInv, Fresh
  <1> QED
    BY <1>5, <1>6, <1>7 DEF EffectInv

\* Every step keeps the invariant of effects.
LEMMA EffectStep ==
    ASSUME EffectInv, PendingInv, TypeOK, [Next]_vars
    PROVE  EffectInv'
  <1>1. ASSUME NEW works \in BOOLEAN, IssueKill(works) PROVE EffectInv'
    BY <1>1, Elsewhere, EffectFrame DEF IssueKill, CgroupKill, Goto, engineVars, EffectInv,
       EffectTypeOK
  <1>2. CASE Leave \/ Pass
    BY <1>2, EffectFrame DEF Leave, Pass, Elapse, control, engineVars, hostVars, coreVars,
       workVars, actionVars, EffectInv, EffectTypeOK
  <1>3. CASE UNCHANGED vars
    BY <1>3 DEF vars, coreVars, control, engineVars, hostVars, workVars, actionVars,
       EffectInv, EffectTypeOK, Unborn, Fresh, LiveChildIsWatched, Drained, Alive, Unresolved
  <1> QED
    BY <1>1, <1>2, <1>3, EffectLaunch, EffectRequest, EffectExecute, EffectTick, EffectExit
       DEF Next

\* The invariant of effects holds.
LEMMA EffectCorrect == Spec => []EffectInv
  <1>1. Init => EffectInv
    <2> SUFFICES ASSUME Init PROVE EffectInv
      OBVIOUS
    <2>1. EffectTypeOK
      BY DEF Init, EffectTypeOK
    <2>2. Unborn /\ LiveChildIsWatched
      BY SupervisorAssumption DEF Init, CoreInit, Unborn, LiveChildIsWatched
    <2>3. Fresh /\ Drained
      BY DEF Init, CoreInit, Fresh, Drained, Closed
    <2> QED
      BY <2>1, <2>2, <2>3 DEF EffectInv
  <1>2. EffectInv /\ PendingInv /\ TypeOK /\ [Next]_vars => EffectInv'
    BY EffectStep
  <1> QED
    BY <1>1, <1>2, PendingCorrect, EngineRefinesCore, TypeCorrect, PTL DEF Spec

-------------------------------------------------------------------------------
(***************************************************************************)
(* What follows.                                                           *)
(***************************************************************************)

\* A child that runs is watched and its action unresolved, so the supervisor
\* always learns how it ended (child_procs and _observe_children, engine.py).
THEOREM LiveChildIsWatchedAlways == Spec => []LiveChildIsWatched
  <1>1. EffectInv => LiveChildIsWatched
    BY DEF EffectInv
  <1> QED
    BY <1>1, EffectCorrect, PTL

\* The effect of a dispatch happens at most once and only after the token's
\* spending is in the journal (Run._handle_checked, then _execute_action).
THEOREM ReleasedOnceAndDurableAlways == Spec => []ReleasedOnceAndDurable
  <1>1. EffectInv /\ JournalAgrees /\ OneActionPerToken => ReleasedOnceAndDurable
    <2> SUFFICES ASSUME EffectInv, JournalAgrees, OneActionPerToken, NEW a \in ActionId
                 PROVE  /\ released[a] <= 1
                        /\ released[a] = 1 => /\ journal.act[a] # "NONE"
                                              /\ journal.tok[origin[a].token] = "SPENT"
      BY DEF ReleasedOnceAndDurable
    <2>1. released[a] \in {0, 1}
      BY DEF EffectInv, EffectTypeOK
    <2>2. released[a] = 1 => actionState[a] # "NONE"
      BY DEF EffectInv, Unborn
    <2> QED
      BY <2>1, <2>2 DEF JournalAgrees, OneActionPerToken
  <1> QED
    BY <1>1, EffectCorrect, EngineRefinesCore, JournalCorrect, OneActionPerTokenCorrect, PTL

\* No effect reaches the host after a stop latched: an action is executed in
\* the same entry as its dispatch, while the run is RUNNING (engine.py).
THEOREM NothingReleasedAfterStopAlways == Spec => NothingReleasedAfterStop
  <1>1. ASSUME EffectInv, PendingInv, StopInv, [Next]_vars
        PROVE  [released' # released => stopReason = NoReason]_vars
    <2>1. CASE UNCHANGED vars
      BY <2>1
    <2>2. CASE Execute
      BY <1>1, <2>2 DEF Execute, ReleaseChild, ReleaseFails, ReleaseGet, EffectInv, Fresh,
         StopInv
    <2>3. CASE Next /\ ~Execute
      <3> USE DEF engineVars
      <3>1. CASE LaunchStep
        BY <3>1 DEF LaunchStep, RunCreated, RunArming, RunStarted, RunRejected,
           RunUncertain, SpawnRoot, SpawnRootFails, SpawnRootUncertain
      <3>2. CASE Request
        BY <3>2 DEF Request, RequestToken, RequestDispatch, RequestCompute, ReportCompute,
           Refuse, OperatorStop, Interrupt, Answered, AnsweredThenKill
      <3>3. CASE Tick
        BY <3>3 DEF Tick, TickBegin, CheckWall, TakeSample, SampleFails, CheckGuard,
           ReapChild, ReapDone, Sweep, NothingToStop, GiveUpConfirming, RetryKill,
           DrainEffects, FinalSample, CloseContainment, FinalizeRun
      <3>4. CASE \/ Leave \/ Pass \/ (\E c \in Channel : Exit(c))
                 \/ \E works \in BOOLEAN : IssueKill(works)
        BY <3>4 DEF Leave, Pass, Exit, IssueKill
      <3> QED
        BY <2>3, <3>1, <3>2, <3>3, <3>4 DEF Next
    <2> QED
      BY <1>1, <2>1, <2>2, <2>3
  <1>2. Spec => []StopInv
    BY EngineRefinesCore, StopCorrect, PTL
  <1> QED
    BY <1>1, <1>2, EffectCorrect, PendingCorrect, PTL DEF Spec, NothingReleasedAfterStop

\* Once containment is journalled empty no process lives, no action is open
\* and none waits to be executed: what RunFinalized tells a verifier is so
\* (Run._check_empty and _finalize, engine.py).
THEOREM ContainmentIsClosedAlways == Spec => []ContainmentIsClosed
  <1>1. EffectInv /\ PendingInv /\ InflightExact => ContainmentIsClosed
    <2> SUFFICES ASSUME EffectInv, PendingInv, InflightExact, state \in Closed
                 PROVE  Alive = {} /\ Unresolved = {} /\ inflight = 0 /\ pending = NoAction
      BY DEF ContainmentIsClosed, Closed
    <2>1. Alive = {} /\ Unresolved = {}
      BY DEF EffectInv, Drained
    <2>2. inflight = 0
      BY <2>1, FS_EmptySet DEF InflightExact
    <2>3. pending = NoAction
      BY DEF EffectInv, Fresh, PendingInv, Closed
    <2> QED
      BY <2>1, <2>2, <2>3
  <1> QED
    BY <1>1, EffectCorrect, PendingCorrect, EngineRefinesCore, InflightCorrect, PTL

-------------------------------------------------------------------------------
(***************************************************************************)
(* Type correctness of the engine.                                         *)
(***************************************************************************)
\* What EffectTypeOK and PendingInv leave open.
ControlTypeOK == pc \in Steps /\ doomed \subseteq Channel /\ driving \in BOOLEAN

\* Every step goes on at a step of the engine, and only processes are killed.
LEMMA ControlStep ==
    ASSUME ControlTypeOK, EffectTypeOK, PendingInv, [Next]_vars
    PROVE  ControlTypeOK'
  <1> USE DEF ControlTypeOK, Steps, control, engineVars, hostVars, Goto, Kill
  <1>1. ASSUME NEW works \in BOOLEAN, CgroupKill(works)
        PROVE  doomed' \subseteq Channel /\ driving' = driving
    BY <1>1 DEF CgroupKill, Alive
  <1>2. CASE LaunchStep
    BY <1>2 DEF LaunchStep, RunCreated, RunArming, RunStarted, RunRejected, RunUncertain,
       SpawnRoot, SpawnRootFails, SpawnRootUncertain
  <1>3. ASSUME NEW works \in BOOLEAN, IssueKill(works)
        PROVE  ControlTypeOK'
    BY <1>1, <1>3 DEF IssueKill, EffectTypeOK
  <1>4. ASSUME Serving, Answered \/ AnsweredThenKill
        PROVE  ControlTypeOK'
    BY <1>4 DEF Answered, AnsweredThenKill, AfterCommit
  <1>5. ASSUME NEW ch \in Channel, RequestDispatch(ch)
        PROVE  ControlTypeOK'
    BY <1>4, <1>5 DEF RequestDispatch
  <1>6. CASE Request
    BY <1>4, <1>5, <1>6 DEF Request, RequestToken, RequestCompute, ReportCompute, Refuse,
       OperatorStop, Interrupt
  <1>7. CASE Execute
    BY <1>7 DEF Execute, ReleaseChild, ReleaseFails, ReleaseGet, ExecDone
  <1>8. CASE Tick
    <2>1. CASE TickBegin \/ CheckWall \/ TakeSample \/ SampleFails \/ CheckGuard
      BY <2>1 DEF TickBegin, CheckWall, TakeSample, SampleFails, CheckGuard
    <2>2. CASE ReapDone \/ Sweep \/ \E a \in ActionId : ReapChild(a)
      BY <2>2 DEF ReapDone, Sweep, ReapChild
    <2>3. CASE NothingToStop \/ GiveUpConfirming \/ \E works \in BOOLEAN : RetryKill(works)
      BY <1>1, <2>3 DEF NothingToStop, GiveUpConfirming, RetryKill
    <2>4. CASE DrainEffects \/ FinalSample \/ CloseContainment \/ FinalizeRun
      BY <2>4 DEF DrainEffects, FinalSample, CloseContainment, FinalizeRun
    <2> QED
      BY <1>8, <2>1, <2>2, <2>3, <2>4 DEF Tick
  <1>9. CASE Leave \/ Pass \/ (\E c \in Channel : Exit(c)) \/ UNCHANGED vars
    BY <1>9 DEF Leave, Pass, Exit, vars
  <1> QED
    BY <1>2, <1>3, <1>6, <1>7, <1>8, <1>9 DEF Next

\* The reducer's types are kept because the engine implements the reducer, the
\* engine's own by every step (class Run, engine.py).
THEOREM SupervisorTypesAlways == Spec => []SupervisorTypeOK
  <1>1. Init => ControlTypeOK
    BY DEF Init, ControlTypeOK, Steps
  <1>2. ControlTypeOK /\ EffectInv /\ PendingInv /\ [Next]_vars => ControlTypeOK'
    BY ControlStep DEF EffectInv
  <1>3. TypeOK /\ ControlTypeOK /\ EffectInv /\ PendingInv => SupervisorTypeOK
    <2> SUFFICES ASSUME TypeOK, ControlTypeOK, EffectTypeOK, PendingInv
                 PROVE  SupervisorTypeOK
      BY DEF EffectInv
    <2>1. released \in [ActionId -> Nat]
      <3>1. {0, 1} \subseteq Nat
        OBVIOUS
      <3> QED
        BY <3>1 DEF EffectTypeOK
    <2> QED
      BY <2>1 DEF SupervisorTypeOK, ControlTypeOK, EffectTypeOK, PendingInv
  <1> QED
    BY <1>1, <1>2, <1>3, EffectCorrect, PendingCorrect, EngineRefinesCore, TypeCorrect, PTL
       DEF Spec
===============================================================================
