----------------------------- MODULE RunCoreProofs -----------------------------
(***************************************************************************)
(* Theorems about RunCore, for every value of its constants.               *)
(*                                                                         *)
(* First type correctness and the agreement with the journal, then what a  *)
(* stop forbids, then the counters, the tokens and the FLOPs, one action   *)
(* at a time.                                                              *)
(***************************************************************************)
EXTENDS RunCore, ReplayProofs, SumProofs

-------------------------------------------------------------------------------
(***************************************************************************)
(* Type correctness.                                                       *)
(***************************************************************************)

\* The final event of a run is well typed.
LEMMA OutcomeTyped ==
    \A reason : WellTyped(About("RunFinalized", {}, Outcome(reason)))
  <1>1. \A reason : Outcome(reason) \in TerminalStates
    BY DEF Outcome, TerminalStates
  <1> QED
    BY <1>1, CommittedTypes

\* What TypeOK alone does not say: a reservation that exists has its booking.
Booked == \A c \in ComputeId : computeState[c] # "NONE" => booking[c] \in Bookings

TypeInv == TypeOK /\ Booked

\* Latching keeps the types.
LEMMA LatchType ==
    ASSUME TypeOK, NEW reason \in Reasons, Latch(reason)
    PROVE  /\ state' \in RunStates
           /\ stopReason' \in Reasons \cup {NoReason}
           /\ stopAt' \in Nat
           /\ killIssued' \in BOOLEAN
  BY DEF TypeOK, Latch, RunStates, LiveStates

\* Committing an event keeps the journal a replay.
LEMMA CommitType ==
    ASSUME journal \in Replays, NEW e, WellTyped(e), Commit(e)
    PROVE  journal' \in Replays
  BY ApplyType DEF Commit

\* Committing two events does too.
LEMMA Commit2Type ==
    ASSUME journal \in Replays, NEW e, WellTyped(e), NEW f, WellTyped(f), Commit2(e, f)
    PROVE  journal' \in Replays
  <1>1. Apply(journal, e) \in Replays
    BY ApplyType
  <1> QED
    BY <1>1, ApplyType DEF Commit2

\* Every variable keeps its type in every behaviour.
LEMMA TypeStep ==
    ASSUME TypeInv, [CoreNext]_coreVars
    PROVE  TypeInv'
  <1> USE CoreAssumption
  <1> USE DEF TypeInv, Booked, stopVars, tokenVars, actionVars, computeVars, workVars
  <1>1. CASE Elapse
    BY <1>1 DEF TypeOK, Elapse
  <1>2. CASE Create
    <2>1. Commit(Event("RunCreated")) /\ WellTyped(Event("RunCreated"))
      BY <1>2, CommittedTypes DEF Create, PlainKinds
    <2>2. journal' \in Replays
      BY <2>1, CommitType DEF TypeOK
    <2> QED
      BY <1>2, <2>2 DEF TypeOK, Create, RunStates, LiveStates, TerminalStates
  <1>3. CASE Arm
    <2>1. Commit(Event("RunArming")) /\ WellTyped(Event("RunArming"))
      BY <1>3, CommittedTypes DEF Arm, PlainKinds
    <2>2. journal' \in Replays
      BY <2>1, CommitType DEF TypeOK
    <2> QED
      BY <1>3, <2>2 DEF TypeOK, Arm, RunStates, LiveStates, TerminalStates
  <1>4. CASE Start
    <2>1. Commit(Event("RunStarted")) /\ WellTyped(Event("RunStarted"))
      BY <1>4, CommittedTypes DEF Start, PlainKinds
    <2>2. journal' \in Replays
      BY <2>1, CommitType DEF TypeOK
    <2> QED
      BY <1>4, <2>2 DEF TypeOK, Start, RunStates, LiveStates, TerminalStates
  <1>5. CASE Reject
    <2>1. Commit(Event("RunRejected")) /\ WellTyped(Event("RunRejected"))
      BY <1>5, CommittedTypes DEF Reject, PlainKinds
    <2>2. journal' \in Replays
      BY <2>1, CommitType DEF TypeOK
    <2> QED
      BY <1>5, <2>2 DEF TypeOK, Reject, RunStates, LiveStates, TerminalStates
  <1>6. CASE Deny
    <2>1. Commit(Denied) /\ WellTyped(Event("RequestDenied"))
      BY <1>6, CommittedTypes DEF Deny, PlainKinds
    <2>2. journal' \in Replays
      BY <2>1, CommitType DEF TypeOK, Denied
    <2> QED
      BY <1>6, <2>2 DEF TypeOK, Deny, RunStates, LiveStates, TerminalStates
  <1>7. CASE ObserveFault
    <2>1. Commit(Event("FaultObserved")) /\ WellTyped(Event("FaultObserved"))
      BY <1>7, CommittedTypes DEF ObserveFault, PlainKinds
    <2>2. journal' \in Replays
      BY <2>1, CommitType DEF TypeOK
    <2> QED
      BY <1>7, <2>2 DEF TypeOK, ObserveFault, RunStates, LiveStates, TerminalStates
  <1>8. CASE RecordSample
    <2>1. Commit(Event("SampleRecorded")) /\ WellTyped(Event("SampleRecorded"))
      BY <1>8, CommittedTypes DEF RecordSample, PlainKinds
    <2>2. journal' \in Replays
      BY <2>1, CommitType DEF TypeOK
    <2> QED
      BY <1>8, <2>2 DEF TypeOK, RecordSample, RunStates, LiveStates, TerminalStates
  <1>9. CASE RecordKill
    <2>1. Commit(Event("KillIssued")) /\ WellTyped(Event("KillIssued"))
      BY <1>9, CommittedTypes DEF RecordKill, PlainKinds
    <2>2. journal' \in Replays
      BY <2>1, CommitType DEF TypeOK
    <2> QED
      BY <1>9, <2>2 DEF TypeOK, RecordKill, RunStates, LiveStates, TerminalStates
  <1>10. CASE KillUnconfirmed
    <2>1. Commit(Event("KillUnconfirmed")) /\ WellTyped(Event("KillUnconfirmed"))
      BY <1>10, CommittedTypes DEF KillUnconfirmed, PlainKinds
    <2>2. journal' \in Replays
      BY <2>1, CommitType DEF TypeOK
    <2> QED
      BY <1>10, <2>2 DEF TypeOK, KillUnconfirmed, RunStates, LiveStates, TerminalStates
  <1>11. CASE ContainmentEmpty
    <2>1. Commit(Event("ContainmentEmpty")) /\ WellTyped(Event("ContainmentEmpty"))
      BY <1>11, CommittedTypes DEF ContainmentEmpty, PlainKinds
    <2>2. journal' \in Replays
      BY <2>1, CommitType DEF TypeOK
    <2> QED
      BY <1>11, <2>2 DEF TypeOK, ContainmentEmpty, RunStates, LiveStates, TerminalStates
  <1>12. ASSUME NEW p \in Payload, SpawnCapReached(p) PROVE TypeInv'
    <2>1. WellTyped(Denied) /\ WellTyped(Event("StopLatched"))
      BY CommittedTypes DEF PlainKinds, Denied
    <2>2. journal' \in Replays
      BY <1>12, <2>1, Commit2Type DEF TypeOK, SpawnCapReached
    <2>3. "SPAWN_CAP" \in Reasons
      BY DEF Reasons, BudgetReasons
    <2> QED
      BY <1>12, <2>2, <2>3, LatchType DEF TypeOK, SpawnCapReached
  <1>13. ASSUME NEW w \in Work, FlopsCapReached(w) PROVE TypeInv'
    <2>1. WellTyped(Denied) /\ WellTyped(Event("StopLatched"))
      BY CommittedTypes DEF PlainKinds, Denied
    <2>2. journal' \in Replays
      BY <1>13, <2>1, Commit2Type DEF TypeOK, FlopsCapReached
    <2>3. "FLOPS_CAP" \in Reasons
      BY DEF Reasons, BudgetReasons
    <2> QED
      BY <1>13, <2>2, <2>3, LatchType DEF TypeOK, FlopsCapReached
  <1>14. ASSUME NEW reason \in StopSources, Stop(reason) PROVE TypeInv'
    <2>1. WellTyped(Event("StopLatched"))
      BY CommittedTypes DEF PlainKinds
    <2>2. journal' \in Replays
      BY <1>14, <2>1, CommitType DEF TypeOK, Stop
    <2> QED
      BY <1>14, <2>2, LatchType DEF TypeOK, Stop
  <1>15. ASSUME NEW ch \in Channel, NEW p \in Payload, NEW t \in TokenId,
              IssueToken(ch, p, t)
       PROVE  TypeInv'
    <2>1. journal' \in Replays
      BY <1>15, CommittedTypes, CommitType DEF TypeOK, IssueToken
    <2> QED
      BY <1>15, <2>1 DEF TypeOK, IssueToken, TokenStates, Grants
  <1>16. ASSUME NEW ch \in Channel, NEW p \in Payload, NEW t \in TokenId, NEW a \in ActionId,
              Dispatch(ch, p, t, a)
       PROVE  TypeInv'
    <2>1. journal' \in Replays
      BY <1>16, CommittedTypes, CommitType DEF TypeOK, Dispatch
    <2> QED
      BY <1>16, <2>1 DEF TypeOK, Dispatch, TokenStates, ActionStates, Origins
  <1>17. ASSUME NEW ch \in Channel, NEW p \in Payload, NEW t \in TokenId,
              DispatchLate(ch, p, t)
       PROVE  TypeInv'
    <2>1. WellTyped(Denied) /\ WellTyped(About("TokenExpired", {t}, "EXPIRED"))
      BY CommittedTypes DEF PlainKinds, Denied
    <2>2. journal' \in Replays
      BY <1>17, <2>1, Commit2Type DEF TypeOK, DispatchLate
    <2> QED
      BY <1>17, <2>2 DEF TypeOK, DispatchLate, TokenStates
  <1>18. CASE ExpireTokens
    <2>1. journal' \in Replays
      BY <1>18, CommittedTypes, CommitType DEF TypeOK, ExpireTokens
    <2>2. tokenState' \in [TokenId -> TokenStates]
      BY <1>18, MarkType DEF TypeOK, ExpireTokens, TokenStates
    <2> QED
      BY <1>18, <2>1, <2>2 DEF TypeOK, ExpireTokens
  <1>19. ASSUME NEW a \in ActionId, NEW to \in {"SUCCEEDED", "FAILED"},
              FinishAction(a, to)
       PROVE  TypeInv'
    <2>1. journal' \in Replays
      BY <1>19, CommittedTypes, CommitType DEF TypeOK, FinishAction
    <2> QED
      BY <1>19, <2>1 DEF TypeOK, FinishAction, ActionStates
  <1>20. ASSUME NEW failed \in SUBSET ActionId, NEW unknown \in SUBSET ActionId,
              Drain(failed, unknown)
       PROVE  TypeInv'
    <2>1. /\ WellTyped(About("ActionFinished", failed, "FAILED"))
          /\ WellTyped(About("ActionUnknown", unknown, "UNKNOWN"))
      BY CommittedTypes
    <2>2. journal' \in Replays
      BY <1>20, <2>1, Commit2Type DEF TypeOK, Drain
    <2>3. Mark(actionState, failed, "FAILED") \in [ActionId -> ActionStates]
      BY MarkType DEF TypeOK, ActionStates
    <2>4. actionState' \in [ActionId -> ActionStates]
      BY <1>20, <2>3, MarkType DEF Drain, ActionStates
    <2>5. Cardinality(failed \cup unknown) \in Nat
      BY FS_Subset, FS_CardinalityType
    <2> QED
      BY <1>20, <2>2, <2>4, <2>5 DEF TypeOK, Drain
  <1>21. ASSUME NEW ch \in Channel, NEW w \in Work, NEW c \in ComputeId,
              Reserve(ch, w, c)
       PROVE  TypeInv'
    <2>1. journal' \in Replays
      BY <1>21, CommittedTypes, CommitType DEF TypeOK, Reserve
    <2> QED
      BY <1>21, <2>1 DEF TypeOK, Reserve, ComputeStates, Bookings
  <1>22. ASSUME NEW ch \in Channel, NEW c \in ComputeId, NEW k \in 0..MaxObserved,
              FinishCompute(ch, c, k)
       PROVE  TypeInv'
    <2>1. journal' \in Replays
      BY <1>22, CommittedTypes, CommitType DEF TypeOK, FinishCompute
    <2> QED
      BY <1>22, <2>1 DEF TypeOK, FinishCompute, ComputeStates, Bookings
  <1>23. ASSUME NEW ch \in Channel, NEW c \in ComputeId, NEW k \in 0..MaxObserved,
              OverEnvelope(ch, c, k)
       PROVE  TypeInv'
    <2>1. WellTyped(Denied) /\ WellTyped(Event("StopLatched"))
      BY CommittedTypes DEF PlainKinds, Denied
    <2>2. "FLOPS_CAP" \in Reasons
      BY DEF Reasons, BudgetReasons
    <2>3. CASE MayLatch
      <3>1. journal' \in Replays
        BY <1>23, <2>1, <2>3, Commit2Type DEF TypeOK, OverEnvelope
      <3> QED
        BY <1>23, <2>2, <2>3, <3>1, LatchType DEF TypeOK, OverEnvelope
    <2>4. CASE ~MayLatch
      <3>1. journal' \in Replays
        BY <1>23, <2>1, <2>4, CommitType DEF TypeOK, OverEnvelope
      <3> QED
        BY <1>23, <2>4, <3>1 DEF TypeOK, OverEnvelope
    <2> QED
      BY <2>3, <2>4
  <1>24. CASE Finalize
    <2>1. WellTyped(About("RunFinalized", {}, Outcome(stopReason)))
      BY OutcomeTyped DEF TypeOK
    <2>2. journal' \in Replays
      BY <1>24, <2>1, CommitType DEF TypeOK, Finalize
    <2> QED
      BY <1>24, <2>2 DEF TypeOK, Finalize, Outcome, RunStates, TerminalStates
  <1>25. CASE UNCHANGED coreVars
    BY <1>25 DEF TypeOK, coreVars
  <1> QED
    BY <1>1, <1>2, <1>3, <1>4, <1>5, <1>6, <1>7, <1>8, <1>9, <1>10, <1>11,
       <1>12, <1>13, <1>14, <1>15, <1>16, <1>17, <1>18, <1>19, <1>20, <1>21,
       <1>22, <1>23, <1>24, <1>25 DEF CoreNext, Launch, Admission, Resolution,
       Compute, Stopping

\* The initial state has the types.
LEMMA InitType == CoreInit => TypeInv
  <1>1. EmptyReplay \in Replays
    BY DEF EmptyReplay, Replays, TokenStates, ActionStates, ComputeStates
  <1>2. ASSUME CoreInit PROVE TypeOK
    <2>1. /\ state \in RunStates
          /\ stopReason \in Reasons \cup {NoReason}
          /\ killIssued \in BOOLEAN
          /\ journal \in Replays
      BY <1>1, <1>2 DEF CoreInit, RunStates, LiveStates
    <2>2. /\ tokenState \in [TokenId -> TokenStates]
          /\ actionState \in [ActionId -> ActionStates]
          /\ computeState \in [ComputeId -> ComputeStates]
      BY <1>2 DEF CoreInit, TokenStates, ActionStates, ComputeStates
    <2>3. /\ grant \in [TokenId -> Grants \cup {NoGrant}]
          /\ origin \in [ActionId -> Origins \cup {NoOrigin}]
          /\ booking \in [ComputeId -> Bookings \cup {NoBooking}]
      BY <1>2 DEF CoreInit
    <2>4. stopAt \in Nat /\ spawnIssued \in Nat /\ inflight \in Int
          /\ chargedFlops \in Nat /\ now \in Nat
      BY <1>2 DEF CoreInit
    <2> QED
      BY <2>1, <2>2, <2>3, <2>4 DEF TypeOK
  <1>3. CoreInit => Booked
    BY DEF CoreInit, Booked
  <1> QED
    BY <1>2, <1>3 DEF TypeInv

\* Type correctness of the reducer, the ledger of charges and the journal,
\* whatever operations are called with, in any order (core.py).
THEOREM TypeCorrect == CoreSpec => []TypeOK
  <1>1. CoreInit => TypeInv
    BY InitType
  <1>2. TypeInv /\ [CoreNext]_coreVars => TypeInv'
    BY TypeStep
  <1>3. TypeInv => TypeOK
    BY DEF TypeInv
  <1> QED
    BY <1>1, <1>2, <1>3, PTL DEF CoreSpec

-------------------------------------------------------------------------------
(***************************************************************************)
(* The journal and the reducer agree.                                      *)
(***************************************************************************)

\* What an admission does to the run, the stop and the compute ledger: nothing,
\* but for the spawn cap, and nothing at all outside RUNNING.
LEMMA AdmissionSummary ==
    ASSUME Admission
    PROVE  /\ UNCHANGED <<computeVars, now>>
           /\ \/ UNCHANGED <<state, stopVars>>
              \/ MayLatch /\ Latch("SPAWN_CAP") /\ UNCHANGED workVars
           /\ state = "RUNNING" \/ UNCHANGED workVars
  <1> DEFINE Summary ==
        /\ UNCHANGED <<computeVars, now>>
        /\ \/ UNCHANGED <<state, stopVars>>
           \/ MayLatch /\ Latch("SPAWN_CAP") /\ UNCHANGED workVars
        /\ state = "RUNNING" \/ UNCHANGED workVars
  <1>1. ASSUME Deny PROVE Summary
    BY <1>1 DEF Deny, workVars
  <1>2. ASSUME NEW p \in Payload, SpawnCapReached(p) PROVE Summary
    BY <1>2 DEF SpawnCapReached, workVars
  <1>3. ASSUME ExpireTokens PROVE Summary
    BY <1>3 DEF ExpireTokens
  <1>4. ASSUME NEW ch \in Channel, NEW p \in Payload, NEW t \in TokenId,
               IssueToken(ch, p, t)
        PROVE  Summary
    BY <1>4 DEF IssueToken, Admitting
  <1>5. ASSUME NEW ch \in Channel, NEW p \in Payload, NEW t \in TokenId,
               DispatchLate(ch, p, t)
        PROVE  Summary
    BY <1>5 DEF DispatchLate, Admitting
  <1>6. ASSUME NEW ch \in Channel, NEW p \in Payload, NEW t \in TokenId,
               NEW a \in ActionId, Dispatch(ch, p, t, a)
        PROVE  Summary
    BY <1>6 DEF Dispatch, Admitting
  <1> HIDE DEF Summary
  <1>7. ASSUME NEW ch \in Channel, NEW p \in Payload, NEW t \in TokenId,
               \/ IssueToken(ch, p, t)
               \/ DispatchLate(ch, p, t)
               \/ \E a \in ActionId : Dispatch(ch, p, t, a)
        PROVE  Summary
    BY <1>4, <1>5, <1>6, <1>7
  <1>8. Summary
    BY <1>1, <1>2, <1>3, <1>7 DEF Admission
  <1> QED
    BY <1>8 DEF Summary

\* The same of the compute operations, and of the FLOP cap.
LEMMA ComputeSummary ==
    ASSUME Compute
    PROVE  /\ UNCHANGED <<tokenVars, actionVars, now>>
           /\ \/ UNCHANGED <<state, stopVars>>
              \/ MayLatch /\ Latch("FLOPS_CAP") /\ UNCHANGED computeVars
           /\ state = "RUNNING" \/ UNCHANGED computeVars
  <1> DEFINE Summary ==
        /\ UNCHANGED <<tokenVars, actionVars, now>>
        /\ \/ UNCHANGED <<state, stopVars>>
           \/ MayLatch /\ Latch("FLOPS_CAP") /\ UNCHANGED computeVars
        /\ state = "RUNNING" \/ UNCHANGED computeVars
  <1>1. ASSUME NEW w \in Work, FlopsCapReached(w) PROVE Summary
    BY <1>1 DEF FlopsCapReached, workVars
  <1>2. ASSUME NEW ch \in Channel, NEW w \in Work, NEW c \in ComputeId,
               Reserve(ch, w, c)
        PROVE  Summary
    BY <1>2 DEF Reserve, Admitting
  <1>3. ASSUME NEW ch \in Channel, NEW c \in ComputeId, NEW n \in 0..MaxObserved,
               FinishCompute(ch, c, n)
        PROVE  Summary
    BY <1>3 DEF FinishCompute, computeVars
  <1>4. ASSUME NEW ch \in Channel, NEW c \in ComputeId, NEW n \in 0..MaxObserved,
               OverEnvelope(ch, c, n)
        PROVE  Summary
    BY <1>4 DEF OverEnvelope, workVars
  <1> HIDE DEF Summary
  <1>5. ASSUME NEW ch \in Channel, NEW c \in ComputeId,
               \/ \E w \in Work : Reserve(ch, w, c)
               \/ \E n \in 0..MaxObserved :
                     FinishCompute(ch, c, n) \/ OverEnvelope(ch, c, n)
        PROVE  Summary
    BY <1>2, <1>3, <1>4, <1>5
  <1>6. Summary
    BY <1>1, <1>5 DEF Compute
  <1> QED
    BY <1>6 DEF Summary

\* Before the first event there is nothing to refuse a report about.
Unused == state = "CREATED" => \A c \in ComputeId : computeState[c] = "NONE"

JournalInv == TypeInv /\ JournalAgrees /\ Unused

\* No step reserves anything in a run that is created.
LEMMA UnusedStep ==
    ASSUME Unused, [CoreNext]_coreVars
    PROVE  Unused'
  <1> USE DEF stopVars, tokenVars, actionVars, computeVars, workVars
  <1>1. CASE Elapse
    BY <1>1 DEF Unused, Elapse
  <1>2. CASE Launch
    BY <1>2 DEF Unused, Launch, Create, Arm, Start, Reject
  <1>3. CASE Admission
    BY <1>3, AdmissionSummary DEF Unused, Latch
  <1>4. CASE Resolution
    BY <1>4 DEF Unused, Resolution, FinishAction, Drain
  <1>5. CASE Compute
    BY <1>5, ComputeSummary DEF Unused, Latch
  <1>6. CASE Stopping
    BY <1>6 DEF Unused, Stopping, Stop, Latch, ObserveFault, RecordSample, RecordKill,
       KillUnconfirmed, ContainmentEmpty, Finalize, Outcome
  <1>7. CASE UNCHANGED coreVars
    BY <1>7 DEF Unused, coreVars
  <1> QED
    BY <1>1, <1>2, <1>3, <1>4, <1>5, <1>6, <1>7 DEF CoreNext

\* A refusal is legal in every live state and changes nothing.
LEMMA DeniedEvent ==
    ASSUME JournalInv, state \in LiveStates, journal.st # "NEW"
    PROVE  Apply(journal, Denied) =
           [st |-> state, tok |-> tokenState, act |-> actionState,
            cmp |-> computeState, ok |-> TRUE]
  <1>1. journal \in Replays /\ journal.ok /\ journal.st = state
    BY DEF JournalInv, TypeInv, TypeOK, JournalAgrees
  <1>2. journal.st \in Sources("RequestDenied") /\ "RequestDenied" \in PlainKinds
    BY <1>1 DEF Sources, PlainKinds
  <1>3. PostState(journal, Event("RequestDenied")) = journal.st
    BY DEF PostState, Event
  <1> QED
    BY <1>1, <1>2, <1>3, PlainEvent DEF Denied, JournalInv, JournalAgrees

\* Refusing and latching in one transaction is legal where a stop may latch.
LEMMA DeniedAndLatched ==
    ASSUME JournalInv, MayLatch, Commit2(Denied, Event("StopLatched"))
    PROVE  journal' = [st |-> "STOPPING", tok |-> tokenState, act |-> actionState,
                       cmp |-> computeState, ok |-> TRUE]
  <1> DEFINE rs == [st |-> state, tok |-> tokenState, act |-> actionState,
                    cmp |-> computeState, ok |-> TRUE]
  <1>1. state \in LiveStates /\ journal.st # "NEW"
    BY DEF JournalInv, JournalAgrees, MayLatch, LiveStates
  <1>2. Apply(journal, Denied) = rs
    BY <1>1, DeniedEvent
  <1>3. rs \in Replays /\ rs.ok
    BY DEF JournalInv, TypeInv, TypeOK, Replays
  <1>4. rs.st \in Sources("StopLatched") /\ "StopLatched" \in PlainKinds
    BY DEF MayLatch, Sources, PlainKinds
  <1>5. PostState(rs, Event("StopLatched")) = "STOPPING"
    BY DEF PostState, Event
  <1> HIDE DEF rs
  <1>6. Apply(rs, Event("StopLatched")) =
          [st |-> "STOPPING", tok |-> rs.tok, act |-> rs.act, cmp |-> rs.cmp, ok |-> TRUE]
    BY <1>3, <1>4, <1>5, PlainEvent
  <1> QED
    BY <1>2, <1>6 DEF Commit2, rs

\* What the events committed so far replay to, once a run is created.
LEMMA Replayed ==
    ASSUME JournalInv
    PROVE  /\ journal \in Replays /\ journal.ok
           /\ state # "CREATED" => journal.st = state
           /\ journal.tok = tokenState /\ journal.act = actionState
           /\ journal.cmp = computeState
  BY DEF JournalInv, TypeInv, TypeOK, JournalAgrees

\* To keep the agreement is to commit what the step does.
LEMMA Agreed ==
    ASSUME state' # "NEW",
           journal' = [st |-> state', tok |-> tokenState', act |-> actionState',
                       cmp |-> computeState', ok |-> TRUE]
    PROVE  JournalAgrees'
  BY DEF JournalAgrees

\* No step parts the journal from memory.
LEMMA JournalStep ==
    ASSUME JournalInv, [CoreNext]_coreVars
    PROVE  JournalAgrees'
  <1> USE CoreAssumption
  <1> USE DEF JournalInv, TypeInv, stopVars, tokenVars, actionVars, computeVars, workVars
  <1>1. CASE Elapse
    BY <1>1 DEF JournalAgrees, Elapse
  <1>2. CASE Create
    <2>1. /\ journal \in Replays /\ journal.ok
          /\ journal.st \in Sources("RunCreated") /\ "RunCreated" \in PlainKinds
      BY <1>2 DEF TypeOK, JournalAgrees, Create, Sources, PlainKinds
    <2>2. PostState(journal, Event("RunCreated")) = "CREATED"
      BY DEF PostState, Event
    <2>3. journal' = [st |-> "CREATED", tok |-> journal.tok,
                      act |-> journal.act, cmp |-> journal.cmp, ok |-> TRUE]
      BY <1>2, <2>1, <2>2, PlainEvent DEF Create, Commit
    <2> QED
      BY <1>2, <2>3 DEF JournalAgrees, Create
  <1>3. CASE Arm
    <2>1. /\ journal \in Replays /\ journal.ok
          /\ journal.st \in Sources("RunArming") /\ "RunArming" \in PlainKinds
      BY <1>3 DEF TypeOK, JournalAgrees, Arm, Sources, PlainKinds
    <2>2. PostState(journal, Event("RunArming")) = "ARMING"
      BY DEF PostState, Event
    <2>3. journal' = [st |-> "ARMING", tok |-> journal.tok,
                      act |-> journal.act, cmp |-> journal.cmp, ok |-> TRUE]
      BY <1>3, <2>1, <2>2, PlainEvent DEF Arm, Commit
    <2> QED
      BY <1>3, <2>3 DEF JournalAgrees, Arm
  <1>4. CASE Start
    <2>1. /\ journal \in Replays /\ journal.ok
          /\ journal.st \in Sources("RunStarted") /\ "RunStarted" \in PlainKinds
      BY <1>4 DEF TypeOK, JournalAgrees, Start, Sources, PlainKinds
    <2>2. PostState(journal, Event("RunStarted")) = "RUNNING"
      BY DEF PostState, Event
    <2>3. journal' = [st |-> "RUNNING", tok |-> journal.tok,
                      act |-> journal.act, cmp |-> journal.cmp, ok |-> TRUE]
      BY <1>4, <2>1, <2>2, PlainEvent DEF Start, Commit
    <2> QED
      BY <1>4, <2>3 DEF JournalAgrees, Start
  <1>5. CASE Reject
    <2>1. /\ journal \in Replays /\ journal.ok
          /\ journal.st \in Sources("RunRejected") /\ "RunRejected" \in PlainKinds
      BY <1>5 DEF TypeOK, JournalAgrees, Reject, Sources, PlainKinds
    <2>2. PostState(journal, Event("RunRejected")) = "REJECTED"
      BY DEF PostState, Event
    <2>3. journal' = [st |-> "REJECTED", tok |-> journal.tok,
                      act |-> journal.act, cmp |-> journal.cmp, ok |-> TRUE]
      BY <1>5, <2>1, <2>2, PlainEvent DEF Reject, Commit
    <2> QED
      BY <1>5, <2>3 DEF JournalAgrees, Reject
  <1>6. CASE ObserveFault
    <2>1. /\ journal \in Replays /\ journal.ok
          /\ journal.st \in Sources("FaultObserved") /\ "FaultObserved" \in PlainKinds
      BY <1>6 DEF TypeOK, JournalAgrees, ObserveFault, Sources, PlainKinds
    <2>2. PostState(journal, Event("FaultObserved")) = journal.st
      BY DEF PostState, Event
    <2>3. journal' = [st |-> journal.st, tok |-> journal.tok,
                      act |-> journal.act, cmp |-> journal.cmp, ok |-> TRUE]
      BY <1>6, <2>1, <2>2, PlainEvent DEF ObserveFault, Commit
    <2> QED
      BY <1>6, <2>3 DEF JournalAgrees, ObserveFault
  <1>7. CASE RecordSample
    <2>1. /\ journal \in Replays /\ journal.ok
          /\ journal.st \in Sources("SampleRecorded") /\ "SampleRecorded" \in PlainKinds
      BY <1>7 DEF TypeOK, JournalAgrees, RecordSample, Sources, PlainKinds
    <2>2. PostState(journal, Event("SampleRecorded")) = journal.st
      BY DEF PostState, Event
    <2>3. journal' = [st |-> journal.st, tok |-> journal.tok,
                      act |-> journal.act, cmp |-> journal.cmp, ok |-> TRUE]
      BY <1>7, <2>1, <2>2, PlainEvent DEF RecordSample, Commit
    <2> QED
      BY <1>7, <2>3 DEF JournalAgrees, RecordSample
  <1>8. CASE RecordKill
    <2>1. /\ journal \in Replays /\ journal.ok
          /\ journal.st \in Sources("KillIssued") /\ "KillIssued" \in PlainKinds
      BY <1>8 DEF TypeOK, JournalAgrees, RecordKill, Sources, PlainKinds
    <2>2. PostState(journal, Event("KillIssued")) = journal.st
      BY DEF PostState, Event
    <2>3. journal' = [st |-> journal.st, tok |-> journal.tok,
                      act |-> journal.act, cmp |-> journal.cmp, ok |-> TRUE]
      BY <1>8, <2>1, <2>2, PlainEvent DEF RecordKill, Commit
    <2> QED
      BY <1>8, <2>3 DEF JournalAgrees, RecordKill
  <1>9. CASE KillUnconfirmed
    <2>1. /\ journal \in Replays /\ journal.ok
          /\ journal.st \in Sources("KillUnconfirmed") /\ "KillUnconfirmed" \in PlainKinds
      BY <1>9 DEF TypeOK, JournalAgrees, KillUnconfirmed, Sources, PlainKinds
    <2>2. PostState(journal, Event("KillUnconfirmed")) = "UNCONFIRMED"
      BY DEF PostState, Event
    <2>3. journal' = [st |-> "UNCONFIRMED", tok |-> journal.tok,
                      act |-> journal.act, cmp |-> journal.cmp, ok |-> TRUE]
      BY <1>9, <2>1, <2>2, PlainEvent DEF KillUnconfirmed, Commit
    <2> QED
      BY <1>9, <2>3 DEF JournalAgrees, KillUnconfirmed
  <1>10. CASE ContainmentEmpty
    <2>1. /\ journal \in Replays /\ journal.ok
          /\ journal.st \in Sources("ContainmentEmpty") /\ "ContainmentEmpty" \in PlainKinds
      BY <1>10 DEF TypeOK, JournalAgrees, ContainmentEmpty, Sources, PlainKinds
    <2>2. PostState(journal, Event("ContainmentEmpty")) = "FINALIZING"
      BY DEF PostState, Event
    <2>3. journal' = [st |-> "FINALIZING", tok |-> journal.tok,
                      act |-> journal.act, cmp |-> journal.cmp, ok |-> TRUE]
      BY <1>10, <2>1, <2>2, PlainEvent DEF ContainmentEmpty, Commit
    <2> QED
      BY <1>10, <2>3 DEF JournalAgrees, ContainmentEmpty
  <1>11. ASSUME NEW reason \in StopSources, Stop(reason) PROVE JournalAgrees'
    <2>1. /\ journal \in Replays /\ journal.ok
          /\ journal.st \in Sources("StopLatched") /\ "StopLatched" \in PlainKinds
      BY <1>11 DEF TypeOK, JournalAgrees, Stop, Sources, PlainKinds, MayLatch
    <2>2. PostState(journal, Event("StopLatched")) = "STOPPING"
      BY DEF PostState, Event
    <2>3. journal' = [st |-> "STOPPING", tok |-> journal.tok,
                      act |-> journal.act, cmp |-> journal.cmp, ok |-> TRUE]
      BY <1>11, <2>1, <2>2, PlainEvent DEF Stop, Commit
    <2> QED
      BY <1>11, <2>3 DEF JournalAgrees, Stop, MayLatch, Latch
  <1>12. CASE Deny
    <2>1. journal' = [st |-> state, tok |-> tokenState, act |-> actionState,
                      cmp |-> computeState, ok |-> TRUE]
      BY <1>12, DeniedEvent DEF Deny, Commit
    <2> QED
      BY <1>12, <2>1 DEF JournalAgrees, Deny, LiveStates
  <1>13. ASSUME NEW p \in Payload, SpawnCapReached(p) PROVE JournalAgrees'
    <2>1. MayLatch /\ Commit2(Denied, Event("StopLatched"))
      BY <1>13 DEF SpawnCapReached
    <2> QED
      BY <1>13, <2>1, DeniedAndLatched DEF JournalAgrees, SpawnCapReached, Latch
  <1>14. ASSUME NEW w \in Work, FlopsCapReached(w) PROVE JournalAgrees'
    <2>1. MayLatch /\ Commit2(Denied, Event("StopLatched"))
      BY <1>14 DEF FlopsCapReached
    <2> QED
      BY <1>14, <2>1, DeniedAndLatched DEF JournalAgrees, FlopsCapReached, Latch
  <1>15. ASSUME NEW ch \in Channel, NEW p \in Payload, NEW t \in TokenId,
              IssueToken(ch, p, t)
       PROVE  JournalAgrees'
    <2>1. /\ journal \in Replays /\ journal.ok /\ journal.st = "RUNNING"
          /\ journal.tok[t] = "NONE"
      BY <1>15, Replayed DEF IssueToken, Admitting
    <2>2. Apply(journal, About("TokenIssued", {t}, "ISSUED")) =
            [st |-> journal.st, tok |-> Mark(journal.tok, {t}, "ISSUED"),
             act |-> journal.act, cmp |-> journal.cmp, ok |-> TRUE]
      BY <2>1, IssueEvent
    <2>3. Mark(tokenState, {t}, "ISSUED") = tokenState'
      BY <1>15 DEF TypeOK, IssueToken, Mark
    <2> QED
      <3>1. /\ state' = state /\ state' # "NEW" /\ journal.st = state
            /\ journal' = Apply(journal, About("TokenIssued", {t}, "ISSUED"))
        BY <1>15, <2>1, Replayed DEF IssueToken, Commit, Admitting
      <3>2. UNCHANGED <<actionState, computeState>>
        BY <1>15 DEF IssueToken
      <3> QED
        BY <2>2, <2>3, <3>1, <3>2, Replayed, Agreed
  <1>16. ASSUME NEW ch \in Channel, NEW p \in Payload, NEW t \in TokenId, NEW a \in ActionId,
              Dispatch(ch, p, t, a)
       PROVE  JournalAgrees'
    <2>1. /\ journal \in Replays /\ journal.ok /\ journal.st = "RUNNING"
          /\ journal.tok[t] = "ISSUED" /\ journal.act[a] = "NONE"
      BY <1>16, Replayed DEF Dispatch, Admitting
    <2>2. Apply(journal, TokenSpent(t, a)) =
            [st |-> journal.st, tok |-> Mark(journal.tok, {t}, "SPENT"),
             act |-> Mark(journal.act, {a}, "DISPATCHED"), cmp |-> journal.cmp, ok |-> TRUE]
      BY <2>1, SpendEvent
    <2>3. /\ Mark(tokenState, {t}, "SPENT") = tokenState'
          /\ Mark(actionState, {a}, "DISPATCHED") = actionState'
      BY <1>16 DEF TypeOK, Dispatch, Mark
    <2> QED
      <3>1. /\ state' = state /\ state' # "NEW" /\ journal.st = state
            /\ journal' = Apply(journal, TokenSpent(t, a))
        BY <1>16, <2>1, Replayed DEF Dispatch, Commit, Admitting
      <3>2. UNCHANGED computeState
        BY <1>16 DEF Dispatch
      <3> QED
        BY <2>2, <2>3, <3>1, <3>2, Replayed, Agreed
  <1>17. ASSUME NEW ch \in Channel, NEW p \in Payload, NEW t \in TokenId,
              DispatchLate(ch, p, t)
       PROVE  JournalAgrees'
    <2>1. /\ journal \in Replays /\ journal.ok /\ journal.st = "RUNNING"
          /\ journal.tok[t] = "ISSUED"
      BY <1>17, Replayed DEF DispatchLate, Admitting, Due
    <2> DEFINE rs == [st |-> "RUNNING", tok |-> tokenState', act |-> actionState,
                      cmp |-> computeState, ok |-> TRUE]
    <2>2. Apply(journal, About("TokenExpired", {t}, "EXPIRED")) =
            [st |-> journal.st, tok |-> Mark(journal.tok, {t}, "EXPIRED"),
             act |-> journal.act, cmp |-> journal.cmp, ok |-> TRUE]
      <3>1. {t} \in SUBSET TokenId /\ \A u \in {t} : journal.tok[u] = "ISSUED"
        BY <2>1
      <3> QED
        BY <2>1, <3>1, ExpireEvent
    <2>3. Mark(tokenState, {t}, "EXPIRED") = tokenState'
      BY <1>17 DEF TypeOK, DispatchLate, Mark
    <2>4. Apply(journal, About("TokenExpired", {t}, "EXPIRED")) = rs
      BY <2>1, <2>2, <2>3 DEF JournalAgrees
    <2>5. rs \in Replays /\ rs.ok
      <3>1. tokenState' \in [TokenId -> TokenStates]
        BY <2>3, MarkType DEF TypeOK, TokenStates
      <3> QED
        BY <3>1 DEF TypeOK, Replays, RunStates, LiveStates
    <2>6. rs.st \in Sources("RequestDenied") /\ "RequestDenied" \in PlainKinds
      BY DEF Sources, PlainKinds, LiveStates
    <2>7. PostState(rs, Event("RequestDenied")) = rs.st
      BY DEF PostState, Event
    <2> HIDE DEF rs
    <2>8. Apply(rs, Denied) =
            [st |-> rs.st, tok |-> rs.tok, act |-> rs.act, cmp |-> rs.cmp, ok |-> TRUE]
      BY <2>5, <2>6, <2>7, PlainEvent DEF Denied
    <2>9. journal' = [st |-> rs.st, tok |-> rs.tok, act |-> rs.act,
                      cmp |-> rs.cmp, ok |-> TRUE]
      BY <1>17, <2>4, <2>8 DEF DispatchLate, Commit2
    <2> QED
      BY <1>17, <2>9 DEF rs, JournalAgrees, DispatchLate, Admitting
  <1>18. CASE ExpireTokens
    <2>1. /\ journal \in Replays /\ journal.ok /\ journal.st = "RUNNING"
          /\ DueTokens \in SUBSET TokenId
          /\ \A t \in DueTokens : journal.tok[t] = "ISSUED"
      BY <1>18 DEF TypeOK, JournalAgrees, ExpireTokens, DueTokens, Due
    <2>2. Apply(journal, About("TokenExpired", DueTokens, "EXPIRED")) =
            [st |-> journal.st, tok |-> Mark(journal.tok, DueTokens, "EXPIRED"),
             act |-> journal.act, cmp |-> journal.cmp, ok |-> TRUE]
      BY <2>1, ExpireEvent
    <2> QED
      BY <1>18, <2>1, <2>2 DEF JournalAgrees, ExpireTokens, Commit
  <1>19. ASSUME NEW a \in ActionId, NEW to \in {"SUCCEEDED", "FAILED"}, FinishAction(a, to)
       PROVE  JournalAgrees'
    <2>1. /\ journal \in Replays /\ journal.ok
          /\ journal.st \in {"RUNNING", "STOPPING", "UNCONFIRMED"}
          /\ journal.act[a] = "DISPATCHED"
      BY <1>19, Replayed DEF FinishAction, Resolvable
    <2>2. Apply(journal, About("ActionFinished", {a}, to)) =
            [st |-> journal.st, tok |-> journal.tok, act |-> Mark(journal.act, {a}, to),
             cmp |-> journal.cmp, ok |-> TRUE]
      BY <2>1, OneAction
    <2>3. Mark(actionState, {a}, to) = actionState'
      BY <1>19 DEF TypeOK, FinishAction, Mark
    <2> QED
      <3>1. /\ state' = state /\ state' # "NEW" /\ journal.st = state
            /\ journal' = Apply(journal, About("ActionFinished", {a}, to))
        BY <1>19, <2>1, Replayed DEF FinishAction, Commit, Resolvable
      <3>2. UNCHANGED <<tokenState, computeState>>
        BY <1>19 DEF FinishAction
      <3> QED
        BY <2>2, <2>3, <3>1, <3>2, Replayed, Agreed
  <1>20. ASSUME NEW failed \in SUBSET ActionId, NEW unknown \in SUBSET ActionId,
              Drain(failed, unknown)
       PROVE  JournalAgrees'
    <2>1. /\ journal \in Replays /\ journal.ok
          /\ journal.st \in {"RUNNING", "STOPPING", "UNCONFIRMED"}
          /\ state = journal.st
          /\ \A a \in failed \cup unknown : journal.act[a] = "DISPATCHED"
      BY <1>20, Replayed DEF Drain, Resolvable
    <2> DEFINE rs == [st |-> state, tok |-> tokenState,
                      act |-> Mark(actionState, failed, "FAILED"),
                      cmp |-> computeState, ok |-> TRUE]
    <2>2. Apply(journal, About("ActionFinished", failed, "FAILED")) = rs
      BY <2>1, ActionEvent DEF ActionKinds, JournalAgrees
    <2>3. rs \in Replays /\ rs.ok /\ rs.st \in {"RUNNING", "STOPPING", "UNCONFIRMED"}
      <3>1. Mark(actionState, failed, "FAILED") \in [ActionId -> ActionStates]
        BY MarkType DEF TypeOK, ActionStates
      <3> QED
        BY <2>1, <3>1 DEF TypeOK, Replays
    <2>4. \A a \in unknown : rs.act[a] = "DISPATCHED"
      BY <1>20, <2>1 DEF Drain, Mark, JournalAgrees, TypeOK
    <2> HIDE DEF rs
    <2>5. Apply(rs, About("ActionUnknown", unknown, "UNKNOWN")) =
            [st |-> rs.st, tok |-> rs.tok, act |-> Mark(rs.act, unknown, "UNKNOWN"),
             cmp |-> rs.cmp, ok |-> TRUE]
      BY <2>3, <2>4, ActionEvent DEF ActionKinds
    <2>6. journal' = [st |-> rs.st, tok |-> rs.tok, act |-> Mark(rs.act, unknown, "UNKNOWN"),
                      cmp |-> rs.cmp, ok |-> TRUE]
      BY <1>20, <2>2, <2>5 DEF Drain, Commit2
    <2> QED
      BY <1>20, <2>1, <2>6 DEF rs, JournalAgrees, Drain
  <1>21. ASSUME NEW ch \in Channel, NEW w \in Work, NEW c \in ComputeId,
              Reserve(ch, w, c)
       PROVE  JournalAgrees'
    <2>1. /\ journal \in Replays /\ journal.ok /\ journal.st = "RUNNING"
          /\ journal.cmp[c] = "NONE"
      BY <1>21, Replayed DEF Reserve, Admitting
    <2>2. Apply(journal, About("ComputeReserved", {c}, "CHARGED")) =
            [st |-> journal.st, tok |-> journal.tok, act |-> journal.act,
             cmp |-> Mark(journal.cmp, {c}, "CHARGED"), ok |-> TRUE]
      BY <2>1, ReserveEvent
    <2>3. Mark(computeState, {c}, "CHARGED") = computeState'
      BY <1>21 DEF TypeOK, Reserve, Mark
    <2> QED
      <3>1. /\ state' = state /\ state' # "NEW" /\ journal.st = state
            /\ journal' = Apply(journal, About("ComputeReserved", {c}, "CHARGED"))
        BY <1>21, <2>1, Replayed DEF Reserve, Commit, Admitting
      <3>2. UNCHANGED <<tokenState, actionState>>
        BY <1>21 DEF Reserve
      <3> QED
        BY <2>2, <2>3, <3>1, <3>2, Replayed, Agreed
  <1>22. ASSUME NEW ch \in Channel, NEW c \in ComputeId, NEW k \in 0..MaxObserved,
              FinishCompute(ch, c, k)
       PROVE  JournalAgrees'
    <2>1. /\ journal \in Replays /\ journal.ok /\ journal.st = "RUNNING"
          /\ journal.cmp[c] = "CHARGED"
      BY <1>22, Replayed DEF FinishCompute, Admitting
    <2>2. Apply(journal, About("ComputeFinished", {c}, "FINISHED")) =
            [st |-> journal.st, tok |-> journal.tok, act |-> journal.act,
             cmp |-> Mark(journal.cmp, {c}, "FINISHED"), ok |-> TRUE]
      BY <2>1, FinishEvent
    <2>3. Mark(computeState, {c}, "FINISHED") = computeState'
      BY <1>22 DEF TypeOK, FinishCompute, Mark
    <2> QED
      <3>1. /\ state' = state /\ state' # "NEW" /\ journal.st = state
            /\ journal' = Apply(journal, About("ComputeFinished", {c}, "FINISHED"))
        BY <1>22, <2>1, Replayed DEF FinishCompute, Commit, Admitting
      <3>2. UNCHANGED <<tokenState, actionState>>
        BY <1>22 DEF FinishCompute
      <3> QED
        BY <2>2, <2>3, <3>1, <3>2, Replayed, Agreed
  <1>23. ASSUME NEW ch \in Channel, NEW c \in ComputeId, NEW k \in 0..MaxObserved,
              OverEnvelope(ch, c, k)
       PROVE  JournalAgrees'
    <2>1. CASE MayLatch
      <3>1. Commit2(Denied, Event("StopLatched")) /\ state' = "STOPPING"
        BY <1>23, <2>1 DEF OverEnvelope, Latch
      <3> QED
        BY <1>23, <2>1, <3>1, DeniedAndLatched DEF JournalAgrees, OverEnvelope
    <2>2. CASE ~MayLatch
      <3>1. state \in LiveStates /\ Commit(Denied) /\ UNCHANGED state
        BY <1>23, <2>2 DEF OverEnvelope
      <3>2. journal.st # "NEW"
        BY <1>23, <3>1 DEF JournalAgrees, Unused, OverEnvelope
      <3> QED
        BY <1>23, <3>1, <3>2, DeniedEvent DEF JournalAgrees, OverEnvelope, Commit, LiveStates
    <2> QED
      BY <2>1, <2>2
  <1>24. CASE Finalize
    <2>1. journal \in Replays /\ journal.ok /\ journal.st = "FINALIZING"
      BY <1>24 DEF TypeOK, JournalAgrees, Finalize
    <2>2. journal' = [st |-> Outcome(stopReason), tok |-> journal.tok,
                      act |-> journal.act, cmp |-> journal.cmp, ok |-> TRUE]
      BY <1>24, <2>1, FinalEvent DEF Finalize, Commit
    <2>3. Outcome(stopReason) # "NEW"
      BY DEF Outcome
    <2> QED
      BY <1>24, <2>2, <2>3 DEF JournalAgrees, Finalize
  <1>25. CASE UNCHANGED coreVars
    BY <1>25 DEF JournalAgrees, coreVars
  <1> QED
    BY <1>1, <1>2, <1>3, <1>4, <1>5, <1>6, <1>7, <1>8, <1>9, <1>10, <1>11,
       <1>12, <1>13, <1>14, <1>15, <1>16, <1>17, <1>18, <1>19, <1>20, <1>21,
       <1>22, <1>23, <1>24, <1>25 DEF CoreNext, Launch, Admission, Resolution,
       Compute, Stopping

\* The committed events always replay, and to the reducer's own state
\* (core.py against replay.py's TRANSITIONS): no order of operations makes the
\* supervisor write a journal its own verifier would refuse.
THEOREM JournalCorrect == CoreSpec => []JournalAgrees
  <1>1. CoreInit => JournalAgrees /\ Unused
    BY DEF CoreInit, JournalAgrees, EmptyReplay, Unused
  <1>2. CoreInit => TypeInv
    BY InitType
  <1>3. JournalInv /\ [CoreNext]_coreVars => JournalInv'
    BY TypeStep, JournalStep, UnusedStep DEF JournalInv
  <1> QED
    BY <1>1, <1>2, <1>3, PTL DEF CoreSpec, JournalInv

-------------------------------------------------------------------------------
(***************************************************************************)
(* Stops.                                                                  *)
(***************************************************************************)

\* A run has a stop reason exactly when it has left the states from which a
\* stop latches, other than by rejection.
StopInv ==
    (stopReason = NoReason) <=> (state \in {"CREATED", "ARMING", "RUNNING", "REJECTED"})

\* Every reason ends in a terminal state.
LEMMA OutcomeFinal ==
    ASSUME NEW reason
    PROVE  Outcome(reason) \in {"COMPLETED", "KILLED", "FAILED"}
  BY DEF Outcome

\* "StopLatched" is the only way in, and it names a reason.
LEMMA StopStep ==
    ASSUME StopInv, [CoreNext]_coreVars
    PROVE  StopInv'
  <1> USE CoreAssumption
  <1> USE DEF stopVars, tokenVars, actionVars, computeVars, workVars
  <1>1. CASE Elapse
    BY <1>1 DEF StopInv, Elapse
  <1>2. CASE Launch
    BY <1>2 DEF StopInv, Launch, Create, Arm, Start, Reject
  <1>3. CASE Admission
    BY <1>3, AdmissionSummary DEF StopInv, Latch, Reasons, BudgetReasons
  <1>4. CASE Resolution
    BY <1>4 DEF StopInv, Resolution, FinishAction, Drain
  <1>5. CASE Compute
    BY <1>5, ComputeSummary DEF StopInv, Latch, Reasons, BudgetReasons
  <1>6. CASE Stopping
    <2>1. ASSUME NEW reason \in StopSources, Stop(reason) PROVE StopInv'
      BY <2>1 DEF StopInv, Stop, Latch
    <2>2. CASE ObserveFault \/ RecordSample \/ RecordKill
      BY <2>2 DEF StopInv, ObserveFault, RecordSample, RecordKill
    <2>3. CASE KillUnconfirmed \/ ContainmentEmpty
      BY <2>3 DEF StopInv, KillUnconfirmed, ContainmentEmpty
    <2>4. CASE Finalize
      BY <2>4, OutcomeFinal DEF StopInv, Finalize
    <2> QED
      BY <1>6, <2>1, <2>2, <2>3, <2>4 DEF Stopping
  <1>7. CASE UNCHANGED coreVars
    BY <1>7 DEF StopInv, coreVars
  <1> QED
    BY <1>1, <1>2, <1>3, <1>4, <1>5, <1>6, <1>7 DEF CoreNext

\* The invariant of stops holds.
LEMMA StopCorrect == CoreSpec => []StopInv
  <1>1. CoreInit => StopInv
    BY DEF CoreInit, StopInv
  <1> QED
    BY <1>1, StopStep, PTL DEF CoreSpec

\* No second source overwrites the first, and the final state is the one the
\* first source calls for (RunCore._latch and finalize, core.py).
THEOREM FirstStopWinsAlways == CoreSpec => FirstStopWins
  <1> DEFINE Kept ==
        /\ stopReason # NoReason => stopReason' = stopReason /\ stopAt' = stopAt
        /\ state' \in {"COMPLETED", "KILLED", "FAILED"} /\ state' # state
              => stopReason # NoReason /\ state' = Outcome(stopReason)
  <1>1. ASSUME StopInv, [CoreNext]_coreVars PROVE [Kept]_coreVars
    <2> USE <1>1
    <2> USE DEF stopVars, tokenVars, actionVars, computeVars, workVars
    <2>1. CASE Elapse
      BY <2>1 DEF Elapse
    <2>2. CASE Launch
      BY <2>2 DEF Launch, Create, Arm, Start, Reject
    <2>3. CASE Admission
      BY <2>3, AdmissionSummary DEF Latch, MayLatch
    <2>4. CASE Resolution
      BY <2>4 DEF Resolution, FinishAction, Drain
    <2>5. CASE Compute
      BY <2>5, ComputeSummary DEF Latch, MayLatch
    <2>6. CASE Stopping
      <3>1. ASSUME NEW reason \in StopSources, Stop(reason) PROVE Kept
        BY <3>1 DEF Stop, Latch, MayLatch
      <3>2. CASE ObserveFault \/ RecordSample \/ RecordKill
        BY <3>2 DEF ObserveFault, RecordSample, RecordKill
      <3>3. CASE KillUnconfirmed \/ ContainmentEmpty
        BY <3>3 DEF KillUnconfirmed, ContainmentEmpty
      <3>4. CASE Finalize
        BY <3>4 DEF StopInv, Finalize
      <3> QED
        BY <2>6, <3>1, <3>2, <3>3, <3>4 DEF Stopping
    <2>7. CASE UNCHANGED coreVars
      BY <2>7
    <2> QED
      BY <2>1, <2>2, <2>3, <2>4, <2>5, <2>6, <2>7 DEF CoreNext
  <1> QED
    BY <1>1, StopCorrect, PTL DEF CoreSpec, FirstStopWins

\* After the latch the reducer admits nothing, whatever is still asked of it
\* (the "state != RUNNING" returns of core.py).
THEOREM NothingAdmittedAfterStopAlways == CoreSpec => NothingAdmittedAfterStop
  <1> DEFINE Closed == stopReason # NoReason =>
        /\ UNCHANGED <<tokenVars, computeVars>>
        /\ \A a \in ActionId :
              actionState'[a] # actionState[a] => actionState[a] = "DISPATCHED"
  <1>1. ASSUME StopInv, TypeOK, [CoreNext]_coreVars PROVE [Closed]_coreVars
    <2> USE <1>1
    <2> USE DEF stopVars, tokenVars, actionVars, computeVars, workVars
    <2>1. CASE Elapse
      BY <2>1 DEF Elapse
    <2>2. CASE Launch
      BY <2>2 DEF Launch, Create, Arm, Start, Reject
    <2>3. CASE Admission
      BY <2>3, AdmissionSummary DEF StopInv
    <2>4. CASE Resolution
      <3>1. ASSUME NEW a \in ActionId, NEW to \in {"SUCCEEDED", "FAILED"},
                   FinishAction(a, to)
            PROVE  Closed
        BY <3>1 DEF FinishAction, Resolvable, TypeOK
      <3>2. ASSUME NEW failed \in SUBSET ActionId, NEW unknown \in SUBSET ActionId,
                   Drain(failed, unknown)
            PROVE  Closed
        BY <3>2 DEF Drain, Resolvable, Mark, TypeOK
      <3> QED
        BY <2>4, <3>1, <3>2 DEF Resolution
    <2>5. CASE Compute
      BY <2>5, ComputeSummary DEF StopInv
    <2>6. CASE Stopping
      BY <2>6 DEF Stopping, Stop, ObserveFault, RecordSample, RecordKill,
         KillUnconfirmed, ContainmentEmpty, Finalize
    <2>7. CASE UNCHANGED coreVars
      BY <2>7
    <2> QED
      BY <2>1, <2>2, <2>3, <2>4, <2>5, <2>6, <2>7 DEF CoreNext
  <1> QED
    BY <1>1, StopCorrect, TypeCorrect, PTL DEF CoreSpec, NothingAdmittedAfterStop

-------------------------------------------------------------------------------
(***************************************************************************)
(* What RunCore counts: spawn slots, actions in flight, tokens against the *)
(* actions they bought, and FLOPs.                                         *)
(***************************************************************************)

-------------------------------------------------------------------------------
(***************************************************************************)
(* Steps that touch no token, no action and no charge.                     *)
(***************************************************************************)
LEMMA Frame ==
    ASSUME [CoreNext]_coreVars,
           ~ Admission, ~ Resolution, ~ Compute
    PROVE  UNCHANGED workVars
  <1> USE DEF workVars
  <1>1. CASE Elapse
    BY <1>1 DEF Elapse
  <1>2. CASE Launch
    BY <1>2 DEF Launch, Create, Arm, Start, Reject
  <1>3. CASE Stopping
    BY <1>3 DEF Stopping, Stop, ObserveFault, RecordSample, RecordKill,
       KillUnconfirmed, ContainmentEmpty, Finalize
  <1>4. CASE UNCHANGED coreVars
    BY <1>4 DEF coreVars
  <1> QED
    BY <1>1, <1>2, <1>3, <1>4 DEF CoreNext

\* Computations leave tokens and actions alone.
LEMMA ComputeFrame ==
    ASSUME Compute
    PROVE  UNCHANGED <<tokenVars, actionVars>>
  BY DEF Compute, FlopsCapReached, Reserve, FinishCompute, OverEnvelope, workVars

\* The admission steps that touch no token and no action.
LEMMA AdmissionCases ==
    ASSUME Admission
    PROVE  \/ UNCHANGED workVars
           \/ ExpireTokens
           \/ \E ch \in Channel, p \in Payload, t \in TokenId :
                 \/ IssueToken(ch, p, t)
                 \/ DispatchLate(ch, p, t)
                 \/ \E a \in ActionId : Dispatch(ch, p, t, a)
  BY DEF Admission, Deny, SpawnCapReached

-------------------------------------------------------------------------------
(***************************************************************************)
(* Spawn slots.                                                            *)
(***************************************************************************)
Issued == {t \in TokenId : tokenState[t] # "NONE"}

\* There are finitely many tokens.
LEMMA IssuedFinite == IsFiniteSet(Issued) /\ IsFiniteSet(Issued')
  BY CoreAssumption, FS_Subset DEF Issued

\* No step loses or forges a spawn slot.
LEMMA SlotsStep ==
    ASSUME SpawnSlotsExact, TypeOK, [CoreNext]_coreVars
    PROVE  SpawnSlotsExact'
  <1> USE DEF tokenVars, actionVars, computeVars, workVars
  <1>1. SpawnSlotsExact = (spawnIssued = Cardinality(Issued) /\ spawnIssued <= SpawnCap)
    BY DEF SpawnSlotsExact, Issued
  <1>2. ASSUME UNCHANGED spawnIssued, Issued' = Issued PROVE SpawnSlotsExact'
    BY <1>2 DEF SpawnSlotsExact, Issued
  <1>3. ASSUME UNCHANGED workVars PROVE SpawnSlotsExact'
    BY <1>3 DEF SpawnSlotsExact
  <1>4. ASSUME NEW ch \in Channel, NEW p \in Payload, NEW t \in TokenId,
               IssueToken(ch, p, t)
        PROVE  SpawnSlotsExact'
    <2>1. Issued' = Issued \cup {t} /\ t \notin Issued
      BY <1>4 DEF IssueToken, TypeOK, Issued
    <2>2. Cardinality(Issued') = Cardinality(Issued) + 1
      BY <2>1, IssuedFinite, FS_AddElement
    <2>3. spawnIssued + 1 <= SpawnCap
      BY <1>4, CoreAssumption DEF IssueToken, BelowSpawnCap, TypeOK
    <2> QED
      BY <1>1, <1>4, <2>2, <2>3 DEF IssueToken, SpawnSlotsExact, Issued
  <1>5. ASSUME NEW ch \in Channel, NEW p \in Payload, NEW t \in TokenId,
               DispatchLate(ch, p, t)
        PROVE  SpawnSlotsExact'
    <2>1. Issued' = Issued
      BY <1>5 DEF DispatchLate, Due, TypeOK, Issued
    <2> QED
      BY <1>2, <1>5, <2>1 DEF DispatchLate
  <1>6. ASSUME NEW ch \in Channel, NEW p \in Payload, NEW t \in TokenId, NEW a \in ActionId,
               Dispatch(ch, p, t, a)
        PROVE  SpawnSlotsExact'
    <2>1. Issued' = Issued
      BY <1>6 DEF Dispatch, TypeOK, Issued
    <2> QED
      BY <1>2, <1>6, <2>1 DEF Dispatch
  <1>7. CASE ExpireTokens
    <2>1. Issued' = Issued
      BY <1>7 DEF ExpireTokens, DueTokens, Due, Mark, TypeOK, Issued
    <2> QED
      BY <1>2, <1>7, <2>1 DEF ExpireTokens
  <1>8. CASE Admission
    BY <1>8, <1>3, <1>4, <1>5, <1>6, <1>7, AdmissionCases
  <1>9. CASE Resolution
    BY <1>9 DEF Resolution, FinishAction, Drain, SpawnSlotsExact
  <1>10. CASE Compute
    BY <1>10, ComputeFrame DEF SpawnSlotsExact
  <1> QED
    BY <1>3, <1>8, <1>9, <1>10, Frame

\* budgets.spawns bounds the tokens ever issued, whatever becomes of them: the
\* counter of token_issue is exactly the number of issued tokens (core.py).
THEOREM SpawnSlotsCorrect == CoreSpec => []SpawnSlotsExact
  <1>1. CoreInit => SpawnSlotsExact
    <2> SUFFICES ASSUME CoreInit PROVE SpawnSlotsExact
      OBVIOUS
    <2>1. Issued = {}
      BY DEF CoreInit, Issued
    <2>2. spawnIssued = Cardinality(Issued)
      BY <2>1, FS_EmptySet DEF CoreInit
    <2>3. spawnIssued <= SpawnCap
      BY CoreAssumption DEF CoreInit
    <2> QED
      BY <2>2, <2>3 DEF SpawnSlotsExact, Issued
  <1> QED
    BY <1>1, SlotsStep, TypeCorrect, PTL DEF CoreSpec

-------------------------------------------------------------------------------
(***************************************************************************)
(* Actions in flight.                                                      *)
(***************************************************************************)
LEMMA UnresolvedFinite == IsFiniteSet(Unresolved) /\ IsFiniteSet(Unresolved')
  BY CoreAssumption, FS_Subset DEF Unresolved

\* No step miscounts the dispatched actions.
LEMMA InflightStep ==
    ASSUME InflightExact, TypeOK, [CoreNext]_coreVars
    PROVE  InflightExact'
  <1> USE DEF tokenVars, actionVars, computeVars, workVars
  <1>1. inflight = Cardinality(Unresolved) /\ inflight <= MaxInflight
    BY DEF InflightExact, Unresolved
  <1>2. ASSUME UNCHANGED actionVars PROVE InflightExact'
    BY <1>2 DEF InflightExact, Unresolved
  <1>3. ASSUME inflight' = Cardinality(Unresolved'), inflight' <= MaxInflight
        PROVE  InflightExact'
    BY <1>3 DEF InflightExact, Unresolved
  <1>4. ASSUME NEW ch \in Channel, NEW p \in Payload, NEW t \in TokenId, NEW a \in ActionId,
               Dispatch(ch, p, t, a)
        PROVE  InflightExact'
    <2>1. Unresolved' = Unresolved \cup {a} /\ a \notin Unresolved
      BY <1>4 DEF Dispatch, TypeOK, Unresolved
    <2>2. Cardinality(Unresolved') = Cardinality(Unresolved) + 1
      BY <2>1, UnresolvedFinite, FS_AddElement
    <2>3. inflight' = inflight + 1 /\ inflight' <= MaxInflight
      BY <1>4, CoreAssumption DEF Dispatch, TypeOK
    <2> QED
      BY <1>1, <1>3, <2>2, <2>3
  <1>5. ASSUME NEW ch \in Channel, NEW p \in Payload, NEW t \in TokenId,
               IssueToken(ch, p, t) \/ DispatchLate(ch, p, t)
        PROVE  InflightExact'
    BY <1>2, <1>5 DEF IssueToken, DispatchLate
  <1>6. CASE ExpireTokens
    BY <1>2, <1>6 DEF ExpireTokens
  <1>7. CASE Admission
    BY <1>2, <1>4, <1>5, <1>6, <1>7, AdmissionCases
  <1>8. ASSUME NEW a \in ActionId, NEW to \in {"SUCCEEDED", "FAILED"}, FinishAction(a, to)
        PROVE  InflightExact'
    <2>1. Unresolved' = Unresolved \ {a} /\ a \in Unresolved
      BY <1>8 DEF FinishAction, Resolvable, TypeOK, Unresolved
    <2>2. Cardinality(Unresolved') = Cardinality(Unresolved) - 1
      BY <2>1, UnresolvedFinite, FS_RemoveElement
    <2>3. inflight' = inflight - 1 /\ inflight' <= MaxInflight
      BY <1>1, <1>8, CoreAssumption DEF FinishAction, TypeOK
    <2> QED
      BY <1>1, <1>3, <2>2, <2>3
  <1>9. ASSUME NEW failed \in SUBSET ActionId, NEW unknown \in SUBSET ActionId,
               Drain(failed, unknown)
        PROVE  InflightExact'
    <2> DEFINE D == failed \cup unknown
    <2>1. D \subseteq Unresolved /\ Unresolved' = Unresolved \ D
      BY <1>9 DEF Drain, Resolvable, Mark, TypeOK, Unresolved
    <2>2. IsFiniteSet(D) /\ Cardinality(D) \in Nat
      BY <2>1, UnresolvedFinite, FS_Subset, FS_CardinalityType
    <2>3. Unresolved \cap D = D
      BY <2>1
    <2>4. Cardinality(Unresolved') = Cardinality(Unresolved) - Cardinality(D)
      <3> HIDE DEF D
      <3>1. Cardinality(Unresolved \ D)
              = Cardinality(Unresolved) - Cardinality(Unresolved \cap D)
        BY UnresolvedFinite, FS_Difference
      <3> QED
        BY <2>1, <2>3, <3>1
    <2>5. inflight' = inflight - Cardinality(D) /\ inflight' <= MaxInflight
      BY <1>1, <1>9, <2>2, CoreAssumption DEF Drain, TypeOK
    <2> QED
      BY <1>1, <1>3, <2>4, <2>5
  <1>10. CASE Resolution
    BY <1>8, <1>9, <1>10 DEF Resolution
  <1>11. CASE Compute
    BY <1>2, <1>11, ComputeFrame
  <1> QED
    BY <1>2, <1>7, <1>10, <1>11, Frame

\* RunCore.inflight counts the unresolved actions through dispatches, results
\* and drains, and MAX_INFLIGHT_ACTIONS bounds them (core.py).
THEOREM InflightCorrect == CoreSpec => []InflightExact
  <1>1. CoreInit => InflightExact
    <2> SUFFICES ASSUME CoreInit PROVE InflightExact
      OBVIOUS
    <2>1. Unresolved = {}
      BY DEF CoreInit, Unresolved
    <2>2. inflight = Cardinality(Unresolved)
      BY <2>1, FS_EmptySet DEF CoreInit
    <2>3. inflight <= MaxInflight
      BY CoreAssumption DEF CoreInit
    <2> QED
      BY <2>2, <2>3 DEF InflightExact, Unresolved
  <1> QED
    BY <1>1, InflightStep, TypeCorrect, PTL DEF CoreSpec

-------------------------------------------------------------------------------
(***************************************************************************)
(* Tokens and the actions they bought.                                     *)
(***************************************************************************)

\* OneActionPerToken needs every action to have come from a token at all.
Originated == \A a \in ActionId : actionState[a] # "NONE" => origin[a] \in Origins

TokenInv == OneActionPerToken /\ Originated

\* The invariant is stable while a step neither creates nor removes an action,
\* nor spends a token, nor touches a spent one.
LEMMA TokensKept ==
    ASSUME TokenInv, UNCHANGED origin,
           \A a \in ActionId : actionState'[a] = "NONE" <=> actionState[a] = "NONE",
           \A t \in TokenId : tokenState'[t] = "SPENT" <=> tokenState[t] = "SPENT",
           \A t \in TokenId : tokenState[t] = "SPENT" => grant'[t] = grant[t]
    PROVE  TokenInv'
  <1>1. \A a \in ActionId : actionState[a] # "NONE" =>
           origin[a].token \in TokenId /\ tokenState[origin[a].token] = "SPENT"
    BY DEF TokenInv, OneActionPerToken, Originated, Origins
  <1> QED
    BY <1>1 DEF TokenInv, OneActionPerToken, Originated

\* A dispatch spends a token that bought nothing yet, for what it binds.
LEMMA DispatchKeeps ==
    ASSUME TokenInv, TypeOK,
           NEW ch \in Channel, NEW p \in Payload, NEW t \in TokenId, NEW a \in ActionId,
           Dispatch(ch, p, t, a)
    PROVE  TokenInv'
  <1>1. /\ tokenState[t] = "ISSUED" /\ actionState[a] = "NONE" /\ UNCHANGED grant
        /\ tokenState' = [tokenState EXCEPT ![t] = "SPENT"]
        /\ actionState' = [actionState EXCEPT ![a] = "DISPATCHED"]
        /\ origin' = [origin EXCEPT ![a] = [token |-> t, chan |-> ch, payload |-> p]]
        /\ grant[t].chan = ch /\ grant[t].payload = p
    BY DEF Dispatch, Binds
  <1>2. /\ tokenState \in [TokenId -> TokenStates]
        /\ actionState \in [ActionId -> ActionStates]
        /\ origin \in [ActionId -> Origins \cup {NoOrigin}]
    BY DEF TypeOK
  <1>3. /\ origin'[a].token = t /\ origin'[a].chan = ch /\ origin'[a].payload = p
        /\ origin'[a] \in Origins
    BY <1>1, <1>2 DEF Origins
  <1>4. \A b \in ActionId : b # a =>
           origin'[b] = origin[b] /\ actionState'[b] = actionState[b]
    BY <1>1, <1>2
  <1>5. \A b \in ActionId : actionState[b] # "NONE" =>
           /\ origin[b].token \in TokenId /\ origin[b].token # t
           /\ tokenState[origin[b].token] = "SPENT"
    BY <1>1 DEF TokenInv, OneActionPerToken, Originated, Origins
  <1>6. \A u \in TokenId : tokenState'[u] = IF u = t THEN "SPENT" ELSE tokenState[u]
    BY <1>1, <1>2
  <1>7. \A b, c \in ActionId :
           actionState'[b] # "NONE" /\ actionState'[c] # "NONE"
              /\ origin'[b].token = origin'[c].token => b = c
    BY <1>3, <1>4, <1>5 DEF TokenInv, OneActionPerToken
  <1>8. ASSUME NEW b \in ActionId, actionState'[b] # "NONE"
        PROVE  /\ tokenState'[origin'[b].token] = "SPENT"
               /\ grant'[origin'[b].token].chan = origin'[b].chan
               /\ grant'[origin'[b].token].payload = origin'[b].payload
    <2>1. CASE b = a
      BY <1>1, <1>3, <1>6, <2>1
    <2>2. CASE b # a
      BY <1>1, <1>4, <1>5, <1>6, <1>8, <2>2 DEF TokenInv, OneActionPerToken
    <2> QED
      BY <2>1, <2>2
  <1>9. ASSUME NEW u \in TokenId, tokenState'[u] = "SPENT"
        PROVE  \E b \in ActionId : actionState'[b] # "NONE" /\ origin'[b].token = u
    <2>1. CASE u = t
      <3>1. actionState'[a] # "NONE"
        BY <1>1, <1>2
      <3> QED
        BY <1>3, <2>1, <3>1
    <2>2. CASE u # t
      <3>1. PICK b \in ActionId : actionState[b] # "NONE" /\ origin[b].token = u
        BY <1>6, <1>9, <2>2 DEF TokenInv, OneActionPerToken
      <3>2. b # a
        BY <1>1, <3>1
      <3> QED
        BY <1>4, <3>1, <3>2
    <2> QED
      BY <2>1, <2>2
  <1>10. Originated'
    BY <1>3, <1>4 DEF Originated, TokenInv
  <1> QED
    BY <1>7, <1>8, <1>9, <1>10 DEF TokenInv, OneActionPerToken

\* No step lets a token be spent twice or by two actions.
LEMMA TokenStep ==
    ASSUME TokenInv, TypeOK, [CoreNext]_coreVars
    PROVE  TokenInv'
  <1> USE DEF tokenVars, actionVars, computeVars, workVars
  <1>1. ASSUME UNCHANGED <<tokenVars, actionVars>> PROVE TokenInv'
    BY <1>1, TokensKept
  <1>2. ASSUME NEW ch \in Channel, NEW p \in Payload, NEW t \in TokenId,
               IssueToken(ch, p, t)
        PROVE  TokenInv'
    <2>1. /\ \A u \in TokenId : tokenState'[u] = "SPENT" <=> tokenState[u] = "SPENT"
          /\ \A u \in TokenId : tokenState[u] = "SPENT" => grant'[u] = grant[u]
      BY <1>2 DEF IssueToken, TypeOK
    <2> QED
      BY <1>2, <2>1, TokensKept DEF IssueToken
  <1>3. ASSUME NEW ch \in Channel, NEW p \in Payload, NEW t \in TokenId,
               DispatchLate(ch, p, t)
        PROVE  TokenInv'
    <2>1. \A u \in TokenId : tokenState'[u] = "SPENT" <=> tokenState[u] = "SPENT"
      BY <1>3 DEF DispatchLate, Due, TypeOK
    <2> QED
      BY <1>3, <2>1, TokensKept DEF DispatchLate
  <1>4. CASE ExpireTokens
    <2>1. \A u \in TokenId : tokenState'[u] = "SPENT" <=> tokenState[u] = "SPENT"
      BY <1>4 DEF ExpireTokens, DueTokens, Due, Mark, TypeOK
    <2> QED
      BY <1>4, <2>1, TokensKept DEF ExpireTokens
  <1>5. CASE Admission
    BY <1>1, <1>2, <1>3, <1>4, <1>5, DispatchKeeps, AdmissionCases
  <1>6. ASSUME NEW a \in ActionId, NEW to \in {"SUCCEEDED", "FAILED"}, FinishAction(a, to)
        PROVE  TokenInv'
    <2>1. \A b \in ActionId : actionState'[b] = "NONE" <=> actionState[b] = "NONE"
      BY <1>6 DEF FinishAction, Resolvable, TypeOK
    <2> QED
      BY <1>6, <2>1, TokensKept DEF FinishAction
  <1>7. ASSUME NEW failed \in SUBSET ActionId, NEW unknown \in SUBSET ActionId,
               Drain(failed, unknown)
        PROVE  TokenInv'
    <2>1. \A b \in ActionId : actionState'[b] = "NONE" <=> actionState[b] = "NONE"
      BY <1>7 DEF Drain, Resolvable, Mark, TypeOK
    <2> QED
      BY <1>7, <2>1, TokensKept DEF Drain
  <1>8. CASE Resolution
    BY <1>6, <1>7, <1>8 DEF Resolution
  <1>9. CASE Compute
    BY <1>1, <1>9, ComputeFrame
  <1> QED
    BY <1>1, <1>5, <1>8, <1>9, Frame

\* One token buys one action, the one it was issued for: neither a reused
\* token, nor a token presented on another channel or for another payload, nor
\* an expiry sweep breaks the pairing (token_issue and dispatch, core.py).
THEOREM OneActionPerTokenCorrect == CoreSpec => []OneActionPerToken
  <1>1. CoreInit => TokenInv
    BY DEF CoreInit, TokenInv, OneActionPerToken, Originated
  <1>2. TokenInv => OneActionPerToken
    BY DEF TokenInv
  <1> QED
    BY <1>1, <1>2, TokenStep, TypeCorrect, PTL DEF CoreSpec

-------------------------------------------------------------------------------
(***************************************************************************)
(* FLOPs.                                                                  *)
(***************************************************************************)

\* The half of FlopsExact that counts nothing.
FlopsWithinCap == FlopsCap = NoCap \/ chargedFlops <= FlopsCap

\* budgets.max_flops bounds what was ever charged; an exact fit is admitted
\* and a charge that would pass the cap is not made (admit_flops, core.py).
THEOREM FlopsCapRespected == CoreSpec => []FlopsWithinCap
  <1>1. CoreInit => FlopsWithinCap
    BY CoreAssumption DEF CoreInit, FlopsWithinCap
  <1>2. ASSUME FlopsWithinCap, [CoreNext]_coreVars PROVE FlopsWithinCap'
    <2> USE DEF tokenVars, actionVars, computeVars, workVars
    <2>1. ASSUME UNCHANGED chargedFlops PROVE FlopsWithinCap'
      BY <1>2, <2>1 DEF FlopsWithinCap
    <2>2. CASE Admission
      BY <2>1, <2>2, AdmissionSummary
    <2>3. CASE Resolution
      BY <2>1, <2>3 DEF Resolution, FinishAction, Drain
    <2>4. ASSUME NEW ch \in Channel, NEW w \in Work, NEW c \in ComputeId, Reserve(ch, w, c)
          PROVE  FlopsWithinCap'
      BY <2>4 DEF Reserve, Admitted, FlopsWithinCap
    <2>5. CASE Compute
      BY <2>1, <2>4, <2>5 DEF Compute, FlopsCapReached, FinishCompute, OverEnvelope
    <2> QED
      BY <1>2, <2>1, <2>2, <2>3, <2>5, Frame
  <1> QED
    BY <1>1, <1>2, PTL DEF CoreSpec

\* A new reservation adds its charge to the sum, and no other step moves the sum.
LEMMA ChargesGrow ==
    ASSUME TypeInv, TypeInv', NEW ch \in Channel, NEW w \in Work, NEW c \in ComputeId,
           Reserve(ch, w, c)
    PROVE  SumFunction(Charges') = SumFunction(Charges) + Charge[w]
  <1>1. IsFiniteSet(Reserved) /\ IsFiniteSet(Reserved')
    BY CoreAssumption, FS_Subset DEF Reserved
  <1>2. Reserved' = Reserved \cup {c} /\ c \notin Reserved
    BY DEF Reserve, Reserved, TypeInv, TypeOK
  <1>3. Charges'[c] = Charge[w]
    BY <1>2 DEF Reserve, Charges, TypeInv, TypeOK
  <1>4. \A d \in Reserved : Charges'[d] = Charges[d]
    BY <1>2 DEF Reserve, Charges, TypeInv, TypeOK
  <1>5. \A d \in Reserved' : Charges'[d] \in Nat
    BY CoreAssumption DEF Charges, Reserved, TypeInv, Booked, Bookings
  <1>6. SumFunctionOnSet(Charges', Reserved') =
           Charges'[c] + SumFunctionOnSet(Charges', Reserved' \ {c})
    <2> DEFINE f == Charges'
               S == Reserved'
    <2>1. IsFiniteSet(S) /\ c \in S /\ \A d \in S : f[d] \in Nat
      BY <1>1, <1>2, <1>5
    <2> HIDE DEF f, S
    <2>2. SumFunctionOnSet(f, S) = f[c] + SumFunctionOnSet(f, S \ {c})
      BY <2>1, SumRemove
    <2> QED
      BY <2>2 DEF f, S
  <1>7. Reserved' \ {c} = Reserved
    BY <1>2
  <1>8. SumFunctionOnSet(Charges', Reserved) = SumFunctionOnSet(Charges, Reserved)
    <2> DEFINE f == Charges'
    <2>1. \A d \in Reserved : f[d] = Charges[d]
      BY <1>4
    <2> HIDE DEF f
    <2>2. SumFunctionOnSet(f, Reserved) = SumFunctionOnSet(Charges, Reserved)
      BY <1>1, <2>1, SumAgree
    <2> QED
      BY <2>2 DEF f
  <1>9. \A d \in Reserved : Charges[d] \in Nat
    BY CoreAssumption DEF Charges, Reserved, TypeInv, Booked, Bookings
  <1>10. SumFunctionOnSet(Charges, Reserved) \in Nat /\ Charge[w] \in Nat
    BY <1>1, <1>9, SumRange, CoreAssumption
  <1>11. /\ SumFunction(Charges) = SumFunctionOnSet(Charges, Reserved)
         /\ SumFunction(Charges') = SumFunctionOnSet(Charges', Reserved')
    BY DEF SumFunction, Charges
  <1>12. SumFunction(Charges') = Charge[w] + SumFunction(Charges)
    BY <1>3, <1>6, <1>7, <1>8, <1>11, Zenon
  <1>13. Charge[w] + SumFunction(Charges) = SumFunction(Charges) + Charge[w]
    BY <1>10, <1>11
  <1> QED
    BY <1>12, <1>13

\* A step that reserves nothing charges nothing.
LEMMA ChargesStay ==
    ASSUME TypeInv, [CoreNext]_coreVars,
           \A ch \in Channel, w \in Work, c \in ComputeId : ~ Reserve(ch, w, c)
    PROVE  Charges' = Charges /\ chargedFlops' = chargedFlops
  <1> USE DEF tokenVars, actionVars, computeVars, workVars
  <1>1. ASSUME UNCHANGED computeVars PROVE Charges' = Charges /\ chargedFlops' = chargedFlops
    BY <1>1 DEF Charges, Reserved
  <1>2. CASE Admission
    BY <1>1, <1>2, AdmissionSummary
  <1>3. CASE Resolution
    BY <1>1, <1>3 DEF Resolution, FinishAction, Drain
  <1>4. ASSUME NEW ch \in Channel, NEW c \in ComputeId, NEW n \in 0..MaxObserved,
               FinishCompute(ch, c, n)
        PROVE  Charges' = Charges /\ chargedFlops' = chargedFlops
    <2>1. Reserved' = Reserved /\ chargedFlops' = chargedFlops
      BY <1>4 DEF FinishCompute, Reserved, TypeInv, TypeOK
    <2>2. ASSUME NEW d \in Reserved
          PROVE  booking'[d].work = booking[d].work
      <3>1. booking[d] \in Bookings
        BY DEF Reserved, TypeInv, Booked
      <3> QED
        BY <1>4, <3>1 DEF FinishCompute, Reserved, Bookings, TypeInv, TypeOK
    <2> QED
      BY <2>1, <2>2 DEF Charges
  <1>5. CASE Compute
    BY <1>1, <1>4, <1>5 DEF Compute, FlopsCapReached, OverEnvelope
  <1> QED
    BY <1>1, <1>2, <1>3, <1>5, Frame

\* FLOPs are charged once per reservation and never refunded, whatever the
\* client reports at the end (compute_reserve, compute_finish, core.py).
THEOREM FlopsExactAlways == CoreSpec => []FlopsExact
  <1> DEFINE Summed == chargedFlops = SumFunction(Charges)
  <1>1. CoreInit => Summed
    <2> SUFFICES ASSUME CoreInit PROVE Summed
      OBVIOUS
    <2>1. Reserved = {}
      BY DEF CoreInit, Reserved
    <2>2. SumFunction(Charges) = SumFunctionOnSet(Charges, {})
      BY <2>1 DEF SumFunction, Charges
    <2> QED
      BY <2>2, SumEmpty DEF CoreInit
  <1>2. ASSUME TypeInv, TypeInv', Summed, [CoreNext]_coreVars PROVE Summed'
    <2>1. ASSUME NEW ch \in Channel, NEW w \in Work, NEW c \in ComputeId, Reserve(ch, w, c)
          PROVE  Summed'
      BY <1>2, <2>1, ChargesGrow DEF Reserve
    <2>2. CASE \A ch \in Channel, w \in Work, c \in ComputeId : ~ Reserve(ch, w, c)
      BY <1>2, <2>2, ChargesStay
    <2> QED
      BY <2>1, <2>2
  <1>3. CoreSpec => []TypeInv
    BY InitType, TypeStep, PTL DEF CoreSpec
  <1>4. FlopsWithinCap /\ Summed => FlopsExact
    BY DEF FlopsExact, FlopsWithinCap
  <1> QED
    BY <1>1, <1>2, <1>3, <1>4, FlopsCapRespected, PTL DEF CoreSpec
===============================================================================
