----------------------------- MODULE ReplayProofs -----------------------------
(***************************************************************************)
(* What one turn of the replay loop does, for any identifiers: to a legal  *)
(* event of each kind, and to the types of a replay whether or not the     *)
(* event is legal.                                                         *)
(***************************************************************************)
EXTENDS Replay, TLAPS

-------------------------------------------------------------------------------
(***************************************************************************)
(* The replay of one legal event.                                          *)
(***************************************************************************)

PlainKinds == {"RunCreated", "RunArming", "RunRejected", "RunStarted", "StopLatched",
               "RequestDenied", "KillUnconfirmed", "FaultObserved", "KillIssued",
               "ContainmentEmpty", "SampleRecorded"}

\* An event without subjects moves the run state and nothing else.
LEMMA PlainEvent ==
    ASSUME NEW rs \in Replays, rs.ok,
           NEW k \in PlainKinds, rs.st \in Sources(k)
    PROVE  Apply(rs, Event(k)) =
           [st |-> PostState(rs, Event(k)), tok |-> rs.tok,
            act |-> rs.act, cmp |-> rs.cmp, ok |-> TRUE]
  <1>1. Legal(rs, Event(k))
    BY DEF Legal, SubjectsLegal, Event, PlainKinds, ActionKinds
  <1>2. k \notin TokenKinds \cup ActionKinds \cup ComputeKinds /\ k # "TokenSpent"
    BY DEF PlainKinds, TokenKinds, ActionKinds, ComputeKinds
  <1>3. Event(k).kind = k
    BY DEF Event
  <1> QED
    BY <1>1, <1>2, <1>3 DEF Apply

\* An issue moves its token.
LEMMA IssueEvent ==
    ASSUME NEW rs \in Replays, rs.ok, rs.st = "RUNNING",
           NEW t \in TokenId,
           rs.tok[t] = "NONE"
    PROVE  Apply(rs, About("TokenIssued", {t}, "ISSUED")) =
           [st |-> rs.st, tok |-> Mark(rs.tok, {t}, "ISSUED"),
            act |-> rs.act, cmp |-> rs.cmp, ok |-> TRUE]
  <1> DEFINE e == About("TokenIssued", {t}, "ISSUED")
  <1>1. e.kind = "TokenIssued" /\ e.ids = {t} /\ e.to = "ISSUED"
    BY DEF About
  <1>2. Legal(rs, e)
    BY <1>1 DEF Legal, SubjectsLegal, Sources, ActionKinds
  <1>3. PostState(rs, e) = rs.st
    BY <1>1 DEF PostState
  <1> HIDE DEF e
  <1> QED
    BY <1>1, <1>2, <1>3 DEF Apply, TokenKinds, ActionKinds, ComputeKinds, e

\* An expiry moves the tokens it names.
LEMMA ExpireEvent ==
    ASSUME NEW rs \in Replays, rs.ok, rs.st = "RUNNING",
           NEW ids \in SUBSET TokenId,
           \A t \in ids : rs.tok[t] = "ISSUED"
    PROVE  Apply(rs, About("TokenExpired", ids, "EXPIRED")) =
           [st |-> rs.st, tok |-> Mark(rs.tok, ids, "EXPIRED"),
            act |-> rs.act, cmp |-> rs.cmp, ok |-> TRUE]
  <1> DEFINE e == About("TokenExpired", ids, "EXPIRED")
  <1>1. e.kind = "TokenExpired" /\ e.ids = ids /\ e.to = "EXPIRED"
    BY DEF About
  <1>2. Legal(rs, e)
    BY <1>1 DEF Legal, SubjectsLegal, Sources, ActionKinds
  <1>3. PostState(rs, e) = rs.st
    BY <1>1 DEF PostState
  <1> HIDE DEF e
  <1> QED
    BY <1>1, <1>2, <1>3 DEF Apply, TokenKinds, ActionKinds, ComputeKinds, e

\* A spend moves its token and creates its action.
LEMMA SpendEvent ==
    ASSUME NEW rs \in Replays, rs.ok, rs.st = "RUNNING",
           NEW t \in TokenId, NEW a \in ActionId,
           rs.tok[t] = "ISSUED", rs.act[a] = "NONE"
    PROVE  Apply(rs, TokenSpent(t, a)) =
           [st |-> rs.st, tok |-> Mark(rs.tok, {t}, "SPENT"),
            act |-> Mark(rs.act, {a}, "DISPATCHED"), cmp |-> rs.cmp, ok |-> TRUE]
  <1> DEFINE e == TokenSpent(t, a)
  <1>1. e.kind = "TokenSpent" /\ e.ids = {t} /\ e.to = "SPENT" /\ e.action = a
    BY DEF TokenSpent
  <1>2. Legal(rs, e)
    BY <1>1 DEF Legal, SubjectsLegal, Sources, ActionKinds
  <1>3. PostState(rs, e) = rs.st
    BY <1>1 DEF PostState
  <1> QED
    BY <1>1, <1>2, <1>3 DEF Apply, TokenKinds, ActionKinds, ComputeKinds

\* Resolving actions moves those actions.
LEMMA ActionEvent ==
    ASSUME NEW rs \in Replays, rs.ok,
           rs.st \in {"RUNNING", "STOPPING", "UNCONFIRMED"},
           NEW k \in ActionKinds,
           NEW ids \in SUBSET ActionId, NEW to,
           \A a \in ids : rs.act[a] = "DISPATCHED"
    PROVE  Apply(rs, About(k, ids, to)) =
           [st |-> rs.st, tok |-> rs.tok,
            act |-> Mark(rs.act, ids, to), cmp |-> rs.cmp, ok |-> TRUE]
  <1> DEFINE e == About(k, ids, to)
  <1>1. e.kind = k /\ e.ids = ids /\ e.to = to
    BY DEF About
  <1>2. Legal(rs, e)
    BY <1>1 DEF Legal, SubjectsLegal, Sources, ActionKinds
  <1>3. PostState(rs, e) = rs.st
    BY <1>1 DEF PostState, ActionKinds
  <1> QED
    BY <1>1, <1>2, <1>3 DEF Apply, TokenKinds, ActionKinds, ComputeKinds

\* A reservation charges its compute entry.
LEMMA ReserveEvent ==
    ASSUME NEW rs \in Replays, rs.ok, rs.st = "RUNNING",
           NEW c \in ComputeId,
           rs.cmp[c] = "NONE"
    PROVE  Apply(rs, About("ComputeReserved", {c}, "CHARGED")) =
           [st |-> rs.st, tok |-> rs.tok, act |-> rs.act,
            cmp |-> Mark(rs.cmp, {c}, "CHARGED"), ok |-> TRUE]
  <1> DEFINE e == About("ComputeReserved", {c}, "CHARGED")
  <1>1. e.kind = "ComputeReserved" /\ e.ids = {c} /\ e.to = "CHARGED"
    BY DEF About
  <1>2. Legal(rs, e)
    BY <1>1 DEF Legal, SubjectsLegal, Sources, ActionKinds
  <1>3. PostState(rs, e) = rs.st
    BY <1>1 DEF PostState
  <1> HIDE DEF e
  <1> QED
    BY <1>1, <1>2, <1>3 DEF Apply, TokenKinds, ActionKinds, ComputeKinds, e

\* A report finishes it.
LEMMA FinishEvent ==
    ASSUME NEW rs \in Replays, rs.ok, rs.st = "RUNNING",
           NEW c \in ComputeId,
           rs.cmp[c] = "CHARGED"
    PROVE  Apply(rs, About("ComputeFinished", {c}, "FINISHED")) =
           [st |-> rs.st, tok |-> rs.tok, act |-> rs.act,
            cmp |-> Mark(rs.cmp, {c}, "FINISHED"), ok |-> TRUE]
  <1> DEFINE e == About("ComputeFinished", {c}, "FINISHED")
  <1>1. e.kind = "ComputeFinished" /\ e.ids = {c} /\ e.to = "FINISHED"
    BY DEF About
  <1>2. Legal(rs, e)
    BY <1>1 DEF Legal, SubjectsLegal, Sources, ActionKinds
  <1>3. PostState(rs, e) = rs.st
    BY <1>1 DEF PostState
  <1> HIDE DEF e
  <1> QED
    BY <1>1, <1>2, <1>3 DEF Apply, TokenKinds, ActionKinds, ComputeKinds, e

\* One action resolved.
LEMMA OneAction ==
    ASSUME NEW rs \in Replays, rs.ok,
           rs.st \in {"RUNNING", "STOPPING", "UNCONFIRMED"},
           NEW a \in ActionId, NEW to, rs.act[a] = "DISPATCHED"
    PROVE  Apply(rs, About("ActionFinished", {a}, to)) =
           [st |-> rs.st, tok |-> rs.tok, act |-> Mark(rs.act, {a}, to),
            cmp |-> rs.cmp, ok |-> TRUE]
  <1>1. {a} \in SUBSET ActionId /\ \A b \in {a} : rs.act[b] = "DISPATCHED"
    OBVIOUS
  <1> QED
    BY <1>1, ActionEvent DEF ActionKinds

\* The final event carries the final state.
LEMMA FinalEvent ==
    ASSUME NEW rs \in Replays, rs.ok, rs.st = "FINALIZING", NEW to
    PROVE  Apply(rs, About("RunFinalized", {}, to)) =
           [st |-> to, tok |-> rs.tok,
            act |-> rs.act, cmp |-> rs.cmp, ok |-> TRUE]
  <1> DEFINE e == About("RunFinalized", {}, to)
  <1>1. e.kind = "RunFinalized" /\ e.to = to
    BY DEF About
  <1>2. Legal(rs, e)
    BY <1>1 DEF Legal, SubjectsLegal, Sources, ActionKinds
  <1>3. PostState(rs, e) = to
    BY <1>1 DEF PostState
  <1> QED
    BY <1>1, <1>2, <1>3 DEF Apply, TokenKinds, ActionKinds, ComputeKinds

\* Marking keeps the domain and the range.
LEMMA MarkType ==
    ASSUME NEW S, NEW T, NEW f \in [S -> T], NEW ids, NEW to \in T
    PROVE  Mark(f, ids, to) \in [S -> T]
  BY DEF Mark

-------------------------------------------------------------------------------
(***************************************************************************)
(* Types.                                                                  *)
(***************************************************************************)
\* An event gives its subjects statuses of their own kind.
WellTyped(e) ==
    /\ e.kind = "RunFinalized" => e.to \in RunStates
    /\ e.kind \in TokenKinds => e.to \in TokenStates
    /\ e.kind \in ActionKinds => e.to \in ActionStates
    /\ e.kind \in ComputeKinds => e.to \in ComputeStates

\* The fold stays among the replays, whether or not the event is legal.
LEMMA ApplyType ==
    ASSUME NEW rs \in Replays, NEW e, WellTyped(e)
    PROVE  Apply(rs, e) \in Replays
  <1>1. PostState(rs, e) \in RunStates \cup {"NEW"}
    BY DEF PostState, WellTyped, Replays, RunStates, LiveStates, TerminalStates
  <1>2. (IF e.kind \in TokenKinds THEN Mark(rs.tok, e.ids, e.to) ELSE rs.tok)
           \in [TokenId -> TokenStates]
    BY MarkType DEF WellTyped, Replays
  <1>3. (CASE e.kind \in ActionKinds -> Mark(rs.act, e.ids, e.to)
           [] e.kind = "TokenSpent"  -> Mark(rs.act, {e.action}, "DISPATCHED")
           [] OTHER                  -> rs.act) \in [ActionId -> ActionStates]
    <2>1. CASE e.kind \in ActionKinds
      BY <2>1, MarkType DEF WellTyped, Replays, ActionKinds
    <2>2. CASE e.kind = "TokenSpent"
      <3>1. "DISPATCHED" \in ActionStates /\ e.kind \notin ActionKinds
        BY <2>2 DEF ActionStates, ActionKinds
      <3> QED
        BY <2>2, <3>1, MarkType DEF Replays
    <2>3. CASE e.kind \notin ActionKinds /\ e.kind # "TokenSpent"
      BY <2>3 DEF Replays
    <2> QED
      BY <2>1, <2>2, <2>3
  <1>4. (IF e.kind \in ComputeKinds THEN Mark(rs.cmp, e.ids, e.to) ELSE rs.cmp)
           \in [ComputeId -> ComputeStates]
    BY MarkType DEF WellTyped, Replays
  <1>5. CASE Legal(rs, e)
    BY <1>1, <1>2, <1>3, <1>4, <1>5 DEF Apply, Replays
  <1>6. CASE ~Legal(rs, e)
    BY <1>6 DEF Apply, Replays
  <1> QED
    BY <1>5, <1>6

\* Every event the engine appends while a run is live is well typed.
LEMMA CommittedTypes ==
    /\ \A k \in PlainKinds : WellTyped(Event(k))
    /\ \A ids : WellTyped(About("TokenIssued", ids, "ISSUED"))
    /\ \A ids : WellTyped(About("TokenExpired", ids, "EXPIRED"))
    /\ \A t, a : WellTyped(TokenSpent(t, a))
    /\ \A ids, to : to \in {"SUCCEEDED", "FAILED"} =>
          WellTyped(About("ActionFinished", ids, to))
    /\ \A ids : WellTyped(About("ActionUnknown", ids, "UNKNOWN"))
    /\ \A ids : WellTyped(About("ComputeReserved", ids, "CHARGED"))
    /\ \A ids : WellTyped(About("ComputeFinished", ids, "FINISHED"))
    /\ \A to \in TerminalStates : WellTyped(About("RunFinalized", {}, to))
  BY DEF WellTyped, Event, About, TokenSpent, PlainKinds, TokenKinds, ActionKinds,
         ComputeKinds, TokenStates, ActionStates, ComputeStates, RunStates
===============================================================================
