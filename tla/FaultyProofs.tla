----------------------------- MODULE FaultyProofs -----------------------------
(***************************************************************************)
(* What FaultyJournal promises, for any keys, identifiers and budget and   *)
(* for any number of refused transactions.                                 *)
(*                                                                         *)
(* The journal only grows (DiskGrows): as long as it replays, a token or   *)
(* an action it contains stays in it.  A reply is stored only by a         *)
(* transaction that committed, so its subject is in the journal then and   *)
(* for good (Durable).  That a token buys one effect is owed to memory     *)
(* alone, which is never rolled back (Tokens).  Every step but an issue    *)
(* leaves the set of tokens in the journal as it is (Keeps), and an issue  *)
(* takes one slot, for a token or for a refusal (SlotsAccounted).          *)
(***************************************************************************)
EXTENDS FaultyJournal, ReplayProofs, FiniteSetTheorems

Types ==
    /\ FaultyTypeOK
    /\ pc = "exec" => pending # NoAction

\* An action was dispatched with a token that is spent and that no other action
\* has; only dispatched actions are waiting for their effect or have had it.
Tokens ==
    /\ \A a \in ActionId : act[a] # "NONE" => holder[a] \in TokenId /\ tok[holder[a]] = "SPENT"
    /\ \A a, b \in ActionId :
          act[a] # "NONE" /\ act[b] # "NONE" /\ holder[a] = holder[b] => a = b
    /\ \A a \in released : act[a] # "NONE"
    /\ pending # NoAction => act[pending] # "NONE"

-------------------------------------------------------------------------------
(***************************************************************************)
(* The journal only grows.                                                 *)
(***************************************************************************)
Grows(rs, after) ==
    /\ after \in Replays
    /\ after.ok =>
          /\ rs.ok
          /\ \A t \in TokenId : rs.tok[t] # "NONE" => after.tok[t] # "NONE"
          /\ \A a \in ActionId : rs.act[a] # "NONE" => after.act[a] # "NONE"

\* An event that takes nothing back.
Firm(e) ==
    /\ WellTyped(e)
    /\ e.kind \in TokenKinds \cup ActionKinds => e.to # "NONE"

\* Every event of this module takes nothing back.
LEMMA FirmEvents ==
    /\ \A k \in PlainKinds : Firm(Event(k))
    /\ \A ids : Firm(About("TokenIssued", ids, "ISSUED"))
    /\ \A ids : Firm(About("TokenExpired", ids, "EXPIRED"))
    /\ \A t, a : Firm(TokenSpent(t, a))
    /\ \A ids : Firm(About("ActionFinished", ids, "FAILED"))
    /\ Firm(About("RunFinalized", {}, "KILLED"))
  <1>1. "KILLED" \in TerminalStates
    BY DEF TerminalStates
  <1> QED
    BY <1>1, CommittedTypes
       DEF Firm, Event, About, TokenSpent, PlainKinds, TokenKinds, ActionKinds

\* One firm event extends a replay.
LEMMA ApplyGrows ==
    ASSUME NEW rs \in Replays, NEW e, Firm(e)
    PROVE  Grows(rs, Apply(rs, e))
  <1>1. Apply(rs, e) \in Replays
    BY ApplyType DEF Firm
  <1>2. CASE ~Legal(rs, e)
    <2>1. ~Apply(rs, e).ok
      BY <1>2 DEF Apply, Replays
    <2> QED
      BY <1>1, <2>1 DEF Grows
  <1>3. CASE Legal(rs, e)
    <2>1. rs.ok
      BY <1>3 DEF Legal
    <2>2. /\ Apply(rs, e).tok = IF e.kind \in TokenKinds THEN Mark(rs.tok, e.ids, e.to) ELSE rs.tok
          /\ Apply(rs, e).act = CASE e.kind \in ActionKinds -> Mark(rs.act, e.ids, e.to)
                                  [] e.kind = "TokenSpent"  -> Mark(rs.act, {e.action}, "DISPATCHED")
                                  [] OTHER                  -> rs.act
      BY <1>3 DEF Apply
    <2>3. /\ rs.tok \in [TokenId -> TokenStates] /\ rs.act \in [ActionId -> ActionStates]
      BY DEF Replays
    <2>4. ASSUME NEW t \in TokenId, rs.tok[t] # "NONE"
          PROVE  Apply(rs, e).tok[t] # "NONE"
      BY <2>2, <2>3, <2>4 DEF Firm, Mark
    <2>5. ASSUME NEW a \in ActionId, rs.act[a] # "NONE"
          PROVE  Apply(rs, e).act[a] # "NONE"
      <3>1. CASE e.kind \in ActionKinds
        BY <2>2, <2>3, <2>5, <3>1 DEF Firm, Mark
      <3>2. CASE e.kind = "TokenSpent"
        <4>1. e.kind \notin ActionKinds
          BY <3>2 DEF ActionKinds
        <4> QED
          BY <2>2, <2>3, <2>5, <3>2, <4>1 DEF Mark
      <3>3. CASE e.kind \notin ActionKinds /\ e.kind # "TokenSpent"
        BY <2>2, <2>5, <3>3
      <3> QED
        BY <3>1, <3>2, <3>3
    <2> QED
      BY <1>1, <2>1, <2>4, <2>5 DEF Grows
  <1> QED
    BY <1>2, <1>3

\* Growing is transitive.
LEMMA GrowsTwice ==
    ASSUME NEW rs, NEW mid, NEW after, Grows(rs, mid), Grows(mid, after)
    PROVE  Grows(rs, after)
  BY DEF Grows

\* Standing still is growing.
LEMMA GrowsSelf ==
    ASSUME NEW rs \in Replays
    PROVE  Grows(rs, rs)
  BY DEF Grows

\* What a transaction can leave in the journal: itself, or nothing when refused.
Written(after) ==
    \/ disk' = after /\ failures' = failures
    \/ disk' = disk /\ failures' = failures + 1 /\ failures < MaxFailures

\* A transaction that commits or is refused lets the journal grow or stand still.
LEMMA WrittenGrows ==
    ASSUME Types, NEW after, Grows(disk, after), Written(after)
    PROVE  Grows(disk, disk') /\ failures' \in 0..MaxFailures
  <1>1. disk \in Replays /\ failures \in 0..MaxFailures /\ MaxFailures \in Nat
    BY FaultyAssumption DEF Types, FaultyTypeOK
  <1>2. Grows(disk, disk')
    BY <1>1, GrowsSelf DEF Written
  <1>3. failures' \in 0..MaxFailures
    BY <1>1 DEF Written
  <1> QED
    BY <1>2, <1>3

\* The three kinds of transaction.
LEMMA Transactions ==
    ASSUME Types
    PROVE  /\ \A after, next : TickCommit(after, next)
                 => Written(after) /\ rows' = rows /\ pc' \in {next, "gone"}
           /\ \A after : SwallowedCommit(after) => Written(after) /\ rows' = rows
           /\ \A after, k, row, latches : RequestCommit(k, row, after, latches)
                 => /\ Written(after)
                    /\ rows' = rows \/ (disk' = after /\ rows' = [rows EXCEPT ![k] = row])
                    /\ pc' \in {"kill", "exec", "idle"}
                    /\ pc' = "exec" => pending' # NoAction
  <1>1. failures \in Nat
    BY FaultyAssumption DEF Types, FaultyTypeOK
  <1>2. ASSUME NEW after, Committed(after) \/ Refused
        PROVE  Written(after)
    BY <1>2 DEF Committed, Refused, Written
  <1>3. ASSUME NEW after, NEW next, TickCommit(after, next)
        PROVE  Written(after) /\ rows' = rows /\ pc' \in {next, "gone"}
    BY <1>2, <1>3 DEF TickCommit
  <1>4. ASSUME NEW after, SwallowedCommit(after)
        PROVE  Written(after) /\ rows' = rows
    BY <1>2, <1>4 DEF SwallowedCommit
  <1>5. ASSUME NEW after, NEW k, NEW row, NEW latches, RequestCommit(k, row, after, latches)
        PROVE  /\ Written(after)
               /\ rows' = rows \/ (disk' = after /\ rows' = [rows EXCEPT ![k] = row])
               /\ pc' \in {"kill", "exec", "idle"}
               /\ pc' = "exec" => pending' # NoAction
    <2>1. CASE Committed(after) /\ pc' = IF latches THEN "kill" ELSE AfterCommit(pending')
      BY <1>2, <1>5, <2>1 DEF RequestCommit, Committed, StoreReply, AfterCommit
    <2>2. CASE Refused /\ pc' = "idle"
      <3>1. disk' = disk /\ failures' # failures
        BY <1>1, <2>2 DEF Refused
      <3> QED
        BY <1>2, <1>5, <2>2, <3>1 DEF RequestCommit, StoreReply
    <2> QED
      BY <1>5, <2>1, <2>2 DEF RequestCommit
  <1> QED
    BY <1>3, <1>4, <1>5

-------------------------------------------------------------------------------
(***************************************************************************)
(* Types, and the growth of the journal, step by step.                     *)
(***************************************************************************)
Rows == {NoRow} \cup [op : {"token", "action", "stop", "none"},
                      subject : TokenId \cup ActionId \cup {NoRow}]

\* The rows of the request cache.
LEMMA RowTypes ==
    /\ \A t \in TokenId : Row("token", t) \in Rows
    /\ \A a \in ActionId : Row("action", a) \in Rows
    /\ Row("stop", NoRow) \in Rows /\ Row("none", NoRow) \in Rows
  BY DEF Row, Rows

\* The store after one transaction of one or two firm events, or of none.
LEMMA StoreStep ==
    ASSUME Types
    PROVE  /\ \A e : Firm(e) /\ Written(Apply(disk, e))
                 => Grows(disk, disk') /\ failures' \in 0..MaxFailures
           /\ \A e, f : Firm(e) /\ Firm(f) /\ Written(Apply(Apply(disk, e), f))
                 => Grows(disk, disk') /\ failures' \in 0..MaxFailures
           /\ Written(disk) => Grows(disk, disk') /\ failures' \in 0..MaxFailures
           /\ UNCHANGED <<disk, failures>> => Grows(disk, disk') /\ failures' \in 0..MaxFailures
  <1>1. disk \in Replays /\ failures \in 0..MaxFailures
    BY DEF Types, FaultyTypeOK
  <1>2. ASSUME NEW e, Firm(e)
        PROVE  Grows(disk, Apply(disk, e))
    BY <1>1, <1>2, ApplyGrows
  <1>3. ASSUME NEW e, NEW f, Firm(e), Firm(f)
        PROVE  Grows(disk, Apply(Apply(disk, e), f))
    <2>1. Grows(disk, Apply(disk, e)) /\ Apply(disk, e) \in Replays
      BY <1>2, <1>3 DEF Grows
    <2>2. Grows(Apply(disk, e), Apply(Apply(disk, e), f))
      BY <1>3, <2>1, ApplyGrows
    <2> QED
      BY <2>1, <2>2, GrowsTwice
  <1>4. Grows(disk, disk)
    BY <1>1, GrowsSelf
  <1>5. \A e : Firm(e) /\ Written(Apply(disk, e))
                 => Grows(disk, disk') /\ failures' \in 0..MaxFailures
    BY <1>2, WrittenGrows
  <1>6. \A e, f : Firm(e) /\ Firm(f) /\ Written(Apply(Apply(disk, e), f))
                 => Grows(disk, disk') /\ failures' \in 0..MaxFailures
    BY <1>3, WrittenGrows
  <1>7. Written(disk) => Grows(disk, disk') /\ failures' \in 0..MaxFailures
    BY <1>4, WrittenGrows
  <1> QED
    BY <1>1, <1>4, <1>5, <1>6, <1>7

\* What the reply of a request leaves in the table is a row.
LEMMA RowsStep ==
    ASSUME Types, NEW k \in Key, NEW row \in Rows,
           rows' = rows \/ rows' = [rows EXCEPT ![k] = row]
    PROVE  rows' \in [Key -> Rows]
  BY DEF Types, FaultyTypeOK, Rows

\* Resolving actions keeps their types.
LEMMA ResolveType ==
    ASSUME Types, NEW failed, Resolve(failed)
    PROVE  act' \in [ActionId -> ActionStates]
  BY DEF Types, FaultyTypeOK, Resolve, ActionStates

Sane == Types' /\ Grows(disk, disk')

\* A request: it issues, dispatches, stops or does none of these.
LEMMA RequestSane ==
    ASSUME Types, Request
    PROVE  Sane
  <1> USE DEF memory, store, engine, host
  <1>1. /\ rows \in [Key -> Rows] /\ issued \in 0..SpawnCap /\ SpawnCap \in Nat
        /\ "SPENT" \in TokenStates /\ "ISSUED" \in TokenStates /\ "DISPATCHED" \in ActionStates
    BY FaultyAssumption DEF Types, FaultyTypeOK, Rows, TokenStates, ActionStates
  <1>2. PICK k \in Key :
       \/ \E t \in TokenId : Issue(k, t) \/ \E a \in ActionId : Dispatch(k, t, a)
       \/ \E denied \in BOOLEAN : StopRequest(k, denied) \/ Other(k, denied)
    BY DEF Request
  <1>3. ASSUME NEW t \in TokenId, Issue(k, t) PROVE Sane
    <2>1. RequestCommit(k, Row("token", t), Apply(disk, About("TokenIssued", {t}, "ISSUED")), FALSE)
      BY <1>3 DEF Issue
    <2>2. /\ Grows(disk, disk') /\ failures' \in 0..MaxFailures
          /\ rows' \in [Key -> Rows]
          /\ pc' \in {"kill", "exec", "idle"} /\ (pc' = "exec" => pending' # NoAction)
      BY <2>1, Transactions, FirmEvents, StoreStep, RowTypes, RowsStep
    <2>3. issued' \in 0..SpawnCap
      BY <1>1, <1>3 DEF Issue, BelowSpawnCap
    <2> QED
      BY <1>1, <1>3, <2>2, <2>3 DEF Issue, Sane, Types, FaultyTypeOK, Rows, Grows
  <1>4. ASSUME NEW t \in TokenId, NEW a \in ActionId, Dispatch(k, t, a) PROVE Sane
    <2>1. RequestCommit(k, Row("action", a), Apply(disk, TokenSpent(t, a)), FALSE)
      BY <1>4 DEF Dispatch
    <2>2. /\ Grows(disk, disk') /\ failures' \in 0..MaxFailures
          /\ rows' \in [Key -> Rows]
          /\ pc' \in {"kill", "exec", "idle"} /\ (pc' = "exec" => pending' # NoAction)
      BY <2>1, Transactions, FirmEvents, StoreStep, RowTypes, RowsStep
    <2> QED
      BY <1>1, <1>4, <2>2 DEF Dispatch, Spend, Sane, Types, FaultyTypeOK, Rows, Grows
  <1>5. ASSUME NEW denied \in BOOLEAN, StopRequest(k, denied) PROVE Sane
    <2> DEFINE first == IF denied THEN Apply(disk, Event("RequestDenied")) ELSE disk
    <2>1. RequestCommit(k, Row("stop", NoRow), Apply(first, Event("StopLatched")), TRUE)
      BY <1>5 DEF StopRequest
    <2>2. "RequestDenied" \in PlainKinds /\ "StopLatched" \in PlainKinds
      BY DEF PlainKinds
    <2>3. Written(Apply(first, Event("StopLatched")))
      BY <2>1, Transactions
    <2>4. Grows(disk, disk') /\ failures' \in 0..MaxFailures
      <3>1. CASE denied
        BY <2>2, <2>3, <3>1, FirmEvents, StoreStep
      <3>2. CASE ~denied
        BY <2>2, <2>3, <3>2, FirmEvents, StoreStep
      <3> QED
        BY <3>1, <3>2
    <2>5. /\ rows' \in [Key -> Rows]
          /\ pc' \in {"kill", "exec", "idle"} /\ (pc' = "exec" => pending' # NoAction)
      BY <2>1, Transactions, RowTypes, RowsStep
    <2> QED
      BY <1>1, <1>5, <2>4, <2>5 DEF StopRequest, Latch, Sane, Types, FaultyTypeOK, Rows, Grows
  <1>6. ASSUME NEW denied \in BOOLEAN, Other(k, denied) PROVE Sane
    <2> DEFINE after == IF denied THEN Apply(disk, Event("RequestDenied")) ELSE disk
    <2>1. RequestCommit(k, Row("none", NoRow), after, FALSE)
      BY <1>6 DEF Other
    <2>2. "RequestDenied" \in PlainKinds
      BY DEF PlainKinds
    <2>3. Written(after)
      BY <2>1, Transactions
    <2>4. Grows(disk, disk') /\ failures' \in 0..MaxFailures
      BY <2>2, <2>3, FirmEvents, StoreStep
    <2>5. /\ rows' \in [Key -> Rows]
          /\ pc' \in {"kill", "exec", "idle"} /\ (pc' = "exec" => pending' # NoAction)
      BY <2>1, Transactions, RowTypes, RowsStep
    <2> QED
      BY <1>1, <1>6, <2>4, <2>5 DEF Other, Sane, Types, FaultyTypeOK, Rows, Grows
  <1> QED
    BY <1>2, <1>3, <1>4, <1>5, <1>6

\* The rest of an entry: a kill with its event, or a release.
LEMMA AnswerSane ==
    ASSUME Types, Answer \/ IssueKill("killsample", "sample") \/ IssueKill("killreap", "reap")
    PROVE  Sane
  <1> USE DEF memory, store, engine, host
  <1>1. ASSUME NEW step, NEW next \in {"exec", "idle", "sample", "reap"}, IssueKill(step, next),
               next = "exec" => pending # NoAction
        PROVE  Sane
    <2>1. "KillIssued" \in PlainKinds
      BY DEF PlainKinds
    <2>2. SwallowedCommit(Apply(disk, Event("KillIssued")))
      BY <1>1 DEF IssueKill
    <2>3. Grows(disk, disk') /\ failures' \in 0..MaxFailures /\ rows' = rows
      BY <2>1, <2>2, Transactions, FirmEvents, StoreStep
    <2> QED
      BY <1>1, <2>3 DEF IssueKill, Sane, Types, FaultyTypeOK, Grows
  <1>2. ASSUME Release PROVE Sane
    <2>1. pending \in ActionId
      BY <1>2 DEF Release, Types, FaultyTypeOK
    <2>2. Grows(disk, disk')
      BY <1>2, StoreStep DEF Release
    <2> QED
      BY <1>2, <2>1, <2>2 DEF Release, Sane, Types, FaultyTypeOK, Proc, Grows
  <1>3. ASSUME ReleaseFails PROVE Sane
    <2>1. CASE act[pending] = "DISPATCHED" /\ state \in {"RUNNING", "STOPPING", "UNCONFIRMED"}
      <3>1. /\ Resolve({pending})
            /\ SwallowedCommit(Apply(disk, About("ActionFinished", {pending}, "FAILED")))
        BY <1>3, <2>1 DEF ReleaseFails
      <3>2. Grows(disk, disk') /\ failures' \in 0..MaxFailures /\ rows' = rows
        BY <3>1, Transactions, FirmEvents, StoreStep
      <3>3. act' \in [ActionId -> ActionStates]
        BY <3>1, ResolveType
      <3> QED
        BY <1>3, <3>2, <3>3 DEF ReleaseFails, Sane, Types, FaultyTypeOK, Grows
    <2>2. CASE ~(act[pending] = "DISPATCHED" /\ state \in {"RUNNING", "STOPPING", "UNCONFIRMED"})
      <3>1. UNCHANGED <<act, disk, rows, failures>>
        BY <1>3, <2>2 DEF ReleaseFails
      <3>2. Grows(disk, disk')
        BY <3>1, StoreStep
      <3> QED
        BY <1>3, <3>1, <3>2 DEF ReleaseFails, Sane, Types, FaultyTypeOK, Grows
    <2> QED
      BY <2>1, <2>2
  <1>4. AfterCommit(pending) \in {"exec", "idle"}
        /\ (AfterCommit(pending) = "exec" => pending # NoAction)
    BY DEF AfterCommit
  <1> QED
    BY <1>1, <1>2, <1>3, <1>4 DEF Answer

\* A tick, with what it resolves and expires.
LEMMA TickSane ==
    ASSUME Types, Tick
    PROVE  Sane
  <1> USE DEF memory, store, engine, host
  <1>1. ASSUME NEW e, NEW next \in {"killsample", "reap", "progress", "close", "empty", "finalize", "idle"},
               TickCommit(Apply(disk, e), next), Firm(e)
        PROVE  /\ Grows(disk, disk') /\ failures' \in 0..MaxFailures /\ rows' = rows
               /\ pc' \in {next, "gone"}
    BY <1>1, Transactions, StoreStep
  <1>2. {"StopLatched", "SampleRecorded", "FaultObserved", "KillUnconfirmed", "ContainmentEmpty"}
           \subseteq PlainKinds
    BY DEF PlainKinds
  <1>3. CASE TickLatch
    <2>1. TickCommit(Apply(disk, Event("StopLatched")), "killsample")
      BY <1>3 DEF TickLatch
    <2>2. /\ Grows(disk, disk') /\ failures' \in 0..MaxFailures /\ rows' = rows
          /\ pc' \in {"killsample", "gone"}
      BY <1>1, <1>2, <2>1, FirmEvents
    <2> QED
      BY <1>3, <2>2 DEF TickLatch, Latch, Sane, Types, FaultyTypeOK, Grows
  <1>4. CASE TickBegin
    <2>1. Grows(disk, disk')
      BY <1>4, StoreStep DEF TickBegin
    <2> QED
      BY <1>4, <2>1 DEF TickBegin, Sane, Types, FaultyTypeOK, Grows
  <1>5. CASE Sample
    <2>1. Written(Apply(disk, Event("SampleRecorded")))
      BY <1>5 DEF Sample, Committed, Written
    <2>2. Grows(disk, disk') /\ failures' \in 0..MaxFailures
      BY <1>2, <2>1, FirmEvents, StoreStep
    <2> QED
      BY <1>5, <2>2 DEF Sample, Sane, Types, FaultyTypeOK, Grows
  <1>6. CASE GuardTrips
    <2>1. Written(Apply(disk, Event("StopLatched"))) /\ pc' \in {"killreap", "fault"}
      BY <1>6 DEF GuardTrips, Committed, Refused, Written
    <2>2. Grows(disk, disk') /\ failures' \in 0..MaxFailures
      BY <1>2, <2>1, FirmEvents, StoreStep
    <2> QED
      BY <1>6, <2>1, <2>2 DEF GuardTrips, Latch, Sane, Types, FaultyTypeOK, Grows
  <1>7. CASE SampleFails
    <2>1. \E kind \in {"StopLatched", "FaultObserved"} : SwallowedCommit(Apply(disk, Event(kind)))
      BY <1>7 DEF SampleFails
    <2>2. Grows(disk, disk') /\ failures' \in 0..MaxFailures /\ rows' = rows
      BY <1>2, <2>1, Transactions, FirmEvents, StoreStep
    <2>3. /\ state' \in {"RUNNING", "STOPPING", "UNCONFIRMED", "FINALIZING", "KILLED"}
          /\ stopped' \in BOOLEAN /\ pc' \in {"killreap", "reap"}
      BY <1>7 DEF SampleFails, Latch, Types, FaultyTypeOK
    <2> QED
      BY <1>7, <2>2, <2>3 DEF SampleFails, Sane, Types, FaultyTypeOK, Grows
  <1>8. CASE Sweep
    <2>1. CASE \E due \in SUBSET {t \in TokenId : tok[t] = "ISSUED"} :
                  /\ state = "RUNNING" /\ due # {}
                  /\ Expire(due)
                  /\ TickCommit(Apply(disk, About("TokenExpired", due, "EXPIRED")), "progress")
      <3>1. PICK due : /\ tok' = Mark(tok, due, "EXPIRED") /\ issued' = issued
                       /\ TickCommit(Apply(disk, About("TokenExpired", due, "EXPIRED")), "progress")
        BY <2>1 DEF Expire
      <3>2. /\ Grows(disk, disk') /\ failures' \in 0..MaxFailures /\ rows' = rows
            /\ pc' \in {"progress", "gone"}
        BY <1>1, <3>1, FirmEvents
      <3>3. tok' \in [TokenId -> TokenStates]
        BY <3>1, MarkType DEF Types, FaultyTypeOK, TokenStates
      <3> QED
        BY <1>8, <3>1, <3>2, <3>3 DEF Sweep, Sane, Types, FaultyTypeOK, Grows
    <2>2. CASE pc' = "progress" /\ UNCHANGED <<tok, issued, store>>
      <3>1. Grows(disk, disk')
        BY <2>2, StoreStep
      <3> QED
        BY <1>8, <2>2, <3>1 DEF Sweep, Sane, Types, FaultyTypeOK, Grows
    <2> QED
      BY <1>8, <2>1, <2>2 DEF Sweep
  <1>9. ASSUME NEW a \in ActionId, Reap(a) PROVE Sane
    <2>1. CASE act[a] = "DISPATCHED"
      <3>1. Resolve({a}) /\ TickCommit(Apply(disk, About("ActionFinished", {a}, "FAILED")), "reap")
        BY <1>9, <2>1 DEF Reap
      <3>2. /\ Grows(disk, disk') /\ failures' \in 0..MaxFailures /\ rows' = rows
            /\ pc' \in {"reap", "gone"}
        BY <1>1, <3>1, FirmEvents
      <3>3. act' \in [ActionId -> ActionStates]
        BY <3>1, ResolveType
      <3> QED
        BY <1>9, <3>2, <3>3 DEF Reap, Sane, Types, FaultyTypeOK, Grows
    <2>2. CASE act[a] # "DISPATCHED"
      <3>1. pc' = "reap" /\ UNCHANGED <<act, disk, rows, failures>>
        BY <1>9, <2>2 DEF Reap
      <3>2. Grows(disk, disk')
        BY <3>1, StoreStep
      <3> QED
        BY <1>9, <3>1, <3>2 DEF Reap, Sane, Types, FaultyTypeOK, Grows
    <2> QED
      BY <2>1, <2>2
  <1>10. CASE NoProgress \/ RetryKill
    <2>1. UNCHANGED <<memory, store, engine, alive, released>> /\ pc' = "idle" /\ killed' \in BOOLEAN
      BY <1>10 DEF NoProgress, RetryKill, Types, FaultyTypeOK
    <2>2. Grows(disk, disk')
      BY <2>1, StoreStep
    <2> QED
      BY <2>1, <2>2 DEF Sane, Types, FaultyTypeOK, Grows
  <1>11. CASE GiveUpConfirming
    <2>1. TickCommit(Apply(disk, Event("KillUnconfirmed")), "idle")
      BY <1>11 DEF GiveUpConfirming
    <2>2. /\ Grows(disk, disk') /\ failures' \in 0..MaxFailures /\ rows' = rows
          /\ pc' \in {"idle", "gone"}
      BY <1>1, <1>2, <2>1, FirmEvents
    <2> QED
      BY <1>11, <2>2 DEF GiveUpConfirming, Sane, Types, FaultyTypeOK, Grows
  <1>12. CASE Drain
    <2> DEFINE open == {a \in ActionId : act[a] = "DISPATCHED"}
    <2>1. /\ watched' = watched \ open
          /\ IF open = {} THEN pc' = "close" /\ UNCHANGED <<act, store>>
             ELSE /\ Resolve(open)
                  /\ TickCommit(Apply(disk, About("ActionFinished", open, "FAILED")), "close")
      BY <1>12 DEF Drain
    <2> HIDE DEF open
    <2>2. /\ Grows(disk, disk') /\ failures' \in 0..MaxFailures /\ rows' = rows
          /\ pc' \in {"close", "gone"} /\ act' \in [ActionId -> ActionStates]
      <3>1. CASE open = {}
        <4>1. pc' = "close" /\ UNCHANGED <<act, disk, rows, failures>>
          BY <2>1, <3>1
        <4> QED
          BY <4>1, StoreStep DEF Types, FaultyTypeOK
      <3>2. CASE open # {}
        <4>1. Resolve(open) /\ TickCommit(Apply(disk, About("ActionFinished", open, "FAILED")), "close")
          BY <2>1, <3>2
        <4> QED
          BY <1>1, <4>1, FirmEvents, ResolveType
      <3> QED
        BY <3>1, <3>2
    <2> QED
      BY <1>12, <2>1, <2>2 DEF Drain, Sane, Types, FaultyTypeOK, Grows
  <1>13. CASE FinalSampleFails
    <2>1. TickCommit(Apply(disk, Event("FaultObserved")), "empty")
      BY <1>13 DEF FinalSampleFails
    <2>2. /\ Grows(disk, disk') /\ failures' \in 0..MaxFailures /\ rows' = rows
          /\ pc' \in {"empty", "gone"}
      BY <1>1, <1>2, <2>1, FirmEvents
    <2> QED
      BY <1>13, <2>2 DEF FinalSampleFails, Sane, Types, FaultyTypeOK, Grows
  <1>14. CASE Close
    <2>1. TickCommit(Apply(disk, Event("ContainmentEmpty")), "finalize")
      BY <1>14 DEF Close
    <2>2. /\ Grows(disk, disk') /\ failures' \in 0..MaxFailures /\ rows' = rows
          /\ pc' \in {"finalize", "gone"}
      BY <1>1, <1>2, <2>1, FirmEvents
    <2> QED
      BY <1>14, <2>2 DEF Close, Sane, Types, FaultyTypeOK, Grows
  <1>15. CASE Finalize
    <2>1. TickCommit(Apply(disk, About("RunFinalized", {}, "KILLED")), "idle")
      BY <1>15 DEF Finalize
    <2>2. /\ Grows(disk, disk') /\ failures' \in 0..MaxFailures /\ rows' = rows
          /\ pc' \in {"idle", "gone"}
      BY <1>1, <2>1, FirmEvents
    <2> QED
      BY <1>15, <2>2 DEF Finalize, Sane, Types, FaultyTypeOK, Grows
  <1> QED
    BY <1>3, <1>4, <1>5, <1>6, <1>7, <1>8, <1>9, <1>10, <1>11, <1>12, <1>13, <1>14, <1>15,
       AnswerSane DEF Tick

\* Every step keeps the types and lets the journal grow.
LEMMA StepSane ==
    ASSUME Types, [Next]_vars
    PROVE  Sane
  <1>1. ASSUME NEW c \in Proc, Exit(c) PROVE Sane
    <2>1. Grows(disk, disk')
      BY <1>1, StoreStep DEF Exit, store
    <2> QED
      BY <1>1, <2>1 DEF Exit, Sane, Types, FaultyTypeOK, memory, store, engine
  <1>2. CASE UNCHANGED vars
    <2>1. Grows(disk, disk')
      BY <1>2, StoreStep DEF vars, store
    <2> QED
      BY <1>2, <2>1 DEF Sane, Types, FaultyTypeOK, vars, memory, store, engine, host
  <1> QED
    BY <1>1, <1>2, RequestSane, AnswerSane, TickSane DEF Next

\* The variables keep their types, however transactions are refused.
LEMMA TypesInit == Init => Types
  <1> SUFFICES ASSUME Init PROVE Types
    OBVIOUS
  <1>1. disk \in Replays
    BY DEF Init, EmptyReplay, Replays, RunStates, LiveStates, TokenStates, ActionStates,
           ComputeStates
  <1>2. 0 \in 0..SpawnCap /\ 0 \in 0..MaxFailures
    BY FaultyAssumption
  <1> QED
    BY <1>1, <1>2 DEF Init, Types, FaultyTypeOK, TokenStates, ActionStates, Proc

\* The types, with an effect to execute wherever one is executed, are inductive.
LEMMA TypesAlways == Spec => []Types
  <1>1. Types /\ [Next]_vars => Types'
    BY StepSane DEF Sane
  <1> QED
    BY <1>1, TypesInit, PTL DEF Spec

\* The variables hold values of their types, for any keys, identifiers and budget.
THEOREM FaultyTypesAlways == Spec => []FaultyTypeOK
  <1>1. Types => FaultyTypeOK
    BY DEF Types
  <1> QED
    BY <1>1, TypesAlways, PTL

-------------------------------------------------------------------------------
(***************************************************************************)
(* A token buys one effect.                                                *)
(***************************************************************************)
\* How a step moves tokens, actions and effects.
Still == UNCHANGED <<tok, holder>> /\ (\A a \in ActionId : act'[a] = "NONE" <=> act[a] = "NONE")

Rest == UNCHANGED <<pending, released>>

Forgets == pending' = NoAction /\ released' \subseteq released \cup ({pending} \ {NoAction})

Issues(t) ==
    /\ tok[t] = "NONE" /\ tok' = [tok EXCEPT ![t] = "ISSUED"]
    /\ UNCHANGED <<act, holder>> /\ Rest

Spends(t, a) ==
    /\ tok[t] = "ISSUED" /\ tok' = [tok EXCEPT ![t] = "SPENT"]
    /\ act[a] = "NONE" /\ act' = [act EXCEPT ![a] = "DISPATCHED"]
    /\ holder' = [holder EXCEPT ![a] = t]
    /\ pending' = a /\ released' = released

Expires ==
    /\ \E due \in SUBSET {t \in TokenId : tok[t] = "ISSUED"} : tok' = Mark(tok, due, "EXPIRED")
    /\ UNCHANGED <<act, holder>> /\ Rest

\* What a reaper resolves was dispatched before and stays so.
LEMMA ResolveStill ==
    ASSUME Types, NEW failed, Resolve(failed), \A a \in ActionId \cap failed : act[a] # "NONE"
    PROVE  \A a \in ActionId : act'[a] = "NONE" <=> act[a] = "NONE"
  BY DEF Resolve

\* All that a step may do to tokens and to the actions they bought.
LEMMA TokenMoves ==
    ASSUME Types, [Next]_vars
    PROVE  \/ Still /\ (Rest \/ Forgets)
           \/ \E t \in TokenId : Issues(t) \/ \E a \in ActionId : Spends(t, a)
           \/ Expires
  <1> DEFINE Goal == \/ Still /\ (Rest \/ Forgets)
                     \/ \E t \in TokenId : Issues(t) \/ \E a \in ActionId : Spends(t, a)
                     \/ Expires
  <1> SUFFICES Goal
    OBVIOUS
  <1> USE DEF memory, store, engine, host
  <1>1. CASE Request
    <2>1. ASSUME NEW k \in Key, NEW t \in TokenId, Issue(k, t) PROVE Goal
      <3>1. Issues(t)
        BY <2>1 DEF Issue, Issues, Rest
      <3> QED
        BY <3>1
    <2>2. ASSUME NEW k \in Key, NEW t \in TokenId, NEW a \in ActionId, Dispatch(k, t, a) PROVE Goal
      <3>1. Spends(t, a)
        BY <2>2 DEF Dispatch, Spend, Spends
      <3> QED
        BY <3>1
    <2>3. ASSUME NEW k \in Key, NEW denied \in BOOLEAN, StopRequest(k, denied) \/ Other(k, denied)
          PROVE  Goal
      BY <2>3 DEF StopRequest, Other, Still, Rest
    <2> QED
      BY <1>1, <2>1, <2>2, <2>3 DEF Request
  <1>2. ASSUME NEW step, NEW next, IssueKill(step, next) PROVE Goal
    BY <1>2 DEF IssueKill, Still, Rest
  <1>3. CASE Release
    BY <1>3 DEF Release, Still, Forgets, Types
  <1>4. CASE ReleaseFails
    <2>1. Still
      <3>1. CASE act[pending] = "DISPATCHED" /\ state \in {"RUNNING", "STOPPING", "UNCONFIRMED"}
        <4>1. Resolve({pending}) /\ UNCHANGED <<tok, holder>>
          BY <1>4, <3>1 DEF ReleaseFails
        <4> QED
          BY <3>1, <4>1, ResolveStill DEF Still
      <3>2. CASE ~(act[pending] = "DISPATCHED" /\ state \in {"RUNNING", "STOPPING", "UNCONFIRMED"})
        BY <1>4, <3>2 DEF ReleaseFails, Still
      <3> QED
        BY <3>1, <3>2
    <2> QED
      BY <1>4, <2>1 DEF ReleaseFails, Forgets
  <1>5. CASE Tick
    <2>1. CASE TickLatch \/ TickBegin \/ Sample \/ GuardTrips \/ SampleFails \/ NoProgress
               \/ GiveUpConfirming \/ RetryKill \/ FinalSampleFails \/ Close \/ Finalize
      BY <2>1 DEF TickLatch, TickBegin, Sample, GuardTrips, SampleFails, NoProgress,
                  GiveUpConfirming, RetryKill, FinalSampleFails, Close, Finalize, Still, Rest
    <2>2. CASE Sweep
      BY <2>2 DEF Sweep, Expire, Still, Rest, Expires
    <2>3. ASSUME NEW a \in ActionId, Reap(a) PROVE Goal
      <3>1. Still
        <4>1. CASE act[a] = "DISPATCHED"
          <5>1. Resolve({a}) /\ UNCHANGED <<tok, holder>>
            BY <2>3, <4>1 DEF Reap
          <5> QED
            BY <4>1, <5>1, ResolveStill DEF Still
        <4>2. CASE act[a] # "DISPATCHED"
          BY <2>3, <4>2 DEF Reap, Still
        <4> QED
          BY <4>1, <4>2
      <3> QED
        BY <2>3, <3>1 DEF Reap, Rest
    <2>4. CASE Drain
      <3> DEFINE open == {a \in ActionId : act[a] = "DISPATCHED"}
      <3>1. UNCHANGED <<tok, holder>> /\ (act' = act \/ Resolve(open))
        BY <2>4 DEF Drain
      <3>2. \A a \in ActionId \cap open : act[a] # "NONE"
        OBVIOUS
      <3>3. Still
        BY <3>1, <3>2, ResolveStill DEF Still
      <3> QED
        BY <2>4, <3>3 DEF Drain, Rest
    <2> QED
      BY <1>2, <1>5, <2>1, <2>2, <2>3, <2>4 DEF Tick
  <1>6. ASSUME NEW c \in Proc, Exit(c) PROVE Goal
    BY <1>6 DEF Exit, Still, Rest
  <1>7. CASE UNCHANGED vars
    BY <1>7 DEF vars, Still, Rest
  <1>8. CASE Answer
    BY <1>2, <1>3, <1>4, <1>8 DEF Answer
  <1> HIDE DEF Goal, memory, store, engine, host
  <1> QED
    BY <1>1, <1>5, <1>6, <1>7, <1>8 DEF Next

\* A spent token stays spent, and only a token nobody has spent is spent.
LEMMA TokensStep ==
    ASSUME Types, Types', Tokens, [Next]_vars
    PROVE  Tokens'
  <1>1. /\ tok \in [TokenId -> TokenStates] /\ act \in [ActionId -> ActionStates]
        /\ holder \in [ActionId -> TokenId \cup {NoRow}]
        /\ pending \in ActionId \cup {NoAction} /\ released \subseteq ActionId
        /\ pending' \in ActionId \cup {NoAction} /\ released' \subseteq ActionId
    BY DEF Types, FaultyTypeOK
  <1>2. CASE Still /\ (Rest \/ Forgets)
    BY <1>1, <1>2 DEF Still, Rest, Forgets, Tokens
  <1>3. ASSUME NEW t \in TokenId, Issues(t) PROVE Tokens'
    BY <1>1, <1>3 DEF Issues, Rest, Tokens
  <1>4. ASSUME NEW t \in TokenId, NEW a \in ActionId, Spends(t, a) PROVE Tokens'
    <2>1. \A b \in ActionId : act'[b] # "NONE" =>
             holder'[b] \in TokenId /\ tok'[holder'[b]] = "SPENT"
      BY <1>1, <1>4 DEF Spends, Tokens
    <2>2. ASSUME NEW b \in ActionId, NEW c \in ActionId, act'[b] # "NONE", act'[c] # "NONE",
                 holder'[b] = holder'[c]
          PROVE  b = c
      <3>1. \A d \in ActionId : d # a /\ act'[d] # "NONE" => holder'[d] # t
        BY <1>1, <1>4 DEF Spends, Tokens
      <3> QED
        BY <1>1, <1>4, <2>2, <3>1 DEF Spends, Tokens
    <2>3. (\A b \in released' : act'[b] # "NONE") /\ act'[pending'] # "NONE"
      BY <1>1, <1>4 DEF Spends, Tokens
    <2> QED
      BY <2>1, <2>2, <2>3 DEF Tokens
  <1>5. CASE Expires
    <2>1. PICK due \in SUBSET {t \in TokenId : tok[t] = "ISSUED"} : tok' = Mark(tok, due, "EXPIRED")
      BY <1>5 DEF Expires
    <2>2. \A t \in TokenId : tok[t] = "SPENT" => tok'[t] = "SPENT"
      BY <1>1, <2>1 DEF Mark
    <2>3. UNCHANGED <<act, holder, pending, released>>
      BY <1>5 DEF Expires, Rest
    <2> QED
      BY <2>2, <2>3 DEF Tokens
  <1> QED
    BY <1>2, <1>3, <1>4, <1>5, TokenMoves

\* Every step keeps the types, and with them what a token was spent on.
LEMMA TokensAlways == Spec => []Tokens
  <1>1. Init => Tokens
    BY DEF Init, Tokens
  <1>2. Types /\ Types' /\ Tokens /\ [Next]_vars => Tokens'
    BY TokensStep
  <1> QED
    BY <1>1, <1>2, TypesAlways, PTL DEF Spec

\* However transactions are refused and requests retried, a token never releases
\* two effects: memory spends it before the transaction and is not rolled back
\* (Run._action_dispatch, Run._exec_after_commit).
THEOREM TokenBuysOneEffectAlways == Spec => []TokenBuysOneEffect
  <1>1. Types /\ Tokens => TokenBuysOneEffect
    BY DEF Types, FaultyTypeOK, Tokens, TokenBuysOneEffect
  <1> QED
    BY <1>1, TypesAlways, TokensAlways, PTL

-------------------------------------------------------------------------------
(***************************************************************************)
(* What a client was told stays true.                                      *)
(***************************************************************************)
\* The journal holds the subject of a stored reply.
Backed(rs, row) ==
    rs.ok =>
       /\ row.op = "token" => rs.tok[row.subject] # "NONE"
       /\ row.op = "action" => rs.act[row.subject] # "NONE"

Durable == \A k \in Key : rows[k] # NoRow => Backed(disk, rows[k])

\* A row that is a token's or an action's names one.
Named == \A k \in Key : rows[k] # NoRow =>
            /\ rows[k].op = "token" => rows[k].subject \in TokenId
            /\ rows[k].op = "action" => rows[k].subject \in ActionId

\* The reply a request stores says what its transaction wrote.
Answers(row, after) ==
    \/ row.op \notin {"token", "action"}
    \/ row.op = "token" /\ row.subject \in TokenId
         /\ (after.ok => after.tok[row.subject] # "NONE")
    \/ row.op = "action" /\ row.subject \in ActionId
         /\ (after.ok => after.act[row.subject] # "NONE")

\* An event that the replay takes leaves its token and its action behind.
LEMMA IssueAnswers ==
    ASSUME NEW rs \in Replays, NEW t \in TokenId
    PROVE  Answers(Row("token", t), Apply(rs, About("TokenIssued", {t}, "ISSUED")))
  <1> DEFINE e == About("TokenIssued", {t}, "ISSUED")
  <1>1. e.kind \in TokenKinds /\ e.ids = {t} /\ e.to = "ISSUED"
    BY DEF About, TokenKinds
  <1>2. rs.tok \in [TokenId -> TokenStates]
    BY DEF Replays
  <1> HIDE DEF e
  <1>3. CASE Legal(rs, e)
    <2>1. Apply(rs, e).tok = Mark(rs.tok, {t}, "ISSUED")
      BY <1>1, <1>3 DEF Apply
    <2>2. Apply(rs, e).tok[t] = "ISSUED"
      BY <1>2, <2>1 DEF Mark
    <2> QED
      BY <2>2 DEF Answers, Row, e
  <1>4. CASE ~Legal(rs, e)
    <2>1. ~Apply(rs, e).ok
      BY <1>4 DEF Apply, Replays
    <2> QED
      BY <2>1 DEF Answers, Row, e
  <1> QED
    BY <1>3, <1>4

\* The row of a dispatch tells what the journal then holds.
LEMMA SpendAnswers ==
    ASSUME NEW rs \in Replays, NEW t \in TokenId, NEW a \in ActionId
    PROVE  Answers(Row("action", a), Apply(rs, TokenSpent(t, a)))
  <1> DEFINE e == TokenSpent(t, a)
  <1>1. e.kind = "TokenSpent" /\ e.kind \notin ActionKinds /\ e.action = a
    BY DEF TokenSpent, ActionKinds
  <1>2. rs.act \in [ActionId -> ActionStates]
    BY DEF Replays
  <1> HIDE DEF e
  <1>3. CASE Legal(rs, e)
    <2>1. Apply(rs, e).act = Mark(rs.act, {a}, "DISPATCHED")
      BY <1>1, <1>3 DEF Apply
    <2>2. Apply(rs, e).act[a] = "DISPATCHED"
      BY <1>2, <2>1 DEF Mark
    <2> QED
      BY <2>2 DEF Answers, Row, e
  <1>4. CASE ~Legal(rs, e)
    <2>1. ~Apply(rs, e).ok
      BY <1>4 DEF Apply, Replays
    <2> QED
      BY <2>1 DEF Answers, Row, e
  <1> QED
    BY <1>3, <1>4

\* A step stores no reply, or one that its own transaction bears out.
LEMMA RowMoves ==
    ASSUME Types, [Next]_vars
    PROVE  rows' = rows \/ \E k \in Key : \E row : rows' = [rows EXCEPT ![k] = row] /\ Answers(row, disk')
  <1> DEFINE Goal == \/ rows' = rows
                     \/ \E k \in Key : \E row : rows' = [rows EXCEPT ![k] = row] /\ Answers(row, disk')
  <1>1. disk \in Replays
    BY DEF Types, FaultyTypeOK
  <1>2. ASSUME NEW k \in Key, NEW row, NEW after, NEW latches,
               RequestCommit(k, row, after, latches), Answers(row, after)
        PROVE  Goal
    <2>1. rows' = rows \/ (disk' = after /\ rows' = [rows EXCEPT ![k] = row])
      BY <1>2, Transactions
    <2> QED
      BY <1>2, <2>1
  <1>3. ASSUME NEW after, NEW next, TickCommit(after, next) PROVE Goal
    BY <1>3 DEF TickCommit
  <1>4. ASSUME NEW after, SwallowedCommit(after) PROVE Goal
    BY <1>4 DEF SwallowedCommit
  <1>5. ASSUME UNCHANGED store PROVE Goal
    BY <1>5 DEF store
  <1>6. \A after : Answers(Row("stop", NoRow), after) /\ Answers(Row("none", NoRow), after)
    BY DEF Answers, Row
  <1> SUFFICES Goal
    OBVIOUS
  <1> HIDE DEF Goal
  <1>7. CASE Request
    <2>1. ASSUME NEW k \in Key, NEW t \in TokenId, Issue(k, t) PROVE Goal
      <3>1. Answers(Row("token", t), Apply(disk, About("TokenIssued", {t}, "ISSUED")))
        BY <1>1, IssueAnswers
      <3> QED
        BY <1>2, <2>1, <3>1 DEF Issue
    <2>2. ASSUME NEW k \in Key, NEW t \in TokenId, NEW a \in ActionId, Dispatch(k, t, a) PROVE Goal
      <3>1. Answers(Row("action", a), Apply(disk, TokenSpent(t, a)))
        BY <1>1, SpendAnswers
      <3> QED
        BY <1>2, <2>2, <3>1 DEF Dispatch
    <2>3. ASSUME NEW k \in Key, NEW denied \in BOOLEAN, StopRequest(k, denied) PROVE Goal
      BY <1>2, <1>6, <2>3 DEF StopRequest
    <2>4. ASSUME NEW k \in Key, NEW denied \in BOOLEAN, Other(k, denied) PROVE Goal
      BY <1>2, <1>6, <2>4 DEF Other
    <2> QED
      BY <1>7, <2>1, <2>2, <2>3, <2>4 DEF Request
  <1>8. ASSUME NEW step, NEW next, IssueKill(step, next) PROVE Goal
    BY <1>4, <1>8 DEF IssueKill
  <1>9. CASE Release \/ ReleaseFails
    BY <1>4, <1>5, <1>9 DEF Release, ReleaseFails
  <1>10. CASE Tick
    <2>1. CASE TickLatch \/ GiveUpConfirming \/ FinalSampleFails \/ Close \/ Finalize
      BY <1>3, <2>1 DEF TickLatch, GiveUpConfirming, FinalSampleFails, Close, Finalize
    <2>2. CASE TickBegin \/ NoProgress \/ RetryKill
      BY <1>5, <2>2 DEF TickBegin, NoProgress, RetryKill
    <2>3. CASE Sample \/ GuardTrips
      BY <2>3 DEF Sample, GuardTrips, Goal
    <2>4. CASE SampleFails
      BY <1>4, <2>4 DEF SampleFails
    <2>5. CASE Sweep
      BY <1>3, <1>5, <2>5 DEF Sweep
    <2>6. ASSUME NEW a \in ActionId, Reap(a) PROVE Goal
      BY <1>3, <1>5, <2>6 DEF Reap
    <2>7. CASE Drain
      BY <1>3, <1>5, <2>7 DEF Drain
    <2> QED
      BY <1>8, <1>10, <2>1, <2>2, <2>3, <2>4, <2>5, <2>6, <2>7 DEF Tick
  <1>11. ASSUME NEW c \in Proc, Exit(c) PROVE Goal
    BY <1>5, <1>11 DEF Exit
  <1>12. CASE UNCHANGED vars
    BY <1>5, <1>12 DEF vars
  <1>13. CASE Answer
    BY <1>8, <1>9, <1>13 DEF Answer
  <1> QED
    BY <1>7, <1>10, <1>11, <1>12, <1>13 DEF Next

\* The journal grows, so what stood behind the old rows stands behind them still.
LEMMA DurableStep ==
    ASSUME Types, Types', Named, Durable, [Next]_vars
    PROVE  Named' /\ Durable'
  <1>1. Grows(disk, disk')
    BY StepSane DEF Sane
  <1>2. ASSUME NEW k \in Key, rows[k] # NoRow
        PROVE  Backed(disk', rows[k])
    BY <1>1, <1>2 DEF Grows, Backed, Named, Durable
  <1>3. CASE rows' = rows
    BY <1>2, <1>3 DEF Named, Durable
  <1>4. ASSUME NEW k \in Key, NEW row, rows' = [rows EXCEPT ![k] = row], Answers(row, disk')
        PROVE  Named' /\ Durable'
    <2>1. \A j \in Key : rows'[j] = IF j = k THEN row ELSE rows[j]
      BY <1>4 DEF Types, FaultyTypeOK
    <2>2. Backed(disk', row)
      BY <1>4 DEF Answers, Backed
    <2>3. /\ row.op = "token" => row.subject \in TokenId
          /\ row.op = "action" => row.subject \in ActionId
      BY <1>4 DEF Answers
    <2>4. Named'
      BY <2>1, <2>3 DEF Named
    <2>5. Durable'
      BY <1>2, <2>1, <2>2 DEF Durable
    <2> QED
      BY <2>4, <2>5
  <1> QED
    BY <1>3, <1>4, RowMoves

\* What a client was told stays true, whichever transactions the journal
\* refuses before or after (Run._commit, Run._handle_checked).
THEOREM AnsweredIsDurableAlways == Spec => []AnsweredIsDurable
  <1>1. Init => Named /\ Durable
    BY DEF Init, Named, Durable
  <1>2. Types /\ Types' /\ Named /\ Durable /\ [Next]_vars => Named' /\ Durable'
    BY DurableStep
  <1>3. Durable => AnsweredIsDurable
    BY DEF Durable, Backed, AnsweredIsDurable
  <1> QED
    BY <1>1, <1>2, <1>3, TypesAlways, PTL DEF Spec

-------------------------------------------------------------------------------
(***************************************************************************)
(* The slots of the spawn budget.                                          *)
(***************************************************************************)
Slots(rs) == {t \in TokenId : rs.tok[t] # "NONE"}

\* The same tokens, as long as the journal replays.
Keeps(rs, after) == after.ok => rs.ok /\ Slots(after) = Slots(rs)

\* Any event but TokenIssued.
Calm(e) == Firm(e) /\ e.kind # "TokenIssued"

\* Every event but one that issues a token is calm.
LEMMA CalmEvents ==
    /\ \A k \in PlainKinds : Calm(Event(k))
    /\ \A ids : Calm(About("TokenExpired", ids, "EXPIRED"))
    /\ \A t, a : Calm(TokenSpent(t, a))
    /\ \A ids : Calm(About("ActionFinished", ids, "FAILED"))
    /\ Calm(About("RunFinalized", {}, "KILLED"))
  BY FirmEvents DEF Calm, Event, About, TokenSpent, PlainKinds

\* A token must be in the journal to expire or to be spent in it.
LEMMA ApplyKeeps ==
    ASSUME NEW rs \in Replays, NEW e, Calm(e)
    PROVE  Keeps(rs, Apply(rs, e))
  <1>1. rs.tok \in [TokenId -> TokenStates]
    BY DEF Replays
  <1>2. CASE ~Legal(rs, e)
    <2>1. ~Apply(rs, e).ok
      BY <1>2 DEF Apply, Replays
    <2> QED
      BY <2>1 DEF Keeps
  <1>3. CASE Legal(rs, e)
    <2>1. rs.ok /\ SubjectsLegal(rs, e)
      BY <1>3 DEF Legal
    <2>2. Apply(rs, e).tok = IF e.kind \in TokenKinds THEN Mark(rs.tok, e.ids, e.to) ELSE rs.tok
      BY <1>3 DEF Apply
    <2>3. CASE e.kind \in TokenKinds
      <3>1. \A t \in e.ids : rs.tok[t] = "ISSUED"
        BY <2>1, <2>3 DEF SubjectsLegal, TokenKinds, Calm
      <3>2. e.to # "NONE"
        BY <2>3 DEF Calm, Firm
      <3>3. \A t \in TokenId : Apply(rs, e).tok[t] = IF t \in e.ids THEN e.to ELSE rs.tok[t]
        BY <1>1, <2>2, <2>3 DEF Mark
      <3> QED
        BY <2>1, <3>1, <3>2, <3>3 DEF Keeps, Slots
    <2>4. CASE e.kind \notin TokenKinds
      BY <2>1, <2>2, <2>4 DEF Keeps, Slots
    <2> QED
      BY <2>3, <2>4
  <1> QED
    BY <1>2, <1>3

\* No slot is taken, and no token comes into the journal.
Quiet == issued' = issued /\ Keeps(disk, disk') /\ failures' \in Nat /\ failures' >= failures

\* A transaction without an issue is quiet, and so is none.
LEMMA QuietStore ==
    ASSUME Types, issued' = issued
    PROVE  /\ \A e : Calm(e) /\ Written(Apply(disk, e)) => Quiet
           /\ \A e, f : Calm(e) /\ Calm(f) /\ Written(Apply(Apply(disk, e), f)) => Quiet
           /\ Written(disk) => Quiet
           /\ UNCHANGED <<disk, failures>> => Quiet
  <1>1. disk \in Replays /\ failures \in Nat
    BY FaultyAssumption DEF Types, FaultyTypeOK
  <1>2. Keeps(disk, disk)
    BY DEF Keeps
  <1>3. ASSUME NEW after, Keeps(disk, after), Written(after)
        PROVE  Quiet
    BY <1>1, <1>2, <1>3 DEF Written, Quiet
  <1>4. ASSUME NEW e, Calm(e)
        PROVE  Keeps(disk, Apply(disk, e)) /\ Apply(disk, e) \in Replays
    BY <1>1, <1>4, ApplyKeeps, ApplyType DEF Calm, Firm
  <1>5. ASSUME NEW e, NEW f, Calm(e), Calm(f)
        PROVE  Keeps(disk, Apply(Apply(disk, e), f))
    <2>1. Keeps(disk, Apply(disk, e)) /\ Keeps(Apply(disk, e), Apply(Apply(disk, e), f))
      BY <1>4, <1>5, ApplyKeeps
    <2> QED
      BY <2>1 DEF Keeps
  <1>6. \A e : Calm(e) /\ Written(Apply(disk, e)) => Quiet
    BY <1>3, <1>4
  <1>7. \A e, f : Calm(e) /\ Calm(f) /\ Written(Apply(Apply(disk, e), f)) => Quiet
    BY <1>3, <1>5
  <1>8. UNCHANGED <<disk, failures>> => Quiet
    BY <1>1, <1>2 DEF Quiet
  <1> QED
    BY <1>2, <1>3, <1>6, <1>7, <1>8

\* A slot is taken by an issue, whose transaction commits or is refused.
Takes(t) ==
    /\ issued' = issued + 1
    /\ Written(Apply(disk, About("TokenIssued", {t}, "ISSUED")))

\* All that a step may do to the slots.
LEMMA SlotMoves ==
    ASSUME Types, [Next]_vars
    PROVE  Quiet \/ \E t \in TokenId : Takes(t)
  <1> DEFINE Goal == Quiet \/ \E t \in TokenId : Takes(t)
  <1> SUFFICES Goal
    OBVIOUS
  <1>1. {"StopLatched", "SampleRecorded", "FaultObserved", "KillUnconfirmed", "ContainmentEmpty",
         "KillIssued", "RequestDenied"} \subseteq PlainKinds
    BY DEF PlainKinds
  <1>2. ASSUME NEW e, NEW next, TickCommit(Apply(disk, e), next), Calm(e), issued' = issued
        PROVE  Goal
    BY <1>2, Transactions, QuietStore
  <1>3. ASSUME NEW e, SwallowedCommit(Apply(disk, e)), Calm(e), issued' = issued
        PROVE  Goal
    BY <1>3, Transactions, QuietStore
  <1>4. ASSUME UNCHANGED store, issued' = issued
        PROVE  Goal
    BY <1>4, QuietStore DEF store
  <1> HIDE DEF Goal
  <1>5. CASE Request
    <2>1. ASSUME NEW k \in Key, NEW t \in TokenId, Issue(k, t) PROVE Goal
      <3>1. Takes(t)
        BY <2>1, Transactions DEF Issue, Takes
      <3> QED
        BY <3>1 DEF Goal
    <2>2. ASSUME NEW k \in Key, NEW t \in TokenId, NEW a \in ActionId, Dispatch(k, t, a) PROVE Goal
      <3>1. Written(Apply(disk, TokenSpent(t, a))) /\ issued' = issued
        BY <2>2, Transactions DEF Dispatch
      <3> QED
        BY <3>1, CalmEvents, QuietStore DEF Goal
    <2>3. ASSUME NEW k \in Key, NEW denied \in BOOLEAN, StopRequest(k, denied) PROVE Goal
      <3> DEFINE first == IF denied THEN Apply(disk, Event("RequestDenied")) ELSE disk
      <3>1. RequestCommit(k, Row("stop", NoRow), Apply(first, Event("StopLatched")), TRUE)
            /\ issued' = issued
        BY <2>3 DEF StopRequest
      <3>2. Written(Apply(first, Event("StopLatched")))
        BY <3>1, Transactions
      <3>3. CASE denied
        BY <1>1, <3>1, <3>2, <3>3, CalmEvents, QuietStore DEF Goal
      <3>4. CASE ~denied
        BY <1>1, <3>1, <3>2, <3>4, CalmEvents, QuietStore DEF Goal
      <3> QED
        BY <3>3, <3>4
    <2>4. ASSUME NEW k \in Key, NEW denied \in BOOLEAN, Other(k, denied) PROVE Goal
      <3> DEFINE after == IF denied THEN Apply(disk, Event("RequestDenied")) ELSE disk
      <3>1. RequestCommit(k, Row("none", NoRow), after, FALSE) /\ issued' = issued
        BY <2>4 DEF Other, memory
      <3>2. Written(after)
        BY <3>1, Transactions
      <3> QED
        BY <1>1, <3>1, <3>2, CalmEvents, QuietStore DEF Goal
    <2> QED
      BY <1>5, <2>1, <2>2, <2>3, <2>4 DEF Request
  <1>6. ASSUME NEW step, NEW next, IssueKill(step, next) PROVE Goal
    <2>1. SwallowedCommit(Apply(disk, Event("KillIssued"))) /\ issued' = issued
      BY <1>6 DEF IssueKill, memory
    <2> QED
      BY <1>1, <1>3, <2>1, CalmEvents
  <1>7. CASE Release
    BY <1>4, <1>7 DEF Release, memory
  <1>8. CASE ReleaseFails
    <2>1. issued' = issued
      BY <1>8 DEF ReleaseFails
    <2> QED
      BY <1>3, <1>4, <1>8, <2>1, CalmEvents DEF ReleaseFails
  <1>9. CASE Tick
    <2>1. CASE TickLatch \/ GiveUpConfirming \/ FinalSampleFails \/ Close \/ Finalize
      <3>1. issued' = issued
        BY <2>1 DEF TickLatch, GiveUpConfirming, FinalSampleFails, Close, Finalize, memory
      <3>2. CASE Finalize
        BY <1>2, <3>1, <3>2, CalmEvents DEF Finalize
      <3>3. CASE TickLatch
        BY <1>1, <1>2, <3>1, <3>3, CalmEvents DEF TickLatch
      <3>4. CASE GiveUpConfirming
        BY <1>1, <1>2, <3>1, <3>4, CalmEvents DEF GiveUpConfirming
      <3>5. CASE FinalSampleFails
        BY <1>1, <1>2, <3>1, <3>5, CalmEvents DEF FinalSampleFails
      <3>6. CASE Close
        BY <1>1, <1>2, <3>1, <3>6, CalmEvents DEF Close
      <3> QED
        BY <2>1, <3>2, <3>3, <3>4, <3>5, <3>6
    <2>2. CASE TickBegin \/ NoProgress \/ RetryKill
      BY <1>4, <2>2 DEF TickBegin, NoProgress, RetryKill, memory
    <2>3. CASE Sample \/ GuardTrips
      <3>1. /\ issued' = issued
            /\ \E kind \in {"SampleRecorded", "StopLatched"} : Written(Apply(disk, Event(kind)))
        BY <2>3 DEF Sample, GuardTrips, memory, Committed, Refused, Written
      <3> QED
        BY <1>1, <3>1, CalmEvents, QuietStore DEF Goal
    <2>4. CASE SampleFails
      <3>1. /\ issued' = issued
            /\ \E kind \in {"StopLatched", "FaultObserved"} : SwallowedCommit(Apply(disk, Event(kind)))
        BY <2>4 DEF SampleFails
      <3> QED
        BY <1>1, <1>3, <3>1, CalmEvents
    <2>5. CASE Sweep
      <3>1. issued' = issued
        BY <2>5 DEF Sweep, Expire
      <3> QED
        BY <1>2, <1>4, <2>5, <3>1, CalmEvents DEF Sweep
    <2>6. ASSUME NEW a \in ActionId, Reap(a) PROVE Goal
      <3>1. issued' = issued
        BY <2>6 DEF Reap
      <3> QED
        BY <1>2, <1>4, <2>6, <3>1, CalmEvents DEF Reap
    <2>7. CASE Drain
      <3>1. issued' = issued
        BY <2>7 DEF Drain
      <3> QED
        BY <1>2, <1>4, <2>7, <3>1, CalmEvents DEF Drain
    <2> QED
      BY <1>6, <1>9, <2>1, <2>2, <2>3, <2>4, <2>5, <2>6, <2>7 DEF Tick
  <1>10. ASSUME NEW c \in Proc, Exit(c) PROVE Goal
    BY <1>4, <1>10 DEF Exit, memory
  <1>11. CASE UNCHANGED vars
    BY <1>4, <1>11 DEF vars, memory
  <1>12. CASE Answer
    BY <1>6, <1>7, <1>8, <1>12 DEF Answer
  <1> QED
    BY <1>5, <1>9, <1>10, <1>11, <1>12 DEF Next

\* An issue that commits brings one token into the journal, one that is refused
\* brings none and counts as a failure.
LEMMA SlotsStep ==
    ASSUME Types, SlotsAccounted, [Next]_vars
    PROVE  SlotsAccounted'
  <1>1. disk \in Replays /\ issued \in Nat /\ failures \in Nat
    BY FaultyAssumption DEF Types, FaultyTypeOK
  <1>2. ASSUME NEW rs PROVE IsFiniteSet(Slots(rs)) /\ Cardinality(Slots(rs)) \in Nat
    BY FaultyAssumption, FS_Subset, FS_CardinalityType DEF Slots
  <1>3. SUFFICES ASSUME disk'.ok
                 PROVE  /\ Cardinality(Slots(disk')) <= issued'
                        /\ issued' <= Cardinality(Slots(disk')) + failures'
    BY DEF SlotsAccounted, Slots
  <1>4. disk.ok => /\ Cardinality(Slots(disk)) <= issued
                   /\ issued <= Cardinality(Slots(disk)) + failures
    BY DEF SlotsAccounted, Slots
  <1>5. CASE Quiet
    BY <1>1, <1>2, <1>3, <1>4, <1>5 DEF Quiet, Keeps
  <1>6. ASSUME NEW t \in TokenId, Takes(t)
        PROVE  /\ Cardinality(Slots(disk')) <= issued'
               /\ issued' <= Cardinality(Slots(disk')) + failures'
    <2> DEFINE e == About("TokenIssued", {t}, "ISSUED")
    <2>1. CASE disk' = disk /\ failures' = failures + 1
      BY <1>1, <1>2, <1>3, <1>4, <1>6, <2>1 DEF Takes
    <2>2. CASE disk' = Apply(disk, e) /\ failures' = failures
      <3>1. e.kind = "TokenIssued" /\ e.kind \in TokenKinds /\ e.ids = {t} /\ e.to = "ISSUED"
        BY DEF About, TokenKinds
      <3> HIDE DEF e
      <3>2. Legal(disk, e)
        BY <1>1, <1>3, <2>2 DEF Apply, Replays
      <3>3. disk.ok /\ disk.tok[t] = "NONE"
        BY <3>1, <3>2 DEF Legal, SubjectsLegal
      <3>4. disk'.tok = Mark(disk.tok, {t}, "ISSUED") /\ disk.tok \in [TokenId -> TokenStates]
        BY <1>1, <2>2, <3>1, <3>2 DEF Apply, Replays
      <3>5. Slots(disk') = Slots(disk) \cup {t} /\ t \notin Slots(disk)
        BY <3>3, <3>4 DEF Slots, Mark
      <3>6. Cardinality(Slots(disk')) = Cardinality(Slots(disk)) + 1
        BY <1>2, <3>5, FS_AddElement
      <3> QED
        BY <1>1, <1>2, <1>4, <1>6, <2>2, <3>3, <3>6 DEF Takes
    <2> QED
      BY <1>6, <2>1, <2>2 DEF Takes, Written
  <1> QED
    BY <1>5, <1>6, SlotMoves

\* The tokens of the journal stay within the budget whatever was rolled back, and
\* a slot is lost to a refused transaction only (RunCore.token_issue, Run._commit).
THEOREM SlotsAccountedAlways == Spec => []SlotsAccounted
  <1>1. Init => SlotsAccounted
    <2> SUFFICES ASSUME Init PROVE SlotsAccounted
      OBVIOUS
    <2>1. Slots(disk) = {} /\ issued = 0 /\ failures = 0
      BY DEF Init, EmptyReplay, Slots
    <2>2. Cardinality(Slots(disk)) = 0
      BY <2>1, FS_EmptySet
    <2> QED
      BY <2>1, <2>2 DEF SlotsAccounted, Slots
  <1>2. Types /\ SlotsAccounted /\ [Next]_vars => SlotsAccounted'
    BY SlotsStep
  <1> QED
    BY <1>1, <1>2, TypesAlways, PTL DEF Spec

===============================================================================
