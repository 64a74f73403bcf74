---------------------------- MODULE FaultyJournal ----------------------------
(***************************************************************************)
(* A running run whose journal may refuse a transaction: Run._commit,      *)
(* Run._handle_checked and Run._safety_pass of src/lexwatt/engine.py over  *)
(* ledger.Journal.                                                         *)
(*                                                                         *)
(* The reducer changes memory first, then _commit begins, writes and       *)
(* commits; when SQLite refuses, the transaction is rolled back, memory is *)
(* not, and AuditFault leaves the caller: a request answers AUDIT_FAULT, a *)
(* tick or a signal handler lets it through and ends the driver.  Clients  *)
(* retry with the same request key or go on with another.                  *)
(*                                                                         *)
(* One process of the workload is the root, the others are the actions     *)
(* dispatched; channels, payloads, compute and the clock are left to       *)
(* RunCore and Supervisor, so a token may expire and a run may be given up *)
(* at any tick.                                                            *)
(***************************************************************************)
EXTENDS Replay, FiniteSets

CONSTANTS
    Key,         \* request keys: principal and request id
    Root,        \* the root process
    SpawnCap,    \* budgets.spawns
    MaxFailures, \* bound: transactions that are refused
    NoRow, NoAction

Proc == {Root} \cup ActionId

ASSUME FaultyAssumption ==
    /\ SpawnCap \in Nat
    /\ MaxFailures \in Nat
    /\ Root \notin ActionId
    /\ IsFiniteSet(TokenId)

VARIABLES
    pc,        \* the engine's next step; "gone" when the driver has ended
    state,     \* RunCore.state
    stopped,   \* RunCore.stop_reason is set
    tok, act,  \* RunCore.tokens and actions
    holder,    \* the token each action was dispatched with
    issued,    \* RunCore.spawn_issued
    disk,      \* the replay of the committed events
    rows,      \* the request table: what each key asked for and got
    pending,   \* Run._exec_after_commit
    watched,   \* the keys of Run.child_procs
    alive,     \* the processes in the cgroup
    released,  \* the actions whose effect was released
    killed,    \* cgroup.kill has been written
    failures   \* the transactions refused so far

memory == <<state, stopped, tok, act, holder, issued>>
store  == <<disk, rows, failures>>
engine == <<pending, watched>>
host   == <<alive, released, killed>>
vars   == <<pc, memory, store, engine, host>>

Init ==
    /\ pc = "idle"
    /\ state = "RUNNING"
    /\ stopped = FALSE
    /\ tok = [t \in TokenId |-> "NONE"]
    /\ act = [a \in ActionId |-> "NONE"]
    /\ holder = [a \in ActionId |-> NoRow]
    /\ issued = 0
    /\ disk = [EmptyReplay EXCEPT !.st = "RUNNING"]
    /\ rows = [k \in Key |-> NoRow]
    /\ pending = NoAction
    /\ watched = {}
    /\ alive = {Root}
    /\ released = {}
    /\ killed = FALSE
    /\ failures = 0

-------------------------------------------------------------------------------
(***************************************************************************)
(* Run._commit.                                                            *)
(***************************************************************************)
Committed(after) == disk' = after /\ UNCHANGED failures

Refused ==
    /\ failures < MaxFailures
    /\ failures' = failures + 1
    /\ UNCHANGED disk

\* A transaction of a tick or of a signal handler: refused, it ends the driver.
TickCommit(after, next) ==
    /\ \/ Committed(after) /\ pc' = next
       \/ Refused /\ pc' = "gone"
    /\ UNCHANGED rows

\* _fault and _issue_kill swallow AuditFault.
SwallowedCommit(after) == (Committed(after) \/ Refused) /\ UNCHANGED rows

\* Faulty: the reply is stored whether or not the transaction commits.
StoreReply_Outside(k, row) == rows' = [rows EXCEPT ![k] = row]

StoreReply(k, row) ==
    IF disk' = disk /\ failures' # failures
    THEN UNCHANGED rows
    ELSE rows' = [rows EXCEPT ![k] = row]

\* The rest of _handle_checked: an effect waiting from this or from an earlier
\* request is executed by the first request that commits.
AfterCommit(waiting) == IF waiting # NoAction THEN "exec" ELSE "idle"

\* A request of key k: its transaction and its answer.
RequestCommit(k, row, after, latches) ==
    /\ \/ Committed(after) /\ pc' = IF latches THEN "kill" ELSE AfterCommit(pending')
       \/ Refused /\ pc' = "idle"
    /\ StoreReply(k, row)

-------------------------------------------------------------------------------
(***************************************************************************)
(* Requests with a key that has no row; one that has a row is answered     *)
(* from it, or with CONFLICT, and changes nothing.                         *)
(***************************************************************************)
Row(op, subject) == [op |-> op, subject |-> subject]

Live == state \in LiveStates

Fresh(k) == pc = "idle" /\ rows[k] = NoRow

Latch == state' = "STOPPING" /\ stopped' = TRUE

\* Faulty: one token more than the budget.
BelowSpawnCap_Inclusive == issued <= SpawnCap

BelowSpawnCap == issued < SpawnCap

Issue(k, t) ==
    /\ Fresh(k)
    /\ state = "RUNNING"
    /\ BelowSpawnCap
    /\ tok[t] = "NONE"
    /\ tok' = [tok EXCEPT ![t] = "ISSUED"]
    /\ issued' = issued + 1
    /\ UNCHANGED <<state, stopped, act, holder, engine, host>>
    /\ RequestCommit(k, Row("token", t), Apply(disk, About("TokenIssued", {t}, "ISSUED")), FALSE)

\* SPAWN_CAP, or run.stop.
StopRequest(k, denied) ==
    /\ Fresh(k)
    /\ state = "RUNNING"
    /\ denied => ~BelowSpawnCap
    /\ Latch
    /\ UNCHANGED <<tok, act, holder, issued, engine, host>>
    /\ RequestCommit(k, Row("stop", NoRow),
          Apply(IF denied THEN Apply(disk, Event("RequestDenied")) ELSE disk,
                Event("StopLatched")),
          TRUE)

\* The client has the token: its issue was committed and answered.
Held(t) == \E k \in Key : rows[k] = Row("token", t)

\* Faulty: the token is spent when the effect is released.
Spend_Later(t) == UNCHANGED tok

Spend(t) == tok' = [tok EXCEPT ![t] = "SPENT"]

Dispatch(k, t, a) ==
    /\ Fresh(k)
    /\ state = "RUNNING"
    /\ Held(t)
    /\ tok[t] = "ISSUED"
    /\ act[a] = "NONE"
    /\ Spend(t)
    /\ act' = [act EXCEPT ![a] = "DISPATCHED"]
    /\ holder' = [holder EXCEPT ![a] = t]
    /\ pending' = a
    /\ UNCHANGED <<state, stopped, issued, watched, host>>
    /\ RequestCommit(k, Row("action", a), Apply(disk, TokenSpent(t, a)), FALSE)

\* A denied request; a read, a repeated stop, or one that gets STOPPED, which
\* append nothing and store their reply all the same.
Other(k, denied) ==
    /\ Fresh(k)
    /\ denied => Live
    /\ UNCHANGED <<memory, engine, host>>
    /\ RequestCommit(k, Row("none", NoRow),
          IF denied THEN Apply(disk, Event("RequestDenied")) ELSE disk, FALSE)

Request ==
    \E k \in Key :
       \/ \E t \in TokenId : Issue(k, t) \/ \E a \in ActionId : Dispatch(k, t, a)
       \/ \E denied \in BOOLEAN : StopRequest(k, denied) \/ Other(k, denied)

\* _issue_kill, after which the engine goes on at "next".
IssueKill(step, next) ==
    /\ pc = step
    /\ killed' = TRUE
    /\ SwallowedCommit(Apply(disk, Event("KillIssued")))
    /\ UNCHANGED <<memory, engine, alive, released>>
    /\ pc' = next

\* _execute_action: the child is released, while there is a cgroup to put it in.
Release ==
    /\ pc = "exec"
    /\ state # "KILLED"
    /\ alive' = alive \cup {pending}
    /\ released' = released \cup {pending}
    /\ watched' = watched \cup {pending}
    /\ pending' = NoAction
    /\ pc' = "idle"
    /\ UNCHANGED <<memory, store, killed>>

Resolve(failed) == act' = [a \in ActionId |-> IF a \in failed THEN "FAILED" ELSE act[a]]

\* _execute_action: spawn_child fails and the action is finished, by a second
\* transaction of the same request.
ReleaseFails ==
    /\ pc = "exec"
    /\ pending' = NoAction
    /\ IF act[pending] = "DISPATCHED" /\ state \in {"RUNNING", "STOPPING", "UNCONFIRMED"}
       THEN /\ Resolve({pending})
            /\ SwallowedCommit(Apply(disk, About("ActionFinished", {pending}, "FAILED")))
       ELSE UNCHANGED <<act, store>>
    /\ pc' = "idle"
    /\ UNCHANGED <<state, stopped, tok, holder, issued, watched, host>>

-------------------------------------------------------------------------------
(***************************************************************************)
(* Processes exit, of themselves or of a SIGKILL.                          *)
(***************************************************************************)
Exit(c) ==
    /\ c \in alive
    /\ alive' = alive \ {c}
    /\ UNCHANGED <<pc, memory, store, engine, released, killed>>

-------------------------------------------------------------------------------
(***************************************************************************)
(* One tick: latch, sample, reap, sweep, progress; and SIGINT.             *)
(***************************************************************************)
InTick(step) == pc = step /\ state \in {"RUNNING", "STOPPING", "UNCONFIRMED"}

\* Root exit or the wall cap; Run._latch.
TickLatch ==
    /\ InTick("idle")
    /\ state = "RUNNING"
    /\ Latch
    /\ TickCommit(Apply(disk, Event("StopLatched")), "killsample")
    /\ UNCHANGED <<tok, act, holder, issued, engine, host>>

TickBegin ==
    /\ InTick("idle")
    /\ state = "RUNNING" => Root \in alive
    /\ pc' = "sample"
    /\ UNCHANGED <<memory, store, engine, host>>

\* _sample; a refused SampleRecorded is a failed sample like any other.
Sample ==
    /\ pc = "sample"
    /\ Committed(Apply(disk, Event("SampleRecorded")))
    /\ pc' \in {"guard", "reap"}
    /\ pc' = "guard" => state = "RUNNING"
    /\ UNCHANGED <<memory, rows, engine, host>>

\* A sample that trips the guard latches inside _sample: when that transaction
\* is refused, the AuditFault is taken for a failure of the sample.
GuardTrips ==
    /\ pc = "guard"
    /\ state = "RUNNING"
    /\ Latch
    /\ \/ Committed(Apply(disk, Event("StopLatched"))) /\ pc' = "killreap"
       \/ Refused /\ pc' = "fault"
    /\ UNCHANGED <<tok, act, holder, issued, rows, engine, host>>

\* _fault(SENSOR_FAULT) after a failed sample.
SampleFails ==
    /\ pc \in {"sample", "fault"}
    /\ IF state = "RUNNING"
       THEN Latch /\ SwallowedCommit(Apply(disk, Event("StopLatched")))
       ELSE UNCHANGED <<state, stopped>> /\ SwallowedCommit(Apply(disk, Event("FaultObserved")))
    /\ pc' = IF state' = "STOPPING" THEN "killreap" ELSE "reap"
    /\ UNCHANGED <<tok, act, holder, issued, engine, host>>

Reapable == watched \ alive

\* _observe_children.
Reap(a) ==
    /\ pc = "reap"
    /\ a \in Reapable
    /\ watched' = watched \ {a}
    /\ IF act[a] = "DISPATCHED"
       THEN Resolve({a}) /\ TickCommit(Apply(disk, About("ActionFinished", {a}, "FAILED")), "reap")
       ELSE pc' = "reap" /\ UNCHANGED <<act, store>>
    /\ UNCHANGED <<state, stopped, tok, holder, issued, pending, host>>

\* Faulty: a token that expires frees its slot.
Expire_FreesSlot(due) ==
    tok' = Mark(tok, due, "EXPIRED") /\ issued' = issued - Cardinality(due)

Expire(due) == tok' = Mark(tok, due, "EXPIRED") /\ UNCHANGED issued

\* The expiry sweep.
Sweep ==
    /\ pc = "reap"
    /\ Reapable = {}
    /\ \/ \E due \in SUBSET {t \in TokenId : tok[t] = "ISSUED"} :
             /\ state = "RUNNING" /\ due # {}
             /\ Expire(due)
             /\ TickCommit(Apply(disk, About("TokenExpired", due, "EXPIRED")), "progress")
       \/ pc' = "progress" /\ UNCHANGED <<tok, issued, store>>
    /\ UNCHANGED <<state, stopped, act, holder, engine, host>>

Progressing == pc = "progress" /\ state # "RUNNING"

NoProgress ==
    /\ pc = "progress"
    /\ state = "RUNNING"
    /\ pc' = "idle"
    /\ UNCHANGED <<memory, store, engine, host>>

GiveUpConfirming ==
    /\ Progressing
    /\ alive # {}
    /\ state = "STOPPING"
    /\ state' = "UNCONFIRMED"
    /\ TickCommit(Apply(disk, Event("KillUnconfirmed")), "idle")
    /\ UNCHANGED <<stopped, tok, act, holder, issued, engine, host>>

\* Faulty: a stopping run only waits to become empty.
RetryKill_Wait ==
    /\ Progressing
    /\ alive # {}
    /\ pc' = "idle"
    /\ UNCHANGED <<memory, store, engine, host>>

RetryKill ==
    /\ Progressing
    /\ alive # {}
    /\ killed' = TRUE
    /\ pc' = "idle"
    /\ UNCHANGED <<memory, store, engine, alive, released>>

\* _check_empty resolves what is left, then the run is closed and finalised.
Drain ==
    /\ Progressing
    /\ alive = {}
    /\ LET open == {a \in ActionId : act[a] = "DISPATCHED"}
       IN  /\ watched' = watched \ open
           /\ IF open = {}
              THEN pc' = "close" /\ UNCHANGED <<act, store>>
              ELSE Resolve(open) /\ TickCommit(Apply(disk, About("ActionFinished", open, "FAILED")), "close")
    /\ UNCHANGED <<state, stopped, tok, holder, issued, pending, host>>

\* The final sample fails: a diagnostic event of its own.
FinalSampleFails ==
    /\ pc = "close"
    /\ TickCommit(Apply(disk, Event("FaultObserved")), "empty")
    /\ UNCHANGED <<memory, engine, host>>

Close ==
    /\ pc \in {"close", "empty"}
    /\ state' = "FINALIZING"
    /\ TickCommit(Apply(disk, Event("ContainmentEmpty")), "finalize")
    /\ UNCHANGED <<stopped, tok, act, holder, issued, engine, host>>

Finalize ==
    /\ pc = "finalize"
    /\ state' = "KILLED"
    /\ TickCommit(Apply(disk, About("RunFinalized", {}, "KILLED")), "idle")
    /\ UNCHANGED <<stopped, tok, act, holder, issued, engine, host>>

Tick ==
    \/ TickLatch \/ TickBegin \/ Sample \/ GuardTrips \/ SampleFails \/ Sweep
    \/ IssueKill("killsample", "sample") \/ IssueKill("killreap", "reap")
    \/ \E a \in ActionId : Reap(a)
    \/ NoProgress \/ GiveUpConfirming \/ RetryKill \/ Drain \/ FinalSampleFails \/ Close \/ Finalize

-------------------------------------------------------------------------------
Answer == IssueKill("kill", AfterCommit(pending)) \/ Release \/ ReleaseFails

Next == Request \/ Answer \/ Tick \/ \E c \in Proc : Exit(c)

(***************************************************************************)
(* The driver ticks for ever and finishes what it began; see Supervisor.   *)
(***************************************************************************)
Fairness ==
    /\ SF_vars(TickBegin \/ TickLatch)
    /\ WF_vars(pc # "idle" /\ (Answer \/ Tick))

Spec == Init /\ [][Next]_vars /\ Fairness

-------------------------------------------------------------------------------
(***************************************************************************)
(* Properties.                                                             *)
(***************************************************************************)

\* The variables hold values of their types.
FaultyTypeOK ==
    /\ pc \in {"idle", "kill", "exec", "killsample", "sample", "guard", "fault", "killreap",
               "reap", "progress", "close", "empty", "finalize", "gone"}
    /\ state \in {"RUNNING", "STOPPING", "UNCONFIRMED", "FINALIZING", "KILLED"}
    /\ stopped \in BOOLEAN
    /\ tok \in [TokenId -> TokenStates]
    /\ act \in [ActionId -> ActionStates]
    /\ holder \in [ActionId -> TokenId \cup {NoRow}]
    /\ issued \in 0..SpawnCap
    /\ disk \in Replays
    /\ rows \in [Key -> {NoRow} \cup [op : {"token", "action", "stop", "none"},
                                     subject : TokenId \cup ActionId \cup {NoRow}]]
    /\ pending \in ActionId \cup {NoAction}
    /\ watched \subseteq ActionId
    /\ alive \subseteq Proc
    /\ released \subseteq ActionId
    /\ killed \in BOOLEAN
    /\ failures \in 0..MaxFailures

\* However transactions are refused and requests retried, a token never releases
\* two effects (Run._action_dispatch, Run._exec_after_commit).
TokenBuysOneEffect ==
    \A a, b \in released : holder[a] = holder[b] => a = b

\* What a client was told stays true: a stored reply that carries a token or an
\* action has that token or action in the journal (Run._commit).
AnsweredIsDurable ==
    \A k \in Key : disk.ok /\ rows[k] # NoRow =>
        /\ rows[k].op = "token" => disk.tok[rows[k].subject] # "NONE"
        /\ rows[k].op = "action" => disk.act[rows[k].subject] # "NONE"

\* Memory and journal part only by what was refused: the tokens of the journal have
\* a slot each, so that they stay within budgets.spawns whatever was rolled back,
\* and no slot is lost, by a retry or otherwise, but to a refused transaction, one
\* at most to each (RunCore.token_issue, Run._commit).
SlotsAccounted ==
    disk.ok =>
        LET durable == Cardinality({t \in TokenId : disk.tok[t] # "NONE"})
        IN  durable <= issued /\ issued <= durable + failures

\* A latched stop is followed by a kill unless the workload is gone or the
\* driver is, even when the journal refuses the latch (Run._stop_progress).
LatchedIsKilled == stopped ~> (killed \/ alive = {} \/ pc = "gone")

\* Only an action that is in the journal is executed: "the one allowed attempt
\* for a durably-dispatched action" (Run._execute_action).
OnlyDurableReleased ==
    \A a \in released : disk.ok => disk.act[a] # "NONE"

\* Between two steps of the engine a latched run has been killed: "kill issuance
\* never waits for a successful receipt write" (ReceiptWriter, Run._issue_kill).
KillNeverWaits == pc = "idle" /\ stopped /\ alive # {} => killed
===============================================================================
