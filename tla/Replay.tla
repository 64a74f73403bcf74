-------------------------------- MODULE Replay --------------------------------
(***************************************************************************)
(* Event-stream legality, src/lexwatt/replay.py.                           *)
(*                                                                         *)
(* replay_events folds a run's events into a run state and one status per  *)
(* token, action and compute reservation, and raises TRANSITION_INVALID on *)
(* the first event its tables do not allow.  Here the fold is the operator *)
(* Apply: a replay is [st, tok, act, cmp, ok], and "ok" becomes FALSE for  *)
(* good where the code raises.                                             *)
(*                                                                         *)
(* An event is [kind, ids, to]: "ids" are the tokens, actions or computes  *)
(* it is about, "to" the status it gives them (the final run state for     *)
(* RunFinalized).  Events of one kind and status that one transaction      *)
(* appends in a row about different subjects (an expiry sweep, a drain)    *)
(* are one event with several ids: their order cannot matter to the fold.  *)
(***************************************************************************)
EXTENDS Naturals

CONSTANTS
    TokenId,    \* spawn-token identifiers
    ActionId,   \* dispatched-action identifiers
    ComputeId   \* compute-reservation identifiers

LiveStates     == {"CREATED", "ARMING", "RUNNING", "STOPPING", "UNCONFIRMED"}
TerminalStates == {"REJECTED", "COMPLETED", "KILLED", "FAILED"}
RunStates      == LiveStates \cup {"FINALIZING"} \cup TerminalStates

TokenStates   == {"NONE", "ISSUED", "EXPIRED", "SPENT"}
ActionStates  == {"NONE", "DISPATCHED", "SUCCEEDED", "FAILED", "UNKNOWN"}
ComputeStates == {"NONE", "CHARGED", "FINISHED"}

(***************************************************************************)
(* TRANSITIONS: the run states in which an event kind may be appended.     *)
(* "NEW" is the state before the event of seq 1, which only RunCreated     *)
(* leaves.                                                                 *)
(***************************************************************************)
Sources(kind) ==
    CASE kind = "RunCreated"        -> {"NEW"}
      [] kind = "RunArming"         -> {"CREATED"}
      [] kind = "RunRejected"       -> {"CREATED", "ARMING"}
      [] kind = "RunStarted"        -> {"ARMING"}
      [] kind = "StopLatched"       -> {"ARMING", "RUNNING"}
      [] kind = "RequestDenied"     -> LiveStates
      [] kind = "KillUnconfirmed"   -> {"STOPPING"}
      [] kind = "FaultObserved"     -> {"STOPPING", "UNCONFIRMED", "FINALIZING"}
      [] kind = "RunFinalized"      -> {"FINALIZING"}
      [] kind \in {"KillIssued", "ContainmentEmpty"}
                                    -> {"STOPPING", "UNCONFIRMED"}
      [] kind \in {"SampleRecorded", "ActionFinished", "ActionUnknown"}
                                    -> {"RUNNING", "STOPPING", "UNCONFIRMED"}
      [] kind \in {"TokenIssued", "TokenExpired", "TokenSpent",
                   "ComputeReserved", "ComputeFinished"}
                                    -> {"RUNNING"}

\* POST_STATE, and RunFinalized, whose data carries the final state.
PostState(rs, e) ==
    CASE e.kind = "RunCreated"       -> "CREATED"
      [] e.kind = "RunArming"        -> "ARMING"
      [] e.kind = "RunStarted"       -> "RUNNING"
      [] e.kind = "RunRejected"      -> "REJECTED"
      [] e.kind = "StopLatched"      -> "STOPPING"
      [] e.kind = "KillUnconfirmed"  -> "UNCONFIRMED"
      [] e.kind = "ContainmentEmpty" -> "FINALIZING"
      [] e.kind = "RunFinalized"     -> e.to
      [] OTHER                       -> rs.st

-------------------------------------------------------------------------------

TokenKinds   == {"TokenIssued", "TokenExpired", "TokenSpent"}
ActionKinds  == {"ActionFinished", "ActionUnknown"}
ComputeKinds == {"ComputeReserved", "ComputeFinished"}

\* The status every subject of the event must have for the event to be legal.
SubjectsLegal(rs, e) ==
    /\ e.kind = "TokenIssued" => \A t \in e.ids : rs.tok[t] = "NONE"
    /\ e.kind \in {"TokenExpired", "TokenSpent"}
          => \A t \in e.ids : rs.tok[t] = "ISSUED"
    /\ e.kind = "TokenSpent" => rs.act[e.action] = "NONE"
    /\ e.kind \in ActionKinds => \A a \in e.ids : rs.act[a] = "DISPATCHED"
    /\ e.kind = "ComputeReserved" => \A c \in e.ids : rs.cmp[c] = "NONE"
    /\ e.kind = "ComputeFinished" => \A c \in e.ids : rs.cmp[c] = "CHARGED"

Legal(rs, e) == rs.ok /\ rs.st \in Sources(e.kind) /\ SubjectsLegal(rs, e)

\* The subjects in "ids" get the status "to", the others keep theirs.
Mark(status, ids, to) ==
    [i \in DOMAIN status |-> IF i \in ids THEN to ELSE status[i]]

\* One turn of the loop in replay_events.
Apply(rs, e) ==
    IF Legal(rs, e)
    THEN [st  |-> PostState(rs, e),
          tok |-> IF e.kind \in TokenKinds THEN Mark(rs.tok, e.ids, e.to) ELSE rs.tok,
          act |-> CASE e.kind \in ActionKinds -> Mark(rs.act, e.ids, e.to)
                    [] e.kind = "TokenSpent"  -> Mark(rs.act, {e.action}, "DISPATCHED")
                    [] OTHER                  -> rs.act,
          cmp |-> IF e.kind \in ComputeKinds THEN Mark(rs.cmp, e.ids, e.to) ELSE rs.cmp,
          ok  |-> TRUE]
    ELSE [rs EXCEPT !.ok = FALSE]

\* The replay of the empty stream.
EmptyReplay ==
    [st  |-> "NEW",
     tok |-> [t \in TokenId |-> "NONE"],
     act |-> [a \in ActionId |-> "NONE"],
     cmp |-> [c \in ComputeId |-> "NONE"],
     ok  |-> TRUE]

Replays == [st  : RunStates \cup {"NEW"},
            tok : [TokenId -> TokenStates],
            act : [ActionId -> ActionStates],
            cmp : [ComputeId -> ComputeStates],
            ok  : BOOLEAN]

-------------------------------------------------------------------------------
\* Event constructors.

Event(kind)          == [kind |-> kind, ids |-> {}, to |-> "NONE", action |-> "NONE"]
About(kind, ids, to) == [kind |-> kind, ids |-> ids, to |-> to, action |-> "NONE"]
TokenSpent(t, a)     == [kind |-> "TokenSpent", ids |-> {t}, to |-> "SPENT", action |-> a]
===============================================================================
