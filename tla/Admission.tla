------------------------------ MODULE Admission ------------------------------
(***************************************************************************)
(* What a run may spend and what a computation costs, the pure part of     *)
(* lexwatt: the budget a run is admitted with (cli.cmd_run, units.py,      *)
(* config.apply_overrides, schema.check_config, Launcher.run_start), the   *)
(* dense-v1 estimate (estimator.py), what compute.reserve charges and      *)
(* compute.finish observes, and route.choose (core.py).                    *)
(*                                                                         *)
(* These are functions of their arguments, so the specification is a call  *)
(* and its reply.  Strings, hashes, identifiers and the 127-bit bound of   *)
(* the numbers, which no legal model and work can reach, are left out; a   *)
(* model's id is the number it sorts by.  Wall time is in milliseconds.    *)
(***************************************************************************)
EXTENDS Naturals, SequencesExt

CONSTANTS
    Null,         \* JSON null, and an override that is not given
    Caps,         \* the FLOP and energy caps, given or overriding
    Spawns,       \* the spawn budgets
    Walls,        \* the wall budgets
    Reserve,      \* meter.reserve_uj of the host policy; see EnergyGuard
    Models,       \* catalogue entries [id, parameters, layers, hidden, safety]
    Catalogs,     \* sequences of them
    Works,        \* [input, output, batch]
    Observations, \* output tokens reported at compute.finish
    Remainders,   \* FLOPs left, for route.choose
    Joules        \* --max-joules, as [whole, frac]: two sequences of digits

ASSUME AdmissionAssumption ==
    /\ Caps \subseteq Nat /\ Spawns \subseteq Nat /\ Walls \subseteq Nat
    /\ Reserve \in Nat
    /\ Null \notin Nat /\ Null \notin Models
    /\ Models \subseteq [id : Nat, parameters : Nat, layers : Nat, hidden : Nat, safety : Nat]
    /\ Catalogs \subseteq Seq(Models)
    /\ Works \subseteq [input : Nat, output : Nat, batch : Nat]
    /\ Observations \subseteq Nat
    /\ Remainders \subseteq Nat
    /\ Joules \subseteq [whole : Seq(0..9), frac : Seq(0..9)]

Profile == {"linux-rapl-v1", "linux-ledger-v1"}

Budgets == [flops : Caps \cup {Null}, energy : Caps \cup {Null}, spawns : Spawns, wall : Walls]

Overrides == [flops : Caps \cup {Null}, energy : Caps \cup {Null},
              spawns : Spawns \cup {Null}, wall : Walls \cup {Null}]

VARIABLES
    call,  \* the operation and its arguments
    reply  \* its result; NoReply before

vars == <<call, reply>>

NoReply == [answer |-> "none"]

Called(op) == reply = NoReply /\ call.op = op

-------------------------------------------------------------------------------
(***************************************************************************)
(* Configuration and overrides.                                            *)
(***************************************************************************)

MaxSpawns == 1024

\* A day.
MaxWall == 86400000

\* check_budget, and the rules of check_config that relate budgets, profile and
\* catalogue; "ok" or the error.
CheckConfig(profile, catalog, b) ==
    IF \/ b.spawns > MaxSpawns
       \/ b.wall \notin 1..MaxWall
       \/ b.flops = Null /\ b.energy = Null
       \/ (profile = "linux-rapl-v1") # (b.energy # Null)
    THEN "INVALID_INPUT"
    ELSE IF 0 \in {b.flops, b.energy} THEN "BUDGET_TOO_SMALL"
    ELSE IF b.flops # Null /\ ~catalog THEN "INVALID_INPUT"
    ELSE "ok"

\* Faulty: an override replaces the cap.
Tightens_Any(cap, override) == TRUE

\* _tighten_u: a cap is only lowered; a null cap takes any override.
Tightens(cap, override) == override = Null \/ cap = Null \/ override <= cap

Override(value, override) == IF override = Null THEN value ELSE override

\* apply_overrides; spawns and wall have no null cap.
Effective(b, o) ==
    [flops  |-> Override(b.flops, o.flops),   energy |-> Override(b.energy, o.energy),
     spawns |-> Override(b.spawns, o.spawns), wall   |-> Override(b.wall, o.wall)]

Overridable(b, o) ==
    /\ Tightens(b.flops, o.flops)   /\ Tightens(b.energy, o.energy)
    /\ Tightens(b.spawns, o.spawns) /\ Tightens(b.wall, o.wall)

\* Faulty: a cap equal to the reserve is let through.
CoversReserve_Equal(b) == b.energy # Null => b.energy >= Reserve

\* run_start: nothing is left above the reserve.
CoversReserve(b) == b.energy # Null => b.energy > Reserve

\* What run_start asks of the host before it allocates a run: the capabilities of
\* the profile, and the files of the catalogue with their digests.
Hosts == [supported : BOOLEAN, digests : BOOLEAN]

\* cmd_run and run_start up to the allocation of the run.
Admit(profile, catalog, b, o, host) ==
    LET e == Effective(b, o)
    IN  CASE CheckConfig(profile, catalog, b) # "ok" -> CheckConfig(profile, catalog, b)
          [] ~Overridable(b, o)                      -> "INVALID_INPUT"
          [] CheckConfig(profile, catalog, e) # "ok" -> CheckConfig(profile, catalog, e)
          [] ~CoversReserve(e)                       -> "BUDGET_TOO_SMALL"
          [] ~host.supported                         -> "UNSUPPORTED_PROFILE"
          [] catalog /\ ~host.digests                -> "INVALID_INPUT"
          [] OTHER                                   -> "ok"

Start ==
    /\ Called("start")
    /\ LET answer == Admit(call.profile, call.catalog, call.budgets, call.overrides, call.host)
       IN  reply' = [answer |-> answer, budgets |-> Effective(call.budgets, call.overrides)]
    /\ UNCHANGED call

-------------------------------------------------------------------------------
(***************************************************************************)
(* dense-v1.                                                               *)
(***************************************************************************)

\* Faulty: the tokens produced do not attend to each other.
Pairs_NoOutput(i, o) == (i * (i - 1)) \div 2 + i * o

Pairs(i, o) == (i * (i - 1)) \div 2 + i * o + (o * (o - 1)) \div 2

Base(m, i, o, batch) == 2 * m.parameters * batch * (i + o)

Attention(m, i, o, batch) == 4 * m.layers * m.hidden * batch * Pairs(i, o)

\* Faulty: rounded to the nearest.
Rounded_Half(n) == (n + 500) \div 1000

Rounded(n) == (n + 999) \div 1000

\* estimate_decomposition: charged_flops.
Estimate(m, i, o, batch) ==
    Rounded((Base(m, i, o, batch) + Attention(m, i, o, batch)) * m.safety)

Cost(m, w) == Estimate(m, w.input, w.output, w.batch)

\* Faulty: an observation over the envelope is taken as it is.
WithinEnvelope_Any(w, observed) == TRUE

WithinEnvelope(w, observed) == observed <= w.output

\* compute.reserve, and compute.finish on what it charged.
Compute ==
    /\ Called("compute")
    /\ LET charged == Cost(call.model, call.work)
       IN  reply' = IF WithinEnvelope(call.work, call.observed)
                    THEN [charged |-> charged, answer |-> "ok",
                          observed |-> Estimate(call.model, call.work.input,
                                                call.observed, call.work.batch)]
                    ELSE [charged |-> charged, answer |-> "ENVELOPE_EXCEEDED", observed |-> 0]
    /\ UNCHANGED call

-------------------------------------------------------------------------------
(***************************************************************************)
(* route.choose: one pass over the catalogue.                              *)
(***************************************************************************)
Affordable(m, w, left) == Cost(m, w) <= left

\* Faulty: of two models with one cost the first wins.
Cheaper_First(m, best, w) == Cost(m, w) < Cost(best, w)

Cheaper(m, best, w) ==
    \/ Cost(m, w) < Cost(best, w)
    \/ Cost(m, w) = Cost(best, w) /\ m.id < best.id

Choose(catalog, w, left) ==
    FoldLeft(LAMBDA best, m :
                IF Affordable(m, w, left) /\ (best = Null \/ Cheaper(m, best, w))
                THEN m ELSE best,
             Null, catalog)

Route ==
    /\ Called("route")
    /\ reply' = [answer |-> "ok", choice |-> Choose(call.catalog, call.work, call.left)]
    /\ UNCHANGED call

-------------------------------------------------------------------------------
(***************************************************************************)
(* units.parse_joules, from digits to microjoules.                         *)
(***************************************************************************)
Number(digits) == FoldLeft(LAMBDA n, d : 10 * n + d, 0, digits)

\* Faulty: the decimals are not filled up to six.
Filled_Short(frac) == frac

Filled(frac) == frac \o [n \in 1..(6 - Len(frac)) |-> 0]

Canonical(text) ==
    /\ Len(text.whole) > 0 /\ Len(text.frac) <= 6
    /\ Len(text.whole) > 1 => text.whole[1] # 0

ParseJoules ==
    /\ Called("joules")
    /\ reply' = IF Canonical(call.text)
                THEN [answer |-> "ok",
                      uj |-> Number(call.text.whole) * 1000000 + Number(Filled(call.text.frac))]
                ELSE [answer |-> "INVALID_INPUT", uj |-> 0]
    /\ UNCHANGED call

-------------------------------------------------------------------------------
Init ==
    /\ \/ call \in [op : {"start"}, profile : Profile, catalog : BOOLEAN,
                    budgets : Budgets, overrides : Overrides, host : Hosts]
       \/ call \in [op : {"compute"}, model : Models, work : Works, observed : Observations]
       \/ call \in [op : {"route"}, catalog : Catalogs, work : Works, left : Remainders]
       \/ call \in [op : {"joules"}, text : Joules]
    /\ reply = NoReply

Next == Start \/ Compute \/ Route \/ ParseJoules

Spec == Init /\ [][Next]_vars

-------------------------------------------------------------------------------
(***************************************************************************)
(* Properties.                                                             *)
(***************************************************************************)
Answered(op) == reply # NoReply /\ call.op = op

Admitted == Answered("start") /\ reply.answer = "ok"

AtMost(cap, limit) == limit = Null \/ (cap # Null /\ cap <= limit)

\* An override never buys more than the configuration grants (apply_overrides).
NeverLoosened ==
    Admitted => \A cap \in DOMAIN reply.budgets : AtMost(reply.budgets[cap], call.budgets[cap])

\* A run that is admitted can be enforced, whatever the overrides made of its
\* configuration: an energy cap is not tripped by the first sample (0 uJ;
\* meter.guard_eval), a FLOP cap has models to charge, of which the host has the
\* files, and the host supports the profile (cmd_run, Launcher.run_start).
AdmittedIsEnforceable ==
    Admitted =>
        LET b == reply.budgets
        IN  /\ b.energy # Null => 0 + Reserve < b.energy
            /\ b.flops # Null => 0 < b.flops /\ call.catalog
            /\ call.catalog => call.host.digests
            /\ call.host.supported
            /\ call.profile = "linux-rapl-v1" => b.energy # Null
            /\ b.energy # Null \/ b.flops # Null

\* The work of dense-v1 counted token by token: each pays for the parameters and
\* for every token before it.
Counted(m, i, o, batch) ==
    batch * FoldLeft(LAMBDA sum, t : sum + 2 * m.parameters + 4 * m.layers * m.hidden * (t - 1),
                     0, [t \in 1..(i + o) |-> t])

\* What is charged is the least integer that covers the counted work with its
\* safety factor (estimate_decomposition).
ChargeIsExact ==
    Answered("compute") =>
        LET w == call.work
            due == Counted(call.model, w.input, w.output, w.batch) * call.model.safety
        IN  1000 * reply.charged >= due /\ 1000 * (reply.charged - 1) < due

\* A computation that finishes inside its envelope never turns out dearer than
\* what was reserved for it (RunCore.compute_finish).
FinishedWithinCharge == Answered("compute") => reply.observed <= reply.charged

\* Splitting a batch over two computations never costs less than the whole
\* (estimate_decomposition).
NoDiscountBySplitting ==
    Answered("compute") =>
        \A part \in 1..(call.work.batch - 1) :
           LET m == call.model
               w == call.work
           IN  reply.charged <= Estimate(m, w.input, w.output, part)
                                + Estimate(m, w.input, w.output, w.batch - part)

\* The choice is affordable and no affordable model is cheaper, nor as cheap with
\* a smaller id; so, where the ids differ, the order of the catalogue does not
\* matter (choose_route, RunCore.admit_flops).
RouteIsBest ==
    Answered("route") =>
        LET offered == {call.catalog[n] : n \in DOMAIN call.catalog}
            affordable == {m \in offered : Affordable(m, call.work, call.left)}
        IN  IF affordable = {} THEN reply.choice = Null
            ELSE /\ reply.choice \in affordable
                 /\ \A m \in affordable :
                       \/ Cost(reply.choice, call.work) < Cost(m, call.work)
                       \/ Cost(reply.choice, call.work) = Cost(m, call.work)
                          /\ reply.choice.id <= m.id

\* A joule text is its exact decimal value in microjoules (parse_joules).
JoulesExact ==
    Answered("joules") /\ reply.answer = "ok" =>
        LET text == call.text
        IN  reply.uj * 10^Len(text.frac) = Number(text.whole \o text.frac) * 1000000
===============================================================================
