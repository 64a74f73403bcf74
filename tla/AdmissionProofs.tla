---------------------------- MODULE AdmissionProofs ----------------------------
(***************************************************************************)
(* What Admission promises of budgets, charges, routes and joules, for     *)
(* every configuration, override, model, work, catalogue and text.         *)
(*                                                                         *)
(* The invariant is that a reply is what its operation computes from the   *)
(* call; the promises are then facts about the operators.  The ones that   *)
(* fold over a sequence are followed element by element, from a smallest   *)
(* counterexample.                                                         *)
(***************************************************************************)
EXTENDS Admission, SumProofs, TLAPS

StartCall == [op : {"start"}, profile : Profile, catalog : BOOLEAN,
              budgets : Budgets, overrides : Overrides, host : Hosts]

ComputeCall == [op : {"compute"}, model : Models, work : Works, observed : Observations]

Started ==
    [answer  |-> Admit(call.profile, call.catalog, call.budgets, call.overrides, call.host),
     budgets |-> Effective(call.budgets, call.overrides)]

Computed ==
    LET charged == Cost(call.model, call.work)
    IN  IF WithinEnvelope(call.work, call.observed)
        THEN [charged |-> charged, answer |-> "ok",
              observed |-> Estimate(call.model, call.work.input, call.observed, call.work.batch)]
        ELSE [charged |-> charged, answer |-> "ENVELOPE_EXCEEDED", observed |-> 0]

RouteCall == [op : {"route"}, catalog : Catalogs, work : Works, left : Remainders]

Routed == [answer |-> "ok", choice |-> Choose(call.catalog, call.work, call.left)]

JoulesCall == [op : {"joules"}, text : Joules]

Parsed ==
    IF Canonical(call.text)
    THEN [answer |-> "ok",
          uj |-> Number(call.text.whole) * 1000000 + Number(Filled(call.text.frac))]
    ELSE [answer |-> "INVALID_INPUT", uj |-> 0]

AdmissionInv ==
    /\ call.op = "start" => call \in StartCall /\ reply \in {NoReply, Started}
    /\ call.op = "compute" => call \in ComputeCall /\ reply \in {NoReply, Computed}
    /\ call.op = "route" => call \in RouteCall /\ reply \in {NoReply, Routed}
    /\ call.op = "joules" => call \in JoulesCall /\ reply \in {NoReply, Parsed}

\* A reply is what its operation computes from the call.
LEMMA AdmissionCorrect == Spec => []AdmissionInv
  <1>1. Init => AdmissionInv
    BY DEF Init, AdmissionInv, StartCall, ComputeCall, RouteCall, JoulesCall
  <1>2. AdmissionInv /\ [Next]_vars => AdmissionInv'
    <2> SUFFICES ASSUME AdmissionInv, [Next]_vars PROVE AdmissionInv'
      OBVIOUS
    <2>1. CASE Start
      BY <2>1 DEF AdmissionInv, Start, Called, Started
    <2>2. CASE Compute
      BY <2>2 DEF AdmissionInv, Compute, Called, Computed
    <2>3. CASE Route
      BY <2>3 DEF AdmissionInv, Route, Called, Routed
    <2>4. CASE ParseJoules
      BY <2>4 DEF AdmissionInv, ParseJoules, Called, Parsed
    <2>5. CASE UNCHANGED vars
      BY <2>5 DEF AdmissionInv, vars, Started, Computed, Routed, Parsed
    <2> QED
      BY <2>1, <2>2, <2>3, <2>4, <2>5 DEF Next
  <1> QED
    BY <1>1, <1>2, PTL DEF Spec

-------------------------------------------------------------------------------
(***************************************************************************)
(* Budgets.                                                                *)
(***************************************************************************)
LEMMA AdmittedStart ==
    ASSUME AdmissionInv, Admitted
    PROVE  /\ call \in StartCall
           /\ reply.budgets = Effective(call.budgets, call.overrides)
           /\ Overridable(call.budgets, call.overrides)
           /\ CheckConfig(call.profile, call.catalog, reply.budgets) = "ok"
           /\ CoversReserve(reply.budgets)
           /\ call.host.supported /\ (call.catalog => call.host.digests)
  <1>1. call \in StartCall /\ reply = Started /\ reply.answer = "ok"
    BY DEF AdmissionInv, Admitted, Answered
  <1>2. Admit(call.profile, call.catalog, call.budgets, call.overrides, call.host) = "ok"
        /\ reply.budgets = Effective(call.budgets, call.overrides)
    BY <1>1 DEF Started
  <1> QED
    BY <1>1, <1>2 DEF Admit

Field == {"flops", "energy", "spawns", "wall"}

\* The fields of budgets and overrides, one by one.
LEMMA FieldTypes ==
    ASSUME NEW b \in Budgets, NEW o \in Overrides, NEW f \in Field
    PROVE  /\ b[f] \in Nat \cup {Null} /\ o[f] \in Nat \cup {Null}
           /\ Effective(b, o)[f] = Override(b[f], o[f])
           /\ Overridable(b, o) => Tightens(b[f], o[f])
  <1>1. /\ DOMAIN b = Field /\ DOMAIN o = Field
        /\ b.flops \in Nat \cup {Null} /\ b.energy \in Nat \cup {Null}
        /\ b.spawns \in Nat \cup {Null} /\ b.wall \in Nat \cup {Null}
    BY AdmissionAssumption DEF Budgets, Overrides, Field
  <1>2. /\ o.flops \in Nat \cup {Null} /\ o.energy \in Nat \cup {Null}
        /\ o.spawns \in Nat \cup {Null} /\ o.wall \in Nat \cup {Null}
    BY AdmissionAssumption DEF Overrides
  <1>3. CASE f = "flops"
    BY <1>1, <1>2, <1>3 DEF Effective, Overridable
  <1>4. CASE f = "energy"
    BY <1>1, <1>2, <1>4 DEF Effective, Overridable
  <1>5. CASE f = "spawns"
    BY <1>1, <1>2, <1>5 DEF Effective, Overridable
  <1>6. CASE f = "wall"
    BY <1>1, <1>2, <1>6 DEF Effective, Overridable
  <1> QED
    BY <1>3, <1>4, <1>5, <1>6 DEF Field

\* An override never buys more than the configuration grants (apply_overrides).
THEOREM NeverLoosenedAlways == Spec => []NeverLoosened
  <1>1. ASSUME NEW value \in Nat \cup {Null}, NEW override \in Nat \cup {Null},
               Tightens(value, override)
        PROVE  AtMost(Override(value, override), value)
    BY <1>1, AdmissionAssumption DEF Tightens, Override, AtMost
  <1>2. AdmissionInv => NeverLoosened
    <2> SUFFICES ASSUME AdmissionInv, Admitted, NEW cap \in DOMAIN reply.budgets
                 PROVE  AtMost(reply.budgets[cap], call.budgets[cap])
      BY DEF NeverLoosened
    <2>1. /\ call.budgets \in Budgets /\ call.overrides \in Overrides
          /\ reply.budgets = Effective(call.budgets, call.overrides)
          /\ Overridable(call.budgets, call.overrides)
      BY AdmittedStart DEF StartCall
    <2>2. cap \in Field
      BY <2>1 DEF Effective, Field
    <2>3. /\ call.budgets[cap] \in Nat \cup {Null} /\ call.overrides[cap] \in Nat \cup {Null}
          /\ reply.budgets[cap] = Override(call.budgets[cap], call.overrides[cap])
          /\ Tightens(call.budgets[cap], call.overrides[cap])
      BY <2>1, <2>2, FieldTypes
    <2> QED
      BY <1>1, <2>3
  <1> QED
    BY <1>2, AdmissionCorrect, PTL

\* A run that is admitted can be enforced: an energy cap is not tripped by the
\* first sample, a FLOP cap has models to charge, of which the host has the files,
\* and the host supports the profile (run_start, check_config).
THEOREM AdmittedIsEnforceableAlways == Spec => []AdmittedIsEnforceable
  <1>1. AdmissionInv => AdmittedIsEnforceable
    <2> SUFFICES ASSUME AdmissionInv, Admitted PROVE AdmittedIsEnforceable
      BY DEF AdmittedIsEnforceable
    <2>1. /\ call.budgets \in Budgets /\ call.overrides \in Overrides
          /\ reply.budgets = Effective(call.budgets, call.overrides)
          /\ CheckConfig(call.profile, call.catalog, reply.budgets) = "ok"
          /\ CoversReserve(reply.budgets)
          /\ call.host.supported /\ (call.catalog => call.host.digests)
      BY AdmittedStart DEF StartCall
    <2>2. /\ reply.budgets.flops \in Nat \cup {Null}
          /\ reply.budgets.energy \in Nat \cup {Null}
      BY <2>1, FieldTypes DEF Field, Override
    <2>3. ASSUME NEW profile, NEW catalog, NEW b, CheckConfig(profile, catalog, b) = "ok"
          PROVE  /\ b.flops # Null \/ b.energy # Null
                 /\ profile = "linux-rapl-v1" => b.energy # Null
                 /\ 0 # b.flops
                 /\ b.flops # Null => catalog
      BY <2>3 DEF CheckConfig
    <2> QED
      BY <2>1, <2>2, <2>3, AdmissionAssumption DEF AdmittedIsEnforceable, CoversReserve
  <1> QED
    BY <1>1, AdmissionCorrect, PTL

-------------------------------------------------------------------------------
(***************************************************************************)
(* Charges.  A pair of tokens is paid for once, so half of n * (n - 1) is  *)
(* all that is needed of the division.                                     *)
(***************************************************************************)
LEMMA Product ==
    ASSUME NEW c \in Nat, NEW a \in Nat, NEW b \in Nat, a <= b
    PROVE  c * a \in Nat /\ c * b \in Nat /\ c * a <= c * b
  <1>1. PICK d \in Nat : b = a + d
    BY SMT
  <1>2. c * a \in Nat /\ c * d \in Nat /\ c * b = c * a + c * d
    BY <1>1, SMT
  <1> QED
    BY <1>2, SMT

\* Pairs are counted by naturals.
LEMMA Half ==
    ASSUME NEW n \in Nat
    PROVE  n * (n - 1) \in Nat /\ (n * (n - 1)) \div 2 \in Nat
  <1>1. n * (n - 1) \in Nat
    BY SMT
  <1> QED
    BY <1>1, SMT

\* More tokens make no fewer pairs.
LEMMA HalfMonotone ==
    ASSUME NEW a \in Nat, NEW b \in Nat, a <= b
    PROVE  (a * (a - 1)) \div 2 <= (b * (b - 1)) \div 2
  <1>1. a * (a - 1) <= b * (b - 1)
    <2>1. CASE a = 0
      BY <2>1, Half, SMT
    <2>2. CASE a # 0
      <3>1. a - 1 \in Nat /\ b - 1 \in Nat /\ a - 1 <= b - 1
        BY <2>2, SMT
      <3>2. a * (a - 1) <= a * (b - 1)
        BY <3>1, Product
      <3>3. (b - 1) * a <= (b - 1) * b
        BY <3>1, Product
      <3> QED
        BY <3>1, <3>2, <3>3, SMT
    <2> QED
      BY <2>1, <2>2
  <1> QED
    BY <1>1, Half, SMT

\* More output makes no fewer pairs.
LEMMA PairsMonotone ==
    ASSUME NEW i \in Nat, NEW o \in Nat, NEW p \in Nat, o <= p
    PROVE  Pairs(i, o) \in Nat /\ Pairs(i, p) \in Nat /\ Pairs(i, o) <= Pairs(i, p)
  <1>1. i * o \in Nat /\ i * p \in Nat /\ i * o <= i * p
    BY Product
  <1>2. (o * (o - 1)) \div 2 <= (p * (p - 1)) \div 2
    BY HalfMonotone
  <1>3. /\ (i * (i - 1)) \div 2 \in Nat
        /\ (o * (o - 1)) \div 2 \in Nat /\ (p * (p - 1)) \div 2 \in Nat
    BY Half
  <1> QED
    BY <1>1, <1>2, <1>3, SMT DEF Pairs

\* Rounding up keeps the order, and rounding parts never undercuts the whole.
LEMMA RoundedMonotone ==
    ASSUME NEW a \in Nat, NEW b \in Nat
    PROVE  /\ Rounded(a) \in Nat
           /\ a <= b => Rounded(a) <= Rounded(b)
           /\ Rounded(a + b) <= Rounded(a) + Rounded(b)
  BY SMT DEF Rounded

Flops(P, L, H, batch, n, pairs) == 2 * P * batch * n + 4 * L * H * batch * pairs

\* More tokens or more pairs are no cheaper.
LEMMA FlopsMonotone ==
    ASSUME NEW P \in Nat, NEW L \in Nat, NEW H \in Nat, NEW batch \in Nat,
           NEW n \in Nat, NEW k \in Nat, NEW q \in Nat, NEW r \in Nat, n <= k, q <= r
    PROVE  /\ Flops(P, L, H, batch, n, q) \in Nat /\ Flops(P, L, H, batch, k, r) \in Nat
           /\ Flops(P, L, H, batch, n, q) <= Flops(P, L, H, batch, k, r)
  <1>1. 2 * P * batch \in Nat /\ 4 * L * H * batch \in Nat
    <2>1. 2 * P \in Nat /\ 4 * L \in Nat
      BY SMT
    <2>2. (4 * L) * H \in Nat
      BY <2>1, Product
    <2> QED
      BY <2>1, <2>2, Product
  <1>2. PICK c \in Nat : c = 2 * P * batch
    BY <1>1
  <1>3. PICK d \in Nat : d = 4 * L * H * batch
    BY <1>1
  <1>4. /\ Flops(P, L, H, batch, n, q) = c * n + d * q
        /\ Flops(P, L, H, batch, k, r) = c * k + d * r
    BY <1>2, <1>3 DEF Flops
  <1>5. /\ c * n \in Nat /\ c * k \in Nat /\ c * n <= c * k
        /\ d * q \in Nat /\ d * r \in Nat /\ d * q <= d * r
    BY Product
  <1> QED
    BY <1>4, <1>5

\* Work is a natural.
LEMMA FlopsType ==
    ASSUME NEW P \in Nat, NEW L \in Nat, NEW H \in Nat, NEW batch \in Nat,
           NEW n \in Nat, NEW q \in Nat
    PROVE  Flops(P, L, H, batch, n, q) \in Nat
  <1>1. n <= n /\ q <= q
    OBVIOUS
  <1> QED
    BY <1>1, FlopsMonotone

\* The estimate is the work with its safety factor, rounded.
LEMMA EstimateIs ==
    ASSUME NEW m \in Models, NEW i \in Nat, NEW o \in Nat, NEW batch \in Nat
    PROVE  /\ m.parameters \in Nat /\ m.layers \in Nat /\ m.hidden \in Nat /\ m.safety \in Nat
           /\ Pairs(i, o) \in Nat
           /\ Estimate(m, i, o, batch) =
                 Rounded(Flops(m.parameters, m.layers, m.hidden, batch, i + o, Pairs(i, o)) * m.safety)
  <1>1. m.parameters \in Nat /\ m.layers \in Nat /\ m.hidden \in Nat /\ m.safety \in Nat
    BY AdmissionAssumption
  <1>2. Pairs(i, o) \in Nat
    BY PairsMonotone
  <1> QED
    BY <1>1, <1>2 DEF Estimate, Base, Attention, Flops

\* More output is no cheaper.
LEMMA EstimateMonotone ==
    ASSUME NEW m \in Models, NEW i \in Nat, NEW o \in Nat, NEW p \in Nat, NEW batch \in Nat, o <= p
    PROVE  /\ Estimate(m, i, o, batch) <= Estimate(m, i, p, batch)
           /\ Estimate(m, i, o, batch) \in Nat
  <1>1. /\ m.parameters \in Nat /\ m.layers \in Nat /\ m.hidden \in Nat /\ m.safety \in Nat
        /\ Pairs(i, o) \in Nat /\ Pairs(i, p) \in Nat /\ Pairs(i, o) <= Pairs(i, p)
        /\ i + o \in Nat /\ i + p \in Nat /\ i + o <= i + p
    BY EstimateIs, PairsMonotone
  <1>2. PICK x \in Nat : x = Flops(m.parameters, m.layers, m.hidden, batch, i + o, Pairs(i, o))
    BY <1>1, FlopsMonotone
  <1>3. PICK y \in Nat : y = Flops(m.parameters, m.layers, m.hidden, batch, i + p, Pairs(i, p))
    BY <1>1, FlopsMonotone
  <1>4. PICK s \in Nat : s = m.safety
    BY <1>1
  <1>5. x <= y
    BY <1>1, <1>2, <1>3, FlopsMonotone
  <1>6. s * x <= s * y /\ s * x \in Nat /\ s * y \in Nat /\ x * s = s * x /\ y * s = s * y
    BY <1>5, Product, SMT
  <1>7. Estimate(m, i, o, batch) = Rounded(s * x) /\ Estimate(m, i, p, batch) = Rounded(s * y)
    BY <1>2, <1>3, <1>4, <1>6, EstimateIs
  <1> QED
    BY <1>6, <1>7, RoundedMonotone

\* A batch in two parts is no cheaper than in one.
LEMMA EstimateSplit ==
    ASSUME NEW m \in Models, NEW i \in Nat, NEW o \in Nat, NEW a \in Nat, NEW b \in Nat,
           NEW c \in Nat, c = a + b
    PROVE  Estimate(m, i, o, c) <= Estimate(m, i, o, a) + Estimate(m, i, o, b)
  <1>1. /\ m.parameters \in Nat /\ m.layers \in Nat /\ m.hidden \in Nat /\ m.safety \in Nat
        /\ Pairs(i, o) \in Nat /\ i + o \in Nat
    BY EstimateIs
  <1>2. PICK P \in Nat, L \in Nat, H \in Nat, s \in Nat, n \in Nat, q \in Nat :
           /\ P = m.parameters /\ L = m.layers /\ H = m.hidden /\ s = m.safety
           /\ n = i + o /\ q = Pairs(i, o)
    BY <1>1
  <1>3. PICK x \in Nat : x = Flops(P, L, H, a, n, q)
    BY FlopsType
  <1>4. PICK y \in Nat : y = Flops(P, L, H, b, n, q)
    BY FlopsType
  <1>5. Flops(P, L, H, c, n, q) = x + y
    BY <1>3, <1>4, SMT DEF Flops
  <1>6. x * s \in Nat /\ y * s \in Nat /\ (x + y) * s = x * s + y * s
    BY Product, SMT
  <1>7. /\ Estimate(m, i, o, a) = Rounded(x * s) /\ Estimate(m, i, o, b) = Rounded(y * s)
        /\ Estimate(m, i, o, c) = Rounded(x * s + y * s)
    BY <1>2, <1>3, <1>4, <1>5, <1>6, EstimateIs
  <1> QED
    BY <1>6, <1>7, RoundedMonotone

\* A computation that finishes inside its envelope never turns out dearer than
\* what was reserved for it (RunCore.compute_finish).
THEOREM FinishedWithinChargeAlways == Spec => []FinishedWithinCharge
  <1>1. AdmissionInv => FinishedWithinCharge
    <2> SUFFICES ASSUME AdmissionInv, Answered("compute") PROVE reply.observed <= reply.charged
      BY DEF FinishedWithinCharge
    <2>1. /\ call.model \in Models /\ call.work \in Works /\ call.observed \in Nat
          /\ reply = Computed
      BY AdmissionAssumption DEF AdmissionInv, Answered, ComputeCall
    <2>2. call.work.input \in Nat /\ call.work.output \in Nat /\ call.work.batch \in Nat
      BY <2>1, AdmissionAssumption
    <2>3. CASE WithinEnvelope(call.work, call.observed)
      BY <2>1, <2>2, <2>3, EstimateMonotone DEF Computed, Cost, WithinEnvelope
    <2>4. CASE ~WithinEnvelope(call.work, call.observed)
      <3>1. Cost(call.model, call.work) \in Nat
        <4>1. call.work.output <= call.work.output
          BY <2>2
        <4> QED
          BY <2>1, <2>2, <4>1, EstimateMonotone DEF Cost
      <3> QED
        BY <2>1, <2>4, <3>1 DEF Computed
    <2> QED
      BY <2>3, <2>4
  <1> QED
    BY <1>1, AdmissionCorrect, PTL

\* Splitting a batch over two computations never costs less than the whole
\* (estimate_decomposition).
THEOREM NoDiscountBySplittingAlways == Spec => []NoDiscountBySplitting
  <1>1. AdmissionInv => NoDiscountBySplitting
    <2> SUFFICES ASSUME AdmissionInv, Answered("compute"), NEW part \in 1..(call.work.batch - 1)
                 PROVE  LET m == call.model
                            w == call.work
                        IN  reply.charged <= Estimate(m, w.input, w.output, part)
                                             + Estimate(m, w.input, w.output, w.batch - part)
      BY DEF NoDiscountBySplitting
    <2>1. /\ call.model \in Models /\ call.work \in Works /\ reply = Computed
      BY DEF AdmissionInv, Answered, ComputeCall
    <2>2. call.work.input \in Nat /\ call.work.output \in Nat /\ call.work.batch \in Nat
      BY <2>1, AdmissionAssumption
    <2>3. /\ part \in Nat /\ call.work.batch - part \in Nat
          /\ part + (call.work.batch - part) = call.work.batch
      BY <2>2, SMT
    <2>4. reply.charged = Estimate(call.model, call.work.input, call.work.output, call.work.batch)
      BY <2>1 DEF Computed, Cost
    <2>5. PICK rest \in Nat : rest = call.work.batch - part
      BY <2>3
    <2>6. call.work.batch = part + rest
      BY <2>3, <2>5
    <2>7. PICK m \in Models, i \in Nat, o \in Nat, whole \in Nat :
             m = call.model /\ i = call.work.input /\ o = call.work.output /\ whole = call.work.batch
      BY <2>1, <2>2
    <2>8. Estimate(m, i, o, whole) <= Estimate(m, i, o, part) + Estimate(m, i, o, rest)
      BY <2>3, <2>6, <2>7, EstimateSplit
    <2> QED
      BY <2>4, <2>5, <2>7, <2>8
  <1> QED
    BY <1>1, AdmissionCorrect, PTL

-------------------------------------------------------------------------------
(***************************************************************************)
(* Folds over sequences.  FoldLeft goes through the numbers of a set with  *)
(* a function that is a choice: that the function exists, for steps that   *)
(* keep within a set V, is proved once; a fold is then the last of a line  *)
(* of values, each one step from the one before.                           *)
(***************************************************************************)

\* The largest number of a set that 1..n bounds.
LEMMA MaxIn ==
    ASSUME NEW n \in Nat, NEW s \in SUBSET (1..n), s # {}
    PROVE  /\ Max(s) \in s /\ Max(s) \in 1..n
           /\ s \ {Max(s)} \in SUBSET (1..(Max(s) - 1))
  <1> DEFINE bounds == {u \in Nat : \A x \in s : x <= u}
  <1>1. n \in bounds
    OBVIOUS
  <1>2. PICK u \in bounds : \A v \in bounds : u <= v
    BY <1>1, SmallestNumber
  <1>3. u \in s
    <2> SUFFICES ASSUME u \notin s PROVE FALSE
      OBVIOUS
    <2>1. PICK x \in s : x \in 1..n
      OBVIOUS
    <2>2. u - 1 \in Nat /\ \A y \in s : y <= u - 1
      BY <2>1
    <2> QED
      BY <1>2, <2>2
  <1>4. \E m \in s : \A x \in s : m >= x
    BY <1>3
  <1>5. Max(s) \in s /\ \A x \in s : Max(s) >= x
    BY <1>4 DEF Max
  <1>6. PICK m \in 1..n : m = Max(s)
    BY <1>5
  <1>7. ASSUME NEW x \in s, x # m PROVE x \in 1..(m - 1)
    BY <1>5, <1>6, <1>7
  <1> QED
    BY <1>5, <1>6, <1>7

\* The numbers up to n end in n.
LEMMA MaxOfInterval ==
    ASSUME NEW n \in Nat, n # 0
    PROVE  1..n # {} /\ Max(1..n) = n /\ (1..n) \ {Max(1..n)} = 1..(n - 1)
  <1>1. n \in 1..n
    OBVIOUS
  <1>2. Max(1..n) \in 1..n /\ (1..n) \ {Max(1..n)} \in SUBSET (1..(Max(1..n) - 1))
    BY <1>1, MaxIn
  <1>3. PICK m \in 1..n : m = Max(1..n)
    BY <1>2
  <1>4. n \notin 1..(m - 1) => m = n
    BY <1>1, <1>2, <1>3
  <1>5. m = n
    BY <1>4
  <1> QED
    BY <1>1, <1>3, <1>5

\* g carries "base" through the numbers of each set within 1..n, smallest first.
Carries(g, step, base, n) ==
    g = [s \in SUBSET (1..n) |->
            IF s = {} THEN base ELSE step[Max(s)][g[s \ {Max(s)}]]]

\* There is a function that does.
LEMMA CarriesExists ==
    ASSUME NEW n \in Nat, NEW V, NEW base \in V, NEW step \in [1..n -> [V -> V]]
    PROVE  \E g \in [SUBSET (1..n) -> V] : Carries(g, step, base, n)
  <1> DEFINE Carried(k) == \E g \in [SUBSET (1..k) -> V] : Carries(g, step, base, k)
             none == {k \in 0..n : ~Carried(k)}
  <1> SUFFICES Carried(n)
    OBVIOUS
  <1> HIDE DEF Carried
  <1> SUFFICES ASSUME none # {} PROVE FALSE
    <2>1. n \in 0..n
      OBVIOUS
    <2> QED
      BY <2>1
  <1>1. PICK k \in none : \A j \in none : k <= j
    <2>1. none \subseteq Nat
      OBVIOUS
    <2> HIDE DEF none
    <2> QED
      BY <2>1, SmallestNumber
  <1>2. k # 0
    <2> SUFFICES ASSUME k = 0 PROVE FALSE
      OBVIOUS
    <2>1. SUBSET (1..k) = {{}}
      OBVIOUS
    <2>2. /\ [s \in SUBSET (1..k) |-> base] \in [SUBSET (1..k) -> V]
          /\ Carries([s \in SUBSET (1..k) |-> base], step, base, k)
      BY <2>1 DEF Carries
    <2> QED
      BY <1>1, <2>2 DEF Carried
  <1>3. k \in 1..n /\ k - 1 \in 0..n /\ k - 1 \notin none
    BY <1>1, <1>2
  <1>4. PICK g \in [SUBSET (1..(k - 1)) -> V] : Carries(g, step, base, k - 1)
    BY <1>3 DEF Carried
  <1> DEFINE h == [s \in SUBSET (1..k) |->
                     IF s = {} THEN base ELSE step[Max(s)][g[s \ {Max(s)}]]]
  <1>5. ASSUME NEW s \in SUBSET (1..k), s # {}
        PROVE  /\ Max(s) \in 1..n /\ s \ {Max(s)} \in SUBSET (1..(k - 1))
               /\ h[s \ {Max(s)}] = g[s \ {Max(s)}]
    <2> DEFINE t == s \ {Max(s)}
    <2>1. Max(s) \in 1..k /\ t \in SUBSET (1..(Max(s) - 1))
      BY <1>3, <1>5, MaxIn
    <2>2. t \in SUBSET (1..(k - 1)) /\ t \in SUBSET (1..k)
      BY <1>3, <2>1
    <2>3. g[t] = IF t = {} THEN base ELSE step[Max(t)][g[t \ {Max(t)}]]
      BY <1>4, <2>2 DEF Carries
    <2> QED
      BY <1>3, <2>1, <2>2, <2>3
  <1>6. h \in [SUBSET (1..k) -> V]
    <2>1. ASSUME NEW s \in SUBSET (1..k), s # {}
          PROVE  step[Max(s)][g[s \ {Max(s)}]] \in V
      <3>1. PICK i \in 1..n, t \in SUBSET (1..(k - 1)) : i = Max(s) /\ t = s \ {Max(s)}
        BY <1>5, <2>1
      <3>2. step[i] \in [V -> V] /\ g[t] \in V
        OBVIOUS
      <3>3. step[i][g[t]] \in V
        BY <3>2
      <3> QED
        BY <3>1, <3>3
    <2> QED
      BY <2>1
  <1>7. Carries(h, step, base, k)
    BY <1>5 DEF Carries
  <1> QED
    BY <1>1, <1>6, <1>7 DEF Carried


\* g carries "base" through them as long as what it reaches is in V.
CarriesWithin(g, V, step, base, n) ==
    /\ g[{}] = base
    /\ \A s \in SUBSET (1..n) :
          s # {} /\ g[s \ {Max(s)}] \in V => g[s] = step[Max(s)][g[s \ {Max(s)}]]

\* The values g gives the first numbers are in V, one step apart.
Line(g, V, step, base, n) ==
    /\ g[1..0] = base
    /\ \A k \in 0..n : g[1..k] \in V
    /\ \A k \in 1..n : g[1..k] = step[k][g[1..(k - 1)]]

\* What g reaches is in V after all.
LEMMA CarriedLine ==
    ASSUME NEW n \in Nat, NEW V, NEW base \in V, NEW step \in [1..n -> [V -> V]],
           NEW g, CarriesWithin(g, V, step, base, n)
    PROVE  Line(g, V, step, base, n)
  <1> DEFINE none == {k \in 0..n : g[1..k] \notin V}
  <1>1. g[1..0] = base
    BY DEF CarriesWithin
  <1>2. ASSUME NEW k \in 1..n, g[1..(k - 1)] \in V
        PROVE  g[1..k] = step[k][g[1..(k - 1)]] /\ g[1..k] \in V
    <2>1. /\ 1..k \in SUBSET (1..n) /\ 1..k # {}
          /\ Max(1..k) = k /\ (1..k) \ {Max(1..k)} = 1..(k - 1)
      <3>1. k \in Nat /\ k # 0 /\ 1..k \subseteq 1..n
        OBVIOUS
      <3> QED
        BY <3>1, MaxOfInterval
    <2>2. g[1..k] = step[k][g[1..(k - 1)]]
      BY <1>2, <2>1 DEF CarriesWithin
    <2>3. step[k] \in [V -> V]
      OBVIOUS
    <2>4. step[k][g[1..(k - 1)]] \in V
      BY <1>2, <2>3
    <2> QED
      BY <2>2, <2>4
  <1>3. none = {}
    <2> SUFFICES ASSUME none # {} PROVE FALSE
      OBVIOUS
    <2>1. PICK k \in none : \A j \in none : k <= j
      <3>1. none \subseteq Nat
        OBVIOUS
      <3> HIDE DEF none
      <3> QED
        BY <3>1, SmallestNumber
    <2>2. k # 0
      BY <1>1, <2>1
    <2>3. k \in 1..n /\ k - 1 \in 0..n /\ k - 1 \notin none
      BY <2>1, <2>2
    <2>4. g[1..(k - 1)] \in V
      BY <2>3
    <2> QED
      BY <1>2, <2>1, <2>3, <2>4
  <1>4. ASSUME NEW k \in 1..n PROVE g[1..(k - 1)] \in V
    <2>1. k - 1 \in 0..n
      OBVIOUS
    <2> QED
      BY <1>3, <2>1
  <1> QED
    BY <1>1, <1>2, <1>3, <1>4 DEF Line

-------------------------------------------------------------------------------
(***************************************************************************)
(* Numbers.  The digits read so far are a number; one digit more is ten    *)
(* times that number and the digit.                                        *)
(***************************************************************************)

\* f is the numbers of the first digits of a text.
Reads(f, digits) ==
    /\ f \in [0..Len(digits) -> Nat]
    /\ f[0] = 0
    /\ \A k \in 1..Len(digits) : f[k] = 10 * f[k - 1] + digits[k]

\* The function behind the fold of Number.
NumberFold(digits) ==
    CHOOSE g : g = [s \in SUBSET (DOMAIN digits) |->
                      IF s = {} THEN 0 ELSE 10 * g[s \ {Max(s)}] + digits[Max(s)]]

\* Number is that function, of all the digits.
LEMMA NumberIsFold ==
    ASSUME NEW digits
    PROVE  Number(digits) = NumberFold(digits)[DOMAIN digits]
  BY Zenon DEF Number, FoldLeft, MapThenFoldSet, NumberFold

\* The numbers of the first digits end in the number of the text.
LEMMA NumberReads ==
    ASSUME NEW digits \in Seq(Nat)
    PROVE  \E f : Reads(f, digits) /\ Number(digits) = f[Len(digits)]
  <1> DEFINE n == Len(digits)
             step == [i \in 1..n |-> [v \in Nat |-> 10 * v + digits[i]]]
             Follows(g) == g = [s \in SUBSET (DOMAIN digits) |->
                                  IF s = {} THEN 0 ELSE 10 * g[s \ {Max(s)}] + digits[Max(s)]]
             h == NumberFold(digits)
             f == [k \in 0..n |-> h[1..k]]
  <1>1. n \in Nat /\ DOMAIN digits = 1..n /\ \A i \in 1..n : digits[i] \in Nat
    OBVIOUS
  <1>2. step \in [1..n -> [Nat -> Nat]]
    BY <1>1
  <1>3. PICK g \in [SUBSET (1..n) -> Nat] : Carries(g, step, 0, n)
    <2> HIDE DEF step
    <2> QED
      BY <1>1, <1>2, CarriesExists
  <1>4. ASSUME NEW s \in SUBSET (1..n), s # {}
        PROVE  Max(s) \in 1..n /\ s \ {Max(s)} \in SUBSET (1..n)
    BY <1>1, <1>4, MaxIn
  <1>5. Follows(g)
    BY <1>1, <1>3, <1>4 DEF Carries
  <1>6. Follows(h)
    BY <1>5, Zenon DEF NumberFold
  <1>7. CarriesWithin(h, Nat, step, 0, n)
    <2> HIDE DEF h
    <2> QED
      BY <1>1, <1>4, <1>6 DEF CarriesWithin
  <1>8. Line(h, Nat, step, 0, n)
    <2>1. n \in Nat /\ 0 \in Nat
      BY <1>1
    <2> HIDE DEF h, step, n
    <2> QED
      BY <1>2, <1>7, <2>1, CarriedLine
  <1>9. Reads(f, digits)
    <2>1. ASSUME NEW k \in 1..n
          PROVE  k \in 0..n /\ k - 1 \in 0..n /\ h[1..k] = 10 * h[1..(k - 1)] + digits[k]
      <3>1. k \in 0..n /\ k - 1 \in 0..n /\ h[1..(k - 1)] \in Nat
        BY <1>1, <1>8 DEF Line
      <3> HIDE DEF h
      <3> QED
        BY <1>8, <3>1 DEF Line
    <2>2. 0 \in 0..n
      BY <1>1
    <2> HIDE DEF h, n
    <2> QED
      BY <1>8, <2>1, <2>2 DEF Reads, Line, n
  <1>10. Number(digits) = f[Len(digits)]
    BY <1>1, NumberIsFold
  <1> QED
    BY <1>9, <1>10

\* The powers of ten that six decimals need.
LEMMA Tens ==
    /\ 10^0 = 1 /\ 10^1 = 10 /\ 10^2 = 100 /\ 10^3 = 1000
    /\ 10^4 = 10000 /\ 10^5 = 100000 /\ 10^6 = 1000000
  BY Z3

\* They are naturals, and each is ten times the one before.
LEMMA NextTen ==
    ASSUME NEW k \in 1..6
    PROVE  10^(k - 1) \in Nat /\ 10^k \in Nat /\ 10^k = 10 * 10^(k - 1)
  <1>1. CASE k = 1
    BY <1>1, Tens, SMT
  <1>2. CASE k = 2
    BY <1>2, Tens, SMT
  <1>3. CASE k = 3
    BY <1>3, Tens, SMT
  <1>4. CASE k = 4
    BY <1>4, Tens, SMT
  <1>5. CASE k = 5
    BY <1>5, Tens, SMT
  <1>6. CASE k = 6
    BY <1>6, Tens, SMT
  <1> QED
    BY <1>1, <1>2, <1>3, <1>4, <1>5, <1>6, SMT

\* The decimals written and those filled up make six.
LEMMA SixDecimals ==
    ASSUME NEW k \in 0..6
    PROVE  10^k \in Nat /\ 10^(6 - k) \in Nat /\ 10^(6 - k) * 10^k = 10^6
  <1>0. CASE k = 0
    BY <1>0, Tens, SMT
  <1>1. CASE k = 1
    BY <1>1, Tens, SMT
  <1>2. CASE k = 2
    BY <1>2, Tens, SMT
  <1>3. CASE k = 3
    BY <1>3, Tens, SMT
  <1>4. CASE k = 4
    BY <1>4, Tens, SMT
  <1>5. CASE k = 5
    BY <1>5, Tens, SMT
  <1>6. CASE k = 6
    BY <1>6, Tens, SMT
  <1> QED
    BY <1>0, <1>1, <1>2, <1>3, <1>4, <1>5, <1>6, SMT

\* The first digits of a text do not depend on those after them.
LEMMA ReadsPrefix ==
    ASSUME NEW s \in Seq(Nat), NEW t \in Seq(Nat), NEW f, NEW h,
           Reads(f, s), Reads(h, s \o t)
    PROVE  h[Len(s)] = f[Len(s)]
  <1> DEFINE none == {k \in 0..Len(s) : h[k] # f[k]}
  <1> SUFFICES none = {}
    OBVIOUS
  <1> SUFFICES ASSUME none # {} PROVE FALSE
    OBVIOUS
  <1>1. PICK k \in none : \A j \in none : k <= j
    <2>1. none \subseteq Nat
      OBVIOUS
    <2> HIDE DEF none
    <2> QED
      BY <2>1, SmallestNumber
  <1>2. k # 0
    BY <1>1 DEF Reads
  <1>3. k \in 1..Len(s) /\ k - 1 \in 0..Len(s) /\ k - 1 \notin none
    BY <1>1, <1>2
  <1>4. k \in 1..Len(s \o t) /\ (s \o t)[k] = s[k]
    BY <1>3
  <1> QED
    BY <1>1, <1>3, <1>4 DEF Reads

\* The digits of the second of two texts.
LEMMA SecondText ==
    ASSUME NEW s \in Seq(Nat), NEW t \in Seq(Nat), NEW k \in 1..Len(t)
    PROVE  /\ Len(s) + k \in 1..Len(s \o t)
           /\ (s \o t)[Len(s) + k] = t[k] /\ t[k] \in Nat
           /\ (Len(s) + k) - 1 = Len(s) + (k - 1)
  <1>1. Len(s) \in Nat /\ Len(t) \in Nat /\ Len(s \o t) = Len(s) + Len(t)
    OBVIOUS
  <1>2. Len(s) + k \in 1..Len(s \o t) /\ (Len(s) + k) - 1 = Len(s) + (k - 1)
    BY <1>1
  <1>3. t[k] \in Nat
    OBVIOUS
  <1>4. (s \o t)[Len(s) + k] = t[k]
    BY <1>1, <1>2
  <1> QED
    BY <1>2, <1>3, <1>4

\* Digits after a text shift its number by as many tens.
LEMMA ReadsSuffix ==
    ASSUME NEW s \in Seq(Nat), NEW t \in Seq(Nat), Len(t) <= 6, NEW g, NEW h, NEW x \in Nat,
           Reads(g, t), Reads(h, s \o t), h[Len(s)] = x
    PROVE  h[Len(s) + Len(t)] = x * 10^Len(t) + g[Len(t)]
  <1> DEFINE Shifted(k) == h[Len(s) + k] = x * 10^k + g[k]
             none == {k \in 0..Len(t) : ~Shifted(k)}
  <1> SUFFICES Shifted(Len(t))
    OBVIOUS
  <1>0. Shifted(0)
    <2>1. h[Len(s) + 0] = x /\ x * 1 + 0 = x
      OBVIOUS
    <2> QED
      BY <2>1, Tens, SMT DEF Reads
  <1> SUFFICES ASSUME none # {} PROVE FALSE
    <2> HIDE DEF Shifted
    <2>1. Len(t) \in 0..Len(t)
      OBVIOUS
    <2> QED
      BY <2>1
  <1> HIDE DEF Shifted
  <1>1. PICK k \in none : \A j \in none : k <= j
    <2>1. none \subseteq Nat
      OBVIOUS
    <2> HIDE DEF none
    <2> QED
      BY <2>1, SmallestNumber
  <1>2. k # 0
    BY <1>0, <1>1
  <1>3. k \in 1..Len(t) /\ k \in 1..6 /\ k - 1 \in 0..Len(t) /\ k - 1 \notin none
    BY <1>1, <1>2
  <1>4. h[Len(s) + (k - 1)] = x * 10^(k - 1) + g[k - 1]
    BY <1>3 DEF Shifted
  <1>5. /\ Len(s) + k \in 1..Len(s \o t)
        /\ (s \o t)[Len(s) + k] = t[k] /\ t[k] \in Nat
        /\ (Len(s) + k) - 1 = Len(s) + (k - 1)
    BY <1>3, SecondText
  <1>6. /\ h[Len(s) + k] = 10 * h[Len(s) + (k - 1)] + t[k]
        /\ g[k] = 10 * g[k - 1] + t[k] /\ g[k - 1] \in Nat
    BY <1>3, <1>5 DEF Reads
  <1>7. PICK u \in Nat, v \in Nat, d \in Nat :
           u = 10^(k - 1) /\ v = g[k - 1] /\ d = t[k] /\ 10^k = 10 * u
    BY <1>3, <1>5, <1>6, NextTen
  <1>8. 10 * (x * u + v) + d = x * (10 * u) + (10 * v + d)
    BY SMT
  <1>9. Shifted(k)
    BY <1>4, <1>6, <1>7, <1>8 DEF Shifted
  <1> QED
    BY <1>1, <1>9

\* The number of two texts, one after the other.
LEMMA NumberOfTwo ==
    ASSUME NEW s \in Seq(Nat), NEW t \in Seq(Nat), Len(t) <= 6
    PROVE  /\ Number(s) \in Nat /\ Number(t) \in Nat
           /\ Number(s \o t) = Number(s) * 10^Len(t) + Number(t)
  <1>1. s \o t \in Seq(Nat) /\ Len(s \o t) = Len(s) + Len(t)
    OBVIOUS
  <1>2. PICK f : Reads(f, s) /\ Number(s) = f[Len(s)]
    BY NumberReads
  <1>3. PICK g : Reads(g, t) /\ Number(t) = g[Len(t)]
    BY NumberReads
  <1>4. PICK h : Reads(h, s \o t) /\ Number(s \o t) = h[Len(s \o t)]
    BY <1>1, NumberReads
  <1>5. Number(s) \in Nat /\ Number(t) \in Nat
    BY <1>2, <1>3 DEF Reads
  <1>6. h[Len(s)] = Number(s)
    BY <1>2, <1>4, ReadsPrefix
  <1>7. h[Len(s) + Len(t)] = Number(s) * 10^Len(t) + g[Len(t)]
    BY <1>3, <1>4, <1>5, <1>6, ReadsSuffix
  <1> QED
    BY <1>1, <1>3, <1>4, <1>5, <1>7

\* Filling up with zeros adds nothing.
LEMMA ZerosNumber ==
    ASSUME NEW n \in Nat
    PROVE  [i \in 1..n |-> 0] \in Seq(Nat) /\ Number([i \in 1..n |-> 0]) = 0
  <1> DEFINE zeros == [i \in 1..n |-> 0]
  <1>1. zeros \in Seq(Nat) /\ Len(zeros) = n /\ \A i \in 1..n : zeros[i] = 0
    OBVIOUS
  <1>2. PICK f : Reads(f, zeros) /\ Number(zeros) = f[n]
    <2> HIDE DEF zeros
    <2> QED
      BY <1>1, NumberReads
  <1> DEFINE none == {k \in 0..n : f[k] # 0}
  <1>3. none = {}
    <2> SUFFICES ASSUME none # {} PROVE FALSE
      OBVIOUS
    <2>1. PICK k \in none : \A j \in none : k <= j
      <3>1. none \subseteq Nat
        OBVIOUS
      <3> HIDE DEF none
      <3> QED
        BY <3>1, SmallestNumber
    <2>2. f[0] = 0 /\ \A i \in 1..n : f[i] = 10 * f[i - 1] + zeros[i]
      BY <1>1, <1>2 DEF Reads
    <2>3. k \in 1..n /\ k - 1 \in 0..n /\ k - 1 \notin none
      BY <2>1, <2>2
    <2>4. f[k - 1] = 0 /\ zeros[k] = 0
      BY <1>1, <2>3
    <2> QED
      BY <2>1, <2>2, <2>3, <2>4
  <1> QED
    BY <1>1, <1>2, <1>3

\* A joule text is its exact decimal value in microjoules (parse_joules).
THEOREM JoulesExactAlways == Spec => []JoulesExact
  <1>1. ASSUME NEW whole \in Seq(Nat), NEW frac \in Seq(Nat), Len(frac) <= 6,
               NEW M, M = 10^6
        PROVE  (Number(whole) * M + Number(Filled(frac))) * 10^Len(frac)
               = Number(whole \o frac) * M
    <2> DEFINE k == Len(frac)
               zeros == [n \in 1..(6 - k) |-> 0]
    <2>1. k \in 0..6 /\ 6 - k \in Nat /\ 6 - k <= 6
      <3>1. k \in Nat /\ k <= 6
        BY <1>1
      <3> HIDE DEF k
      <3> QED
        BY <3>1
    <2>2. zeros \in Seq(Nat) /\ Number(zeros) = 0 /\ Len(zeros) = 6 - k
      BY <2>1, ZerosNumber
    <2>3. Number(Filled(frac)) = Number(frac) * 10^(6 - k) + 0
      <3>1. Filled(frac) = frac \o zeros
        BY DEF Filled
      <3> HIDE DEF zeros, k
      <3> QED
        BY <2>1, <2>2, <3>1, NumberOfTwo
    <2>4. /\ Number(whole) \in Nat /\ Number(frac) \in Nat
          /\ Number(whole \o frac) = Number(whole) * 10^k + Number(frac)
      BY <1>1, NumberOfTwo
    <2>5. 10^k \in Nat /\ 10^(6 - k) \in Nat /\ 10^(6 - k) * 10^k = M
      <3> HIDE DEF k
      <3> QED
        BY <1>1, <2>1, SixDecimals
    <2>6. PICK w \in Nat, f \in Nat, s \in Nat, r \in Nat :
             /\ w = Number(whole) /\ f = Number(frac) /\ s = 10^k /\ r = 10^(6 - k)
             /\ r * s = M /\ M \in Nat
      BY <2>4, <2>5
    <2>7. (w * M + (f * r + 0)) * s = (w * s + f) * M
      <3>0. M \in Nat
        BY <2>6
      <3>1. (f * r) * s = f * (r * s)
        BY SMT
      <3>2. (w * M + f * r) * s = w * M * s + (f * r) * s
        BY <3>0, SMT
      <3>3. w * M * s + f * M = (w * s + f) * M
        BY <3>0, SMT
      <3> QED
        BY <2>6, <3>1, <3>2, <3>3
    <2> QED
      BY <2>3, <2>4, <2>6, <2>7
  <1>2. AdmissionInv => JoulesExact
    <2> SUFFICES ASSUME AdmissionInv, Answered("joules"), reply.answer = "ok"
                 PROVE  reply.uj * 10^Len(call.text.frac)
                        = Number(call.text.whole \o call.text.frac) * 1000000
      BY SMT DEF JoulesExact
    <2>1. call.text \in Joules /\ reply = Parsed
      BY SMT DEF AdmissionInv, Answered, JoulesCall
    <2>2. Len(call.text.frac) <= 6
          /\ reply.uj = Number(call.text.whole) * 1000000 + Number(Filled(call.text.frac))
      BY <2>1, SMT DEF Parsed, Canonical
    <2>3. call.text.whole \in Seq(0..9) /\ call.text.frac \in Seq(0..9)
      BY <2>1, AdmissionAssumption
    <2>4. call.text.whole \in Seq(Nat) /\ call.text.frac \in Seq(Nat)
      <3>1. ASSUME NEW digits \in Seq(0..9) PROVE digits \in Seq(Nat)
        OBVIOUS
      <3> QED
        BY <2>3, <3>1
    <2> QED
      BY <1>1, <2>2, <2>4, Tens, SMT
  <1> QED
    BY <1>2, AdmissionCorrect, PTL

-------------------------------------------------------------------------------
(***************************************************************************)
(* Routes.  After each model the best so far is the best of those seen.    *)
(***************************************************************************)
Better(m, best, w, left) == Affordable(m, w, left) /\ (best = Null \/ Cheaper(m, best, w))

\* The function behind the fold of Choose.
ChooseFold(catalog, w, left) ==
    CHOOSE g : g = [s \in SUBSET (DOMAIN catalog) |->
                      IF s = {} THEN Null
                      ELSE IF Better(catalog[Max(s)], g[s \ {Max(s)}], w, left)
                           THEN catalog[Max(s)] ELSE g[s \ {Max(s)}]]

\* Choose is that function, of the whole catalogue.
LEMMA ChooseIsFold ==
    ASSUME NEW catalog, NEW w, NEW left
    PROVE  Choose(catalog, w, left) = ChooseFold(catalog, w, left)[DOMAIN catalog]
  BY Zenon DEF Choose, FoldLeft, MapThenFoldSet, ChooseFold, Better

\* f is the choices from the first models of a catalogue.
Chooses(f, catalog, w, left) ==
    /\ f \in [0..Len(catalog) -> Models \cup {Null}]
    /\ f[0] = Null
    /\ \A k \in 1..Len(catalog) :
          f[k] = IF Better(catalog[k], f[k - 1], w, left) THEN catalog[k] ELSE f[k - 1]

\* They end in the choice from all of them.
LEMMA ChooseChooses ==
    ASSUME NEW catalog \in Seq(Models), NEW w, NEW left
    PROVE  \E f : Chooses(f, catalog, w, left) /\ Choose(catalog, w, left) = f[Len(catalog)]
  <1> DEFINE n == Len(catalog)
             V == Models \cup {Null}
             step == [i \in 1..n |-> [v \in V |->
                        IF Better(catalog[i], v, w, left) THEN catalog[i] ELSE v]]
             Follows(g) == g = [s \in SUBSET (DOMAIN catalog) |->
                                  IF s = {} THEN Null
                                  ELSE IF Better(catalog[Max(s)], g[s \ {Max(s)}], w, left)
                                       THEN catalog[Max(s)] ELSE g[s \ {Max(s)}]]
             h == ChooseFold(catalog, w, left)
             f == [k \in 0..n |-> h[1..k]]
  <1>1. n \in Nat /\ DOMAIN catalog = 1..n /\ \A i \in 1..n : catalog[i] \in V
    OBVIOUS
  <1>2. step \in [1..n -> [V -> V]]
    BY <1>1
  <1>3. PICK g \in [SUBSET (1..n) -> V] : Carries(g, step, Null, n)
    <2>1. Null \in V
      OBVIOUS
    <2> HIDE DEF step, V
    <2> QED
      BY <1>1, <1>2, <2>1, CarriesExists
  <1>4. ASSUME NEW s \in SUBSET (1..n), s # {}
        PROVE  Max(s) \in 1..n /\ s \ {Max(s)} \in SUBSET (1..n)
    BY <1>1, <1>4, MaxIn
  <1>5. Follows(g)
    <2>1. ASSUME NEW s \in SUBSET (1..n), s # {}
          PROVE  /\ g[s] = step[Max(s)][g[s \ {Max(s)}]]
                 /\ Max(s) \in 1..n /\ g[s \ {Max(s)}] \in V
      <3> HIDE DEF step, V
      <3> QED
        BY <1>3, <1>4, <2>1 DEF Carries
    <2>2. g[{}] = Null /\ g = [s \in SUBSET (1..n) |-> g[s]]
      BY <1>3 DEF Carries
    <2>3. ASSUME NEW s \in SUBSET (1..n), s # {}
          PROVE  g[s] = IF Better(catalog[Max(s)], g[s \ {Max(s)}], w, left)
                        THEN catalog[Max(s)] ELSE g[s \ {Max(s)}]
      <3> HIDE DEF V
      <3> QED
        BY <2>1, <2>3
    <2> QED
      BY <1>1, <2>2, <2>3
  <1>6. Follows(h)
    BY <1>5, Zenon DEF ChooseFold
  <1>7. CarriesWithin(h, V, step, Null, n)
    <2> HIDE DEF h, V
    <2> QED
      BY <1>1, <1>4, <1>6 DEF CarriesWithin
  <1>8. Line(h, V, step, Null, n)
    <2>1. n \in Nat /\ Null \in V
      BY <1>1
    <2> HIDE DEF h, step, n, V
    <2> QED
      BY <1>2, <1>7, <2>1, CarriedLine
  <1>9. Chooses(f, catalog, w, left)
    <2>1. ASSUME NEW k \in 1..n
          PROVE  /\ k \in 0..n /\ k - 1 \in 0..n
                 /\ h[1..k] = IF Better(catalog[k], h[1..(k - 1)], w, left)
                              THEN catalog[k] ELSE h[1..(k - 1)]
      <3>1. k \in 0..n /\ k - 1 \in 0..n /\ h[1..(k - 1)] \in V
        BY <1>1, <1>8 DEF Line
      <3> HIDE DEF h, V
      <3> QED
        BY <1>8, <3>1 DEF Line
    <2>2. 0 \in 0..n
      BY <1>1
    <2> HIDE DEF h, n
    <2> QED
      BY <1>8, <2>1, <2>2 DEF Chooses, Line, n
  <1>10. Choose(catalog, w, left) = f[Len(catalog)]
    BY <1>1, ChooseIsFold
  <1> QED
    BY <1>9, <1>10

\* b is no worse than m.
NoWorse(b, m, w) ==
    \/ Cost(b, w) < Cost(m, w)
    \/ Cost(b, w) = Cost(m, w) /\ b.id <= m.id

\* b is the best of the first k models, or Null where none is affordable.
BestOf(b, k, catalog, w, left) ==
    LET affordable == {i \in 1..k : Affordable(catalog[i], w, left)}
    IN  IF affordable = {} THEN b = Null
        ELSE /\ \E i \in affordable : b = catalog[i]
             /\ \A i \in affordable : NoWorse(b, catalog[i], w)

\* Costs and ids are naturals.
LEMMA CostType ==
    ASSUME NEW m \in Models, NEW w \in Works
    PROVE  Cost(m, w) \in Nat /\ m.id \in Nat
  <1>1. m.id \in Nat /\ w.input \in Nat /\ w.output \in Nat /\ w.batch \in Nat
    BY AdmissionAssumption
  <1>2. w.output <= w.output
    BY <1>1
  <1> QED
    BY <1>1, <1>2, EstimateMonotone DEF Cost

\* One model more: it is taken if it is better, and then it is no worse than those
\* that the best so far is no worse than.
LEMMA BestStep ==
    ASSUME NEW catalog \in Seq(Models), NEW w \in Works, NEW left,
           NEW k \in 1..Len(catalog), NEW b, BestOf(b, k - 1, catalog, w, left)
    PROVE  BestOf(IF Better(catalog[k], b, w, left) THEN catalog[k] ELSE b, k, catalog, w, left)
  <1> DEFINE before == {i \in 1..(k - 1) : Affordable(catalog[i], w, left)}
             now == {i \in 1..k : Affordable(catalog[i], w, left)}
             m == catalog[k]
  <1>1. /\ \A i \in 1..k : catalog[i] \in Models
        /\ \A i \in 1..k : catalog[i] # Null
        /\ \A i \in 1..k : Cost(catalog[i], w) \in Nat /\ catalog[i].id \in Nat
    <2>1. \A i \in 1..k : catalog[i] \in Models
      OBVIOUS
    <2> QED
      BY <2>1, CostType, AdmissionAssumption
  <1>2. CASE ~Affordable(m, w, left)
    <2>1. now = before
      BY <1>2
    <2>2. ~Better(m, b, w, left)
      BY <1>2 DEF Better
    <2> QED
      BY <2>1, <2>2 DEF BestOf
  <1>3. CASE Affordable(m, w, left)
    <2>1. now = before \cup {k} /\ k \in now
      BY <1>3
    <2>2. CASE before = {}
      <3>1. b = Null
        BY <2>2 DEF BestOf
      <3>2. Better(m, b, w, left)
        BY <1>3, <3>1 DEF Better
      <3>3. NoWorse(m, m, w)
        BY <1>1 DEF NoWorse
      <3> QED
        BY <2>1, <2>2, <3>2, <3>3 DEF BestOf
    <2>3. CASE before # {}
      <3>1. PICK j \in before : b = catalog[j]
        BY <2>3 DEF BestOf
      <3>2. \A i \in before : NoWorse(b, catalog[i], w)
        BY <2>3 DEF BestOf
      <3>3. /\ j \in 1..k /\ b # Null
            /\ Cost(b, w) \in Nat /\ b.id \in Nat /\ Cost(m, w) \in Nat /\ m.id \in Nat
            /\ Better(m, b, w, left) <=> Cheaper(m, b, w)
        BY <1>1, <1>3, <3>1 DEF Better
      <3>4. CASE Better(m, b, w, left)
        <4>1. ASSUME NEW i \in before PROVE NoWorse(m, catalog[i], w)
          <5>1. /\ Cost(catalog[i], w) \in Nat /\ catalog[i].id \in Nat
                /\ NoWorse(b, catalog[i], w)
            BY <1>1, <3>2
          <5> QED
            BY <3>3, <3>4, <5>1 DEF NoWorse, Cheaper
        <4>2. NoWorse(m, m, w)
          BY <3>3 DEF NoWorse
        <4> QED
          BY <2>1, <3>4, <4>1, <4>2 DEF BestOf
      <3>5. CASE ~Better(m, b, w, left)
        <4>1. NoWorse(b, m, w)
          BY <3>3, <3>5 DEF NoWorse, Cheaper
        <4> QED
          BY <2>1, <3>1, <3>2, <3>5, <4>1 DEF BestOf
      <3> QED
        BY <3>4, <3>5
    <2> QED
      BY <2>2, <2>3
  <1> QED
    BY <1>2, <1>3

\* The choice is the best of the whole catalogue.
LEMMA ChooseBest ==
    ASSUME NEW catalog \in Seq(Models), NEW w \in Works, NEW left
    PROVE  BestOf(Choose(catalog, w, left), Len(catalog), catalog, w, left)
  <1>1. PICK f : Chooses(f, catalog, w, left) /\ Choose(catalog, w, left) = f[Len(catalog)]
    BY ChooseChooses
  <1> DEFINE n == Len(catalog)
             none == {k \in 0..n : ~BestOf(f[k], k, catalog, w, left)}
  <1>2. none = {}
    <2> SUFFICES ASSUME none # {} PROVE FALSE
      OBVIOUS
    <2>1. PICK k \in none : \A j \in none : k <= j
      <3>1. none \subseteq Nat
        OBVIOUS
      <3> HIDE DEF none
      <3> QED
        BY <3>1, SmallestNumber
    <2>2. k # 0
      <3>1. BestOf(f[0], 0, catalog, w, left)
        BY <1>1 DEF BestOf, Chooses
      <3> QED
        BY <2>1, <3>1
    <2>3. k \in 1..n /\ k - 1 \in 0..n /\ k - 1 \notin none
      BY <2>1, <2>2
    <2>4. BestOf(f[k - 1], k - 1, catalog, w, left)
      BY <2>3
    <2>5. f[k] = IF Better(catalog[k], f[k - 1], w, left) THEN catalog[k] ELSE f[k - 1]
      BY <1>1, <2>3 DEF Chooses
    <2> QED
      BY <2>1, <2>3, <2>4, <2>5, BestStep
  <1>3. n \in 0..n
    OBVIOUS
  <1> QED
    BY <1>1, <1>2, <1>3

\* The choice is affordable and no affordable model is cheaper, nor as cheap with
\* a smaller id (choose_route, RunCore.admit_flops).
THEOREM RouteIsBestAlways == Spec => []RouteIsBest
  <1>1. AdmissionInv => RouteIsBest
    <2> SUFFICES ASSUME AdmissionInv, Answered("route") PROVE RouteIsBest
      BY DEF RouteIsBest
    <2>1. call.catalog \in Catalogs /\ call.work \in Works /\ reply = Routed
      BY DEF AdmissionInv, Answered, RouteCall
    <2>2. PICK catalog \in Seq(Models) : catalog = call.catalog
      BY <2>1, AdmissionAssumption
    <2> DEFINE n == Len(catalog)
               able == {i \in 1..n : Affordable(catalog[i], call.work, call.left)}
               affordable == {m \in {catalog[i] : i \in DOMAIN catalog} :
                                Affordable(m, call.work, call.left)}
    <2>3. BestOf(reply.choice, n, catalog, call.work, call.left)
      BY <2>1, <2>2, ChooseBest DEF Routed
    <2>4. affordable = {catalog[i] : i \in able} /\ (affordable = {} <=> able = {})
      <3>1. DOMAIN catalog = 1..n
        OBVIOUS
      <3> QED
        BY <3>1
    <2>5. affordable = {} => reply.choice = Null
      BY <2>3, <2>4 DEF BestOf
    <2>6. affordable # {} => /\ reply.choice \in affordable
                             /\ \A m \in affordable : NoWorse(reply.choice, m, call.work)
      BY <2>3, <2>4 DEF BestOf
    <2> QED
      BY <2>2, <2>5, <2>6 DEF RouteIsBest, NoWorse
  <1> QED
    BY <1>1, AdmissionCorrect, PTL

-------------------------------------------------------------------------------
(***************************************************************************)
(* Counting.  The work token by token, summed up, is the work that the     *)
(* estimate multiplies out.                                                *)
(***************************************************************************)

\* One token pays c, and d for each token before it.
CountFold(c, d, n) ==
    CHOOSE g : g = [s \in SUBSET (DOMAIN [t \in 1..n |-> t]) |->
                      IF s = {} THEN 0
                      ELSE g[s \ {Max(s)}] + c + d * ([t \in 1..n |-> t][Max(s)] - 1)]

CountAll(c, d, n) == CountFold(c, d, n)[DOMAIN [t \in 1..n |-> t]]

\* Counted is that sum, over all the tokens.
LEMMA CountedIsFold ==
    ASSUME NEW m, NEW i, NEW o, NEW batch
    PROVE  Counted(m, i, o, batch) =
             batch * CountAll(2 * m.parameters, 4 * m.layers * m.hidden, i + o)
  BY Zenon DEF Counted, FoldLeft, MapThenFoldSet, CountAll, CountFold

\* f is the sums over the first tokens.
Counts(f, c, d, n) ==
    /\ f \in [0..n -> Nat]
    /\ f[0] = 0
    /\ \A k \in 1..n : f[k] = f[k - 1] + c + d * (k - 1)

\* They end in the sum over all of them.
LEMMA CountCounts ==
    ASSUME NEW c \in Nat, NEW d \in Nat, NEW n \in Nat
    PROVE  \E f : Counts(f, c, d, n) /\ CountAll(c, d, n) = f[n]
  <1> DEFINE step == [i \in 1..n |-> [v \in Nat |-> v + c + d * (i - 1)]]
             Follows(g) == g = [s \in SUBSET (DOMAIN [t \in 1..n |-> t]) |->
                                  IF s = {} THEN 0
                                  ELSE g[s \ {Max(s)}] + c + d * ([t \in 1..n |-> t][Max(s)] - 1)]
             h == CountFold(c, d, n)
             f == [k \in 0..n |-> h[1..k]]
  <1>1. ASSUME NEW i \in 1..n, NEW v \in Nat PROVE v + c + d * (i - 1) \in Nat
    <2>1. i - 1 \in Nat
      OBVIOUS
    <2>2. d * (i - 1) \in Nat
      BY <2>1, SMT
    <2> QED
      BY <2>2
  <1>2. step \in [1..n -> [Nat -> Nat]]
    BY <1>1
  <1>3. PICK g \in [SUBSET (1..n) -> Nat] : Carries(g, step, 0, n)
    <2>1. 0 \in Nat
      OBVIOUS
    <2> HIDE DEF step
    <2> QED
      BY <1>2, <2>1, CarriesExists
  <1>4. ASSUME NEW s \in SUBSET (1..n), s # {}
        PROVE  /\ Max(s) \in 1..n /\ s \ {Max(s)} \in SUBSET (1..n)
               /\ [t \in 1..n |-> t][Max(s)] = Max(s)
    <2>1. Max(s) \in 1..n /\ s \ {Max(s)} \in SUBSET (1..(Max(s) - 1))
      BY <1>4, MaxIn
    <2> QED
      BY <2>1
  <1>5. Follows(g)
    <2>1. ASSUME NEW s \in SUBSET (1..n), s # {}
          PROVE  g[s] = g[s \ {Max(s)}] + c + d * ([t \in 1..n |-> t][Max(s)] - 1)
      <3>1. g[s] = step[Max(s)][g[s \ {Max(s)}]] /\ g[s \ {Max(s)}] \in Nat
        <4> HIDE DEF step
        <4> QED
          BY <1>3, <1>4, <2>1 DEF Carries
      <3> QED
        BY <1>4, <2>1, <3>1
    <2>2. g[{}] = 0 /\ g = [s \in SUBSET (1..n) |-> g[s]]
      BY <1>3 DEF Carries
    <2>3. DOMAIN [t \in 1..n |-> t] = 1..n
      OBVIOUS
    <2> QED
      BY <2>1, <2>2, <2>3
  <1>6. Follows(h)
    BY <1>5, Zenon DEF CountFold
  <1>7. CarriesWithin(h, Nat, step, 0, n)
    <2>1. DOMAIN [t \in 1..n |-> t] = 1..n
      OBVIOUS
    <2>2. ASSUME NEW s \in SUBSET (1..n), s # {}, h[s \ {Max(s)}] \in Nat
          PROVE  h[s] = step[Max(s)][h[s \ {Max(s)}]]
      <3>1. h[s] = h[s \ {Max(s)}] + c + d * (Max(s) - 1)
        <4> HIDE DEF h
        <4> QED
          BY <1>4, <1>6, <2>1, <2>2
      <3> HIDE DEF h
      <3> QED
        BY <1>4, <2>2, <3>1
    <2>3. h[{}] = 0
      <3> HIDE DEF h
      <3> QED
        BY <1>6, <2>1
    <2> QED
      BY <2>2, <2>3 DEF CarriesWithin
  <1>8. Line(h, Nat, step, 0, n)
    <2>1. 0 \in Nat
      OBVIOUS
    <2> HIDE DEF h, step
    <2> QED
      BY <1>2, <1>7, <2>1, CarriedLine
  <1>9. Counts(f, c, d, n)
    <2>1. ASSUME NEW k \in 1..n
          PROVE  k \in 0..n /\ k - 1 \in 0..n /\ h[1..k] = h[1..(k - 1)] + c + d * (k - 1)
      <3>1. k \in 0..n /\ k - 1 \in 0..n /\ h[1..(k - 1)] \in Nat
        BY <1>8 DEF Line
      <3> HIDE DEF h
      <3> QED
        BY <1>8, <3>1 DEF Line
    <2>2. 0 \in 0..n
      OBVIOUS
    <2> HIDE DEF h
    <2> QED
      BY <1>8, <2>1, <2>2 DEF Counts, Line
  <1>10. CountAll(c, d, n) = f[n]
    <2>1. DOMAIN [t \in 1..n |-> t] = 1..n /\ n \in 0..n
      OBVIOUS
    <2> HIDE DEF h
    <2>2. f[n] = h[1..n]
      BY <2>1
    <2> QED
      BY <2>1, <2>2 DEF h, CountAll
  <1> QED
    BY <1>9, <1>10

\* One token more is paired with all those before it.
LEMMA NextHalf ==
    ASSUME NEW k \in Nat, k # 0
    PROVE  /\ ((k - 1) * ((k - 1) - 1)) \div 2 \in Nat
           /\ (k * (k - 1)) \div 2 = ((k - 1) * ((k - 1) - 1)) \div 2 + (k - 1)
  <1>1. PICK j \in Nat : j = k - 1 /\ k = j + 1
    BY SMT
  <1>2. j * (j - 1) \in Nat /\ (j * (j - 1)) \div 2 \in Nat
    BY Half
  <1>3. k * (k - 1) = j * (j - 1) + 2 * j
    BY <1>1, SMT
  <1>4. PICK x \in Nat : x = j * (j - 1)
    BY <1>2
  <1>5. (x + 2 * j) \div 2 = x \div 2 + j
    BY SMT
  <1> QED
    BY <1>1, <1>2, <1>3, <1>4, <1>5

\* The sum over n tokens, multiplied out.
LEMMA CountSum ==
    ASSUME NEW c \in Nat, NEW d \in Nat, NEW n \in Nat, NEW f, Counts(f, c, d, n)
    PROVE  f[n] = c * n + d * ((n * (n - 1)) \div 2)
  <1> DEFINE H(k) == (k * (k - 1)) \div 2
             none == {k \in 0..n : f[k] # c * k + d * H(k)}
  <1>1. f[0] = c * 0 + d * H(0)
    <2>1. H(0) = 0
      BY SMT
    <2>2. c * 0 = 0 /\ d * 0 = 0
      BY SMT
    <2> QED
      BY <2>1, <2>2 DEF Counts
  <1>2. ASSUME NEW k \in 1..n, f[k - 1] = c * (k - 1) + d * H(k - 1)
        PROVE  f[k] = c * k + d * H(k)
    <2>1. H(k - 1) \in Nat /\ H(k) = H(k - 1) + (k - 1)
      BY NextHalf
    <2>2. PICK j \in Nat, x \in Nat : j = k - 1 /\ x = H(k - 1) /\ k = j + 1
      <3>1. k - 1 \in Nat /\ k = (k - 1) + 1
        OBVIOUS
      <3> HIDE DEF H
      <3> QED
        BY <2>1, <3>1
    <2>3. f[k] = f[k - 1] + c + d * (k - 1)
      BY DEF Counts
    <2>4. (c * j + d * x) + c + d * j = c * (j + 1) + d * (x + j)
      BY SMT
    <2> HIDE DEF H
    <2> QED
      BY <1>2, <2>1, <2>2, <2>3, <2>4
  <1> HIDE DEF H
  <1>3. none = {}
    <2> SUFFICES ASSUME none # {} PROVE FALSE
      OBVIOUS
    <2>1. PICK k \in none : \A j \in none : k <= j
      <3>1. none \subseteq Nat
        OBVIOUS
      <3> HIDE DEF none
      <3> QED
        BY <3>1, SmallestNumber
    <2>2. k # 0
      BY <1>1, <2>1
    <2>3. k \in 1..n /\ k - 1 \in 0..n /\ k - 1 \notin none
      BY <2>1, <2>2
    <2> QED
      BY <1>2, <2>1, <2>3
  <1>4. n \in 0..n
    OBVIOUS
  <1> QED
    BY <1>3, <1>4 DEF H

\* Of two numbers in a row one is even.
LEMMA EvenProduct ==
    ASSUME NEW n \in Nat
    PROVE  (n * (n - 1)) % 2 = 0
  <1>1. PICK q \in Nat : n = 2 * q \/ n = 2 * q + 1
    <2>1. n \div 2 \in Nat /\ (n = 2 * (n \div 2) \/ n = 2 * (n \div 2) + 1)
      BY SMT
    <2> QED
      BY <2>1
  <1>2. PICK r \in Int : n * (n - 1) = 2 * r
    <2>1. CASE n = 2 * q
      <3>1. q * (2 * q - 1) \in Int
        BY SMT
      <3>2. (2 * q) * (2 * q - 1) = 2 * (q * (2 * q - 1))
        BY SMT
      <3> QED
        BY <2>1, <3>1, <3>2
    <2>2. CASE n = 2 * q + 1
      <3>1. q * (2 * q + 1) \in Int
        BY SMT
      <3>2. (2 * q + 1) * ((2 * q + 1) - 1) = 2 * (q * (2 * q + 1))
        BY SMT
      <3> QED
        BY <2>2, <3>1, <3>2
    <2> QED
      BY <1>1, <2>1, <2>2
  <1>3. (2 * r) % 2 = 0
    BY SMT
  <1> QED
    BY <1>2, <1>3

\* The pairs of input and output tokens are those of all the tokens.
LEMMA PairsOfAll ==
    ASSUME NEW i \in Nat, NEW o \in Nat
    PROVE  ((i + o) * ((i + o) - 1)) \div 2 = Pairs(i, o)
  <1>1. /\ i * (i - 1) \in Nat /\ o * (o - 1) \in Nat
        /\ (i * (i - 1)) \div 2 \in Nat /\ (o * (o - 1)) \div 2 \in Nat
    BY Half
  <1>2. (i * (i - 1)) % 2 = 0 /\ (o * (o - 1)) % 2 = 0
    BY EvenProduct
  <1>3. PICK x \in Nat, y \in Nat, z \in Nat : x = i * (i - 1) /\ y = o * (o - 1) /\ z = i * o
    BY <1>1, Product
  <1>4. (i + o) * ((i + o) - 1) = x + y + 2 * z
    BY <1>3, SMT
  <1>5. x % 2 = 0 /\ y % 2 = 0
    BY <1>2, <1>3
  <1>6. (x + y + 2 * z) \div 2 = x \div 2 + z + y \div 2
    BY <1>5, SMT
  <1> QED
    BY <1>3, <1>4, <1>6 DEF Pairs

\* The counted work is the work that the estimate rounds.
LEMMA CountedIsFlops ==
    ASSUME NEW m \in Models, NEW i \in Nat, NEW o \in Nat, NEW batch \in Nat
    PROVE  Counted(m, i, o, batch) =
             Flops(m.parameters, m.layers, m.hidden, batch, i + o, Pairs(i, o))
  <1>1. /\ m.parameters \in Nat /\ m.layers \in Nat /\ m.hidden \in Nat
        /\ Pairs(i, o) \in Nat
    BY EstimateIs
  <1>2. PICK P \in Nat, L \in Nat, H \in Nat, q \in Nat, n \in Nat :
           P = m.parameters /\ L = m.layers /\ H = m.hidden /\ q = Pairs(i, o) /\ n = i + o
    BY <1>1
  <1>3. 2 * P \in Nat /\ 4 * L \in Nat /\ (4 * L) * H \in Nat
    <2>1. 2 * P \in Nat /\ 4 * L \in Nat
      OBVIOUS
    <2> QED
      BY <2>1, Product
  <1>4. PICK c \in Nat, d \in Nat : c = 2 * P /\ d = 4 * L * H
    BY <1>3
  <1>5. PICK f : Counts(f, c, d, n) /\ CountAll(c, d, n) = f[n]
    BY CountCounts
  <1>6. f[n] = c * n + d * q
    <2>1. f[n] = c * n + d * ((n * (n - 1)) \div 2)
      BY <1>5, CountSum
    <2>2. (n * (n - 1)) \div 2 = q
      BY <1>2, PairsOfAll
    <2> QED
      BY <2>1, <2>2
  <1>7. Counted(m, i, o, batch) = batch * (c * n + d * q)
    BY <1>2, <1>4, <1>5, <1>6, CountedIsFold
  <1>8. batch * (c * n + d * q) = c * batch * n + d * batch * q
    BY SMT
  <1> QED
    BY <1>2, <1>4, <1>7, <1>8 DEF Flops

\* What is charged is the least integer that covers the counted work with its
\* safety factor (estimate_decomposition).
THEOREM ChargeIsExactAlways == Spec => []ChargeIsExact
  <1>1. ASSUME NEW due \in Nat
        PROVE  1000 * Rounded(due) >= due /\ 1000 * (Rounded(due) - 1) < due
    BY SMT DEF Rounded
  <1>2. AdmissionInv => ChargeIsExact
    <2> SUFFICES ASSUME AdmissionInv, Answered("compute") PROVE ChargeIsExact
      BY DEF ChargeIsExact
    <2>1. /\ call.model \in Models /\ call.work \in Works /\ reply = Computed
      BY DEF AdmissionInv, Answered, ComputeCall
    <2>2. call.work.input \in Nat /\ call.work.output \in Nat /\ call.work.batch \in Nat
      BY <2>1, AdmissionAssumption
    <2>3. PICK m \in Models, i \in Nat, o \in Nat, batch \in Nat :
             m = call.model /\ i = call.work.input /\ o = call.work.output /\ batch = call.work.batch
      BY <2>1, <2>2
    <2>4. /\ m.parameters \in Nat /\ m.layers \in Nat /\ m.hidden \in Nat /\ m.safety \in Nat
          /\ Pairs(i, o) \in Nat /\ i + o \in Nat
      BY EstimateIs
    <2>5. PICK x \in Nat : x = Flops(m.parameters, m.layers, m.hidden, batch, i + o, Pairs(i, o))
      BY <2>4, FlopsType
    <2>6. PICK due \in Nat : due = x * m.safety
      <3>1. m.safety * x \in Nat /\ x * m.safety = m.safety * x
        BY <2>4, Product, SMT
      <3> QED
        BY <3>1
    <2>7. Counted(m, i, o, batch) * m.safety = due
      <3>1. Counted(m, i, o, batch) = x
        BY <2>5, CountedIsFlops
      <3> QED
        BY <2>6, <3>1
    <2>8. reply.charged = Estimate(m, i, o, batch)
      BY <2>1, <2>3 DEF Computed, Cost
    <2>9. reply.charged = Rounded(due)
      BY <2>5, <2>6, <2>8, EstimateIs
    <2> QED
      BY <1>1, <2>3, <2>7, <2>9 DEF ChargeIsExact
  <1> QED
    BY <1>2, AdmissionCorrect, PTL
===============================================================================
