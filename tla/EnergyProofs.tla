----------------------------- MODULE EnergyProofs -----------------------------
(***************************************************************************)
(* What EnergyGuard promises of energy, for any number of domains, any     *)
(* powers, ranges and margins, and any spacing of the samples.             *)
(*                                                                         *)
(* While a run is RUNNING every sample has read every domain, so all       *)
(* readings have one age and the energy is exact (Exact); and the last     *)
(* sample left room for the reserve.  From the latch on samples may fail   *)
(* half way, and only the sum of what is metered, lost and unread is       *)
(* followed: it stays below a base that left room for the reserve and what *)
(* each domain could draw since (Spending).  The proof that stuck counters *)
(* are caught follows the age of the last movement (Watched).              *)
(***************************************************************************)
EXTENDS EnergyGuard, SumProofs

-------------------------------------------------------------------------------
(***************************************************************************)
(* The inductive invariant.                                                *)
(***************************************************************************)
Types ==
    /\ EnergyTypeOK
    /\ sampledFor \in 0..MaxGap
    /\ unchangedCpu \in 0..Advance
    /\ stillFor \in 0..StillWindow
    /\ stillCpu \in 0..StillAdvance

\* What the counters show is what was read and what they counted since.
Counted ==
    \A d \in Domain : prev[d] # NoReading =>
        counter[d] = (prev[d] + unread[d]) % CounterRange

\* In "age" a domain has drawn no more than its power allows, the rest that its
\* counter had not counted at the beginning included.
Within(d, drawn, age) == Micro * drawn + fraction[d] <= Power[d] * age + (Micro - 1)

Exact ==
    phase = "RUNNING" =>
        /\ ~dead
        /\ lost = 0
        /\ energy + Reserve < Cap
        /\ \A d \in Domain :
              /\ readFor[d] = UpTo(Stale + 1, sampledFor)
              /\ Within(d, unread[d], sampledFor)

\* From the latch on: the energy at the last good sample, and what was drawn since.
Spending ==
    phase = "STOPPING" /\ ~dead =>
        \E base \in 0..Cap, drawn \in [Domain -> Nat] :
           /\ base + Reserve < Cap
           /\ energy + lost + SumFunction(unread) <= base + SumFunction(drawn)
           /\ \A d \in Domain : Within(d, drawn[d], MaxGap + latchedFor)

Closed == phase \in {"CLOSING", "CLOSED"} => dead

\* How long the counters may have stood still, from what the samples noticed.
Watched ==
    phase = "RUNNING" =>
        /\ stillFor >= sampledFor =>
              \A d \in Domain : prev[d] # NoReading => counter[d] = prev[d]
        /\ unchangedFor = Never =>
              stillFor <= sampledFor + MaxGap /\ stillCpu <= sampledFor + MaxGap
        /\ unchangedFor # Never =>
              stillFor <= unchangedFor + 2 * MaxGap /\ stillCpu <= unchangedCpu + 2 * MaxGap
        /\ stillFor < StillWindow => stillCpu <= stillFor
        /\ sampledFor = 0 => unchangedFor # Window \/ unchangedCpu # Advance

EnergyInv == Types /\ Counted /\ Exact /\ Spending /\ Closed /\ Watched

-------------------------------------------------------------------------------
(***************************************************************************)
(* Arithmetic.                                                             *)
(***************************************************************************)
\* Quotient and remainder.
LEMMA DivMod ==
    ASSUME NEW n \in Nat, NEW m \in Nat \ {0}
    PROVE  n \div m \in Nat /\ n % m \in 0..(m - 1) /\ n = m * (n \div m) + (n % m)
  <1>1. n \div m \in Int /\ n \div m >= 0
    BY SMT
  <1>2. n % m \in 0..(m - 1)
    BY SMT
  <1>3. n = m * (n \div m) + (n % m)
    BY SMT
  <1> QED
    BY <1>1, <1>2, <1>3

\* A product of a sum, for the solver to use.
LEMMA Distribute ==
    ASSUME NEW a \in Int, NEW b \in Int, NEW c \in Int
    PROVE  a * (b + c) = a * b + a * c /\ a * b \in Int /\ a * c \in Int
  <1>1. a * (b + c) = a * b + a * c
    BY SMT
  <1> QED
    BY <1>1

\* A multiple other than zero is at least as far from it as m.
LEMMA Multiple ==
    ASSUME NEW m \in Nat \ {0}, NEW k \in Int
    PROVE  (k >= 1 => m * k >= m) /\ (k <= -1 => m * k <= -m)
  <1>1. ASSUME k >= 1 PROVE m * k >= m
    <2>1. m * (k - 1) >= 0
      BY <1>1, SMT
    <2>2. m * k = m * (k - 1) + m
      BY SMT
    <2> QED
      BY <2>1, <2>2
  <1>2. ASSUME k <= -1 PROVE m * k <= -m
    <2>1. m * ((-k) - 1) >= 0
      BY <1>2, SMT
    <2>2. m * (-k) = m * ((-k) - 1) + m
      BY SMT
    <2>3. m * (-k) = -(m * k)
      BY SMT
    <2> QED
      BY <2>1, <2>2, <2>3
  <1> QED
    BY <1>1, <1>2

\* Two remainders that differ by a multiple are the same.
LEMMA SameRemainder ==
    ASSUME NEW m \in Nat \ {0}, NEW a \in 0..(m - 1), NEW b \in 0..(m - 1),
           NEW k \in Int, a = b + m * k
    PROVE  a = b
  <1>1. CASE k >= 1
    BY <1>1, Multiple
  <1>2. CASE k <= -1
    BY <1>2, Multiple
  <1>3. CASE k = 0
    BY <1>3
  <1> QED
    BY <1>1, <1>2, <1>3

\* A number that is r and a multiple has the remainder r.
LEMMA ModIs ==
    ASSUME NEW m \in Nat \ {0}, NEW n \in Nat, NEW r \in 0..(m - 1), NEW k \in Int,
           n = r + m * k
    PROVE  n % m = r
  <1> DEFINE q == n \div m
             s == n % m
  <1>1. q \in Nat /\ s \in 0..(m - 1) /\ n = m * q + s
    BY DivMod
  <1> HIDE DEF q, s
  <1>2. s = r + m * (k - q)
    BY <1>1
  <1>3. s = r
    BY <1>1, <1>2, SameRemainder
  <1> QED
    BY <1>3 DEF s

\* A remainder is its own remainder.
LEMMA ModSmall ==
    ASSUME NEW m \in Nat \ {0}, NEW r \in 0..(m - 1)
    PROVE  r % m = r /\ (r + 0) % m = r
  <1>1. r \in Nat /\ r = r + m * 0 /\ r + 0 = r /\ 0 \in Int
    OBVIOUS
  <1>2. r % m = r
    BY <1>1, ModIs
  <1> QED
    BY <1>1, <1>2

\* A remainder may be taken before an addition or after it.
LEMMA ModAdd ==
    ASSUME NEW m \in Nat \ {0}, NEW a \in Nat, NEW b \in Nat
    PROVE  ((a % m) + b) % m = (a + b) % m
  <1> DEFINE q == a \div m
             r == a % m
             p == (a + b) \div m
             s == (a + b) % m
  <1>1. q \in Nat /\ r \in 0..(m - 1) /\ a = m * q + r
    BY DivMod
  <1>2. p \in Nat /\ s \in 0..(m - 1) /\ a + b = m * p + s
    <2>1. a + b \in Nat
      OBVIOUS
    <2> QED
      BY <2>1, DivMod
  <1> HIDE DEF q, r, p, s
  <1>3. r + b = s + m * (p - q)
    BY <1>1, <1>2
  <1>4. r + b \in Nat /\ p - q \in Int
    BY <1>1, <1>2
  <1>5. (r + b) % m = s
    BY <1>2, <1>3, <1>4, ModIs
  <1> QED
    BY <1>5 DEF r, s

\* Division does not lose what fits.
LEMMA DivBound ==
    ASSUME NEW n \in Nat, NEW m \in Nat \ {0}, NEW u \in Int, m * u <= n
    PROVE  u <= n \div m
  <1> DEFINE q == n \div m
             r == n % m
  <1>1. q \in Nat /\ r \in 0..(m - 1) /\ n = m * q + r
    BY DivMod
  <1> HIDE DEF q, r
  <1>2. SUFFICES ASSUME u - q >= 1 PROVE FALSE
    BY <1>1 DEF q
  <1>3. m * (u - q) >= m
    BY <1>1, <1>2, Multiple
  <1>4. m * (u - q) = m * u - m * q
    BY <1>1
  <1>5. m * u \in Int /\ m * q \in Int
    BY <1>1
  <1> QED
    BY <1>1, <1>3, <1>4, <1>5

\* A larger number has no smaller quotient.
LEMMA DivMonotone ==
    ASSUME NEW a \in Nat, NEW b \in Nat, a <= b, NEW m \in Nat \ {0}
    PROVE  a \div m <= b \div m
  <1> DEFINE q == a \div m
             r == a % m
  <1>1. q \in Nat /\ r \in 0..(m - 1) /\ a = m * q + r
    BY DivMod
  <1> HIDE DEF q, r
  <1>2. m * q \in Int
    BY <1>1
  <1>3. m * q <= b
    BY <1>1, <1>2
  <1>4. q <= b \div m
    BY <1>1, <1>3, DivBound
  <1> QED
    BY <1>4 DEF q

\* UpTo is the smaller of the two.
LEMMA UpToIs ==
    ASSUME NEW limit \in Int, NEW n \in Int
    PROVE  UpTo(limit, n) = IF n <= limit THEN n ELSE limit
  <1> DEFINE least == IF n <= limit THEN n ELSE limit
             P(x) == x \in {limit, n} /\ \A y \in {limit, n} : x <= y
  <1>1. P(least)
    OBVIOUS
  <1>2. \A x : P(x) => x = least
    OBVIOUS
  <1>3. UpTo(limit, n) = CHOOSE x : P(x)
    BY DEF UpTo, Min
  <1> HIDE DEF P, least
  <1>4. UpTo(limit, n) = least
    BY <1>1, <1>2, <1>3
  <1> QED
    BY <1>4 DEF least

-------------------------------------------------------------------------------
(***************************************************************************)
(* What a domain can draw.                                                 *)
(***************************************************************************)
LEMMA Constants ==
    /\ Domains \in Nat \ {0} /\ CounterRange \in Nat \ {0} /\ Micro \in Nat \ {0}
    /\ Power \in [Domain -> Nat] /\ Margin \in [Domain -> Nat]
    /\ Window \in Nat \ {0} /\ Advance \in Nat \ {0}
    /\ Stale \in Nat /\ KillDeadline \in Nat /\ Cap \in Nat /\ MaxGap \in Nat
    /\ Never \notin Nat /\ Never \notin Reasons /\ NoReading \notin Nat
    /\ Cap > Reserve
    /\ IsFiniteSet(Domain)
  <1>1. IsFiniteSet(Domain)
    BY EnergyAssumption, FS_Interval DEF Domain
  <1>2. {Window, Advance} \subseteq Nat \ {0} => Window \in Nat \ {0} /\ Advance \in Nat \ {0}
    OBVIOUS
  <1>3. {Stale, KillDeadline, Cap, MaxGap} \subseteq Nat
        => Stale \in Nat /\ KillDeadline \in Nat /\ Cap \in Nat /\ MaxGap \in Nat
    OBVIOUS
  <1> QED
    BY <1>1, <1>2, <1>3, EnergyAssumption

\* What a domain can draw in some time is a natural.
LEMMA DrawableType ==
    ASSUME NEW d \in Domain, NEW t \in Nat
    PROVE  Power[d] * t + Micro - 1 \in Nat /\ Drawable(d, t) \in Nat
  <1>1. Power[d] \in Nat /\ Micro \in Nat \ {0}
    BY Constants
  <1>2. Power[d] * t \in Nat
    BY <1>1
  <1>3. Power[d] * t + Micro - 1 \in Nat
    BY <1>1, <1>2
  <1> QED
    BY <1>1, <1>3, DivMod DEF Drawable

\* More time, no less energy.
LEMMA DrawableMonotone ==
    ASSUME NEW d \in Domain, NEW s \in Nat, NEW t \in Nat, s <= t
    PROVE  Drawable(d, s) <= Drawable(d, t)
  <1>1. Power[d] \in Nat /\ Micro \in Nat \ {0}
    BY Constants
  <1>2. Power[d] * (t - s) >= 0
    BY <1>1
  <1>3. Power[d] * t = Power[d] * s + Power[d] * (t - s)
    BY <1>1
  <1>4. Power[d] * s \in Nat /\ Power[d] * t \in Nat
    BY <1>1
  <1>5. Power[d] * s + Micro - 1 <= Power[d] * t + Micro - 1
    BY <1>1, <1>2, <1>3, <1>4
  <1> QED
    BY <1>1, <1>5, DrawableType, DivMonotone DEF Drawable

\* What fits the power fits the bound the meter computes from it.
LEMMA WithinDrawable ==
    ASSUME NEW d \in Domain, NEW u \in Nat, NEW age \in Nat, fraction[d] \in Nat,
           Within(d, u, age)
    PROVE  u <= Drawable(d, age)
  <1>1. Power[d] \in Nat /\ Micro \in Nat \ {0}
    BY Constants
  <1>2. Power[d] * age \in Nat /\ Micro * u \in Nat
    BY <1>1
  <1>3. Micro * u <= Power[d] * age + Micro - 1
    BY <1>1, <1>2 DEF Within
  <1> QED
    BY <1>1, <1>3, DrawableType, DivBound DEF Drawable

\* A delta is what the counter counted, less the times it went all the way round.
LEMMA DeltaIs ==
    ASSUME Types, Counted, NEW d \in Domain
    PROVE  /\ Delta(d) \in Nat
           /\ prev[d] = NoReading => Delta(d) = 0
           /\ prev[d] # NoReading => /\ Delta(d) <= unread[d]
                                     /\ unread[d] < CounterRange => Delta(d) = unread[d]
  <1> DEFINE R == CounterRange
             p == prev[d]
             c == counter[d]
             u == unread[d]
  <1>1. /\ R \in Nat \ {0} /\ c \in 0..(R - 1) /\ u \in Nat
        /\ p \in 0..(R - 1) \cup {NoReading}
    BY Constants DEF Types, EnergyTypeOK
  <1>2. CASE p = NoReading
    BY <1>2 DEF Delta
  <1>3. CASE p # NoReading
    <2> DEFINE n == c - p + R
               q == (p + u) \div R
               a == n \div R
               D == n % R
    <2>1. p \in 0..(R - 1) /\ p + u \in Nat /\ n \in Nat
      BY <1>1, <1>3
    <2>2. c = (p + u) % R
      BY <1>3 DEF Counted
    <2>3. q \in Nat /\ p + u = R * q + c
      <3> HIDE DEF p, u, c, R
      <3> QED
        BY <1>1, <2>1, <2>2, DivMod
    <2>4. a \in Nat /\ D \in 0..(R - 1) /\ n = R * a + D
      <3> HIDE DEF n, R
      <3> QED
        BY <1>1, <2>1, DivMod
    <2>5. Delta(d) = D
      BY <1>3 DEF Delta
    <2>6. n = c - p + R
      OBVIOUS
    <2> HIDE DEF p, u, c, R, q, a, D, n
    <2>7. R * (q + a - 1) = R * q + R * a - R
      BY <1>1, <2>3, <2>4
    <2>8. R * q \in Int /\ R * a \in Int
      BY <1>1, <2>3, <2>4
    <2>9. u = D + R * (q + a - 1)
      BY <1>1, <2>1, <2>3, <2>4, <2>6, <2>7, <2>8
    <2>10. q + a - 1 \in Int
      BY <2>3, <2>4
    <2>11. ~ (q + a - 1 <= -1)
      <3> SUFFICES ASSUME q + a - 1 <= -1 PROVE FALSE
        OBVIOUS
      <3>1. R * (q + a - 1) <= -R
        BY <1>1, <2>10, Multiple
      <3> QED
        BY <1>1, <2>4, <2>7, <2>8, <2>9, <3>1
    <2>12. R * (q + a - 1) >= 0
      BY <1>1, <2>10, <2>11
    <2>13. D <= u
      BY <1>1, <2>4, <2>7, <2>8, <2>9, <2>12
    <2>14. ASSUME u < R PROVE D = u
      <3>1. u \in 0..(R - 1)
        BY <1>1, <2>14
      <3> QED
        BY <1>1, <2>4, <2>9, <2>10, <3>1, SameRemainder
    <2>15. D \in Nat
      BY <1>1, <2>4
    <2> QED
      BY <1>3, <2>5, <2>13, <2>14, <2>15 DEF p, u, R
  <1> QED
    BY <1>2, <1>3

-------------------------------------------------------------------------------
(***************************************************************************)
(* What a sample meters, and what reading some domains does.               *)
(***************************************************************************)
Again(k) == {d \in 1..k : prev[d] # NoReading}

\* What one sample meters of the domains.
Masked == [d \in Domain |-> IF d \in Again(Domains) THEN unread[d] ELSE 0]

\* The domains read, and those read again, are finite sets of domains.
LEMMA AgainSubset ==
    ASSUME NEW k \in 0..Domains
    PROVE  /\ 1..k \subseteq Domain /\ Again(k) \subseteq Domain
           /\ IsFiniteSet(1..k) /\ IsFiniteSet(Again(k)) /\ IsFiniteSet((1..k) \ Again(k))
           /\ 1..Domains = Domain
  <1>1. 1..k \subseteq Domain /\ 1..Domains = Domain
    BY Constants DEF Domain
  <1>2. Again(k) \subseteq 1..k
    BY DEF Again
  <1> QED
    BY <1>1, <1>2, Constants, FS_Subset

\* A sample meters no more than was counted, and all of it when nothing wrapped unseen.
LEMMA MeteredIs ==
    ASSUME Types, Counted
    PROVE  /\ Metered \in Nat
           /\ Metered <= SumFunctionOnSet(unread, Again(Domains))
           /\ (\A d \in Domain : prev[d] # NoReading => unread[d] < CounterRange)
              => Metered = SumFunctionOnSet(unread, Again(Domains))
  <1> DEFINE deltas == [d \in Domain |-> Delta(d)]
  <1>1. IsFiniteSet(Domain) /\ \A d \in Domain : unread[d] \in Nat
    BY Constants DEF Types, EnergyTypeOK
  <1>2. Domains \in 0..Domains
    BY Constants
  <1>3. \A d \in Domain : deltas[d] \in Nat /\ Masked[d] \in Nat /\ deltas[d] <= Masked[d]
    <2> TAKE d \in Domain
    <2>1. Masked[d] = IF prev[d] # NoReading THEN unread[d] ELSE 0
      BY <1>2, AgainSubset DEF Masked, Again
    <2>2. Delta(d) \in Nat /\ (prev[d] = NoReading => Delta(d) = 0)
          /\ (prev[d] # NoReading => Delta(d) <= unread[d])
      BY DeltaIs
    <2> QED
      BY <1>1, <2>1, <2>2
  <1>4. SumFunctionOnSet(Masked, Domain) = SumFunctionOnSet(unread, Again(Domains))
    BY <1>1, <1>2, AgainSubset, SumMask DEF Masked
  <1>5. Metered = SumFunctionOnSet(deltas, Domain)
    BY DEF Metered, SumFunction
  <1> HIDE DEF deltas
  <1>6. SumFunctionOnSet(deltas, Domain) \in Nat
    BY <1>1, <1>3, SumRange
  <1>7. SumFunctionOnSet(deltas, Domain) <= SumFunctionOnSet(Masked, Domain)
    BY <1>1, <1>3, SumMonotone
  <1>8. ASSUME \A d \in Domain : prev[d] # NoReading => unread[d] < CounterRange
        PROVE  SumFunctionOnSet(deltas, Domain) = SumFunctionOnSet(Masked, Domain)
    <2>1. \A d \in Domain : deltas[d] = Masked[d]
      <3> TAKE d \in Domain
      <3>1. Masked[d] = IF prev[d] # NoReading THEN unread[d] ELSE 0
        BY <1>2, AgainSubset DEF Masked, Again
      <3> QED
        BY <1>8, <3>1, DeltaIs DEF deltas
    <2> QED
      BY <1>1, <2>1, SumAgree
  <1> QED
    BY <1>4, <1>5, <1>6, <1>7, <1>8

\* Reading the first k domains: what the counters still hold, what is lost and
\* what is metered make up no more than before.
LEMMA ReadKeeps ==
    ASSUME Types, Counted, counter' = counter, NEW k \in 0..Domains, NEW credit \in Nat,
           credit <= SumFunctionOnSet(unread, Again(k)), ReadUpTo(k, credit)
    PROVE  /\ prev' \in [Domain -> 0..(CounterRange - 1) \cup {NoReading}]
           /\ readFor' \in [Domain -> 0..(Stale + 1)]
           /\ unread' \in [Domain -> Nat]
           /\ lost' \in Nat /\ skipped' \in Nat
           /\ Counted'
           /\ lost' = lost + SumFunctionOnSet(unread, Again(k)) - credit
           /\ SumFunction(unread) \in Nat /\ SumFunction(unread') \in Nat
           /\ credit + lost' + SumFunction(unread') <= lost + SumFunction(unread)
  <1>1. /\ IsFiniteSet(Domain) /\ unread \in [Domain -> Nat] /\ lost \in Nat /\ skipped \in Nat
        /\ counter \in [Domain -> 0..(CounterRange - 1)] /\ Stale \in Nat
        /\ prev \in [Domain -> 0..(CounterRange - 1) \cup {NoReading}]
        /\ readFor \in [Domain -> 0..(Stale + 1)]
        /\ CounterRange \in Nat \ {0}
    BY Constants DEF Types, EnergyTypeOK
  <1>2. /\ prev' = [d \in Domain |-> IF d <= k THEN counter[d] ELSE prev[d]]
        /\ readFor' = [d \in Domain |-> IF d <= k THEN 0 ELSE readFor[d]]
        /\ unread' = [d \in Domain |-> IF d <= k THEN 0 ELSE unread[d]]
        /\ lost' = lost + SumFunctionOnSet(unread, Again(k)) - credit
        /\ skipped' = skipped + SumFunctionOnSet(unread, (1..k) \ Again(k))
    BY DEF ReadUpTo, Again
  <1>3. prev' \in [Domain -> 0..(CounterRange - 1) \cup {NoReading}]
    BY <1>1, <1>2
  <1>4. readFor' \in [Domain -> 0..(Stale + 1)] /\ unread' \in [Domain -> Nat]
    BY <1>1, <1>2
  <1>5. /\ SumFunctionOnSet(unread, Again(k)) \in Nat
        /\ SumFunctionOnSet(unread, (1..k) \ Again(k)) \in Nat
    BY <1>1, AgainSubset, SumRange
  <1>6. lost' \in Nat /\ skipped' \in Nat
    BY <1>1, <1>2, <1>5
  <1>7. Counted'
    <2> SUFFICES ASSUME NEW d \in Domain, prev'[d] # NoReading
                 PROVE  counter[d] = (prev'[d] + unread'[d]) % CounterRange
      BY DEF Counted
    <2>1. CASE d <= k
      <3>1. prev'[d] = counter[d] /\ unread'[d] = 0 /\ counter[d] \in 0..(CounterRange - 1)
        BY <1>1, <1>2, <2>1
      <3> QED
        BY <1>1, <3>1, ModSmall
    <2>2. CASE ~ (d <= k)
      BY <1>2, <2>2 DEF Counted
    <2> QED
      BY <2>1, <2>2
  <1> DEFINE mask == [d \in Domain |-> IF d \in Again(k) THEN unread[d] ELSE 0]
             both == [d \in Domain |-> unread'[d] + mask[d]]
  <1>8. SumFunctionOnSet(mask, Domain) = SumFunctionOnSet(unread, Again(k))
    <2>1. /\ Again(k) \in SUBSET Domain
          /\ \A d \in Domain : unread[d] \in Nat /\ mask[d] = IF d \in Again(k) THEN unread[d] ELSE 0
      BY <1>1, AgainSubset
    <2> HIDE DEF mask
    <2> QED
      BY <1>1, <2>1, SumMask
  <1>9. \A d \in Domain : /\ unread'[d] \in Nat /\ mask[d] \in Nat
                           /\ both[d] = unread'[d] + mask[d] /\ both[d] \in Nat
                           /\ unread[d] \in Nat /\ both[d] <= unread[d]
    BY <1>1, <1>2 DEF Again
  <1> HIDE DEF mask, both
  <1>10. SumFunctionOnSet(both, Domain)
         = SumFunctionOnSet(unread', Domain) + SumFunctionOnSet(mask, Domain)
    BY <1>1, <1>9, SumAdd
  <1>11. SumFunctionOnSet(both, Domain) <= SumFunctionOnSet(unread, Domain)
    BY <1>1, <1>9, SumMonotone
  <1>12. /\ SumFunction(unread) = SumFunctionOnSet(unread, Domain)
         /\ SumFunction(unread') = SumFunctionOnSet(unread', Domain)
    BY <1>1, <1>4 DEF SumFunction
  <1>13. SumFunction(unread) \in Nat /\ SumFunction(unread') \in Nat
    BY <1>1, <1>4, <1>12, SumRange
  <1>14. credit + lost' + SumFunction(unread') <= lost + SumFunction(unread)
    BY <1>1, <1>2, <1>5, <1>8, <1>10, <1>11, <1>12, <1>13
  <1> QED
    BY <1>2, <1>3, <1>4, <1>6, <1>7, <1>13, <1>14

-------------------------------------------------------------------------------
(***************************************************************************)
(* The steps.                                                              *)
(***************************************************************************)
LEMMA UpToType ==
    ASSUME NEW limit \in Nat, NEW n \in Nat
    PROVE  /\ UpTo(limit, n) \in 0..limit
           /\ UpTo(limit, n) <= n
           /\ UpTo(limit, n) = IF n <= limit THEN n ELSE limit
  BY UpToIs

\* Time passes: domains draw, ages grow.
LEMMA PassStep == EnergyInv /\ Pass => EnergyInv'
  <1> SUFFICES ASSUME EnergyInv, Pass PROVE EnergyInv'
    OBVIOUS
  <1>1. PICK draw \in [Domain -> UNION {0..Power[d] : d \in Domain}], busy \in {0, 1} :
          LET count == [d \in Domain |-> (fraction[d] + draw[d]) \div Micro]
              moved == \E d \in Domain : count[d] # 0
          IN  /\ \A d \in Domain : draw[d] <= Power[d]
              /\ dead => busy = 0
              /\ fraction' = [d \in Domain |-> (fraction[d] + draw[d]) % Micro]
              /\ counter' = [d \in Domain |-> (counter[d] + count[d]) % CounterRange]
              /\ unread' = [d \in Domain |-> unread[d] + count[d]]
              /\ unchangedCpu' = UpTo(Advance, unchangedCpu + busy)
              /\ stillFor' = IF moved THEN 0 ELSE UpTo(StillWindow, stillFor + 1)
              /\ stillCpu' = IF moved THEN 0 ELSE UpTo(StillAdvance, stillCpu + busy)
    BY DEF Pass
  <1> DEFINE count == [d \in Domain |-> (fraction[d] + draw[d]) \div Micro]
             moved == \E d \in Domain : count[d] # 0
  <1>2. /\ fraction' = [d \in Domain |-> (fraction[d] + draw[d]) % Micro]
        /\ counter' = [d \in Domain |-> (counter[d] + count[d]) % CounterRange]
        /\ unread' = [d \in Domain |-> unread[d] + count[d]]
        /\ unchangedCpu' = UpTo(Advance, unchangedCpu + busy)
        /\ stillFor' = IF moved THEN 0 ELSE UpTo(StillWindow, stillFor + 1)
        /\ stillCpu' = IF moved THEN 0 ELSE UpTo(StillAdvance, stillCpu + busy)
    BY <1>1
  <1>3. /\ phase \in {"RUNNING", "STOPPING"} /\ sampledFor < MaxGap
        /\ phase = "STOPPING" /\ ~dead => latchedFor < KillDeadline
        /\ unchangedFor' = IF unchangedFor = Never THEN Never ELSE UpTo(Window, unchangedFor + 1)
        /\ readFor' = [d \in Domain |-> UpTo(Stale + 1, readFor[d] + 1)]
        /\ latchedFor' = IF phase = "STOPPING" /\ ~dead THEN latchedFor + 1 ELSE latchedFor
        /\ sampledFor' = sampledFor + 1
        /\ UNCHANGED <<dead, phase, reason, prev, energy, complete, lost, skipped>>
    BY DEF Pass
  <1>4. /\ Types /\ Counted /\ Exact /\ Spending /\ Closed /\ Watched
    BY DEF EnergyInv
  <1>5. /\ fraction \in [Domain -> 0..(Micro - 1)]
        /\ counter \in [Domain -> 0..(CounterRange - 1)]
        /\ prev \in [Domain -> 0..(CounterRange - 1) \cup {NoReading}]
        /\ readFor \in [Domain -> 0..(Stale + 1)]
        /\ latchedFor \in 0..KillDeadline /\ energy \in Nat
        /\ unchangedFor \in 0..Window \cup {Never}
        /\ unread \in [Domain -> Nat] /\ lost \in Nat /\ skipped \in Nat
        /\ sampledFor \in 0..MaxGap /\ unchangedCpu \in 0..Advance
        /\ stillFor \in 0..StillWindow /\ stillCpu \in 0..StillAdvance
    BY <1>4 DEF Types, EnergyTypeOK
  <1>6. /\ StillWindow \in Nat /\ StillAdvance \in Nat
        /\ StillWindow = Window + 2 * MaxGap /\ StillAdvance = Advance + 2 * MaxGap
    BY Constants DEF StillWindow, StillAdvance
  <1>7. ASSUME NEW d \in Domain
        PROVE  /\ count[d] \in Nat /\ fraction'[d] \in 0..(Micro - 1)
               /\ draw[d] \in Nat /\ draw[d] <= Power[d]
               /\ fraction[d] + draw[d] = Micro * count[d] + fraction'[d]
    <2>1. draw[d] \in Nat /\ draw[d] <= Power[d]
      BY <1>1, Constants
    <2>2. fraction[d] + draw[d] \in Nat /\ Micro \in Nat \ {0}
      BY <1>5, <2>1, Constants
    <2>3. /\ count[d] = (fraction[d] + draw[d]) \div Micro
          /\ fraction'[d] = (fraction[d] + draw[d]) % Micro
      BY <1>2
    <2> HIDE DEF count
    <2> QED
      BY <2>1, <2>2, <2>3, DivMod
  <1> HIDE DEF count
  <1>8. /\ unchangedFor = Never => unchangedFor' = Never
        /\ unchangedFor # Never =>
              /\ unchangedFor \in 0..Window /\ unchangedFor' \in 0..Window
              /\ unchangedFor' = IF unchangedFor + 1 <= Window THEN unchangedFor + 1 ELSE Window
        /\ unchangedCpu' \in 0..Advance
        /\ unchangedCpu' = IF unchangedCpu + busy <= Advance THEN unchangedCpu + busy ELSE Advance
        /\ stillFor' \in 0..StillWindow /\ stillFor' <= stillFor + 1
        /\ stillCpu' \in 0..StillAdvance /\ stillCpu' <= stillCpu + busy
        /\ busy \in 0..1
    <2>1. busy \in 0..1 /\ Window \in Nat /\ Advance \in Nat
      BY Constants
    <2>2. /\ unchangedCpu \in Nat /\ unchangedCpu + busy \in Nat
          /\ stillFor \in Nat /\ stillFor + 1 \in Nat
          /\ stillCpu \in Nat /\ stillCpu + busy \in Nat
      BY <1>5, <1>6, <2>1
    <2>3. ASSUME unchangedFor # Never
          PROVE  /\ unchangedFor \in 0..Window /\ unchangedFor' \in 0..Window
                 /\ unchangedFor' = IF unchangedFor + 1 <= Window THEN unchangedFor + 1
                                    ELSE Window
      <3>1. unchangedFor + 1 \in Nat /\ unchangedFor \in 0..Window
        BY <1>5, <2>1, <2>3
      <3>2. unchangedFor' = UpTo(Window, unchangedFor + 1)
        BY <1>3, <2>3
      <3> QED
        BY <2>1, <3>1, <3>2, UpToType
    <2>5. /\ unchangedCpu' \in 0..Advance
          /\ unchangedCpu' = IF unchangedCpu + busy <= Advance THEN unchangedCpu + busy ELSE Advance
      BY <1>2, <2>1, <2>2, UpToType
    <2>6. stillFor' \in 0..StillWindow /\ stillFor' <= stillFor + 1
      <3>1. /\ UpTo(StillWindow, stillFor + 1) \in 0..StillWindow
            /\ UpTo(StillWindow, stillFor + 1) <= stillFor + 1
        BY <1>6, <2>2, UpToType
      <3> QED
        BY <1>2, <1>6, <2>2, <3>1
    <2>7. stillCpu' \in 0..StillAdvance /\ stillCpu' <= stillCpu + busy
      <3>1. /\ UpTo(StillAdvance, stillCpu + busy) \in 0..StillAdvance
            /\ UpTo(StillAdvance, stillCpu + busy) <= stillCpu + busy
        BY <1>6, <2>2, UpToType
      <3> QED
        BY <1>2, <1>6, <2>2, <3>1
    <2> QED
      BY <1>3, <2>1, <2>3, <2>5, <2>6, <2>7
  <1>9. Types'
    <2>1. fraction' \in [Domain -> 0..(Micro - 1)]
      BY <1>2, <1>7
    <2>2. counter' \in [Domain -> 0..(CounterRange - 1)]
      <3>1. \A d \in Domain : (counter[d] + count[d]) % CounterRange \in 0..(CounterRange - 1)
        <4> TAKE d \in Domain
        <4>1. counter[d] + count[d] \in Nat /\ CounterRange \in Nat \ {0}
          BY <1>5, <1>7, Constants
        <4> QED
          BY <4>1, DivMod
      <3> QED
        BY <1>2, <3>1
    <2>3. unread' \in [Domain -> Nat]
      BY <1>2, <1>5, <1>7
    <2>4. readFor' \in [Domain -> 0..(Stale + 1)]
      <3>1. \A d \in Domain : UpTo(Stale + 1, readFor[d] + 1) \in 0..(Stale + 1)
        <4> TAKE d \in Domain
        <4>1. Stale + 1 \in Nat /\ readFor[d] + 1 \in Nat
          BY <1>5, Constants
        <4> QED
          BY <4>1, UpToType
      <3> QED
        BY <1>3, <3>1
    <2>5. latchedFor' \in 0..KillDeadline /\ sampledFor' \in 0..MaxGap
      BY <1>3, <1>5, Constants
    <2>6. unchangedFor' \in 0..Window \cup {Never} /\ unchangedCpu' \in 0..Advance
      BY <1>8
    <2>7. stillFor' \in 0..StillWindow /\ stillCpu' \in 0..StillAdvance
      BY <1>6, <1>8
    <2> QED
      BY <1>3, <1>4, <2>1, <2>2, <2>3, <2>4, <2>5, <2>6, <2>7 DEF Types, EnergyTypeOK
  <1>10. Counted'
    <2> SUFFICES ASSUME NEW d \in Domain, prev[d] # NoReading
                 PROVE  counter'[d] = (prev[d] + unread'[d]) % CounterRange
      BY <1>3 DEF Counted
    <2>1. counter'[d] = (((prev[d] + unread[d]) % CounterRange) + count[d]) % CounterRange
      BY <1>2, <1>4 DEF Counted
    <2>2. prev[d] + unread[d] \in Nat /\ count[d] \in Nat /\ CounterRange \in Nat \ {0}
      BY <1>5, <1>7, Constants
    <2>3. counter'[d] = ((prev[d] + unread[d]) + count[d]) % CounterRange
      BY <2>1, <2>2, ModAdd
    <2>4. (prev[d] + unread[d]) + count[d] = prev[d] + unread'[d]
      BY <1>2, <1>5, <1>7
    <2> QED
      BY <2>3, <2>4
  <1>11. ASSUME NEW d \in Domain, NEW u \in Nat, NEW age \in Nat,
                Micro * u + fraction[d] <= Power[d] * age + (Micro - 1)
         PROVE  Micro * (u + count[d]) + fraction'[d] <= Power[d] * (age + 1) + (Micro - 1)
    <2>1. /\ Micro \in Nat /\ Power[d] \in Nat /\ fraction[d] \in Nat
          /\ count[d] \in Nat /\ fraction'[d] \in Nat /\ draw[d] \in Nat
          /\ draw[d] <= Power[d] /\ fraction[d] + draw[d] = Micro * count[d] + fraction'[d]
      BY <1>5, <1>7, Constants
    <2>2. /\ Micro * (u + count[d]) = Micro * u + Micro * count[d]
          /\ Micro * u \in Int /\ Micro * count[d] \in Int
      BY <2>1, Distribute
    <2>3. /\ Power[d] * (age + 1) = Power[d] * age + Power[d] * 1
          /\ Power[d] * age \in Int /\ Power[d] * 1 = Power[d]
      BY <2>1, Distribute
    <2> QED
      BY <1>11, <2>1, <2>2, <2>3
  <1>12. Exact'
    <2> SUFFICES ASSUME phase = "RUNNING"
                 PROVE  /\ ~dead /\ lost = 0 /\ energy + Reserve < Cap
                        /\ \A d \in Domain :
                              /\ readFor'[d] = UpTo(Stale + 1, sampledFor')
                              /\ Micro * unread'[d] + fraction'[d]
                                 <= Power[d] * sampledFor' + (Micro - 1)
      BY <1>3 DEF Exact, Within
    <2>1. /\ ~dead /\ lost = 0 /\ energy + Reserve < Cap
          /\ \A d \in Domain :
                /\ readFor[d] = UpTo(Stale + 1, sampledFor)
                /\ Micro * unread[d] + fraction[d] <= Power[d] * sampledFor + (Micro - 1)
      BY <1>4 DEF Exact, Within
    <2>2. ASSUME NEW d \in Domain
          PROVE  readFor'[d] = UpTo(Stale + 1, sampledFor + 1)
      <3>1. readFor'[d] = UpTo(Stale + 1, UpTo(Stale + 1, sampledFor) + 1)
        BY <1>3, <2>1
      <3>2. sampledFor \in Nat /\ Stale + 1 \in Nat /\ sampledFor + 1 \in Nat
        BY <1>5, Constants
      <3>3. UpTo(Stale + 1, sampledFor) + 1 \in Nat
        <4>1. UpTo(Stale + 1, sampledFor) \in 0..(Stale + 1)
          BY <3>2, UpToType
        <4> QED
          BY <3>2, <4>1
      <3>4. /\ UpTo(Stale + 1, sampledFor)
               = IF sampledFor <= Stale + 1 THEN sampledFor ELSE Stale + 1
            /\ UpTo(Stale + 1, sampledFor + 1)
               = IF sampledFor + 1 <= Stale + 1 THEN sampledFor + 1 ELSE Stale + 1
            /\ UpTo(Stale + 1, UpTo(Stale + 1, sampledFor) + 1)
               = IF UpTo(Stale + 1, sampledFor) + 1 <= Stale + 1
                 THEN UpTo(Stale + 1, sampledFor) + 1 ELSE Stale + 1
        BY <3>2, <3>3, UpToType
      <3> QED
        BY <3>1, <3>2, <3>4, Constants
    <2>3. ASSUME NEW d \in Domain
          PROVE  Micro * unread'[d] + fraction'[d] <= Power[d] * (sampledFor + 1) + (Micro - 1)
      BY <1>2, <1>5, <1>11, <2>1
    <2> QED
      BY <1>3, <2>1, <2>2, <2>3
  <1>13. Spending'
    <2> SUFFICES ASSUME phase = "STOPPING", ~dead
                 PROVE  \E base \in 0..Cap, drawn \in [Domain -> Nat] :
                           /\ base + Reserve < Cap
                           /\ energy + lost + SumFunction(unread') <= base + SumFunction(drawn)
                           /\ \A d \in Domain :
                                 Micro * drawn[d] + fraction'[d]
                                 <= Power[d] * (MaxGap + latchedFor') + (Micro - 1)
      BY <1>3 DEF Spending, Within
    <2>1. PICK base \in 0..Cap, drawn \in [Domain -> Nat] :
             /\ base + Reserve < Cap
             /\ energy + lost + SumFunction(unread) <= base + SumFunction(drawn)
             /\ \A d \in Domain :
                   Micro * drawn[d] + fraction[d]
                   <= Power[d] * (MaxGap + latchedFor) + (Micro - 1)
      BY <1>4 DEF Spending, Within
    <2> DEFINE more == [d \in Domain |-> drawn[d] + count[d]]
    <2>2. more \in [Domain -> Nat]
      BY <1>7
    <2>3. /\ SumFunction(unread') = SumFunction(unread) + SumFunctionOnSet(count, Domain)
          /\ SumFunction(more) = SumFunction(drawn) + SumFunctionOnSet(count, Domain)
      <3>1. DOMAIN unread' = Domain /\ DOMAIN unread = Domain /\ DOMAIN drawn = Domain
            /\ DOMAIN more = Domain
        BY <1>2, <1>5
      <3>2. \A d \in Domain : /\ unread[d] \in Nat /\ drawn[d] \in Nat /\ count[d] \in Nat
                               /\ unread'[d] = unread[d] + count[d]
                               /\ more[d] = drawn[d] + count[d]
        BY <1>2, <1>5, <1>7
      <3> HIDE DEF more
      <3>3. SumFunctionOnSet(unread', Domain)
            = SumFunctionOnSet(unread, Domain) + SumFunctionOnSet(count, Domain)
        BY <3>2, Constants, SumAdd
      <3>4. SumFunctionOnSet(more, Domain)
            = SumFunctionOnSet(drawn, Domain) + SumFunctionOnSet(count, Domain)
        BY <3>2, Constants, SumAdd
      <3> QED
        BY <3>1, <3>3, <3>4 DEF SumFunction
    <2>4. /\ SumFunction(unread) \in Nat /\ SumFunction(drawn) \in Nat
          /\ SumFunctionOnSet(count, Domain) \in Nat
      BY <1>5, <1>7, Constants, SumRange DEF SumFunction
    <2>5. energy + lost + SumFunction(unread') <= base + SumFunction(more)
      <3> HIDE DEF more
      <3> QED
        BY <1>5, <2>1, <2>3, <2>4
    <2>6. latchedFor' = latchedFor + 1 /\ MaxGap + latchedFor \in Nat
          /\ MaxGap + latchedFor' = (MaxGap + latchedFor) + 1
      BY <1>3, <1>5, Constants
    <2>7. \A d \in Domain :
             Micro * more[d] + fraction'[d] <= Power[d] * (MaxGap + latchedFor') + (Micro - 1)
      BY <1>11, <2>1, <2>6
    <2> HIDE DEF more
    <2> QED
      BY <2>1, <2>2, <2>5, <2>7
  <1>14. Closed'
    BY <1>3, <1>4 DEF Closed
  <1>15. Watched'
    <2> SUFFICES ASSUME phase = "RUNNING"
                 PROVE  Watched'
      BY <1>3 DEF Watched
    <2>1. /\ stillFor >= sampledFor =>
                \A d \in Domain : prev[d] # NoReading => counter[d] = prev[d]
          /\ unchangedFor = Never =>
                stillFor <= sampledFor + MaxGap /\ stillCpu <= sampledFor + MaxGap
          /\ unchangedFor # Never =>
                stillFor <= unchangedFor + 2 * MaxGap /\ stillCpu <= unchangedCpu + 2 * MaxGap
          /\ stillFor < StillWindow => stillCpu <= stillFor
      BY <1>4 DEF Watched
    <2>2. busy \in 0..1
      BY <1>8
    <2>3. stillFor' \in Nat /\ stillFor' <= stillFor + 1 /\ stillFor' <= StillWindow
          /\ stillCpu' \in Nat /\ stillCpu' <= stillCpu + busy /\ stillCpu' <= StillAdvance
      BY <1>6, <1>8
    <2>4. sampledFor' = sampledFor + 1 /\ sampledFor \in Nat /\ MaxGap \in Nat
      BY <1>3, <1>5, Constants
    <2>5. ASSUME stillFor' >= sampledFor', NEW d \in Domain, prev[d] # NoReading
          PROVE  counter'[d] = prev[d]
      <3>1. ~moved
        BY <1>2, <2>4, <2>5
      <3>2. stillFor >= sampledFor
        BY <1>5, <2>3, <2>4, <2>5
      <3>3. counter[d] = prev[d] /\ count[d] = 0
        BY <2>1, <2>5, <3>1, <3>2
      <3>4. counter'[d] = (counter[d] + 0) % CounterRange
        BY <1>2, <3>3
      <3>5. counter'[d] = counter[d]
        BY <1>5, <3>4, Constants, ModSmall
      <3> QED
        BY <3>3, <3>5
    <2>8. stillFor' < StillWindow => stillCpu' <= stillFor'
      <3>1. CASE moved
        BY <1>2, <1>6, <3>1
      <3>2. CASE ~moved
        <4>1. stillFor' = UpTo(StillWindow, stillFor + 1) /\ stillFor + 1 \in Nat
          BY <1>2, <1>5, <1>6, <3>2
        <4>2. stillFor' = IF stillFor + 1 <= StillWindow THEN stillFor + 1 ELSE StillWindow
          BY <1>6, <4>1, UpToType
        <4> QED
          BY <1>5, <1>6, <2>1, <2>2, <2>3, <4>2
      <3> QED
        BY <3>1, <3>2
    <2>6. CASE unchangedFor = Never
      <3>1. unchangedFor' = Never
        BY <1>3, <2>6
      <3>2. stillFor' <= sampledFor' + MaxGap /\ stillCpu' <= sampledFor' + MaxGap
        BY <1>5, <2>1, <2>2, <2>3, <2>4, <2>6
      <3>3. sampledFor' # 0
        BY <2>4
      <3> QED
        BY <1>3, <1>6, <2>5, <2>8, <3>1, <3>2, <3>3 DEF Watched, StillWindow
    <2>7. CASE unchangedFor # Never
      <3>1. /\ unchangedFor \in Nat /\ unchangedCpu \in Nat /\ Window \in Nat /\ Advance \in Nat
            /\ unchangedFor <= Window /\ unchangedCpu <= Advance
        BY <1>5, <2>7, Constants
      <3>2. /\ unchangedFor' = IF unchangedFor + 1 <= Window THEN unchangedFor + 1 ELSE Window
            /\ unchangedCpu' = IF unchangedCpu + busy <= Advance THEN unchangedCpu + busy
                               ELSE Advance
        BY <1>8, <2>7
      <3>3. stillFor' <= unchangedFor' + 2 * MaxGap
        BY <1>5, <1>6, <2>1, <2>3, <2>4, <2>7, <3>1, <3>2
      <3>4. stillCpu' <= unchangedCpu' + 2 * MaxGap
        BY <1>5, <1>6, <2>1, <2>2, <2>3, <2>4, <2>7, <3>1, <3>2
      <3>5. unchangedFor' # Never /\ sampledFor' # 0
        BY <2>4, <3>1, <3>2, Constants
      <3> QED
        BY <1>3, <1>6, <2>5, <2>8, <3>3, <3>4, <3>5 DEF Watched, StillWindow
    <2> QED
      BY <2>6, <2>7
  <1> QED
    BY <1>9, <1>10, <1>12, <1>13, <1>14, <1>15 DEF EnergyInv

\* The reserve is what all domains can draw until a kill is over, and their margins.
LEMMA ReserveType ==
    /\ Reserve \in Nat
    /\ Reserve = SumFunctionOnSet([d \in Domain |-> Drawable(d, Stale + KillDeadline) + Margin[d]],
                                 Domain)
  <1> DEFINE f == [d \in Domain |-> Drawable(d, Stale + KillDeadline) + Margin[d]]
  <1>1. Reserve = SumFunctionOnSet(f, Domain)
    BY DEF Reserve, SumFunction
  <1>2. \A d \in Domain : f[d] \in Nat
    <2> TAKE d \in Domain
    <2>1. Stale + KillDeadline \in Nat /\ Margin[d] \in Nat
      BY Constants
    <2>2. Drawable(d, Stale + KillDeadline) \in Nat
      BY <2>1, DrawableType
    <2> QED
      BY <2>1, <2>2
  <1> HIDE DEF f
  <1>3. SumFunctionOnSet(f, Domain) \in Nat
    BY <1>2, Constants, SumRange
  <1> QED
    BY <1>1, <1>3 DEF f

\* While the run is RUNNING a sample that passes loses nothing: no counter can
\* have gone all the way round since the last sample.
LEMMA RunningMetersAll ==
    ASSUME EnergyInv, phase = "RUNNING", \A d \in Domain : Plausible(d)
    PROVE  Metered = SumFunctionOnSet(unread, Again(Domains))
  <1>1. Types /\ Counted /\ Exact
    BY DEF EnergyInv
  <1> SUFFICES ASSUME NEW d \in Domain, prev[d] # NoReading
               PROVE  unread[d] < CounterRange
    BY <1>1, MeteredIs
  <1>2. /\ readFor[d] \in Nat /\ unread[d] \in Nat /\ sampledFor \in Nat
        /\ fraction[d] \in Nat /\ CounterRange \in Nat /\ Margin[d] \in Nat /\ Stale \in Nat
    BY <1>1, Constants DEF Types, EnergyTypeOK
  <1>3. readFor[d] <= Stale /\ Drawable(d, readFor[d]) + Margin[d] < CounterRange
    BY DEF Plausible
  <1>4. readFor[d] = UpTo(Stale + 1, sampledFor) /\ Within(d, unread[d], sampledFor)
    BY <1>1 DEF Exact
  <1>5. readFor[d] = IF sampledFor <= Stale + 1 THEN sampledFor ELSE Stale + 1
    <2>1. Stale + 1 \in Nat
      BY <1>2
    <2> QED
      BY <1>2, <1>4, <2>1, UpToType
  <1>6. sampledFor = readFor[d]
    BY <1>2, <1>3, <1>5
  <1>7. unread[d] <= Drawable(d, readFor[d]) /\ Drawable(d, readFor[d]) \in Nat
    BY <1>2, <1>4, <1>6, WithinDrawable, DrawableType
  <1> QED
    BY <1>2, <1>3, <1>7

\* A latch finds the base of what is spent from here on in the last good sample.
LEMMA LatchSpends ==
    ASSUME EnergyInv, phase = "RUNNING", fraction' = fraction, latchedFor' = 0,
           energy' + lost' + SumFunction(unread') <= energy + lost + SumFunction(unread)
    PROVE  Spending'
  <1>1. /\ energy \in Nat /\ lost = 0 /\ energy + Reserve < Cap
        /\ unread \in [Domain -> Nat] /\ sampledFor \in 0..MaxGap
        /\ fraction \in [Domain -> 0..(Micro - 1)]
        /\ \A d \in Domain : Within(d, unread[d], sampledFor)
    BY DEF EnergyInv, Exact, Types, EnergyTypeOK
  <1>2. energy \in 0..Cap
    BY <1>1, ReserveType, Constants
  <1>3. energy' + lost' + SumFunction(unread') <= energy + SumFunction(unread)
    BY <1>1
  <1>4. ASSUME NEW d \in Domain
        PROVE  Micro * unread[d] + fraction'[d] <= Power[d] * (MaxGap + latchedFor') + (Micro - 1)
    <2>1. /\ Micro \in Nat \ {0} /\ unread[d] \in Nat /\ fraction[d] \in Nat
          /\ Power[d] \in Nat /\ MaxGap \in Nat /\ sampledFor \in Nat /\ MaxGap - sampledFor \in Nat
      BY <1>1, Constants
    <2>2. Micro * unread[d] + fraction[d] <= Power[d] * sampledFor + (Micro - 1)
      BY <1>1 DEF Within
    <2>3. Power[d] * (MaxGap - sampledFor) >= 0
      BY <2>1
    <2>4. /\ Power[d] * (sampledFor + (MaxGap - sampledFor))
             = Power[d] * sampledFor + Power[d] * (MaxGap - sampledFor)
          /\ Power[d] * sampledFor \in Int /\ Power[d] * (MaxGap - sampledFor) \in Int
      BY <2>1, Distribute
    <2>5. sampledFor + (MaxGap - sampledFor) = MaxGap /\ MaxGap + latchedFor' = MaxGap
      BY <2>1
    <2>6. Power[d] * (MaxGap + latchedFor') = Power[d] * sampledFor + Power[d] * (MaxGap - sampledFor)
      BY <2>4, <2>5
    <2>7. Micro * unread[d] \in Int
      BY <2>1
    <2> QED
      BY <2>1, <2>2, <2>3, <2>4, <2>6, <2>7
  <1> QED
    BY <1>1, <1>2, <1>3, <1>4 DEF Spending, Within

\* A stopping run keeps its base.
LEMMA SettleSpends ==
    ASSUME EnergyInv, phase = "STOPPING", UNCHANGED <<fraction, dead, latchedFor>>,
           energy' \in Nat, lost' \in Nat, SumFunction(unread') \in Nat, SumFunction(unread) \in Nat,
           energy' + lost' + SumFunction(unread') <= energy + lost + SumFunction(unread)
    PROVE  Spending'
  <1> SUFFICES ASSUME ~dead
               PROVE  \E base \in 0..Cap, drawn \in [Domain -> Nat] :
                         /\ base + Reserve < Cap
                         /\ energy' + lost' + SumFunction(unread') <= base + SumFunction(drawn)
                         /\ \A d \in Domain : Micro * drawn[d] + fraction[d]
                                <= Power[d] * (MaxGap + latchedFor) + (Micro - 1)
    BY DEF Spending, Within
  <1>1. PICK base \in 0..Cap, drawn \in [Domain -> Nat] :
             /\ base + Reserve < Cap
             /\ energy + lost + SumFunction(unread) <= base + SumFunction(drawn)
             /\ \A d \in Domain :
                   Micro * drawn[d] + fraction[d]
                   <= Power[d] * (MaxGap + latchedFor) + (Micro - 1)
    BY DEF EnergyInv, Spending, Within
  <1>2. energy \in Nat /\ lost \in Nat /\ base \in Int
    BY Constants DEF EnergyInv, Types, EnergyTypeOK
  <1>3. SumFunction(drawn) \in Nat
    BY Constants, SumRange DEF SumFunction
  <1>4. energy' + lost' + SumFunction(unread') <= base + SumFunction(drawn)
    BY <1>1, <1>2, <1>3
  <1> QED
    BY <1>1, <1>4

\* A sample that read every domain.
LEMMA SampleRecordedStep == EnergyInv /\ SampleRecorded => EnergyInv'
  <1> SUFFICES ASSUME EnergyInv, SampleRecorded PROVE EnergyInv'
    OBVIOUS
  <1>1. Types /\ Counted /\ Exact /\ Spending /\ Closed /\ Watched
    BY DEF EnergyInv
  <1>2. /\ Sampling /\ (\A d \in Domain : Plausible(d)) /\ ~Stuck
        /\ ReadUpTo(Domains, Metered) /\ NoteUnchanged
        /\ energy' = energy + Metered /\ sampledFor' = 0
        /\ IF phase = "RUNNING" /\ Guard(energy') # Never
           THEN LatchStop(Guard(energy')) ELSE Settle
        /\ UNCHANGED <<physics, dead, complete, still>>
    BY DEF SampleRecorded
  <1>3. UNCHANGED <<fraction, counter, dead, complete, stillFor, stillCpu>>
    BY <1>2 DEF physics, still
  <1>4. /\ energy \in Nat /\ lost \in Nat /\ sampledFor \in 0..MaxGap /\ MaxGap \in Nat
        /\ latchedFor \in 0..KillDeadline /\ unchangedFor \in 0..Window \cup {Never}
        /\ unchangedCpu \in 0..Advance /\ Window \in Nat \ {0} /\ Advance \in Nat \ {0}
        /\ stillFor \in 0..StillWindow /\ stillCpu \in 0..StillAdvance
        /\ KillDeadline \in Nat /\ Never \notin Nat
        /\ phase \in {"RUNNING", "STOPPING", "CLOSING", "CLOSED"}
        /\ reason \in Reasons \cup {Never}
    BY <1>1, Constants DEF Types, EnergyTypeOK
  <1>5. /\ Metered \in Nat /\ Metered <= SumFunctionOnSet(unread, Again(Domains))
        /\ Domains \in 0..Domains
    BY <1>1, Constants, MeteredIs
  <1>6. /\ prev' \in [Domain -> 0..(CounterRange - 1) \cup {NoReading}]
        /\ readFor' \in [Domain -> 0..(Stale + 1)]
        /\ unread' \in [Domain -> Nat]
        /\ lost' \in Nat /\ skipped' \in Nat
        /\ Counted'
        /\ lost' = lost + SumFunctionOnSet(unread, Again(Domains)) - Metered
        /\ SumFunction(unread) \in Nat /\ SumFunction(unread') \in Nat
        /\ Metered + lost' + SumFunction(unread') <= lost + SumFunction(unread)
    <2> DEFINE m == Metered
    <2> HIDE DEF m
    <2>1. m \in Nat /\ m <= SumFunctionOnSet(unread, Again(Domains)) /\ ReadUpTo(Domains, m)
      BY <1>2, <1>5 DEF m
    <2>2. /\ prev' \in [Domain -> 0..(CounterRange - 1) \cup {NoReading}]
          /\ readFor' \in [Domain -> 0..(Stale + 1)]
          /\ unread' \in [Domain -> Nat]
          /\ lost' \in Nat /\ skipped' \in Nat
          /\ Counted'
          /\ lost' = lost + SumFunctionOnSet(unread, Again(Domains)) - m
          /\ SumFunction(unread) \in Nat /\ SumFunction(unread') \in Nat
          /\ m + lost' + SumFunction(unread') <= lost + SumFunction(unread)
      BY <1>1, <1>3, <1>5, <2>1, ReadKeeps
    <2> QED
      BY <2>2 DEF m
  <1>7. energy' \in Nat
        /\ energy' + lost' + SumFunction(unread') <= energy + lost + SumFunction(unread)
    BY <1>2, <1>4, <1>5, <1>6
  <1>8. \A d \in Domain : prev'[d] = counter[d] /\ readFor'[d] = 0 /\ unread'[d] = 0
    <2>1. \A d \in Domain : d <= Domains
      BY Constants DEF Domain
    <2> QED
      BY <1>2, <2>1 DEF ReadUpTo
  <1>9. Reserve \in Nat /\ (Guard(energy') = Never => energy' + Reserve < Cap)
        /\ (Guard(energy') # Never => Guard(energy') \in Reasons)
    BY <1>7, ReserveType, Constants DEF Guard, Reasons
  <1>10. /\ phase' \in {"RUNNING", "STOPPING", "CLOSING"}
         /\ latchedFor' \in 0..KillDeadline /\ reason' \in Reasons \cup {Never}
         /\ phase' = "RUNNING" => phase = "RUNNING" /\ Guard(energy') = Never
         /\ phase' = "STOPPING" => \/ phase = "RUNNING" /\ latchedFor' = 0
                                   \/ phase = "STOPPING" /\ latchedFor' = latchedFor
         /\ phase' = "CLOSING" => dead
    BY <1>2, <1>4, <1>9 DEF LatchStop, Settle, Sampling
  <1>11. unchangedFor' \in 0..Window \cup {Never} /\ unchangedCpu' \in 0..Advance
    BY <1>2, <1>4 DEF NoteUnchanged, unchanged
  <1>12. Types'
    BY <1>1, <1>2, <1>3, <1>4, <1>6, <1>7, <1>10, <1>11 DEF Types, EnergyTypeOK
  <1>13. Exact'
    <2> SUFFICES ASSUME phase' = "RUNNING"
                 PROVE  /\ ~dead /\ lost' = 0 /\ energy' + Reserve < Cap
                        /\ \A d \in Domain :
                              /\ readFor'[d] = UpTo(Stale + 1, 0)
                              /\ Micro * unread'[d] + fraction[d] <= Power[d] * 0 + (Micro - 1)
      BY <1>2, <1>3 DEF Exact, Within
    <2>1. phase = "RUNNING" /\ energy' + Reserve < Cap
      BY <1>9, <1>10
    <2>2. ~dead /\ lost = 0
      BY <1>1, <2>1 DEF Exact
    <2>3. lost' = 0
      <3>1. Metered = SumFunctionOnSet(unread, Again(Domains))
        BY <1>2, <2>1, RunningMetersAll
      <3> QED
        BY <1>5, <1>6, <2>2, <3>1
    <2>4. ASSUME NEW d \in Domain
          PROVE  /\ readFor'[d] = UpTo(Stale + 1, 0)
                 /\ Micro * unread'[d] + fraction[d] <= Power[d] * 0 + (Micro - 1)
      <3>1. fraction[d] \in 0..(Micro - 1) /\ Micro \in Nat /\ Power[d] \in Nat /\ Stale + 1 \in Nat
        BY <1>1, Constants DEF Types, EnergyTypeOK
      <3>2. UpTo(Stale + 1, 0) = 0
        BY <3>1, UpToType
      <3> QED
        BY <1>8, <3>1, <3>2
    <2> QED
      BY <2>1, <2>2, <2>3, <2>4
  <1>14. Spending'
    <2> SUFFICES ASSUME phase' = "STOPPING" PROVE Spending'
      BY DEF Spending
    <2>1. CASE phase = "RUNNING" /\ latchedFor' = 0
      BY <1>3, <1>7, <2>1, LatchSpends
    <2>2. CASE phase = "STOPPING" /\ latchedFor' = latchedFor
      BY <1>3, <1>6, <1>7, <2>2, SettleSpends
    <2> QED
      BY <1>10, <2>1, <2>2
  <1>15. Closed'
    BY <1>3, <1>10 DEF Closed
  <1>16. Watched'
    <2> SUFFICES ASSUME phase' = "RUNNING" PROVE Watched'
      BY DEF Watched
    <2>1. /\ stillFor >= sampledFor =>
                \A d \in Domain : prev[d] # NoReading => counter[d] = prev[d]
          /\ unchangedFor = Never =>
                stillFor <= sampledFor + MaxGap /\ stillCpu <= sampledFor + MaxGap
          /\ unchangedFor # Never =>
                stillFor <= unchangedFor + 2 * MaxGap /\ stillCpu <= unchangedCpu + 2 * MaxGap
          /\ stillFor < StillWindow => stillCpu <= stillFor
      BY <1>1, <1>10 DEF Watched
    <2>2. \A d \in Domain : counter'[d] = prev'[d]
      BY <1>3, <1>8
    <2>3. StillWindow = Window + 2 * MaxGap
      BY DEF StillWindow
    <2>4. StillWindow \in Nat /\ stillFor \in Nat /\ stillCpu \in Nat
      BY <1>4, <2>3 DEF StillAdvance
    <2>5. CASE AnyChange
      <3>1. stillFor < sampledFor
        <4> SUFFICES ASSUME stillFor >= sampledFor PROVE FALSE
          BY <1>4, <2>4
        <4>1. PICK d \in Domain : Delta(d) # 0
          BY <2>5 DEF AnyChange
        <4>2. prev[d] # NoReading /\ counter[d] = prev[d]
          BY <2>1, <4>1 DEF Delta
        <4>3. counter[d] \in 0..(CounterRange - 1) /\ CounterRange \in Nat \ {0}
          BY <1>1, Constants DEF Types, EnergyTypeOK
        <4>4. counter[d] - prev[d] + CounterRange = CounterRange
          BY <4>2, <4>3
        <4>5. CounterRange % CounterRange = 0
          <5>1. 0 \in 0..(CounterRange - 1) /\ CounterRange = 0 + CounterRange * 1
            BY <4>3
          <5> QED
            BY <4>3, <5>1, ModIs
        <4> QED
          BY <4>1, <4>2, <4>4, <4>5 DEF Delta
      <3>2. stillFor <= MaxGap /\ stillCpu <= MaxGap
        BY <1>4, <2>1, <2>3, <2>4, <3>1
      <3>3. unchangedFor' = Never
        BY <1>2, <2>5 DEF NoteUnchanged
      <3> QED
        BY <1>2, <1>3, <1>4, <2>1, <2>2, <2>4, <3>2, <3>3 DEF Watched, StillWindow
    <2>6. CASE ~AnyChange /\ unchangedFor = Never
      <3>1. unchangedFor' = 0 /\ unchangedCpu' = 0
        BY <1>2, <2>6 DEF NoteUnchanged
      <3>2. stillFor <= 0 + 2 * MaxGap /\ stillCpu <= 0 + 2 * MaxGap
        BY <1>4, <2>1, <2>4, <2>6
      <3> QED
        BY <1>3, <1>4, <2>1, <2>2, <2>4, <3>1, <3>2 DEF Watched, StillWindow
    <2>7. CASE ~AnyChange /\ unchangedFor # Never
      <3>1. unchangedFor' = unchangedFor /\ unchangedCpu' = unchangedCpu
        BY <1>2, <2>7 DEF NoteUnchanged, unchanged
      <3>2. unchangedFor # Window \/ unchangedCpu # Advance
        BY <1>2, <2>7 DEF Stuck
      <3> QED
        BY <1>3, <2>1, <2>2, <2>7, <3>1, <3>2 DEF Watched, StillWindow
    <2> QED
      BY <2>5, <2>6, <2>7
  <1> QED
    BY <1>6, <1>12, <1>13, <1>14, <1>15, <1>16 DEF EnergyInv

\* A sample that fails after k domains.  What it read and did not meter is lost.
LEMMA SampleFailsStep == EnergyInv /\ SampleFails => EnergyInv'
  <1> SUFFICES ASSUME EnergyInv, SampleFails PROVE EnergyInv'
    OBVIOUS
  <1>1. Types /\ Counted /\ Closed
    BY DEF EnergyInv
  <1>2. PICK k \in 0..Domains : ReadUpTo(k, 0)
    BY DEF SampleFails
  <1>3. /\ Sampling /\ sampledFor' = 0
        /\ IF phase = "RUNNING" THEN LatchStop("SENSOR_FAULT") ELSE Settle
        /\ UNCHANGED <<fraction, counter, dead, energy, complete, unchangedFor, unchangedCpu,
                       stillFor, stillCpu>>
    BY DEF SampleFails, physics, unchanged, still
  <1>4. SumFunctionOnSet(unread, Again(k)) \in Nat
    BY <1>1, AgainSubset, SumRange DEF Types, EnergyTypeOK
  <1>5. /\ prev' \in [Domain -> 0..(CounterRange - 1) \cup {NoReading}]
        /\ readFor' \in [Domain -> 0..(Stale + 1)]
        /\ unread' \in [Domain -> Nat]
        /\ lost' \in Nat /\ skipped' \in Nat
        /\ Counted'
        /\ SumFunction(unread) \in Nat /\ SumFunction(unread') \in Nat
        /\ 0 + lost' + SumFunction(unread') <= lost + SumFunction(unread)
    BY <1>1, <1>2, <1>3, <1>4, ReadKeeps
  <1>6. /\ energy \in Nat /\ energy' \in Nat /\ lost \in Nat /\ MaxGap \in Nat /\ KillDeadline \in Nat
        /\ latchedFor \in 0..KillDeadline /\ reason \in Reasons \cup {Never}
    BY <1>1, <1>3, Constants DEF Types, EnergyTypeOK
  <1>7. energy' + lost' + SumFunction(unread') <= energy + lost + SumFunction(unread)
    BY <1>3, <1>5, <1>6
  <1>8. /\ phase' \in {"STOPPING", "CLOSING"}
        /\ latchedFor' \in 0..KillDeadline /\ reason' \in Reasons \cup {Never}
        /\ phase' = "STOPPING" => \/ phase = "RUNNING" /\ latchedFor' = 0
                                  \/ phase = "STOPPING" /\ latchedFor' = latchedFor
        /\ phase' = "CLOSING" => dead
    BY <1>3, <1>6 DEF LatchStop, Settle, Sampling, Reasons
  <1>9. Types'
    BY <1>1, <1>3, <1>5, <1>6, <1>8 DEF Types, EnergyTypeOK
  <1>10. Exact' /\ Watched'
    BY <1>8 DEF Exact, Watched
  <1>11. Closed'
    BY <1>3, <1>8 DEF Closed
  <1>12. Spending'
    <2> SUFFICES ASSUME phase' = "STOPPING" PROVE Spending'
      BY DEF Spending
    <2>1. CASE phase = "RUNNING" /\ latchedFor' = 0
      BY <1>3, <1>7, <2>1, LatchSpends
    <2>2. CASE phase = "STOPPING" /\ latchedFor' = latchedFor
      BY <1>3, <1>5, <1>6, <1>7, <2>2, SettleSpends
    <2> QED
      BY <1>8, <2>1, <2>2
  <1> QED
    BY <1>5, <1>9, <1>10, <1>11, <1>12 DEF EnergyInv

\* A stop for another reason.
LEMMA StopOtherStep == EnergyInv /\ StopOther => EnergyInv'
  <1> SUFFICES ASSUME EnergyInv, StopOther PROVE EnergyInv'
    OBVIOUS
  <1>1. Types /\ Counted
    BY DEF EnergyInv
  <1>2. /\ phase = "RUNNING" /\ phase' = "STOPPING" /\ reason' = "OTHER" /\ latchedFor' = 0
        /\ UNCHANGED <<fraction, counter, dead, sampledFor, prev, readFor, energy, complete,
                       unchangedFor, unchangedCpu, unread, lost, skipped, stillFor, stillCpu>>
    BY DEF StopOther, LatchStop, physics, unchanged, still
  <1>3. Types'
    BY <1>1, <1>2, Constants DEF Types, EnergyTypeOK, Reasons
  <1>4. Counted' /\ Exact' /\ Watched' /\ Closed'
    BY <1>1, <1>2 DEF Counted, Exact, Watched, Closed
  <1>5. SumFunction(unread) \in Nat /\ energy \in Nat /\ lost \in Nat
    BY <1>1, Constants, SumRange DEF Types, EnergyTypeOK, SumFunction
  <1>6. energy' + lost' + SumFunction(unread') <= energy + lost + SumFunction(unread)
    BY <1>2, <1>5
  <1>7. Spending'
    BY <1>2, <1>6, LatchSpends
  <1> QED
    BY <1>3, <1>4, <1>7 DEF EnergyInv

\* The processes are gone.
LEMMA DieStep == EnergyInv /\ Die => EnergyInv'
  <1> SUFFICES ASSUME EnergyInv, Die PROVE EnergyInv'
    OBVIOUS
  <1>1. /\ phase = "STOPPING" /\ phase' = "STOPPING" /\ dead' = TRUE
        /\ UNCHANGED <<fraction, counter, reason, latchedFor, sampledFor, prev, readFor, energy,
                       complete, unchangedFor, unchangedCpu, unread, lost, skipped, stillFor,
                       stillCpu>>
    BY DEF Die, physics, unchanged, still
  <1>2. Types'
    BY <1>1 DEF EnergyInv, Types, EnergyTypeOK
  <1>3. Counted' /\ Exact' /\ Spending' /\ Closed' /\ Watched'
    BY <1>1 DEF EnergyInv, Counted, Exact, Spending, Closed, Watched
  <1> QED
    BY <1>2, <1>3 DEF EnergyInv

\* The final sample, whether it succeeds or not, is taken of a dead run.
LEMMA ClosingStep ==
    ASSUME EnergyInv, phase = "CLOSING", phase' = "CLOSED", NEW k \in 0..Domains,
           NEW credit \in Nat, credit <= SumFunctionOnSet(unread, Again(k)), ReadUpTo(k, credit),
           energy' \in Nat, complete' \in BOOLEAN,
           UNCHANGED <<physics, dead, reason, latchedFor, sampledFor, unchanged, still>>
    PROVE  EnergyInv'
  <1>1. Types /\ Counted /\ Closed
    BY DEF EnergyInv
  <1>2. UNCHANGED <<fraction, counter, dead, reason, latchedFor, sampledFor, unchangedFor,
                    unchangedCpu, stillFor, stillCpu>>
    BY DEF physics, unchanged, still
  <1>3. /\ prev' \in [Domain -> 0..(CounterRange - 1) \cup {NoReading}]
        /\ readFor' \in [Domain -> 0..(Stale + 1)]
        /\ unread' \in [Domain -> Nat]
        /\ lost' \in Nat /\ skipped' \in Nat
        /\ Counted'
    BY <1>1, <1>2, ReadKeeps
  <1>4. Types'
    BY <1>1, <1>2, <1>3 DEF Types, EnergyTypeOK
  <1>5. Exact' /\ Spending' /\ Watched' /\ Closed'
    BY <1>1, <1>2 DEF Exact, Spending, Watched, Closed
  <1> QED
    BY <1>3, <1>4, <1>5 DEF EnergyInv

\* The final sample.
LEMMA FinalSampleStep == EnergyInv /\ FinalSample => EnergyInv'
  <1> SUFFICES ASSUME EnergyInv, FinalSample PROVE EnergyInv'
    OBVIOUS
  <1> DEFINE m == Metered
  <1>1. /\ phase = "CLOSING" /\ phase' = "CLOSED" /\ ReadUpTo(Domains, m)
        /\ energy' = energy + m
        /\ UNCHANGED <<physics, dead, reason, latchedFor, sampledFor, complete, unchanged, still>>
    BY DEF FinalSample
  <1>2. /\ m \in Nat /\ m <= SumFunctionOnSet(unread, Again(Domains))
        /\ Domains \in 0..Domains
    BY Constants, MeteredIs DEF EnergyInv
  <1> HIDE DEF m
  <1>3. energy' \in Nat /\ complete' \in BOOLEAN
    BY <1>1, <1>2 DEF EnergyInv, Types, EnergyTypeOK
  <1> QED
    BY <1>1, <1>2, <1>3, ClosingStep

\* The final sample, failed half way.
LEMMA FinalSampleFailsStep == EnergyInv /\ FinalSampleFails => EnergyInv'
  <1> SUFFICES ASSUME EnergyInv, FinalSampleFails PROVE EnergyInv'
    OBVIOUS
  <1>1. PICK k \in 0..(Domains - 1) : ReadUpTo(k, 0)
    BY DEF FinalSampleFails
  <1>2. k \in 0..Domains /\ 0 \in Nat
    BY Constants
  <1>3. SumFunctionOnSet(unread, Again(k)) \in Nat
    BY <1>2, AgainSubset, SumRange DEF EnergyInv, Types, EnergyTypeOK
  <1>4. 0 <= SumFunctionOnSet(unread, Again(k))
    BY <1>3
  <1>5. /\ phase = "CLOSING" /\ phase' = "CLOSED" /\ complete' \in BOOLEAN
        /\ UNCHANGED <<physics, dead, reason, latchedFor, sampledFor, unchanged, still>>
        /\ energy' \in Nat
    BY DEF FinalSampleFails, EnergyInv, Types, EnergyTypeOK
  <1> QED
    BY <1>1, <1>2, <1>4, <1>5, ClosingStep

-------------------------------------------------------------------------------
(***************************************************************************)
(* The theorems.                                                           *)
(***************************************************************************)
LEMMA EnergyInit == Init => EnergyInv
  <1> SUFFICES ASSUME Init PROVE EnergyInv
    OBVIOUS
  <1>1. /\ phase = "RUNNING" /\ dead = FALSE /\ energy = 0 /\ lost = 0 /\ sampledFor = 0
        /\ fraction = [d \in Domain |-> 0] /\ unread = [d \in Domain |-> 0]
        /\ readFor = [d \in Domain |-> 0] /\ prev = [d \in Domain |-> NoReading]
        /\ unchangedFor = Never /\ unchangedCpu = 0 /\ stillFor = 0 /\ stillCpu = 0
    BY DEF Init
  <1>2. StillWindow \in Nat /\ StillAdvance \in Nat
    BY Constants DEF StillWindow, StillAdvance
  <1>3. Types
    <2>1. fraction \in [Domain -> 0..(Micro - 1)] /\ unread \in [Domain -> Nat]
      BY <1>1, Constants
    <2>2. counter \in [Domain -> 0..(CounterRange - 1)]
      BY DEF Init
    <2>3. prev \in [Domain -> 0..(CounterRange - 1) \cup {NoReading}]
      BY <1>1
    <2>4. readFor \in [Domain -> 0..(Stale + 1)]
      BY <1>1, Constants
    <2>5. latchedFor \in 0..KillDeadline /\ {lost, skipped} \subseteq Nat /\ complete \in BOOLEAN
          /\ reason = Never
      BY Constants DEF Init
    <2>6. sampledFor \in 0..MaxGap /\ unchangedCpu \in 0..Advance
      BY <1>1, Constants
    <2>7. stillFor \in 0..StillWindow /\ stillCpu \in 0..StillAdvance
      BY <1>1, <1>2
    <2> QED
      BY <1>1, <2>1, <2>2, <2>3, <2>4, <2>5, <2>6, <2>7 DEF Types, EnergyTypeOK
  <1>4. Counted /\ Spending /\ Closed
    BY <1>1 DEF Counted, Spending, Closed
  <1>5. Exact
    <2>1. 0 + Reserve < Cap
      BY ReserveType, Constants
    <2>2. ASSUME NEW d \in Domain
          PROVE  /\ readFor[d] = UpTo(Stale + 1, 0)
                 /\ Micro * unread[d] + fraction[d] <= Power[d] * 0 + (Micro - 1)
      <3>1. Micro \in Nat \ {0} /\ Power[d] \in Nat /\ Stale + 1 \in Nat
        BY Constants
      <3>2. UpTo(Stale + 1, 0) = 0
        BY <3>1, UpToType
      <3> QED
        BY <1>1, <3>1, <3>2
    <2> QED
      BY <1>1, <2>1, <2>2 DEF Exact, Within
  <1>6. Watched
    BY <1>1, Constants DEF Watched
  <1> QED
    BY <1>3, <1>4, <1>5, <1>6 DEF EnergyInv

\* Nothing happens.
LEMMA EnergyStutter == EnergyInv /\ UNCHANGED vars => EnergyInv'
  BY DEF EnergyInv, Types, EnergyTypeOK, Counted, Exact, Spending, Within, Closed, Watched,
         vars, physics, unchanged, still

\* The inductive invariant holds: readings of one age while RUNNING, spending
\* bounded by what the last sample left room for (meter.py, engine.py).
THEOREM EnergyInvAlways == Spec => []EnergyInv
  <1>1. Init => EnergyInv
    BY EnergyInit
  <1>2. EnergyInv /\ [Next]_vars => EnergyInv'
    BY PassStep, DieStep, SampleRecordedStep, SampleFailsStep, StopOtherStep, FinalSampleStep,
       FinalSampleFailsStep, EnergyStutter DEF Next
  <1> QED
    BY <1>1, <1>2, PTL DEF Spec

\* The meter's variables keep their types: above all, what is lost never becomes
\* negative, so a sample never meters more than the counters counted.
THEOREM EnergyTypesAlways == Spec => []EnergyTypeOK
  <1>1. EnergyInv => EnergyTypeOK
    BY DEF EnergyInv, Types
  <1> QED
    BY <1>1, EnergyInvAlways, PTL

\* Until a sample fails the energy is exact, for every range, power and spacing.
THEOREM MeteredExactlyAlways == Spec => []MeteredExactly
  <1>1. EnergyInv => MeteredExactly
    BY DEF EnergyInv, Exact, MeteredExactly
  <1> QED
    BY <1>1, EnergyInvAlways, PTL

\* Counters that stand still while the workload computes are caught.
THEOREM StuckIsCaughtAlways == Spec => []StuckIsCaught
  <1>1. EnergyInv => StuckIsCaught
    <2> SUFFICES ASSUME EnergyInv, phase = "RUNNING", sampledFor = 0, stillFor = StillWindow,
                        stillCpu = StillAdvance
                 PROVE  FALSE
      BY DEF StuckIsCaught
    <2>1. /\ unchangedFor \in 0..Window \cup {Never} /\ unchangedCpu \in 0..Advance
          /\ Window \in Nat \ {0} /\ Advance \in Nat \ {0} /\ MaxGap \in Nat
      BY Constants DEF EnergyInv, Types, EnergyTypeOK
    <2>2. /\ unchangedFor = Never => stillFor <= MaxGap
          /\ unchangedFor # Never =>
                stillFor <= unchangedFor + 2 * MaxGap /\ stillCpu <= unchangedCpu + 2 * MaxGap
          /\ unchangedFor # Window \/ unchangedCpu # Advance
      BY <2>1 DEF EnergyInv, Watched
    <2>3. stillFor = Window + 2 * MaxGap /\ stillCpu = Advance + 2 * MaxGap
      BY DEF StillWindow, StillAdvance
    <2> QED
      BY <2>1, <2>2, <2>3
  <1> QED
    BY <1>1, EnergyInvAlways, PTL

\* The reserve is enough, when ticks come no further apart than meter.stale_us.
THEOREM DrawnBelowCapAlways ==
    ASSUME MaxGap <= Stale
    PROVE  Spec => []DrawnBelowCap
  <1>1. ASSUME NEW age \in Nat, age <= Stale + KillDeadline, NEW f \in [Domain -> Nat],
               fraction \in [Domain -> Nat], \A d \in Domain : Within(d, f[d], age)
        PROVE  SumFunction(f) \in Nat /\ SumFunction(f) <= Reserve
    <2> DEFINE g == [d \in Domain |-> Drawable(d, Stale + KillDeadline) + Margin[d]]
    <2>1. ASSUME NEW d \in Domain PROVE g[d] \in Nat /\ f[d] <= g[d]
      <3>1. Margin[d] \in Nat /\ Stale + KillDeadline \in Nat /\ fraction[d] \in Nat /\ f[d] \in Nat
        BY <1>1, Constants
      <3>2. f[d] <= Drawable(d, age) /\ Within(d, f[d], age)
        BY <1>1, <3>1, WithinDrawable
      <3>3. Drawable(d, age) <= Drawable(d, Stale + KillDeadline)
        BY <1>1, <3>1, DrawableMonotone
      <3>4. Drawable(d, age) \in Nat /\ Drawable(d, Stale + KillDeadline) \in Nat
        BY <3>1, DrawableType
      <3> QED
        BY <3>1, <3>2, <3>3, <3>4
    <2>2. Reserve = SumFunctionOnSet(g, Domain)
      BY ReserveType
    <2> HIDE DEF g
    <2>3. \A d \in Domain : f[d] \in Nat /\ g[d] \in Nat /\ f[d] <= g[d]
      BY <2>1
    <2>4. SumFunctionOnSet(f, Domain) <= SumFunctionOnSet(g, Domain)
      BY <2>3, Constants, SumMonotone
    <2>5. SumFunctionOnSet(f, Domain) \in Nat
      BY <2>3, Constants, SumRange
    <2>6. SumFunction(f) = SumFunctionOnSet(f, Domain)
      BY DEF SumFunction
    <2> QED
      BY <2>2, <2>4, <2>5, <2>6
  <1>2. EnergyInv => DrawnBelowCap
    <2> SUFFICES ASSUME EnergyInv, ~dead
                 PROVE  energy + lost + SumFunction(unread) < Cap
      BY DEF DrawnBelowCap
    <2>1. /\ fraction \in [Domain -> 0..(Micro - 1)] /\ unread \in [Domain -> Nat]
          /\ energy \in Nat /\ lost \in Nat
          /\ sampledFor \in 0..MaxGap /\ latchedFor \in 0..KillDeadline
          /\ phase \in {"RUNNING", "STOPPING", "CLOSING", "CLOSED"}
          /\ MaxGap \in Nat /\ Stale \in Nat /\ KillDeadline \in Nat /\ Cap \in Nat
          /\ Micro \in Nat \ {0} /\ Reserve \in Nat
      BY Constants, ReserveType DEF EnergyInv, Types, EnergyTypeOK
    <2>2. fraction \in [Domain -> Nat]
      BY <2>1
    <2>3. CASE phase = "RUNNING"
      <3>1. lost = 0 /\ energy + Reserve < Cap /\ \A d \in Domain : Within(d, unread[d], sampledFor)
        BY <2>3 DEF EnergyInv, Exact
      <3>2. sampledFor \in Nat /\ sampledFor <= Stale + KillDeadline
        BY <2>1
      <3>3. SumFunction(unread) \in Nat /\ SumFunction(unread) <= Reserve
        BY <1>1, <2>1, <2>2, <3>1, <3>2
      <3> QED
        BY <2>1, <3>1, <3>3
    <2>4. CASE phase = "STOPPING"
      <3>1. PICK base \in 0..Cap, drawn \in [Domain -> Nat] :
               /\ base + Reserve < Cap
               /\ energy + lost + SumFunction(unread) <= base + SumFunction(drawn)
               /\ \A d \in Domain : Within(d, drawn[d], MaxGap + latchedFor)
        BY <2>4 DEF EnergyInv, Spending
      <3>2. MaxGap + latchedFor \in Nat /\ MaxGap + latchedFor <= Stale + KillDeadline
        BY <2>1
      <3>3. SumFunction(drawn) \in Nat /\ SumFunction(drawn) <= Reserve
        BY <1>1, <2>2, <3>1, <3>2
      <3>4. SumFunction(unread) \in Nat
        BY <2>1, Constants, SumRange DEF SumFunction
      <3> QED
        BY <2>1, <3>1, <3>3, <3>4
    <2> QED
      BY <2>1, <2>3, <2>4 DEF EnergyInv, Closed
  <1> QED
    BY <1>2, EnergyInvAlways, PTL
===============================================================================
