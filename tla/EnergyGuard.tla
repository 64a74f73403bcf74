----------------------------- MODULE EnergyGuard -----------------------------
(***************************************************************************)
(* Energy sampling of one run: src/lexwatt/meter.py, with Run._sample and  *)
(* Run._read_final_sample of engine.py, over the counters of the package   *)
(* domains.                                                                *)
(*                                                                         *)
(* Supervisor lets every sample pass, fail or trip the guard.  Here the    *)
(* samples are computed: counters wrap, stand still or cannot be read,     *)
(* samples come at most MaxGap apart, a latched run is dead within         *)
(* KillDeadline.  In a unit of time a domain draws at most Power[d]        *)
(* micro-units, Micro of which its counter counts as one.                  *)
(*                                                                         *)
(* Times are kept as ages, so that time itself needs no bound; an age or a *)
(* CPU advance that is only compared with a threshold stops there.         *)
(***************************************************************************)
EXTENDS Integers, FiniteSetsExt, Functions

CONSTANTS
    Domains,       \* the number of selected package domains, read in order
    CounterRange,  \* range_uj
    Power,         \* max_power_uw of each domain
    Margin,        \* margin_uj of each domain
    Micro,         \* the 1_000_000 that divides power by time
    Stale,         \* meter.stale_us
    KillDeadline,  \* meter.kill_deadline_us
    Cap,           \* budgets.max_energy_uj
    Window,        \* STUCK_ENERGY_WINDOW_US
    Advance,       \* STUCK_CPU_ADVANCE_US
    MaxGap,        \* the longest time between two ticks
    Never, NoReading

Domain == 1..Domains

\* The most a domain can draw in dt, rounded up.
Drawable(d, dt) == (Power[d] * dt + Micro - 1) \div Micro

\* Faulty: forgets what is drawn between the latch and the last death.
Reserve_NoKill == SumFunction([d \in Domain |-> Drawable(d, Stale) + Margin[d]])

\* reserve_uj.
Reserve == SumFunction([d \in Domain |-> Drawable(d, Stale + KillDeadline) + Margin[d]])

Reasons == {"MEASUREMENT_OVERRUN", "ENERGY_GUARD", "SENSOR_FAULT", "OTHER"}

ASSUME EnergyAssumption ==
    /\ Domains \in Nat \ {0}
    /\ CounterRange \in Nat \ {0}
    /\ Power \in [Domain -> Nat]
    /\ Margin \in [Domain -> Nat]
    /\ Micro \in Nat \ {0}
    /\ {Window, Advance} \subseteq Nat \ {0}
    /\ {Stale, KillDeadline, Cap, MaxGap} \subseteq Nat
    /\ Never \notin Nat \cup Reasons
    /\ NoReading \notin Nat
    /\ Cap > Reserve  \* run_start refuses the others with BUDGET_TOO_SMALL

VARIABLES
    fraction,       \* the micro-units each domain has drawn and not yet counted
    counter,        \* what its counter shows
    dead,           \* no process of the run is left
    phase,          \* RUNNING, STOPPING, CLOSING (containment is empty), CLOSED
    reason,         \* the stop reason, or Never
    latchedFor,     \* the age of the latch
    sampledFor,     \* the age of the last sample the engine tried
    prev,           \* Run.prev_readings: the counter, or NoReading
    readFor,        \*   and the age of the reading
    energy,         \* Run.energy_uj
    complete,       \* Run.energy_complete
    unchangedFor,   \* the age of Run.unchanged_since_us, or Never
    unchangedCpu,   \* the CPU advance since Run.unchanged_cpu_at_us
    \* History: what each counter counted since its last reading, what readings
    \* covered without adding it to energy_uj, what the first reading of every
    \* domain left out, the age of the last movement of a counter and the CPU
    \* advance since.
    unread, lost, skipped, stillFor, stillCpu

physics == <<fraction, counter>>
unchanged == <<unchangedFor, unchangedCpu>>
still == <<stillFor, stillCpu>>
vars == <<physics, dead, phase, reason, latchedFor, sampledFor, prev, readFor,
          energy, complete, unchanged, unread, lost, skipped, still>>

\* Launch: the baseline sample is recorded and prev_readings stays empty.
Init ==
    /\ fraction = [d \in Domain |-> 0]
    /\ counter \in [Domain -> 0..(CounterRange - 1)]
    /\ dead = FALSE
    /\ phase = "RUNNING"
    /\ reason = Never
    /\ latchedFor = 0
    /\ sampledFor = 0
    /\ prev = [d \in Domain |-> NoReading]
    /\ readFor = [d \in Domain |-> 0]
    /\ energy = 0
    /\ complete = TRUE
    /\ unchangedFor = Never
    /\ unchangedCpu = 0
    /\ unread = [d \in Domain |-> 0]
    /\ lost = 0
    /\ skipped = 0
    /\ stillFor = 0
    /\ stillCpu = 0

-------------------------------------------------------------------------------
(***************************************************************************)
(* Hardware and kernel.                                                    *)
(***************************************************************************)
UpTo(limit, n) == Min({limit, n})

StillWindow == Window + 2 * MaxGap
StillAdvance == Advance + 2 * MaxGap

\* One unit of time, in which every domain draws and the workload computes or not.
Pass ==
    /\ phase \in {"RUNNING", "STOPPING"}
    /\ sampledFor < MaxGap
    /\ phase = "STOPPING" /\ ~dead => latchedFor < KillDeadline
    /\ \E draw \in [Domain -> UNION {0..Power[d] : d \in Domain}], busy \in {0, 1} :
          LET count == [d \in Domain |-> (fraction[d] + draw[d]) \div Micro]
              moved == \E d \in Domain : count[d] # 0
          IN  /\ \A d \in Domain : draw[d] <= Power[d]
              /\ dead => busy = 0
              /\ fraction' = [d \in Domain |-> (fraction[d] + draw[d]) % Micro]
              /\ counter' = [d \in Domain |-> (counter[d] + count[d]) % CounterRange]
              /\ unread' = [d \in Domain |-> unread[d] + count[d]]
              /\ unchangedCpu' = UpTo(Advance, unchangedCpu + busy)
              /\ stillFor' = IF moved THEN 0 ELSE UpTo(StillWindow, stillFor + 1)
              /\ stillCpu' = IF moved THEN 0 ELSE UpTo(StillAdvance, stillCpu + busy)
    /\ unchangedFor' = IF unchangedFor = Never THEN Never ELSE UpTo(Window, unchangedFor + 1)
    /\ readFor' = [d \in Domain |-> UpTo(Stale + 1, readFor[d] + 1)]
    /\ latchedFor' = IF phase = "STOPPING" /\ ~dead THEN latchedFor + 1 ELSE latchedFor
    /\ sampledFor' = sampledFor + 1
    /\ UNCHANGED <<dead, phase, reason, prev, energy, complete, lost, skipped>>

\* The SIGKILL takes effect.
Die ==
    /\ phase = "STOPPING"
    /\ ~dead
    /\ dead' = TRUE
    /\ UNCHANGED <<physics, phase, reason, latchedFor, sampledFor, prev, readFor,
                   energy, complete, unchanged, unread, lost, skipped, still>>

-------------------------------------------------------------------------------
(***************************************************************************)
(* meter.rapl_delta.                                                       *)
(***************************************************************************)
\* Faulty: no wrap.
Delta_NoWrap(d) == IF prev[d] = NoReading THEN 0 ELSE counter[d] - prev[d]

\* The difference to the previous reading; nothing for the first one.
Delta(d) ==
    IF prev[d] = NoReading THEN 0
    ELSE (counter[d] - prev[d] + CounterRange) % CounterRange

\* STALE_SAMPLE, WRAP_AMBIGUOUS and DELTA_IMPLAUSIBLE.
Plausible(d) ==
    prev[d] # NoReading =>
        LET possible == Drawable(d, readFor[d]) + Margin[d]
        IN  readFor[d] <= Stale /\ possible < CounterRange /\ Delta(d) <= possible

-------------------------------------------------------------------------------
(***************************************************************************)
(* Sampling.  Domains are read in order, and every reading replaces its    *)
(* predecessor as soon as it is taken; only a sample that succeeds as a    *)
(* whole adds what it read to energy_uj.                                   *)
(***************************************************************************)
Metered == SumFunction([d \in Domain |-> Delta(d)])

\* The domains up to k are read, "credit" of what they counted is metered.
ReadUpTo(k, credit) ==
    LET again == {d \in 1..k : prev[d] # NoReading}
    IN  /\ prev' = [d \in Domain |-> IF d <= k THEN counter[d] ELSE prev[d]]
        /\ readFor' = [d \in Domain |-> IF d <= k THEN 0 ELSE readFor[d]]
        /\ unread' = [d \in Domain |-> IF d <= k THEN 0 ELSE unread[d]]
        /\ lost' = lost + SumFunctionOnSet(unread, again) - credit
        /\ skipped' = skipped + SumFunctionOnSet(unread, (1..k) \ again)

AnyChange == \E d \in Domain : Delta(d) # 0

Stuck ==
    /\ ~AnyChange
    /\ unchangedFor = Window
    /\ unchangedCpu = Advance

\* Faulty: the window starts anew at every sample without a change.
NoteUnchanged_Restart ==
    /\ unchangedFor' = IF AnyChange THEN Never ELSE 0
    /\ unchangedCpu' = 0

\* The window opens at the first sample without a change.
NoteUnchanged ==
    IF AnyChange THEN unchangedFor' = Never /\ unchangedCpu' = 0
    ELSE IF unchangedFor = Never THEN unchangedFor' = 0 /\ unchangedCpu' = 0
    ELSE UNCHANGED unchanged

LatchStop(why) ==
    /\ phase' = "STOPPING"
    /\ reason' = why
    /\ latchedFor' = 0

\* guard_eval.
Guard(e) ==
    IF e >= Cap THEN "MEASUREMENT_OVERRUN"
    ELSE IF e + Reserve >= Cap THEN "ENERGY_GUARD"
    ELSE Never

Sampling == phase \in {"RUNNING", "STOPPING"}

\* After a tick's sample a stopping run whose cgroup is empty is closed.
Settle ==
    /\ phase' = IF phase = "STOPPING" /\ dead THEN "CLOSING" ELSE phase
    /\ UNCHANGED <<reason, latchedFor>>

\* _sample succeeds; a running run is guarded.
SampleRecorded ==
    /\ Sampling
    /\ \A d \in Domain : Plausible(d)
    /\ ~Stuck
    /\ ReadUpTo(Domains, Metered)
    /\ NoteUnchanged
    /\ energy' = energy + Metered
    /\ sampledFor' = 0
    /\ IF phase = "RUNNING" /\ Guard(energy') # Never
       THEN LatchStop(Guard(energy'))
       ELSE Settle
    /\ UNCHANGED <<physics, dead, complete, still>>

\* _sample raises: a domain cannot be read, one of its readings is refused, or
\* the counters are stuck.  SENSOR_FAULT latches, or is a diagnostic.
SampleFails ==
    /\ Sampling
    /\ \E k \in 0..Domains :
          /\ \A d \in 1..k : Plausible(d)
          /\ k = Domains => Stuck
          /\ ReadUpTo(k, 0)
    /\ sampledFor' = 0
    /\ IF phase = "RUNNING" THEN LatchStop("SENSOR_FAULT") ELSE Settle
    /\ UNCHANGED <<physics, dead, energy, complete, unchanged, still>>

\* Another source stops the run.
StopOther ==
    /\ phase = "RUNNING"
    /\ LatchStop("OTHER")
    /\ UNCHANGED <<physics, dead, sampledFor, prev, readFor, energy, complete,
                   unchanged, unread, lost, skipped, still>>

\* _read_final_sample succeeds.
FinalSample ==
    /\ phase = "CLOSING"
    /\ \A d \in Domain : Plausible(d)
    /\ ReadUpTo(Domains, Metered)
    /\ energy' = energy + Metered
    /\ phase' = "CLOSED"
    /\ UNCHANGED <<physics, dead, reason, latchedFor, sampledFor, complete,
                   unchanged, still>>

\* _read_final_sample raises: the energy is declared incomplete.
FinalSampleFails ==
    /\ phase = "CLOSING"
    /\ \E k \in 0..(Domains - 1) : (\A d \in 1..k : Plausible(d)) /\ ReadUpTo(k, 0)
    /\ complete' = FALSE
    /\ phase' = "CLOSED"
    /\ UNCHANGED <<physics, dead, reason, latchedFor, sampledFor, energy,
                   unchanged, still>>

Next ==
    \/ Pass
    \/ Die
    \/ SampleRecorded
    \/ SampleFails
    \/ StopOther
    \/ FinalSample
    \/ FinalSampleFails

Spec == Init /\ [][Next]_vars

-------------------------------------------------------------------------------
(***************************************************************************)
(* Properties.                                                             *)
(***************************************************************************)

\* The meter's variables hold values of their types.
EnergyTypeOK ==
    /\ fraction \in [Domain -> 0..(Micro - 1)]
    /\ counter \in [Domain -> 0..(CounterRange - 1)]
    /\ phase \in {"RUNNING", "STOPPING", "CLOSING", "CLOSED"}
    /\ reason \in Reasons \cup {Never}
    /\ prev \in [Domain -> 0..(CounterRange - 1) \cup {NoReading}]
    /\ readFor \in [Domain -> 0..(Stale + 1)]
    /\ latchedFor \in 0..KillDeadline
    /\ energy \in Nat
    /\ dead \in BOOLEAN /\ complete \in BOOLEAN
    /\ unchangedFor \in 0..Window \cup {Never}
    /\ unread \in [Domain -> Nat]
    /\ {lost, skipped} \subseteq Nat

\* Until a sample fails, energy_uj is exactly what the counters counted
\* between the first and the last reading, however often they wrapped and
\* however the samples were spaced (meter.rapl_delta).
MeteredExactly == phase = "RUNNING" => lost = 0

\* The reserve is enough: but for what the first readings skip, a run never draws
\* its energy budget while one of its processes lives, not even between the sample
\* that trips the guard and the last death (meter.reserve_uj, meter.guard_eval).
DrawnBelowCap == ~dead => energy + lost + SumFunction(unread) < Cap

\* Counters that all stand still while the workload computes stop the run:
\* within the window and the two samples that it takes to notice.
StuckIsCaught ==
    ~(phase = "RUNNING" /\ sampledFor = 0 /\ stillFor = StillWindow
          /\ stillCpu = StillAdvance)

\* A run that declares its energy complete has metered all that the counters
\* counted between the first and the last reading (coverage, energy_complete).
CompleteIsExact == phase = "CLOSED" /\ complete => lost = 0

\* Nothing was counted before the first reading that is not metered: the
\* baseline sample, taken before the first workload instruction, is the start
\* of the first interval (Run.arm).
MeteredFromBaseline == skipped = 0
===============================================================================
