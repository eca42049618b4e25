---------------------------- MODULE StressGate ----------------------------
(***************************************************************************)
(* One run of gates/stress_gate.py: the rate-limited endpoint of the mock  *)
(* emulator, the load runner that sends it three phases of paced batches   *)
(* and waits for it to recover, and the verdict.                           *)
(*                                                                         *)
(* The emulator and the runner share one event loop, so a request is       *)
(* served some time after it was sent and a sleep ends some time after it  *)
(* is due; nothing bounds either.  Time is counted in half seconds, and    *)
(* each timer stops counting where nothing depends on it any more.         *)
(*                                                                         *)
(* No request is ever sent again (was_retry is always False), so that the  *)
(* retry storm the verdict asks for does not occur, and is left out.       *)
(***************************************************************************)
EXTENDS Naturals, Sequences, FiniteSetsExt

CONSTANTS
  Limits,         \* the rate limits a gate may be configured with
  BatchCap,       \* requests in a batch, at most: 50
  Percent,        \* the load of the phases, of the limit: <<70, 100, 120>>
  CascadeLimit,   \* failures in a row that are no cascade yet: 10
  NormalShare, ThresholdShare, \* one failure in so many is too many: 100 and 20
  PhaseTime, RecoveryTime, \* ticks: 20 and 60
  MaxLost         \* bound: requests that get no answer

Window == 2       \* RateLimitState.window_seconds
Pace   == 2       \* the batches of a phase begin so far apart
Poll   == 1       \* the sleep between two looks at the endpoint

ASSUME StressAssumption ==
  /\ Limits \subseteq Nat \ {0} /\ BatchCap \in Nat \ {0}
  /\ Percent \in [1..3 -> Nat \ {0}] /\ CascadeLimit \in Nat
  /\ NormalShare \in Nat \ {0} /\ ThresholdShare \in Nat \ {0}
  /\ PhaseTime \in Nat \ {0} /\ RecoveryTime \in Nat \ {0}
  /\ MaxLost \in Nat

VARIABLES
  limit,      \* of the configuration
  remaining,  \* requests the window still lets through
  window,     \* ticks until it ends; 0 when it has
  up,         \* whether the emulator listens
  at,         \* where the gate stands
  phase,      \* 1 NORMAL, 2 THRESHOLD, 3 BREACH
  pending,    \* the requests of the batch that have no outcome
  outcome,    \* what became of the others, in the order they were sent
  age,        \* ticks since the batch, or the last look, began
  left,       \* ticks until the phase ends
  sent, failed, streak, worst, \* of the phase
  results,    \* the metrics of the phases that have ended
  clock,      \* ticks since BREACH ended
  recovery,   \* the recovery time, one above RecoveryTime for any above it
  status,     \* of the gate's answer
  \* history
  refused,    \* whether any request of a phase was answered 429
  probes,     \* the looks that were answered
  recovered,  \* whether one was answered 200
  lost        \* the requests and looks that got no answer, the emulator among them

emulator == <<limit, remaining, window, up>>
batch    == <<pending, outcome, age>>
phases   == <<phase, left, sent, failed, streak, worst, results>>
end      == <<clock, recovery, status>>
history  == <<refused, probes, recovered, lost>>
stressVars == <<emulator, at, batch, phases, end, history>>

----------------------------------------------------------------------------
Target(p) == Max({1, (limit * Percent[p]) \div 100})

\* Mutant of Batch: the cap is gone.
BatchUncapped(p) == Target(p)

Batch(p) == Min({Target(p), BatchCap})

Metrics == [sent |-> sent, failed |-> failed, cascade |-> worst > CascadeLimit]

StressInit ==
  /\ limit \in Limits /\ remaining = limit /\ window = Window /\ up = FALSE
  /\ at = "idle" /\ phase = 1
  /\ pending = {} /\ outcome = <<>> /\ age = 0
  /\ left = 0 /\ sent = 0 /\ failed = 0 /\ streak = 0 /\ worst = 0 /\ results = <<>>
  /\ clock = 0 /\ recovery = 0 /\ status = "none"
  /\ refused = FALSE /\ probes = 0 /\ recovered = FALSE /\ lost = 0

----------------------------------------------------------------------------
(* The endpoint: _process_request() *)

Available == IF window = 0 THEN limit ELSE remaining

\* Mutant of WindowEnd: every request renews the window.
WindowSlides == Window

WindowEnd == IF window = 0 THEN Window ELSE window

Served == Available > 0

Process ==
  /\ up
  /\ window' = WindowEnd
  /\ remaining' = IF Served THEN Available - 1 ELSE 0
  /\ UNCHANGED <<limit, up>>

\* Time passes.
Down(n) == IF n = 0 THEN 0 ELSE n - 1
Tick ==
  /\ at \notin {"idle", "ended"}
  /\ window' = Down(window)
  /\ left' = Down(left)
  /\ age' = Min({age + 1, Pace})
  /\ clock' = IF at \in {"look", "sleep"} THEN Min({clock + 1, RecoveryTime + 1}) ELSE clock
  /\ UNCHANGED <<limit, remaining, up, at, pending, outcome, phase, sent, failed, streak,
                 worst, results, recovery, status, history>>

----------------------------------------------------------------------------
(* Start and end: StressGate.run(), MockApiEmulator.start() *)

Finish(s) == at' = "ended" /\ status' = s /\ up' = FALSE

Skip ==
  /\ at = "idle"
  /\ Finish("pass")
  /\ UNCHANGED <<limit, remaining, window, batch, phases, clock, recovery, history>>

Start ==
  /\ at = "idle"
  /\ at' = "starting" /\ up' = TRUE
  /\ UNCHANGED <<limit, remaining, window, batch, phases, end, history>>

BeginPhase(p) ==
  /\ at' = "pause" /\ phase' = p
  /\ left' = PhaseTime
  /\ sent' = 0 /\ failed' = 0 /\ streak' = 0 /\ worst' = 0

\* _wait_for_ready() takes a request of the first window.
Ready ==
  /\ at = "starting" /\ Process
  /\ BeginPhase(1)
  /\ age' = Pace
  /\ UNCHANGED <<pending, outcome, results, end, history>>

\* Any exception there ends the gate with exit code 2.
StartFails ==
  /\ at = "starting" /\ lost < MaxLost
  /\ lost' = lost + 1
  /\ Finish("error")
  /\ UNCHANGED <<limit, remaining, window, batch, phases, clock, recovery, refused, probes, recovered>>

----------------------------------------------------------------------------
(* The batches of a phase: run_phase() *)

Send ==
  /\ at = "pause" /\ left > 0 /\ age >= Pace
  /\ pending' = 1..Batch(phase)
  /\ outcome' = [i \in 1..Batch(phase) |-> "none"]
  /\ age' = 0
  /\ at' = "batch"
  /\ UNCHANGED <<emulator, phases, end, history>>

Outcome(i, o) ==
  /\ pending' = pending \ {i}
  /\ outcome' = [outcome EXCEPT ![i] = o]
  /\ UNCHANGED <<at, age, phases, end, probes, recovered>>

Answer(i) ==
  /\ at = "batch" /\ i \in pending /\ Process
  /\ Outcome(i, IF Served THEN "ok" ELSE "refused")
  /\ refused' = (refused \/ ~Served)
  /\ UNCHANGED lost

\* A request that is cut off, or gets no answer in five seconds: the endpoint may
\* have counted it.
NoAnswer(i) ==
  /\ at = "batch" /\ i \in pending /\ lost < MaxLost
  /\ Process \/ UNCHANGED emulator
  /\ Outcome(i, "lost")
  /\ lost' = lost + 1
  /\ UNCHANGED refused

\* The emulator's task is gone: what it has not answered gets no answer.
Dies ==
  /\ up /\ at # "starting" /\ lost < MaxLost
  /\ up' = FALSE
  /\ lost' = lost + 1
  /\ UNCHANGED <<limit, remaining, window, at, batch, phases, end, refused, probes, recovered>>

Refusal(i) ==
  /\ at = "batch" /\ i \in pending /\ ~up
  /\ Outcome(i, "lost")
  /\ UNCHANGED <<emulator, refused, lost>>

\* The failures in a row that end with the nth outcome of the batch, and begin in
\* an earlier batch when none of the n is a success.
Run(n) ==
  LET since == {m \in 0..n : \A i \in (m + 1)..n : outcome[i] # "ok"}
  IN n - Min(since) + (IF 0 \in since THEN streak ELSE 0)

Collect ==
  /\ at = "batch" /\ pending = {}
  /\ streak' = Run(Len(outcome))
  /\ worst' = Max({worst} \cup {Run(n) : n \in 1..Len(outcome)})
  /\ sent' = sent + Len(outcome)
  /\ failed' = failed + Cardinality({i \in 1..Len(outcome) : outcome[i] # "ok"})
  /\ outcome' = <<>>
  /\ at' = "pause"
  /\ UNCHANGED <<emulator, phase, left, results, pending, age, end, history>>

\* The sleep after the phase's last batch goes before its end as well.
EndPhase ==
  /\ at = "pause" /\ left = 0 /\ age >= Pace
  /\ results' = Append(results, Metrics)
  /\ IF phase < 3 THEN BeginPhase(phase + 1) /\ UNCHANGED <<age, clock>>
     ELSE /\ at' = "look" /\ age' = 0 /\ clock' = 0
          /\ UNCHANGED <<phase, left, sent, failed, streak, worst>>
  /\ UNCHANGED <<emulator, pending, outcome, recovery, status, history>>

----------------------------------------------------------------------------
(* The recovery after BREACH: _measure_recovery() *)

\* Mutant of Deadline: the endpoint is given all the time it takes.
DeadlineNever == FALSE

Deadline == clock >= RecoveryTime

Recovers(t) == recovery' = t /\ at' = "judge"

Look ==
  /\ at = "look" /\ Process
  /\ probes' = probes + 1 /\ recovered' = Served
  /\ IF Served THEN Recovers(clock) ELSE at' = "sleep" /\ UNCHANGED recovery
  /\ age' = 0
  /\ UNCHANGED <<pending, outcome, phases, clock, status, refused, lost>>

LookFails ==
  /\ at = "look"
  /\ \/ ~up /\ UNCHANGED lost
     \/ up /\ lost < MaxLost /\ lost' = lost + 1
  /\ at' = "sleep" /\ age' = 0
  /\ UNCHANGED <<emulator, pending, outcome, phases, end, refused, probes, recovered>>

LookAgain ==
  /\ at = "sleep" /\ age >= Poll /\ ~Deadline
  /\ at' = "look"
  /\ UNCHANGED <<emulator, batch, phases, end, history>>

GiveUp ==
  /\ at = "sleep" /\ age >= Poll /\ Deadline
  /\ Recovers(RecoveryTime)
  /\ UNCHANGED <<emulator, batch, phases, clock, status, history>>

----------------------------------------------------------------------------
(* The verdict: evaluate_stress_results() *)

\* Mutant of TooMany: a phase that sent nothing is divided by all the same.
TooManyOfNone(m, share) == m.failed * share >= m.sent

TooMany(m, share) == m.sent > 0 /\ m.failed * share >= m.sent

Passes ==
  /\ ~TooMany(results[1], NormalShare)
  /\ ~TooMany(results[2], ThresholdShare) /\ ~results[2].cascade
  /\ recovery <= RecoveryTime

Judge ==
  /\ at = "judge"
  /\ Finish(IF Passes THEN "pass" ELSE "fail")
  /\ UNCHANGED <<limit, remaining, window, batch, phases, clock, recovery, history>>

Step ==
  \/ Skip \/ Start \/ Ready \/ StartFails \/ Send \/ Collect \/ EndPhase
  \/ Look \/ LookFails \/ LookAgain \/ GiveUp \/ Judge
  \/ \E i \in pending : Answer(i) \/ NoAnswer(i) \/ Refusal(i)

StressNext == Step \/ Dies \/ Tick

\* The event loop goes on, and so does time.
StressSpec == StressInit /\ [][StressNext]_stressVars /\ WF_stressVars(Step) /\ WF_stressVars(Tick)

----------------------------------------------------------------------------
(* Properties *)

Outcomes == {"none", "ok", "refused", "lost"}

\* Every variable is of its type.
StressTypeOK ==
  /\ limit \in Limits /\ remaining \in 0..limit /\ window \in 0..Window /\ up \in BOOLEAN
  /\ at \in {"idle", "starting", "pause", "batch", "look", "sleep", "judge", "ended"}
  /\ phase \in 1..3 /\ pending \subseteq 1..BatchCap /\ outcome \in Seq(Outcomes)
  /\ age \in 0..Pace /\ left \in 0..PhaseTime
  /\ {sent, failed, streak, worst} \subseteq Nat
  /\ results \in Seq([sent : Nat, failed : Nat, cascade : BOOLEAN])
  /\ clock \in 0..(RecoveryTime + 1) /\ recovery \in 0..(RecoveryTime + 1)
  /\ status \in {"none", "pass", "fail", "error"}
  /\ refused \in BOOLEAN /\ probes \in Nat /\ recovered \in BOOLEAN /\ lost \in 0..MaxLost

\* However late requests are served, a window meets no more than two batches (and
\* the request that waited for readiness only the first): with a limit of two full
\* batches, no phase is refused anything, BREACH included.
LargeLimitsAreNeverMet == limit >= 2 * BatchCap => ~refused

\* The endpoint recovers although it is looked at all the while: a window outlives
\* no more looks than fit in it, so that the next one that is answered succeeds.
LooksEndWithTheWindow == probes <= Window \div Poll + 1

\* A gate with such a limit blames the target for nothing but a look that was
\* answered after the timeout: without a fault it cannot fail for any other reason,
\* whether a phase has sent many batches or, for its clock ran out first, none.
LargeLimitsPass ==
  /\ LargeLimitsAreNeverMet
  /\ lost = 0 /\ limit >= 2 * BatchCap /\ status = "fail" => recovery > RecoveryTime

\* A run that has begun ends with a verdict, even when the emulator has died.
EndsWithVerdict == at = "starting" ~> status # "none"

\* "Recovery within 30s", which BREACH is documented to need.  It does not hold,
\* and no run checks it: an endpoint that never answers 200 again is given exactly
\* the timeout, and the verdict asks for more than that.
PassMeansRecovered == status = "pass" /\ results # <<>> => recovered

\* "NORMAL at 70% of rate limit".  It does not hold, and no run checks it: with a
\* limit below two batches, a late first batch leaves its window to the next.
NormalIsNeverRefused == phase = 1 => ~refused
=============================================================================
