------------------------------- MODULE Stress -------------------------------
(***************************************************************************)
(* The stress driver (stress.go): workers take the indices of a list of    *)
(* queries from an atomic counter, search, count what they saw and compare *)
(* every Nth answer with Dijkstra's.  A worker goes on after a failure and *)
(* after the caller's context has ended.  The counters are read when all   *)
(* workers have returned.                                                  *)
(***************************************************************************)
EXTENDS SearchRun, FiniteSets

CONSTANT Worker

ASSUME WorkerAssumption == Worker # {}

VARIABLES
  next,       \* the atomic counter
  worker,     \* of a worker: where it is, and the index it has taken
  answers,    \* (history) what the search of an index returned
  baselines,  \* (history) what Dijkstra returned for it
  durations,  \* the slice the workers share
  completed, reachable, verified, correct, failures,
  parentErr,  \* the caller's context has ended
  stressReport

counters == <<completed, reachable, verified, correct, failures>>
stressVars == <<next, worker, answers, baselines, durations, counters, parentErr, stressReport>>

Index == 0 .. cfg.queries - 1
NoReport == [made |-> FALSE]

StressInit ==
  /\ next = 0
  /\ worker = [w \in Worker |-> [at |-> "claim", i |-> 0]]
  /\ answers = [i \in Index |-> ResultZero]
  /\ baselines = [i \in Index |-> ResultZero]
  /\ durations = [i \in Index |-> 0]
  /\ completed = 0 /\ reachable = 0 /\ verified = 0 /\ correct = 0 /\ failures = 0
  /\ parentErr = FALSE /\ stressReport = NoReport

ClaimFromOne == next + 1   \* fault: the counter's new value
Claimed == next

Claim(w) ==
  /\ worker[w].at = "claim"
  /\ next' = next + 1
  /\ worker' = [worker EXCEPT ![w] =
       IF Claimed < cfg.queries THEN [at |-> "search", i |-> Claimed] ELSE [at |-> "left", i |-> 0]]
  /\ UNCHANGED <<answers, baselines, durations, counters, parentErr, stressReport>>

Good(r) == r.ok /\ (r.reachable => r.valid)
Sampled(i) == cfg.verifyEvery > 0 /\ i % cfg.verifyEvery = 0

Search(w) ==
  /\ worker[w].at = "search"
  /\ \E r \in cfg.outcomes :
       LET i == worker[w].i
       IN  /\ answers' = [answers EXCEPT ![i] = r]
           /\ IF Good(r)
              THEN /\ durations' = [durations EXCEPT ![i] = Measured(r.ns)]
                   /\ completed' = completed + 1
                   /\ reachable' = IF r.reachable THEN reachable + 1 ELSE reachable
                   /\ UNCHANGED failures
              ELSE failures' = failures + 1 /\ UNCHANGED <<durations, completed, reachable>>
           /\ worker' = [worker EXCEPT ![w].at = IF Good(r) /\ Sampled(i) THEN "verify" ELSE "claim"]
  /\ UNCHANGED <<next, baselines, verified, correct, parentErr, stressReport>>

Verify(w) ==
  /\ worker[w].at = "verify"
  /\ verified' = verified + 1
  /\ \E b \in cfg.outcomes :
       LET i == worker[w].i
       IN  /\ baselines' = [baselines EXCEPT ![i] = b]
           /\ IF b.ok /\ Agrees(answers[i], b)
              THEN correct' = correct + 1 /\ UNCHANGED failures
              ELSE failures' = failures + 1 /\ UNCHANGED correct
  /\ worker' = [worker EXCEPT ![w].at = "claim"]
  /\ UNCHANGED <<next, answers, durations, completed, reachable, parentErr, stressReport>>

\* wg.Wait has returned.  Only positive durations enter the statistics.
Report ==
  /\ ~stressReport.made
  /\ \A w \in Worker : worker[w].at = "left"
  /\ stressReport' =
       [made |-> TRUE, err |-> parentErr, completed |-> completed, reachable |-> reachable,
        verified |-> verified, correct |-> correct, errors |-> failures,
        timed |-> Cardinality({i \in Index : durations[i] > 0}),
        allVerifiedCorrect |-> failures = 0 /\ verified = correct]
  /\ UNCHANGED <<next, worker, answers, baselines, durations, counters, parentErr>>

\* The caller's context ends; searches may still answer, or return its error.
ParentEnds ==
  /\ ~stressReport.made /\ ~parentErr
  /\ parentErr' = TRUE
  /\ UNCHANGED <<next, worker, answers, baselines, durations, counters, stressReport>>

Work(w) == Claim(w) \/ Search(w) \/ Verify(w)
RunStress == (\E w \in Worker : Work(w)) \/ Report

\* What RunStress accepts, and what its searches may return.
StressConfig ==
  cfg.queries \in Nat /\ cfg.verifyEvery \in Nat /\ cfg.outcomes \subseteq Result

StressSpec ==
  StressConfig /\ StressInit /\ [][(RunStress \/ ParentEnds) /\ UNCHANGED cfg]_<<stressVars, cfg>>

\* ---------------------------------------------------------------------------
\* Properties

\* The report of any number of racing workers is that of one worker who took the
\* queries in turn: each query was run once and counted once, each completed one
\* is in the statistics, and the verdict is good exactly when every query was
\* answered with a valid route or none and every Nth answer was Dijkstra's
\* (stress.go:97-131, 162).
StressVerdict ==
  stressReport.made =>
    LET answered == {i \in Index : Good(answers[i])}
    IN  /\ stressReport.completed = Cardinality(answered)
        /\ stressReport.timed = Cardinality(answered)
        /\ stressReport.reachable = Cardinality({i \in answered : answers[i].reachable})
        /\ stressReport.verified = Cardinality({i \in answered : Sampled(i)})
        /\ stressReport.allVerifiedCorrect
             <=> \A i \in Index : /\ Good(answers[i])
                                  /\ Sampled(i) => baselines[i].ok /\ Agrees(answers[i], baselines[i])
=============================================================================
