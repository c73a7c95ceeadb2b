------------------------------ MODULE Benchmark ------------------------------
(***************************************************************************)
(* The benchmark (bench.go:187-420): for each query one run of Dijkstra's  *)
(* algorithm as the reference, then the timed batches of every algorithm,  *)
(* then one sample per algorithm, of its median batch.  A batch is judged  *)
(* by its last search and fails with the first search that does.           *)
(***************************************************************************)
EXTENDS SearchRun, FiniteSets, SequencesExt

VARIABLES
  at,          \* "reference", "measuring" or "returned"
  qi,          \* the query
  expected,    \* Dijkstra's result for it
  runs,        \* the batches of each algorithm for it
  samples,     \* those of the report; a sample keeps the batches it was made of
  allCorrect,  \* the verdict of the report
  benchErr     \* Run has returned an error

benchVars == <<at, qi, expected, runs, samples, allCorrect, benchErr>>

Algorithms == ToSet(cfg.algorithms)
NoRuns == [alg \in Algorithms |-> <<>>]

BenchInit ==
  /\ at = "reference" /\ qi = 0 /\ expected = ResultZero /\ runs = NoRuns
  /\ samples = <<>> /\ allCorrect = TRUE /\ benchErr = FALSE

\* Run starts over, in another process.
BenchAgain ==
  /\ at' = "reference" /\ qi' = 0 /\ expected' = ResultZero /\ runs' = NoRuns
  /\ samples' = <<>> /\ allCorrect' = TRUE /\ benchErr' = FALSE

\* Without a reference the benchmark is given up.
Reference ==
  /\ at = "reference"
  /\ \E r \in cfg.outcomes :
       IF r.ok
       THEN at' = "measuring" /\ expected' = r /\ UNCHANGED benchErr
       ELSE at' = "returned" /\ benchErr' = TRUE /\ UNCHANGED expected
  /\ UNCHANGED <<qi, runs, samples, allCorrect>>

Failed(alg) == \E k \in DOMAIN runs[alg] : ~runs[alg][k].ok

\* An algorithm has all its batches; in rotated order it stops at one that fails.
Through(alg) == Len(runs[alg]) = cfg.repeats \/ (cfg.order = "rotated" /\ Failed(alg))

\* Interleaved: one batch of every algorithm, shuffled, then the next round.
\* Rotated: all batches of one algorithm, then of the next, another first each time.
Turn(alg) ==
  LET order == Rotated(cfg.algorithms, qi)
  IN  IF cfg.order = "interleaved"
      THEN \A other \in Algorithms : Len(runs[alg]) <= Len(runs[other])
      ELSE \A k \in DOMAIN order : order[k] = alg => \A j \in 1 .. k - 1 : Through(order[j])

Batch(alg) ==
  /\ at = "measuring" /\ ~Through(alg) /\ Turn(alg)
  /\ \E r \in cfg.outcomes : runs' = [runs EXCEPT ![alg] = Append(@, r)]
  /\ UNCHANGED <<at, qi, expected, samples, allCorrect, benchErr>>

\* The results that may be in the middle after sort.Slice by duration.
Medians(s) ==
  LET m == Len(s) \div 2
  IN  {r \in ToSet(s) : /\ Cardinality({k \in DOMAIN s : s[k].ns < r.ns}) <= m
                        /\ Cardinality({k \in DOMAIN s : s[k].ns <= r.ns}) > m}

\* What a sample is made of: a result, the zero one of an algorithm that failed,
\* and whether there is an error.  A sample of a zero result names no algorithm.
Measurements(alg) == IF Failed(alg) THEN {ResultZero} ELSE Medians(runs[alg])

\* The untimed run that measures allocations, when there is a result.
MemoryRuns(alg) ==
  IF cfg.measureMemory /\ ~Failed(alg) THEN {r.ok : r \in cfg.outcomes} ELSE {TRUE}

CorrectAsMeasured(r, error) == Agrees(r, expected) /\ r.valid   \* fault: errors ignored
Correct(r, error) == ~error /\ Agrees(r, expected) /\ r.valid

Judge ==
  /\ at = "measuring" /\ \A alg \in Algorithms : Through(alg)
  /\ LET alg == cfg.algorithms[(Len(samples) % Len(cfg.algorithms)) + 1]
         last == (Len(samples) + 1) % Len(cfg.algorithms) = 0
     IN  /\ \E r \in Measurements(alg), memory \in MemoryRuns(alg) :
              LET error == Failed(alg) \/ ~memory
              IN  /\ samples' = Append(samples,
                       [query |-> qi, algorithm |-> IF Failed(alg) THEN "" ELSE alg,
                        ns |-> r.ns, correct |-> Correct(r, error), error |-> error,
                        of |-> alg, runs |-> runs[alg], expected |-> expected])
                  /\ allCorrect' = (allCorrect /\ Correct(r, error))
         /\ IF last
            THEN /\ qi' = qi + 1 /\ runs' = NoRuns
                 /\ at' = IF qi + 1 < cfg.queries THEN "reference" ELSE "returned"
            ELSE UNCHANGED <<qi, runs, at>>
  /\ UNCHANGED <<expected, benchErr>>

Bench == Reference \/ (\E alg \in Algorithms : Batch(alg)) \/ Judge

\* What Run accepts, once it has put in the defaults, and what its searches may
\* return.  An algorithm is listed once.
BenchConfig ==
  /\ cfg.queries \in Nat \ {0} /\ cfg.repeats \in Nat \ {0}
  /\ cfg.order \in {"interleaved", "rotated"}
  /\ cfg.algorithms \in Seq(Algorithms) /\ Algorithms # {} /\ "" \notin Algorithms
  /\ IsInjective(cfg.algorithms)
  /\ cfg.outcomes \subseteq Result

BenchSpec == BenchConfig /\ BenchInit /\ [][Bench /\ UNCHANGED cfg]_<<benchVars, cfg>>

\* ---------------------------------------------------------------------------
\* Properties

\* The verdict of a finished benchmark: every algorithm has one sample for every
\* query, and all is correct only if no batch failed and the reported batch of each
\* sample, one that is in the middle of its algorithm's, answered as Dijkstra did;
\* where every batch did so, and every untimed run, the verdict is good.  A batch
\* that is not reported may be wrong and go unseen (bench.go:265-320, 327-358).
BenchVerdict ==
  at = "returned" /\ ~benchErr =>
    LET right(s, k) == s.runs[k].ok /\ Agrees(s.runs[k], s.expected) /\ s.runs[k].valid
    IN  /\ {<<s.query, s.of>> : s \in ToSet(samples)} = (0 .. cfg.queries - 1) \X Algorithms
        /\ Len(samples) = cfg.queries * Cardinality(Algorithms)
        /\ allCorrect =>
             \A s \in ToSet(samples) :
               /\ ~s.error /\ Len(s.runs) = cfg.repeats
               /\ \A k \in DOMAIN s.runs : s.runs[k].ok
               /\ \E k \in DOMAIN s.runs : right(s, k) /\ s.runs[k].ns = s.ns
        /\ (\A s \in ToSet(samples) : (s.algorithm = "" \/ ~s.error)
                                       /\ \A k \in DOMAIN s.runs : right(s, k))
             => allCorrect
=============================================================================
