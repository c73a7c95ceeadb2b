------------------------------ MODULE Campaign ------------------------------
(***************************************************************************)
(* The tail campaign: scripts/validate-tail.sh benchmarks one seed after   *)
(* the other into a report file each, resumes with the reports that are    *)
(* there when it was killed, and lets validate-regret judge them all       *)
(* (regret.go, regret_matrix.go).  The directory holds nothing at first.   *)
(***************************************************************************)
EXTENDS Benchmark

VARIABLES
  script,   \* "seed", "benchmark", "move", "validate", or how it has ended
  seed,     \* the seed it is at
  tmp,      \* the report that is written, before it gets its name
  reports,  \* the report files
  kills     \* how often it was killed

campaignVars == <<script, seed, tmp, reports, kills>>

NoFile == [there |-> FALSE]

CampaignInit ==
  /\ script = "seed" /\ seed = 1 /\ tmp = NoFile
  /\ reports = [s \in 1 .. cfg.seeds |-> NoFile] /\ kills = 0

\* A report is used again when it is complete and all correct.
valid_report(file) ==
  file.there /\ file.allCorrect /\ file.queries = cfg.queries /\ file.samples # <<>>

\* The next seed, or the end of them.
Onwards ==
  /\ seed' = seed + 1
  /\ script' = IF seed < cfg.seeds THEN "seed" ELSE "validate"

Resume ==
  /\ script = "seed" /\ valid_report(reports[seed])
  /\ Onwards
  /\ UNCHANGED <<tmp, reports, kills, benchVars>>

Start ==
  /\ script = "seed" /\ ~valid_report(reports[seed])
  /\ script' = "benchmark" /\ tmp' = NoFile
  /\ BenchAgain
  /\ UNCHANGED <<seed, reports, kills>>

\* The command writes its report, unless Run returned an error, and fails when the
\* report is not all correct.  A failed command ends the script.
Written ==
  /\ script = "benchmark" /\ at = "returned"
  /\ tmp' = IF benchErr THEN tmp
            ELSE [there |-> TRUE, allCorrect |-> allCorrect, queries |-> cfg.queries,
                  samples |-> samples]
  /\ script' = IF benchErr \/ ~allCorrect THEN "aborted" ELSE "move"
  /\ UNCHANGED <<seed, reports, kills, benchVars>>

Move ==
  /\ script = "move"
  /\ reports' = [reports EXCEPT ![seed] = tmp] /\ tmp' = NoFile
  /\ Onwards
  /\ UNCHANGED <<kills, benchVars>>

\* ---------------------------------------------------------------------------
\* validate-regret

isClassical(alg) == alg \in {"dijkstra", "bidijkstra", "astar"}

\* The samples of a query that a row is made of: those of the algorithm, and the
\* correct ones of the classical algorithms that took some time.
Targets(report, q) ==
  {s \in ToSet(report.samples) : s.query = q /\ s.algorithm = "aegis"}
Baselines(report, q) ==
  {s \in ToSet(report.samples) : s.query = q /\ isClassical(s.algorithm) /\ s.ns > 0 /\ s.correct}

HasRow(report, q) ==
  /\ \E t \in Targets(report, q) : t.ns > 0 /\ t.correct
  /\ Baselines(report, q) # {}

\* At least 1.25 times the fastest, and slower by the floor.
Meaningful(report, q) ==
  \E t \in Targets(report, q), b \in Baselines(report, q) :
    4 * t.ns >= 5 * b.ns /\ t.ns - b.ns >= cfg.penaltyFloor

\* Reports that have no row are skipped, whatever their verdict.
Rows(report) == {q \in 0 .. report.queries - 1 : HasRow(report, q)}
Analyzed == {s \in DOMAIN reports : reports[s].there /\ Rows(reports[s]) # {}}

RowsIn(seeds) == UNION {{s} \X Rows(reports[s]) : s \in seeds}

minimumOfOne == 1   \* fault: any query is enough
minimum == cfg.queries * cfg.seeds

Passed ==
  /\ \A s \in Analyzed : reports[s].allCorrect
  /\ Cardinality(RowsIn(Analyzed)) >= minimum
  /\ Cardinality({r \in RowsIn(Analyzed) : Meaningful(reports[r[1]], r[2])})
       <= cfg.maximum * Cardinality(RowsIn(Analyzed))

validate_regret ==
  /\ script = "validate"
  /\ script' = IF Analyzed = {} THEN "aborted" ELSE IF Passed THEN "passed" ELSE "failed"
  /\ UNCHANGED <<seed, tmp, reports, kills, benchVars>>

\* ---------------------------------------------------------------------------

\* The script is killed at any point and started again; the files stay.
Kill ==
  /\ script \in {"seed", "benchmark", "move", "validate"} /\ kills < cfg.maxKills
  /\ script' = "killed" /\ kills' = kills + 1
  /\ UNCHANGED <<seed, tmp, reports, benchVars>>

Restart ==
  /\ script \in {"killed", "aborted"} /\ kills < cfg.maxKills
  /\ script' = "seed" /\ seed' = 1 /\ kills' = kills + 1
  /\ UNCHANGED <<tmp, reports, benchVars>>

Campaigning ==
  \/ Resume \/ Start \/ Written \/ Move \/ validate_regret
  \/ script = "benchmark" /\ Bench /\ UNCHANGED campaignVars

\* What the script accepts.  No slowdown is let pass, which is its default.
CampaignConfig ==
  BenchConfig /\ cfg.seeds \in Nat \ {0} /\ cfg.penaltyFloor \in Nat /\ cfg.maximum = 0

CampaignSpec ==
  /\ CampaignConfig /\ BenchInit /\ CampaignInit
  /\ [][(Campaigning \/ Kill \/ Restart) /\ UNCHANGED cfg]_<<benchVars, campaignVars, cfg>>

\* ---------------------------------------------------------------------------
\* Properties

\* A campaign that passes has judged every query of every seed, however often it
\* was killed and resumed: each report is there, complete and without a wrong
\* sample, each query has the times of the algorithm and of a classical one, and
\* none was a meaningful slowdown (validate-tail.sh, regret_matrix.go:93-210).
CampaignVerdict ==
  script = "passed" =>
    \A s \in 1 .. cfg.seeds :
      /\ reports[s].there
      /\ \A q \in 0 .. cfg.queries - 1 :
           LET sampled == {x \in ToSet(reports[s].samples) : x.query = q}
           IN  /\ {x.algorithm : x \in sampled} = Algorithms
               /\ \A x \in sampled : x.correct
               /\ \E t, b \in sampled :
                    /\ t.algorithm = "aegis" /\ isClassical(b.algorithm) /\ t.ns > 0 /\ b.ns > 0
                    /\ 4 * t.ns < 5 * b.ns \/ t.ns - b.ns < cfg.penaltyFloor
                    /\ \A c \in sampled : isClassical(c.algorithm) /\ c.ns > 0 => b.ns <= c.ns
=============================================================================
