---------------------------- MODULE ToolsProofs ----------------------------
(***************************************************************************)
(* The verdicts of the tools mean what they say, whatever the searches     *)
(* return: those of the stress driver, for any number of workers and       *)
(* however they interleave, of the benchmark, of the campaign of           *)
(* benchmarks, wherever it is killed, and of the replay.                   *)
(***************************************************************************)
EXTENDS Stress, Campaign, Replay, FiniteSetTheorems, Recursion

Busy == {"search", "verify"}
Searching(i) == \E w \in Worker : worker[w].at = "search" /\ worker[w].i = i
Verifying(i) == \E w \in Worker : worker[w].at = "verify" /\ worker[w].i = i

\* The queries that have been run, by what came of them.
Answered == {i \in Index : Good(answers[i])}
Reached == {i \in Answered : answers[i].reachable}
Missed == {i \in Index : i < next /\ ~Searching(i) /\ ~Good(answers[i])}

\* Those that have been compared with Dijkstra's answer.
AnsweredRight(i) == baselines[i].ok /\ Agrees(answers[i], baselines[i])
Checked == {i \in Answered : Sampled(i) /\ ~Verifying(i)}
Right == {i \in Checked : AnsweredRight(i)}
Wrong == {i \in Checked : ~AnsweredRight(i)}

Types ==
  /\ next \in Nat
  /\ worker \in [Worker -> [at : {"claim", "left"} \cup Busy, i : Nat]]
  /\ answers \in [Index -> Result] /\ baselines \in [Index -> Result]
  /\ durations \in [Index -> Nat]

\* No index is with two workers, and none that is still with a worker, or with
\* nobody yet, has been entered in the books.
Claims ==
  /\ \A w \in Worker : worker[w].at \in Busy => worker[w].i \in Index /\ worker[w].i < next
  /\ \A v, w \in Worker :
       v # w /\ worker[v].at \in Busy /\ worker[w].at \in Busy => worker[v].i # worker[w].i
  /\ \A w \in Worker : worker[w].at = "left" => next >= cfg.queries
  /\ \A w \in Worker : worker[w].at = "search" => ~Good(answers[worker[w].i])
  /\ \A w \in Worker : worker[w].at = "verify" =>
       Good(answers[worker[w].i]) /\ Sampled(worker[w].i)
  /\ \A i \in Index : i >= next => ~Good(answers[i])

Books ==
  /\ \A i \in Index : durations[i] > 0 <=> Good(answers[i])
  /\ completed = Cardinality(Answered)
  /\ reachable = Cardinality(Reached)
  /\ verified = Cardinality(Checked)
  /\ correct = Cardinality(Right)
  /\ failures = Cardinality(Missed) + Cardinality(Wrong)

BooksReport(e) ==
  [made |-> TRUE, err |-> e, completed |-> completed, reachable |-> reachable,
   verified |-> verified, correct |-> correct, errors |-> failures,
   timed |-> Cardinality({i \in Index : durations[i] > 0}),
   allVerifiedCorrect |-> failures = 0 /\ verified = correct]

\* A report is made once, of the books, when all workers have left.
Reported ==
  \/ stressReport = NoReport
  \/ /\ \A w \in Worker : worker[w].at = "left"
     /\ \E e \in BOOLEAN : stressReport = BooksReport(e)

\* StressVerdict speaks of the end only: the counters agree with the queries at
\* every moment once those that are under way are left out.
IInv == StressConfig /\ parentErr \in BOOLEAN /\ Types /\ Claims /\ Books /\ Reported

-----------------------------------------------------------------------------
(* Counting.                                                               *)

LEMMA IndexFinite ==
  ASSUME StressConfig
  PROVE  IsFiniteSet(Index) /\ \A S \in SUBSET Index : IsFiniteSet(S) /\ Cardinality(S) \in Nat
<1>1. IsFiniteSet(Index)
  BY FS_Interval DEF StressConfig, Index
<1>2. ASSUME NEW S \in SUBSET Index
      PROVE  IsFiniteSet(S) /\ Cardinality(S) \in Nat
  BY <1>1, FS_Subset, FS_CardinalityType
<1>3. QED
  BY <1>1, <1>2

LEMMA OneMore ==
  ASSUME StressConfig, NEW S \in SUBSET Index, NEW T, NEW i \in Index, i \notin S, T = S \cup {i}
  PROVE  Cardinality(T) = Cardinality(S) + 1
BY IndexFinite, FS_AddElement

LEMMA ZeroIsBad == ~Good(ResultZero)
BY DEF Good, ResultZero

LEMMA Initially == StressConfig /\ StressInit => IInv
<1> SUFFICES ASSUME StressConfig, StressInit
             PROVE  IInv
  OBVIOUS
<1>1. ResultZero \in Result
  BY DEF ResultZero, Result
<1>2. Types
  BY <1>1 DEF Types, StressInit
<1>3. Claims
  BY ZeroIsBad DEF Claims, StressInit, Busy
<1>4. Answered = {} /\ Reached = {} /\ Checked = {} /\ Right = {} /\ Wrong = {} /\ Missed = {}
  BY ZeroIsBad DEF Answered, Reached, Checked, Right, Wrong, Missed, StressInit, Index, StressConfig
<1>5. Books
  BY <1>4, ZeroIsBad, FS_EmptySet DEF Books, StressInit
<1>6. QED
  BY <1>2, <1>3, <1>5 DEF IInv, Reported, StressInit

-----------------------------------------------------------------------------
(* The sets after each step of a worker.                                   *)

LEMMA ClaimKeeps ==
  ASSUME IInv, NEW w \in Worker, Claim(w), cfg' = cfg
  PROVE  IInv'
<1> USE DEF IInv, Busy
<1>1. Types'
  BY DEF Types, Claim, Index, Claimed
<1>2. Claims'
  BY DEF Types, Claims, Claim, Index, Claimed, StressConfig, Sampled
<1>3. \A i \in Index : Verifying(i)' <=> Verifying(i)
  BY DEF Types, Claim, Verifying
<1>4. \A i \in Index : (i < next /\ ~Searching(i))' <=> (i < next /\ ~Searching(i))
  <2>1. ASSUME NEW i \in Index, i < next
        PROVE  Searching(i)' <=> Searching(i)
    BY <2>1 DEF Types, Claim, Searching, Claimed, Index
  <2>2. ASSUME NEW i \in Index, i = next
        PROVE  Searching(i)'
    BY <2>2 DEF Types, Claim, Searching, Claimed, Index, StressConfig
  <2>3. QED
    BY <2>1, <2>2 DEF Types, Claim, Index, StressConfig
<1>5. Answered' = Answered /\ Reached' = Reached /\ Missed' = Missed
  BY <1>4 DEF Answered, Reached, Missed, Claim, Index
<1>6. Checked' = Checked /\ Right' = Right /\ Wrong' = Wrong
  BY <1>3, <1>5 DEF Checked, Right, Wrong, AnsweredRight, Answered, Claim, Index, Sampled
<1>7. Books'
  BY <1>5, <1>6 DEF Books, Claim, counters, Index
<1>8. Reported'
  BY DEF Reported, Claim
<1>9. QED
  BY <1>1, <1>2, <1>7, <1>8 DEF StressConfig, Claim

LEMMA SearchKeeps ==
  ASSUME IInv, NEW w \in Worker, Search(w), cfg' = cfg
  PROVE  IInv'
<1> USE DEF IInv, Busy
<1>0. PICK i : i = worker[w].i
  OBVIOUS
<1>1. PICK r \in cfg.outcomes :
        /\ answers' = [answers EXCEPT ![i] = r]
        /\ IF Good(r)
           THEN /\ durations' = [durations EXCEPT ![i] = Measured(r.ns)]
                /\ completed' = completed + 1
                /\ reachable' = IF r.reachable THEN reachable + 1 ELSE reachable
                /\ UNCHANGED failures
           ELSE failures' = failures + 1 /\ UNCHANGED <<durations, completed, reachable>>
        /\ worker' = [worker EXCEPT ![w].at = IF Good(r) /\ Sampled(i) THEN "verify" ELSE "claim"]
  BY <1>0 DEF Search
<1>2. /\ r \in Result /\ i \in Index /\ i < next /\ ~Good(answers[i])
      /\ worker[w].at = "search" /\ Measured(r.ns) \in Nat /\ Measured(r.ns) > 0
  BY <1>0, <1>1 DEF Search, Claims, StressConfig, Result, Measured
<1>3. UNCHANGED <<next, baselines, verified, correct, parentErr, stressReport>> /\ Index' = Index
  BY DEF Search, Index
<1>4. Types'
  BY <1>1, <1>2, <1>3 DEF Types
<1>5. \A v \in Worker : v # w => worker'[v] = worker[v]
  BY <1>1 DEF Types
<1>6. worker'[w] = [at |-> IF Good(r) /\ Sampled(i) THEN "verify" ELSE "claim", i |-> i]
  BY <1>0, <1>1 DEF Types
<1>7. answers'[i] = r /\ \A j \in Index : j # i => answers'[j] = answers[j]
  BY <1>1, <1>2 DEF Types
<1>8. \A v \in Worker : v # w /\ worker[v].at \in Busy => worker[v].i # i
  BY <1>0, <1>2 DEF Claims
<1>9. \A j \in Index : Sampled(j)' <=> Sampled(j)
  BY DEF Sampled
<1>10. Claims'
  <2>1. \A v \in Worker : worker'[v].at \in Busy => worker'[v].i \in Index /\ worker'[v].i < next
    BY <1>2, <1>5, <1>6 DEF Claims
  <2>2. \A u, v \in Worker : u # v /\ worker'[u].at \in Busy /\ worker'[v].at \in Busy
                              => worker'[u].i # worker'[v].i
    BY <1>5, <1>6, <1>8 DEF Claims
  <2>3. \A v \in Worker : worker'[v].at = "left" => next >= cfg.queries
    BY <1>5, <1>6 DEF Claims
  <2>4. \A v \in Worker : worker'[v].at = "search" => ~Good(answers'[worker'[v].i])
    BY <1>5, <1>6, <1>7, <1>8 DEF Claims
  <2>5. \A v \in Worker : worker'[v].at = "verify" =>
          Good(answers'[worker'[v].i]) /\ Sampled(worker'[v].i)
    BY <1>5, <1>6, <1>7, <1>8 DEF Claims
  <2>6. \A j \in Index : j >= next => ~Good(answers'[j])
    BY <1>2, <1>7 DEF Claims, Index, Types, StressConfig
  <2>7. QED
    BY <1>3, <1>9, <2>1, <2>2, <2>3, <2>4, <2>5, <2>6 DEF Claims
<1>11. \A j \in Index : j # i => (Searching(j)' <=> Searching(j)) /\ (Verifying(j)' <=> Verifying(j))
  BY <1>0, <1>5, <1>6 DEF Searching, Verifying
<1>12. Searching(i) /\ ~Searching(i)' /\ (Verifying(i)' <=> Good(r) /\ Sampled(i))
  BY <1>0, <1>2, <1>5, <1>6, <1>8 DEF Searching, Verifying
<1>13. Checked' = Checked
  BY <1>2, <1>3, <1>7, <1>9, <1>11, <1>12 DEF Checked, Answered
<1>14. Right' = Right /\ Wrong' = Wrong
  BY <1>2, <1>3, <1>7, <1>13 DEF Right, Wrong, AnsweredRight, Checked, Answered
<1>15. Reported'
  BY <1>2, <1>3 DEF Reported
<1>16. CASE Good(r)
  <2>1. Answered' = Answered \cup {i} /\ i \notin Answered
    BY <1>2, <1>3, <1>7, <1>16 DEF Answered
  <2>2. /\ r.reachable => Reached' = Reached \cup {i} /\ i \notin Reached
        /\ ~r.reachable => Reached' = Reached
    BY <1>2, <1>7, <2>1 DEF Reached, Answered
  <2>3. Missed' = Missed
    BY <1>2, <1>3, <1>7, <1>11, <1>12, <1>16 DEF Missed
  <2>4. Cardinality(Answered') = Cardinality(Answered) + 1
    BY <1>2, <2>1, OneMore DEF Answered
  <2>5. r.reachable => Cardinality(Reached') = Cardinality(Reached) + 1
    BY <1>2, <2>2, OneMore DEF Reached, Answered
  <2>6. \A j \in Index : (durations[j] > 0)' <=> Good(answers[j])'
    BY <1>1, <1>2, <1>7, <1>16 DEF Books, Types
  <2>7. Books'
    BY <1>1, <1>3, <1>13, <1>14, <1>16, <2>2, <2>3, <2>4, <2>5, <2>6 DEF Books
  <2>8. QED
    BY <1>3, <1>4, <1>10, <1>15, <2>7 DEF StressConfig
<1>17. CASE ~Good(r)
  <2>1. Answered' = Answered /\ Reached' = Reached
    BY <1>2, <1>3, <1>7, <1>17 DEF Answered, Reached
  <2>2. Missed' = Missed \cup {i} /\ i \notin Missed
    BY <1>2, <1>3, <1>7, <1>11, <1>12, <1>17 DEF Missed
  <2>3. Cardinality(Missed') = Cardinality(Missed) + 1
    BY <1>2, <2>2, OneMore DEF Missed
  <2>4. Cardinality(Missed) \in Nat /\ Cardinality(Wrong) \in Nat
    BY IndexFinite DEF Missed, Wrong, Checked, Answered
  <2>5. \A j \in Index : (durations[j] > 0)' <=> Good(answers[j])'
    BY <1>1, <1>2, <1>7, <1>17 DEF Books, Types
  <2>6. Books'
    BY <1>1, <1>3, <1>13, <1>14, <1>17, <2>1, <2>3, <2>4, <2>5 DEF Books
  <2>7. QED
    BY <1>3, <1>4, <1>10, <1>15, <2>6 DEF StressConfig
<1>18. QED
  BY <1>16, <1>17

LEMMA VerifyKeeps ==
  ASSUME IInv, NEW w \in Worker, Verify(w), cfg' = cfg
  PROVE  IInv'
<1> USE DEF IInv, Busy
<1>0. PICK i : i = worker[w].i
  OBVIOUS
<1>1. PICK b \in cfg.outcomes :
        /\ baselines' = [baselines EXCEPT ![i] = b]
        /\ IF b.ok /\ Agrees(answers[i], b)
           THEN correct' = correct + 1 /\ UNCHANGED failures
           ELSE failures' = failures + 1 /\ UNCHANGED correct
  BY <1>0 DEF Verify
<1>2. /\ b \in Result /\ i \in Index /\ i < next /\ Good(answers[i]) /\ Sampled(i)
      /\ worker[w].at = "verify"
  BY <1>0, <1>1 DEF Verify, Claims, StressConfig
<1>3. /\ UNCHANGED <<next, answers, durations, completed, reachable, parentErr, stressReport>>
      /\ Index' = Index /\ verified' = verified + 1
  BY DEF Verify, Index
<1>4. Types'
  <2>1. worker' \in [Worker -> [at : {"claim", "left"} \cup Busy, i : Nat]]
    <3>1. worker' = [worker EXCEPT ![w].at = "claim"]  BY DEF Verify
    <3> QED  BY <3>1 DEF Types
  <2>2. baselines' \in [Index -> Result]  BY <1>1, <1>2 DEF Types
  <2> QED  BY <1>3, <2>1, <2>2 DEF Types
<1>5. \A v \in Worker : v # w => worker'[v] = worker[v]
  BY DEF Types, Verify
<1>6. worker'[w].at = "claim"
  BY DEF Types, Verify
<1>7. baselines'[i] = b /\ \A j \in Index : j # i => baselines'[j] = baselines[j]
  BY <1>1, <1>2 DEF Types
<1>8. \A v \in Worker : v # w /\ worker[v].at \in Busy => worker[v].i # i
  BY <1>0, <1>2 DEF Claims
<1>9. \A j \in Index : Sampled(j)' <=> Sampled(j)
  BY DEF Sampled
<1>10. Claims'
  BY <1>3, <1>5, <1>6, <1>9 DEF Claims
<1>11. \A j \in Index : (Searching(j)' <=> Searching(j)) /\ (j # i => (Verifying(j)' <=> Verifying(j)))
  BY <1>0, <1>2, <1>5, <1>6 DEF Searching, Verifying
<1>12. Verifying(i) /\ ~Verifying(i)'
  BY <1>0, <1>2, <1>5, <1>6, <1>8 DEF Verifying
<1>13. Answered' = Answered /\ Reached' = Reached /\ Missed' = Missed
  BY <1>3, <1>11 DEF Answered, Reached, Missed
<1>14. Checked' = Checked \cup {i} /\ i \notin Checked
  BY <1>2, <1>3, <1>9, <1>11, <1>12, <1>13 DEF Checked, Answered
<1>15. Cardinality(Checked') = Cardinality(Checked) + 1
  BY <1>2, <1>14, OneMore DEF Checked, Answered
<1>16. (\A j \in Checked : AnsweredRight(j)' <=> AnsweredRight(j)) /\ (AnsweredRight(i)' <=> b.ok /\ Agrees(answers[i], b))
  BY <1>3, <1>7, <1>14 DEF AnsweredRight, Checked, Answered
<1>17. Reported'
  BY <1>2, <1>3 DEF Reported
<1>18. /\ Cardinality(Missed) \in Nat /\ Cardinality(Wrong) \in Nat /\ Cardinality(Right) \in Nat
       /\ Right \in SUBSET Index /\ Wrong \in SUBSET Index
  BY IndexFinite DEF Missed, Wrong, Right, Checked, Answered
<1>19. CASE b.ok /\ Agrees(answers[i], b)
  <2>1. Right' = Right \cup {i} /\ i \notin Right /\ Wrong' = Wrong
    BY <1>14, <1>16, <1>19 DEF Right, Wrong
  <2>2. Cardinality(Right') = Cardinality(Right) + 1
    BY <1>2, <1>18, <2>1, OneMore
  <2>3. Books'
    BY <1>1, <1>3, <1>13, <1>15, <1>19, <2>1, <2>2 DEF Books
  <2>4. QED
    BY <1>3, <1>4, <1>10, <1>17, <2>3 DEF StressConfig
<1>20. CASE ~(b.ok /\ Agrees(answers[i], b))
  <2>1. Wrong' = Wrong \cup {i} /\ i \notin Wrong /\ Right' = Right
    BY <1>14, <1>16, <1>20 DEF Right, Wrong
  <2>2. Cardinality(Wrong') = Cardinality(Wrong) + 1
    BY <1>2, <1>18, <2>1, OneMore
  <2>3. Books'
    BY <1>1, <1>3, <1>13, <1>15, <1>18, <1>20, <2>1, <2>2 DEF Books
  <2>4. QED
    BY <1>3, <1>4, <1>10, <1>17, <2>3 DEF StressConfig
<1>21. QED
  BY <1>19, <1>20

-----------------------------------------------------------------------------
(* The specification.                                                      *)

LEMMA UnchangedKeeps ==
  ASSUME IInv, UNCHANGED <<next, worker, answers, baselines, durations, counters>>, cfg' = cfg,
         Reported', parentErr' \in BOOLEAN
  PROVE  IInv'
<1>1. Types' /\ Claims'
  BY DEF IInv, Types, Claims, Index, Sampled
<1>2. /\ Answered' = Answered /\ Reached' = Reached /\ Missed' = Missed
      /\ Checked' = Checked /\ Right' = Right /\ Wrong' = Wrong
  BY DEF Answered, Reached, Missed, Checked, Right, Wrong, AnsweredRight, Index, Sampled, Searching, Verifying
<1>3. Books'
  BY <1>2 DEF IInv, Books, counters, Index
<1>4. QED
  BY <1>1, <1>3 DEF IInv, StressConfig

LEMMA StepKeeps ==
  ASSUME IInv, [(RunStress \/ ParentEnds) /\ UNCHANGED cfg]_<<stressVars, cfg>>
  PROVE  IInv'
<1>1. CASE \E w \in Worker : Work(w) /\ cfg' = cfg
  BY <1>1, ClaimKeeps, SearchKeeps, VerifyKeeps DEF Work
<1>2. CASE Report /\ cfg' = cfg
  <2>1. Reported'
    BY <1>2, Zenon DEF IInv, Report, Reported, BooksReport, Index, counters
  <2>2. QED
    BY <1>2, <2>1, UnchangedKeeps DEF IInv, Report
<1>3. CASE ParentEnds /\ cfg' = cfg
  <2>1. stressReport = NoReport
    <3>1. ~stressReport.made
      BY <1>3 DEF ParentEnds
    <3>2. ASSUME stressReport # NoReport
          PROVE  FALSE
      <4>1. PICK e \in BOOLEAN : stressReport = BooksReport(e)
        BY <3>2 DEF IInv, Reported
      <4>2. QED
        BY <3>1, <4>1 DEF BooksReport
    <3>3. QED
      BY <3>2
  <2>2. Reported' /\ parentErr' \in BOOLEAN
    BY <1>3, <2>1 DEF ParentEnds, Reported
  <2>3. QED
    BY <1>3, <2>2, UnchangedKeeps DEF ParentEnds
<1>4. CASE UNCHANGED <<stressVars, cfg>>
  <2>1. Reported' /\ parentErr' \in BOOLEAN
    BY <1>4 DEF IInv, Reported, BooksReport, stressVars, counters, Index
  <2>2. QED
    BY <1>4, <2>1, UnchangedKeeps DEF stressVars
<1>5. QED
  BY <1>1, <1>2, <1>3, <1>4 DEF RunStress

\* The counters of the workers agree with the queries that are finished, at every
\* moment of every interleaving.
THEOREM StressBooks == StressSpec => []IInv
<1>1. StressConfig /\ StressInit => IInv
  BY Initially
<1>2. IInv /\ [(RunStress \/ ParentEnds) /\ UNCHANGED cfg]_<<stressVars, cfg>> => IInv'
  BY StepKeeps
<1>3. QED
  BY <1>1, <1>2, PTL DEF StressSpec

LEMMA InvariantSuffices == IInv => StressVerdict
<1> SUFFICES ASSUME IInv, stressReport.made
             PROVE  StressVerdict
  BY DEF StressVerdict
<1>1. stressReport # NoReport
  BY DEF NoReport
<1>2. (\A w \in Worker : worker[w].at = "left") /\ next >= cfg.queries
  BY <1>1, WorkerAssumption DEF IInv, Reported, Claims
<1>3. Checked = {i \in Answered : Sampled(i)} /\ Missed = Index \ Answered
  BY <1>2 DEF IInv, Types, Checked, Missed, Answered, Searching, Verifying, Index, StressConfig
<1>4. /\ stressReport.completed = completed /\ stressReport.reachable = reachable
      /\ stressReport.verified = verified
      /\ stressReport.timed = Cardinality({i \in Index : durations[i] > 0})
      /\ stressReport.allVerifiedCorrect = (failures = 0 /\ verified = correct)
  <2>1. PICK e \in BOOLEAN : stressReport = BooksReport(e)
    BY <1>1 DEF IInv, Reported
  <2>2. QED
    BY <2>1, Zenon DEF BooksReport
<1>5. {i \in Index : durations[i] > 0} = Answered
  BY DEF IInv, Books, Answered
<1>6. failures = 0 <=> Missed = {} /\ Wrong = {}
  <2>1. /\ IsFiniteSet(Missed) /\ IsFiniteSet(Wrong)
        /\ Cardinality(Missed) \in Nat /\ Cardinality(Wrong) \in Nat
    BY IndexFinite DEF IInv, Missed, Wrong, Checked, Answered
  <2>2. (Cardinality(Missed) = 0 <=> Missed = {}) /\ (Cardinality(Wrong) = 0 <=> Wrong = {})
    BY <2>1, FS_EmptySet
  <2>3. QED
    BY <2>1, <2>2 DEF IInv, Books
<1>7. Wrong = {} => verified = correct
  <2>1. Wrong = {} => Checked = Right
    BY DEF Wrong, Right
  <2>2. QED
    BY <2>1 DEF IInv, Books
<1>8. Missed = {} /\ Wrong = {}
        <=> \A i \in Index : /\ Good(answers[i])
                             /\ Sampled(i) => baselines[i].ok /\ Agrees(answers[i], baselines[i])
  BY <1>3 DEF Answered, Wrong, AnsweredRight
<1>9. QED
  BY <1>3, <1>4, <1>5, <1>6, <1>7, <1>8 DEF IInv, Books, StressVerdict, Answered, Reached

\* The report of the stress driver is right for any number of workers, queries and
\* outcomes of the searches.
THEOREM StressReportIsRight == StressSpec => []StressVerdict
BY StressBooks, InvariantSuffices, PTL

-----------------------------------------------------------------------------
(* The benchmark: the samples come query by query, and for each query in   *)
(* the order of the algorithms; each says what its batches were like.      *)

Algs == Len(cfg.algorithms)

InOrder(k) ==
  /\ samples[k].query = (k - 1) \div Algs
  /\ samples[k].of = cfg.algorithms[((k - 1) % Algs) + 1]

\* A batch answered as Dijkstra did.
RightBatch(s, k) == s.runs[k].ok /\ Agrees(s.runs[k], s.expected) /\ s.runs[k].valid

Honest(s) ==
  /\ s.correct =>
       /\ ~s.error /\ s.algorithm = s.of /\ Len(s.runs) = cfg.repeats
       /\ \A k \in DOMAIN s.runs : s.runs[k].ok
       /\ \E k \in DOMAIN s.runs : RightBatch(s, k) /\ s.runs[k].ns = s.ns
  /\ (s.algorithm = "" \/ ~s.error) /\ (\A k \in DOMAIN s.runs : RightBatch(s, k)) => s.correct

Sample ==
  [query : Nat, algorithm : Algorithms \cup {""}, ns : Nat, correct : BOOLEAN, error : BOOLEAN,
   of : Algorithms, runs : Seq(Result), expected : Result]

BenchTypes ==
  /\ qi \in Nat /\ expected \in Result /\ runs \in [Algorithms -> Seq(Result)]
  /\ samples \in Seq(Sample) /\ allCorrect \in BOOLEAN

Progress ==
  /\ at \in {"reference", "measuring", "returned"}
  /\ at = "reference" => qi < cfg.queries /\ Len(samples) = Algs * qi
  /\ at = "measuring" => /\ qi < cfg.queries
                         /\ \E p \in 0 .. Algs - 1 : Len(samples) = Algs * qi + p
  /\ at = "returned" /\ ~benchErr => Len(samples) = Algs * cfg.queries

Judged ==
  /\ \A k \in DOMAIN samples : InOrder(k) /\ Honest(samples[k])
  /\ allCorrect <=> \A k \in DOMAIN samples : samples[k].correct

BInv ==
  /\ BenchConfig /\ BenchTypes /\ Progress /\ Judged
  /\ \A alg \in Algorithms : Len(runs[alg]) <= cfg.repeats

LEMMA AlgorithmsListed ==
  ASSUME BenchConfig
  PROVE  /\ Algs \in Nat \ {0} /\ DOMAIN cfg.algorithms = 1 .. Algs
         /\ Algorithms = {cfg.algorithms[p] : p \in 1 .. Algs}
         /\ \A p \in 1 .. Algs : cfg.algorithms[p] \in Algorithms
<1> DEFINE listed == cfg.algorithms
<1>0. listed \in Seq(Algorithms)  BY DEF BenchConfig
<1> HIDE DEF listed
<1>1. Algs \in Nat /\ DOMAIN listed = 1 .. Algs
  <2>1. Len(listed) \in Nat /\ DOMAIN listed = 1 .. Len(listed)  BY <1>0
  <2> QED  BY <2>1 DEF Algs, listed
<1>2. Algorithms = {listed[p] : p \in 1 .. Algs}  BY <1>1 DEF Algorithms, ToSet, listed
<1>3. Algs # 0
  <2>1. Algorithms # {}  BY DEF BenchConfig
  <2>2. \E p \in 1 .. Algs : TRUE  BY <1>2, <2>1
  <2> QED  BY <1>1, <2>2
<1> QED  BY <1>1, <1>2, <1>3 DEF listed

LEMMA ZeroIsAResult == ResultZero \in Result
BY DEF ResultZero, Result

\* Nothing that has been judged is judged again.
LEMMA JudgedStays ==
  ASSUME cfg' = cfg, samples' = samples, allCorrect' = allCorrect
  PROVE  Judged' = Judged
<1>1. Algs' = Algs  BY DEF Algs
<1>2. \A k : InOrder(k)' = InOrder(k)  BY <1>1 DEF InOrder
<1>3. \A s : Honest(s)' = Honest(s)  BY DEF Honest, RightBatch, Agrees
<1> QED  BY <1>2, <1>3 DEF Judged

LEMMA NoRunsYet ==
  /\ NoRuns \in [Algorithms -> Seq(Result)]
  /\ \A alg \in Algorithms : Len(NoRuns[alg]) = 0
BY DEF NoRuns

\* Run begins with no samples, in whatever state the one before it was left.
LEMMA BenchInitially ==
  ASSUME BenchConfig, BenchInit
  PROVE  BInv
<1>1. /\ qi = 0 /\ samples = <<>> /\ allCorrect = TRUE /\ at = "reference"
      /\ expected = ResultZero /\ runs = NoRuns
  BY DEF BenchInit
<1>2. cfg.queries \in Nat \ {0} /\ cfg.repeats \in Nat \ {0} /\ Algs \in Nat
  BY AlgorithmsListed DEF BenchConfig
<1>3. BenchTypes  BY <1>1, NoRunsYet, ZeroIsAResult DEF BenchTypes
<1>4. Len(samples) = Algs * qi /\ qi < cfg.queries  BY <1>1, <1>2
<1>5. Progress  BY <1>1, <1>4 DEF Progress
<1>6. Judged  BY <1>1 DEF Judged
<1>7. \A alg \in Algorithms : Len(runs[alg]) <= cfg.repeats  BY <1>1, <1>2, NoRunsYet
<1> QED  BY <1>3, <1>5, <1>6, <1>7 DEF BInv

LEMMA BenchBegins ==
  ASSUME BenchConfig, cfg' = cfg, BenchAgain
  PROVE  BInv'
<1>1. BenchConfig' /\ Algorithms' = Algorithms /\ Algs' = Algs
  BY DEF BenchConfig, Algorithms, Algs
<1>2. /\ qi' = 0 /\ samples' = <<>> /\ allCorrect' = TRUE /\ at' = "reference"
      /\ expected' = ResultZero /\ runs' = NoRuns
  BY DEF BenchAgain
<1>3. cfg.queries \in Nat \ {0} /\ cfg.repeats \in Nat \ {0} /\ Algs \in Nat
  BY AlgorithmsListed DEF BenchConfig
<1>4. BenchTypes'  BY <1>1, <1>2, NoRunsYet, ZeroIsAResult DEF BenchTypes
<1>5. Len(samples') = Algs' * qi' /\ qi' < cfg'.queries  BY <1>1, <1>2, <1>3
<1>6. Progress'  BY <1>2, <1>5 DEF Progress
<1>7. Judged'  BY <1>2 DEF Judged
<1>8. \A alg \in Algorithms' : Len(runs'[alg]) <= cfg'.repeats
  BY <1>1, <1>2, <1>3, NoRunsYet
<1> QED  BY <1>1, <1>4, <1>6, <1>7, <1>8 DEF BInv

LEMMA ReferenceKeeps ==
  ASSUME BInv, Reference, cfg' = cfg
  PROVE  BInv'
<1>1. Algorithms' = Algorithms /\ Algs' = Algs /\ BenchConfig'
  BY DEF Algorithms, Algs, BInv, BenchConfig
<1>2. /\ UNCHANGED <<qi, runs, samples, allCorrect>> /\ at = "reference"
      /\ at' = "measuring" \/ (at' = "returned" /\ benchErr')
  BY DEF Reference
<1>3. expected' \in Result
  BY DEF Reference, BInv, BenchTypes, BenchConfig
<1>4. BenchTypes'  BY <1>1, <1>2, <1>3 DEF BInv, BenchTypes, Sample
<1>5. Progress'
  <2>1. Algs \in Nat \ {0} /\ qi \in Nat  BY AlgorithmsListed DEF BInv, BenchTypes
  <2>2. Len(samples) = Algs * qi /\ qi < cfg.queries  BY <1>2 DEF BInv, Progress
  <2>3. 0 \in 0 .. Algs - 1 /\ Len(samples) = Algs * qi + 0  BY <2>1, <2>2
  <2> QED  BY <1>1, <1>2, <2>2, <2>3 DEF Progress
<1>6. Judged'  BY <1>2, JudgedStays DEF BInv
<1> QED  BY <1>1, <1>2, <1>4, <1>5, <1>6 DEF BInv

LEMMA BatchKeeps ==
  ASSUME BInv, NEW alg \in Algorithms, Batch(alg), cfg' = cfg
  PROVE  BInv'
<1>1. Algorithms' = Algorithms /\ Algs' = Algs /\ BenchConfig'
  BY DEF Algorithms, Algs, BInv, BenchConfig
<1>2. PICK r \in cfg.outcomes : runs' = [runs EXCEPT ![alg] = Append(@, r)]  BY DEF Batch
<1>3. UNCHANGED <<at, qi, expected, samples, allCorrect, benchErr>>  BY DEF Batch
<1>4. r \in Result /\ runs \in [Algorithms -> Seq(Result)]
  BY <1>2 DEF BInv, BenchTypes, BenchConfig
<1>5. /\ runs' \in [Algorithms -> Seq(Result)]
      /\ \A a \in Algorithms : Len(runs'[a]) = IF a = alg THEN Len(runs[a]) + 1 ELSE Len(runs[a])
  BY <1>2, <1>4
<1>6. cfg.repeats \in Nat /\ \A a \in Algorithms : Len(runs[a]) \in Nat /\ Len(runs[a]) <= cfg.repeats
  <2>1. cfg.repeats \in Nat  BY DEF BInv, BenchConfig
  <2>2. \A a \in Algorithms : Len(runs[a]) \in Nat  BY <1>4
  <2> QED  BY <2>1, <2>2 DEF BInv
<1>7. Len(runs[alg]) # cfg.repeats  BY DEF Batch, Through
<1>8. \A a \in Algorithms : Len(runs'[a]) <= cfg.repeats  BY <1>5, <1>6, <1>7
<1>9. BenchTypes'  BY <1>1, <1>3, <1>5 DEF BInv, BenchTypes, Sample
<1>10. Progress'  BY <1>1, <1>3 DEF BInv, Progress
<1>11. Judged'  BY <1>3, JudgedStays DEF BInv
<1> QED  BY <1>1, <1>8, <1>9, <1>10, <1>11 DEF BInv

\* What a sample is made of: a batch of its algorithm, unless one has failed.
LEMMA SampleOfABatch ==
  ASSUME NEW alg \in Algorithms, runs \in [Algorithms -> Seq(Result)], NEW r \in Measurements(alg)
  PROVE  /\ r \in Result
         /\ ~Failed(alg) => \E k \in DOMAIN runs[alg] : runs[alg][k] = r
<1>1. CASE Failed(alg)  BY <1>1, ZeroIsAResult DEF Measurements
<1>2. CASE ~Failed(alg)
  <2>1. r \in ToSet(runs[alg])  BY <1>2 DEF Measurements, Medians
  <2>2. \E k \in DOMAIN runs[alg] : runs[alg][k] = r  BY <2>1 DEF ToSet
  <2>3. \A k \in DOMAIN runs[alg] : runs[alg][k] \in Result  OBVIOUS
  <2> QED  BY <2>2, <2>3
<1> QED  BY <1>1, <1>2

\* The sample of an algorithm that has all its batches.
LEMMA JudgedHonestly ==
  ASSUME NEW alg \in Algorithms, alg # "", runs \in [Algorithms -> Seq(Result)],
         NEW r \in Measurements(alg), Through(alg),
         NEW error \in BOOLEAN, Failed(alg) => error,
         NEW s, s.algorithm = IF Failed(alg) THEN "" ELSE alg, s.ns = r.ns,
         s.correct = Correct(r, error), s.error = error, s.of = alg,
         s.runs = runs[alg], s.expected = expected
  PROVE  Honest(s)
<1>1. ASSUME s.correct
      PROVE  /\ ~s.error /\ s.algorithm = s.of /\ Len(s.runs) = cfg.repeats
             /\ \A k \in DOMAIN s.runs : s.runs[k].ok
             /\ \E k \in DOMAIN s.runs : RightBatch(s, k) /\ s.runs[k].ns = s.ns
  <2>1. ~error /\ Agrees(r, expected) /\ r.valid  BY <1>1 DEF Correct
  <2>2. ~Failed(alg)  BY <2>1
  <2>3. Len(runs[alg]) = cfg.repeats  BY <2>2 DEF Through
  <2>4. \A k \in DOMAIN runs[alg] : runs[alg][k].ok  BY <2>2 DEF Failed
  <2>5. PICK k \in DOMAIN runs[alg] : runs[alg][k] = r  BY <2>2, SampleOfABatch
  <2>6. RightBatch(s, k) /\ s.runs[k].ns = s.ns  BY <2>1, <2>4, <2>5 DEF RightBatch
  <2> QED  BY <2>1, <2>2, <2>3, <2>4, <2>5, <2>6
<1>2. ASSUME s.algorithm = "" \/ ~s.error, \A k \in DOMAIN s.runs : RightBatch(s, k)
      PROVE  s.correct
  <2>1. ~Failed(alg)  BY <1>2 DEF Failed, RightBatch
  <2>2. ~error  BY <1>2, <2>1
  <2>3. PICK k \in DOMAIN runs[alg] : runs[alg][k] = r  BY <2>1, SampleOfABatch
  <2>4. Agrees(r, expected) /\ r.valid  BY <1>2, <2>3 DEF RightBatch
  <2> QED  BY <2>2, <2>4 DEF Correct
<1> QED  BY <1>1, <1>2 DEF Honest

LEMMA JudgeKeeps ==
  ASSUME BInv, Judge, cfg' = cfg
  PROVE  BInv'
<1>1. Algorithms' = Algorithms /\ Algs' = Algs /\ BenchConfig'
  BY DEF Algorithms, Algs, BInv, BenchConfig
<1>2. /\ Algs \in Nat \ {0} /\ qi \in Nat /\ cfg.queries \in Nat \ {0}
      /\ \A p \in 1 .. Algs : cfg.algorithms[p] \in Algorithms
      /\ runs \in [Algorithms -> Seq(Result)] /\ samples \in Seq(Sample)
      /\ expected \in Result /\ allCorrect \in BOOLEAN
  BY AlgorithmsListed DEF BInv, BenchTypes, BenchConfig
<1>3. PICK p \in 0 .. Algs - 1 : Len(samples) = Algs * qi + p
  BY DEF BInv, Progress, Judge
<1>4. Len(samples) \div Algs = qi /\ Len(samples) % Algs = p
  <2>1. Algs \in Nat \ {0} /\ qi \in Nat  BY <1>2
  <2> QED  BY <1>3, <2>1, DivisionOf, ZenonT(30)
<1> DEFINE alg == cfg.algorithms[p + 1]
<1>5. alg \in Algorithms /\ alg # "" /\ Through(alg)
  <2>1. alg \in Algorithms  BY <1>2
  <2>2. "" \notin Algorithms  BY DEF BInv, BenchConfig
  <2>3. \A a \in Algorithms : Through(a)  BY DEF Judge
  <2> QED  BY <2>1, <2>2, <2>3
<1>6. PICK r \in Measurements(alg), memory \in MemoryRuns(alg) :
        LET error == Failed(alg) \/ ~memory
        IN  /\ samples' = Append(samples,
                 [query |-> qi, algorithm |-> IF Failed(alg) THEN "" ELSE alg,
                  ns |-> r.ns, correct |-> Correct(r, error), error |-> error,
                  of |-> alg, runs |-> runs[alg], expected |-> expected])
            /\ allCorrect' = (allCorrect /\ Correct(r, error))
  <2>1. Len(samples) % Len(cfg.algorithms) = p  BY <1>4 DEF Algs
  <2> QED  BY <2>1, ZenonT(30) DEF Judge
<1> DEFINE error == Failed(alg) \/ ~memory
           s == [query |-> qi, algorithm |-> IF Failed(alg) THEN "" ELSE alg,
                 ns |-> r.ns, correct |-> Correct(r, error), error |-> error,
                 of |-> alg, runs |-> runs[alg], expected |-> expected]
<1>7. samples' = Append(samples, s) /\ allCorrect' = (allCorrect /\ s.correct)  BY <1>6
<1>8. /\ s.query = qi /\ s.of = alg /\ s.correct \in BOOLEAN /\ s.correct = Correct(r, error)
      /\ error \in BOOLEAN /\ s \in Sample
  <2>1. r \in Result /\ r.ns \in Nat /\ r.valid \in BOOLEAN
    BY <1>2, <1>5, SampleOfABatch DEF Result
  <2>2. error \in BOOLEAN /\ Correct(r, error) \in BOOLEAN
    BY <2>1 DEF Failed, Correct, Agrees
  <2>3. runs[alg] \in Seq(Result)  BY <1>2, <1>5
  <2> HIDE DEF alg, error
  <2> QED  BY <1>2, <1>5, <2>1, <2>2, <2>3 DEF Sample
<1>9. Honest(s)
  <2>1. /\ s.algorithm = (IF Failed(alg) THEN "" ELSE alg) /\ s.ns = r.ns /\ s.error = error
        /\ s.runs = runs[alg] /\ s.expected = expected /\ (Failed(alg) => error)
    OBVIOUS
  <2> HIDE DEF s, error, alg
  <2> QED  BY <1>2, <1>5, <1>8, <2>1, JudgedHonestly
<1> HIDE DEF s, error, alg
<1>10. /\ samples' \in Seq(Sample) /\ Len(samples') = Len(samples) + 1
       /\ DOMAIN samples' = 1 .. Len(samples) + 1
       /\ \A k \in 1 .. Len(samples) : samples'[k] = samples[k]
       /\ samples'[Len(samples) + 1] = s
       /\ DOMAIN samples = 1 .. Len(samples) /\ Len(samples) \in Nat
  BY <1>2, <1>7, <1>8
<1>11. Judged'
  <2>1. ASSUME NEW k \in DOMAIN samples' PROVE (InOrder(k) /\ Honest(samples[k]))'
    <3>1. CASE k = Len(samples) + 1
      <4>1. k - 1 = Len(samples)  BY <1>10, <3>1
      <4>2. InOrder(k)'  BY <1>1, <1>4, <1>8, <1>10, <3>1, <4>1 DEF InOrder, alg
      <4>3. samples'[k] = s  BY <1>10, <3>1
      <4>4. Honest(samples[k])'  BY <1>9, <4>3 DEF Honest, RightBatch, Agrees
      <4> QED  BY <4>2, <4>4
    <3>2. CASE k \in 1 .. Len(samples)
      <4>1. InOrder(k) /\ Honest(samples[k])  BY <1>10, <3>2 DEF BInv, Judged
      <4>2. samples'[k] = samples[k]  BY <1>10, <3>2
      <4>3. InOrder(k)'  BY <1>1, <4>1, <4>2 DEF InOrder
      <4>4. Honest(samples[k])' = Honest(samples[k])
        BY <4>2 DEF Honest, RightBatch, Agrees
      <4> QED  BY <4>1, <4>3, <4>4
    <3> QED  BY <1>10, <3>1, <3>2
  <2>2. allCorrect' <=> \A k \in DOMAIN samples' : samples'[k].correct
    <3>1. (\A k \in DOMAIN samples' : samples'[k].correct)
            <=> (\A k \in DOMAIN samples : samples[k].correct) /\ s.correct
      BY <1>10
    <3> QED  BY <1>7, <3>1 DEF BInv, Judged
  <2> QED  BY <2>1, <2>2 DEF Judged
<1>12. allCorrect' \in BOOLEAN  BY <1>2, <1>7, <1>8
<1>13. expected' = expected /\ benchErr' = benchErr /\ at = "measuring"  BY DEF Judge
<1>14. Algs * (qi + 1) = Algs * qi + Algs  BY <1>2
<1>15. CASE p + 1 = Algs
  <2>1. Len(samples) + 1 = Algs * (qi + 1) + 0 /\ 0 \in 0 .. Algs - 1 /\ qi + 1 \in Nat
    BY <1>2, <1>3, <1>14, <1>15
  <2>2. (Len(samples) + 1) % Algs = 0
    <3>1. (Algs * (qi + 1) + 0) % Algs = 0  BY <1>2, <2>1, DivisionOf
    <3> QED  BY <2>1, <3>1
  <2>3. /\ qi' = qi + 1 /\ runs' = NoRuns
        /\ at' = IF qi + 1 < cfg.queries THEN "reference" ELSE "returned"
    BY <2>2 DEF Judge, Algs
  <2>4. BenchTypes'
    BY <1>1, <1>2, <1>10, <1>12, <1>13, <2>1, <2>3, NoRunsYet DEF BenchTypes, Sample
  <2>5. qi < cfg.queries  BY <1>13 DEF BInv, Progress
  <2>6. Progress'
    <3>1. CASE qi + 1 < cfg.queries
      BY <1>1, <1>2, <1>10, <2>1, <2>3, <3>1 DEF Progress
    <3>2. CASE ~(qi + 1 < cfg.queries)
      <4>1. qi + 1 = cfg.queries  BY <1>2, <2>5, <3>2
      <4>2. Len(samples') = Algs * cfg.queries
        <5>1. Algs * (qi + 1) = Algs * cfg.queries /\ Algs * (qi + 1) \in Nat  BY <1>2, <4>1
        <5> QED  BY <1>10, <2>1, <5>1
      <4>3. at' = "returned"  BY <2>3, <3>2
      <4> QED  BY <1>1, <4>2, <4>3 DEF Progress
    <3> QED  BY <3>1, <3>2
  <2>7. \A a \in Algorithms : Len(runs'[a]) <= cfg.repeats
    <3>1. cfg.repeats \in Nat  BY DEF BInv, BenchConfig
    <3> QED  BY <2>3, <3>1, NoRunsYet
  <2> QED  BY <1>1, <1>11, <2>4, <2>6, <2>7 DEF BInv
<1>16. CASE p + 1 # Algs
  <2>1. p + 1 \in 0 .. Algs - 1 /\ Len(samples) + 1 = Algs * qi + (p + 1)
    BY <1>2, <1>3, <1>16
  <2>2. (Len(samples) + 1) % Algs = p + 1
    <3>1. (Algs * qi + (p + 1)) % Algs = p + 1  BY <1>2, <2>1, DivisionOf
    <3> QED  BY <2>1, <3>1
  <2>3. (Len(samples) + 1) % Algs # 0  BY <1>2, <2>2
  <2>4. UNCHANGED <<qi, runs, at>>  BY <2>3 DEF Judge, Algs
  <2>5. BenchTypes'  BY <1>1, <1>2, <1>10, <1>12, <1>13, <2>4 DEF BenchTypes, Sample
  <2>6. Progress'  BY <1>1, <1>10, <1>13, <2>1, <2>4 DEF BInv, Progress
  <2> QED  BY <1>1, <1>11, <2>4, <2>5, <2>6 DEF BInv
<1> QED  BY <1>15, <1>16

LEMMA BenchStays ==
  ASSUME BInv, UNCHANGED <<benchVars, cfg>>
  PROVE  BInv'
<1>1. /\ Algorithms' = Algorithms /\ Algs' = Algs /\ BenchConfig'
      /\ UNCHANGED <<at, qi, expected, runs, samples, allCorrect, benchErr>>
  BY DEF Algorithms, Algs, BInv, BenchConfig, benchVars
<1>2. BenchTypes' /\ Progress'  BY <1>1 DEF BInv, BenchTypes, Sample, Progress
<1>3. Judged'  BY <1>1, JudgedStays DEF BInv
<1> QED  BY <1>1, <1>2, <1>3 DEF BInv

LEMMA BenchKeeps ==
  ASSUME BInv, Bench, cfg' = cfg
  PROVE  BInv'
BY ReferenceKeeps, BatchKeeps, JudgeKeeps DEF Bench

\* The samples of a benchmark that has ended are those of all queries and algorithms.
LEMMA SamplesOfAll ==
  ASSUME BInv, at = "returned", ~benchErr
  PROVE  /\ {<<s.query, s.of>> : s \in ToSet(samples)} = (0 .. cfg.queries - 1) \X Algorithms
         /\ Len(samples) = cfg.queries * Cardinality(Algorithms)
<1> DEFINE Q == cfg.queries
<1>1. /\ Algs \in Nat \ {0} /\ Q \in Nat \ {0} /\ samples \in Seq(Sample)
      /\ DOMAIN cfg.algorithms = 1 .. Algs
      /\ Algorithms = {cfg.algorithms[p] : p \in 1 .. Algs}
  BY AlgorithmsListed DEF BInv, BenchTypes, BenchConfig
<1>2. Len(samples) = Algs * Q  BY DEF BInv, Progress
<1> HIDE DEF Q
<1>3. /\ DOMAIN samples = 1 .. Algs * Q /\ Algs * Q \in Nat
      /\ \A k \in DOMAIN samples : samples[k] \in Sample
  BY <1>1, <1>2
<1>4. \A k \in 1 .. Algs * Q : InOrder(k)  BY <1>3 DEF BInv, Judged
<1>5. ASSUME NEW k \in 1 .. Algs * Q
      PROVE  samples[k].query \in 0 .. Q - 1 /\ samples[k].of \in Algorithms
  <2> DEFINE d == (k - 1) \div Algs
  <2>1. k - 1 \in Nat /\ k - 1 < Algs * Q  BY <1>1, <1>3
  <2>2. d \in Nat /\ Algs * d <= k - 1  BY <1>1, <2>1, DivisionBounds
  <2> HIDE DEF d
  <2>3. ~(Q <= d)
    <3> SUFFICES ASSUME Q <= d PROVE FALSE  OBVIOUS
    <3>1. PICK e \in Nat : d = Q + e  BY <1>1, <2>2, d - Q \in Nat
    <3>2. Algs * d = Algs * Q + Algs * e /\ Algs * e \in Nat  BY <1>1, <3>1
    <3> QED  BY <1>3, <2>1, <2>2, <3>2
  <2>4. samples[k].query = d  BY <1>4 DEF InOrder, d
  <2>5. samples[k].of \in Algorithms  BY <1>3 DEF Sample
  <2> QED  BY <1>1, <2>2, <2>3, <2>4, <2>5
<1>6. ASSUME NEW q \in 0 .. Q - 1, NEW alg \in Algorithms
      PROVE  \E k \in 1 .. Algs * Q : samples[k].query = q /\ samples[k].of = alg
  <2>1. PICK p \in 1 .. Algs : alg = cfg.algorithms[p]  BY <1>1
  <2> DEFINE k == Algs * q + (p - 1) + 1
  <2>2. PICK e \in Nat : Q = q + 1 + e  BY <1>1, Q - q - 1 \in Nat
  <2>3. /\ Algs * Q = Algs * q + Algs + Algs * e /\ Algs * e \in Nat /\ Algs * q \in Nat
        /\ q \in Nat
    BY <1>1, <2>2
  <2>4. p - 1 \in 0 .. Algs - 1 /\ k \in 1 .. Algs * Q /\ k - 1 = Algs * q + (p - 1)
    BY <1>1, <2>3
  <2>5. (Algs * q + (p - 1)) \div Algs = q /\ (Algs * q + (p - 1)) % Algs = p - 1
    BY <1>1, <2>3, <2>4, DivisionOf
  <2> HIDE DEF k
  <2>6. samples[k].query = q /\ samples[k].of = cfg.algorithms[(p - 1) + 1]
    BY <1>4, <2>4, <2>5 DEF InOrder
  <2>7. (p - 1) + 1 = p  BY <1>1
  <2> QED  BY <2>1, <2>4, <2>6, <2>7
<1>7. {<<s.query, s.of>> : s \in ToSet(samples)} = (0 .. Q - 1) \X Algorithms
  <2>1. ToSet(samples) = {samples[k] : k \in 1 .. Algs * Q}  BY <1>3 DEF ToSet
  <2>2. {<<s.query, s.of>> : s \in ToSet(samples)}
          = {<<samples[k].query, samples[k].of>> : k \in 1 .. Algs * Q}
    BY <2>1
  <2>3. {<<samples[k].query, samples[k].of>> : k \in 1 .. Algs * Q}
          = (0 .. Q - 1) \X Algorithms
    BY <1>5, <1>6
  <2> QED  BY <2>2, <2>3
<1>8. Cardinality(Algorithms) = Algs
  <2> DEFINE f == [p \in 1 .. Algs |-> cfg.algorithms[p]]
  <2>1. \A p, q \in 1 .. Algs : f[p] = f[q] => p = q
    BY <1>1 DEF BInv, BenchConfig, IsInjective
  <2>2. f \in [1 .. Algs -> Algorithms] /\ \A alg \in Algorithms : \E p \in 1 .. Algs : f[p] = alg
    BY <1>1
  <2> HIDE DEF f
  <2>3. ExistsBijection(1 .. Algs, Algorithms)
    BY <2>1, <2>2 DEF ExistsBijection, Bijection, Injection, Surjection, IsInjective
  <2> QED  BY <1>1, <2>3, FS_CountingElements
<1>9. Len(samples) = Q * Cardinality(Algorithms)  BY <1>1, <1>2, <1>8
<1> QED  BY <1>7, <1>9 DEF Q

LEMMA BenchJudges == BInv => BenchVerdict
<1> SUFFICES ASSUME BInv, at = "returned", ~benchErr PROVE BenchVerdict
  BY DEF BenchVerdict
<1>1. \A s \in ToSet(samples) : Honest(s) /\ \E k \in DOMAIN samples : s = samples[k]
  BY DEF ToSet, BInv, Judged
<1>2. \A k \in DOMAIN samples : samples[k] \in ToSet(samples)  BY DEF ToSet
<1>3. allCorrect <=> \A s \in ToSet(samples) : s.correct
  BY <1>1, <1>2 DEF BInv, Judged
<1>4. ASSUME allCorrect, NEW s \in ToSet(samples)
      PROVE  /\ ~s.error /\ Len(s.runs) = cfg.repeats
             /\ \A k \in DOMAIN s.runs : s.runs[k].ok
             /\ \E k \in DOMAIN s.runs : RightBatch(s, k) /\ s.runs[k].ns = s.ns
  BY <1>1, <1>3, <1>4 DEF Honest
<1>5. (\A s \in ToSet(samples) : (s.algorithm = "" \/ ~s.error)
                                  /\ \A k \in DOMAIN s.runs : RightBatch(s, k))
        => allCorrect
  BY <1>1, <1>3 DEF Honest
<1> QED  BY <1>4, <1>5, SamplesOfAll DEF BenchVerdict, RightBatch

\* The verdict of the benchmark means what it says for any queries, algorithms,
\* rounds and outcomes of the searches, in either order of measuring.
THEOREM BenchVerdictHolds == BenchSpec => []BenchVerdict
<1>1. BenchConfig /\ BenchInit => BInv  BY BenchInitially
<1>2. BInv /\ [Bench /\ UNCHANGED cfg]_<<benchVars, cfg>> => BInv'
  BY BenchKeeps, BenchStays
<1> QED  BY <1>1, <1>2, BenchJudges, PTL DEF BenchSpec

-----------------------------------------------------------------------------
(* The campaign: a report file that is there is the complete one of a      *)
(* benchmark whose samples were all correct.                               *)

AllQueries == 0 .. cfg.queries - 1

Complete(file) ==
  /\ file.there /\ file.queries = cfg.queries /\ file.samples \in Seq(Sample)
  /\ \A x \in ToSet(file.samples) : x.correct /\ x.algorithm = x.of
  /\ {<<x.query, x.of>> : x \in ToSet(file.samples)} = AllQueries \X Algorithms

Files ==
  /\ DOMAIN reports = 1 .. cfg.seeds
  /\ \A s \in 1 .. cfg.seeds : reports[s].there => Complete(reports[s])
  /\ script = "move" => Complete(tmp)

CInv == CampaignConfig /\ BInv /\ Files /\ (script = "passed" => Passed)

LEMMA CampaignInitially ==
  ASSUME CampaignConfig, BenchInit, CampaignInit
  PROVE  CInv
<1>1. BInv  BY BenchInitially DEF CampaignConfig
<1>2. Files  BY DEF CampaignInit, Files, NoFile
<1>3. script # "passed"  BY DEF CampaignInit
<1> QED  BY <1>1, <1>2, <1>3 DEF CInv

\* What a finished benchmark writes when everything was correct.
LEMMA WrittenComplete ==
  ASSUME BInv, at = "returned", ~benchErr, allCorrect,
         NEW file, file = [there |-> TRUE, allCorrect |-> allCorrect, queries |-> cfg.queries,
                           samples |-> samples]
  PROVE  Complete(file)
<1>1. file.there /\ file.queries = cfg.queries /\ file.samples = samples  OBVIOUS
<1>2. samples \in Seq(Sample)  BY DEF BInv, BenchTypes
<1>3. \A x \in ToSet(samples) : x.correct /\ x.algorithm = x.of
  BY DEF BInv, Judged, Honest, ToSet
<1>4. {<<x.query, x.of>> : x \in ToSet(samples)} = AllQueries \X Algorithms
  BY SamplesOfAll DEF AllQueries
<1> QED  BY <1>1, <1>2, <1>3, <1>4 DEF Complete

LEMMA FilesStay ==
  ASSUME cfg' = cfg
  PROVE  /\ CampaignConfig' = CampaignConfig
         /\ \A f : Complete(f)' = Complete(f)
         /\ reports' = reports => Passed' = Passed
<1>1. /\ BenchConfig' = BenchConfig /\ Algorithms' = Algorithms /\ Sample' = Sample
      /\ AllQueries' = AllQueries
  BY DEF BenchConfig, Algorithms, Sample, AllQueries
<1>2. CampaignConfig' = CampaignConfig  BY <1>1 DEF CampaignConfig
<1>3. \A f : Complete(f)' = Complete(f)  BY <1>1 DEF Complete
<1>4. ASSUME reports' = reports PROVE Passed' = Passed
  <2>1. Analyzed' = Analyzed  BY <1>4 DEF Analyzed, Rows, HasRow, Targets, Baselines
  <2>2. RowsIn(Analyzed)' = RowsIn(Analyzed)
    BY <1>4, <2>1 DEF RowsIn, Rows, HasRow, Targets, Baselines
  <2>3. \A f, q : Meaningful(f, q)' = Meaningful(f, q)
    BY DEF Meaningful, Targets, Baselines
  <2> QED  BY <1>4, <2>1, <2>2, <2>3 DEF Passed, minimum
<1> QED  BY <1>2, <1>3, <1>4

LEMMA CampaignKeeps ==
  ASSUME CInv, [(Campaigning \/ Kill \/ Restart) /\ UNCHANGED cfg]_<<benchVars, campaignVars, cfg>>
  PROVE  CInv'
<1>1. cfg' = cfg /\ CampaignConfig'  BY FilesStay DEF CInv
<1>2. BInv'
  <2>1. CASE Start  BY <1>1, <2>1, BenchBegins DEF Start, CInv, CampaignConfig
  <2>2. CASE script = "benchmark" /\ Bench /\ UNCHANGED campaignVars
    BY <1>1, <2>2, BenchKeeps DEF CInv
  <2>3. CASE UNCHANGED benchVars  BY <1>1, <2>3, BenchStays DEF CInv
  <2> QED
    BY <2>1, <2>2, <2>3 DEF Campaigning, Resume, Written, Move, validate_regret, Kill, Restart
<1>3. ASSUME reports' = reports, script' # "move"
      PROVE  Files'
  BY <1>1, <1>3, FilesStay DEF CInv, Files
<1>4. CASE Resume \/ Start \/ Kill \/ Restart
  <2>1. reports' = reports /\ script' \notin {"move", "passed"}
    BY <1>4 DEF Resume, Start, Kill, Restart, Onwards
  <2> QED  BY <1>1, <1>2, <1>3, <2>1 DEF CInv
<1>5. CASE Written
  <2>1. reports' = reports /\ script' # "passed"  BY <1>5 DEF Written
  <2>2. script' = "move" => Complete(tmp')
    BY <1>5, WrittenComplete DEF Written, CInv
  <2>3. Files'  BY <1>1, <2>1, <2>2, FilesStay DEF CInv, Files
  <2> QED  BY <1>1, <1>2, <2>1, <2>3 DEF CInv
<1>6. CASE Move
  <2>1. script' \notin {"move", "passed"} /\ Complete(tmp)
        /\ reports' = [reports EXCEPT ![seed] = tmp]
    BY <1>6 DEF Move, Onwards, CInv, Files
  <2>2. DOMAIN reports' = 1 .. cfg'.seeds  BY <1>1, <2>1 DEF CInv, Files
  <2>3. \A s \in 1 .. cfg.seeds : reports'[s].there => Complete(reports'[s])
    BY <2>1 DEF CInv, Files
  <2>4. Files'  BY <1>1, <2>1, <2>2, <2>3, FilesStay DEF Files
  <2> QED  BY <1>1, <1>2, <2>1, <2>4 DEF CInv
<1>7. CASE validate_regret
  <2>1. reports' = reports /\ script' # "move" /\ (script' = "passed" => Passed)
    BY <1>7 DEF validate_regret
  <2> QED  BY <1>1, <1>2, <1>3, <2>1, FilesStay DEF CInv
<1>8. CASE UNCHANGED campaignVars
  <2>1. UNCHANGED <<script, tmp, reports>>  BY <1>8 DEF campaignVars
  <2>2. Files'  BY <1>1, <2>1, FilesStay DEF CInv, Files
  <2> QED  BY <1>1, <1>2, <2>1, <2>2, FilesStay DEF CInv
<1> QED  BY <1>4, <1>5, <1>6, <1>7, <1>8 DEF Campaigning

\* When the reports that have rows have one for every query and seed, all do.
LEMMA EveryRowIsThere ==
  ASSUME CInv, Passed
  PROVE  \A s \in 1 .. cfg.seeds : s \in Analyzed /\ Rows(reports[s]) = AllQueries
<1> DEFINE S == 1 .. cfg.seeds
           R == RowsIn(Analyzed)
<1>1. cfg.seeds \in Nat /\ cfg.queries \in Nat
  BY DEF CInv, CampaignConfig, BenchConfig
<1>2. IsFiniteSet(S) /\ Cardinality(S) = cfg.seeds
  <2>1. 1 \in Int /\ cfg.seeds \in Int  BY <1>1
  <2>2. /\ IsFiniteSet(1 .. cfg.seeds)
        /\ Cardinality(1 .. cfg.seeds) = IF 1 > cfg.seeds THEN 0 ELSE cfg.seeds - 1 + 1
    BY <2>1, FS_Interval
  <2> QED  BY <1>1, <2>2
<1>3. IsFiniteSet(AllQueries) /\ Cardinality(AllQueries) = cfg.queries
  BY <1>1, FS_Interval DEF AllQueries
<1>4. IsFiniteSet(S \X AllQueries) /\ Cardinality(S \X AllQueries) = cfg.seeds * cfg.queries
  BY <1>2, <1>3, FS_Product
<1>5. \A s \in Analyzed : s \in S /\ Rows(reports[s]) \subseteq AllQueries
  BY DEF Analyzed, CInv, Files, Complete, Rows, AllQueries
<1>6. \A r : r \in R <=> \E s \in Analyzed : \E q \in Rows(reports[s]) : r = <<s, q>>
  BY DEF RowsIn
<1>7. R \subseteq S \X AllQueries  BY <1>5, <1>6
<1> HIDE DEF S, R
<1>8. Cardinality(R) >= cfg.queries * cfg.seeds  BY DEF Passed, minimum, R
<1>9. IsFiniteSet(R) /\ Cardinality(R) \in Nat /\ Cardinality(R) <= cfg.seeds * cfg.queries
  BY <1>4, <1>7, FS_Subset, FS_CardinalityType
<1>10. cfg.queries * cfg.seeds = cfg.seeds * cfg.queries  BY <1>1
<1>11. Cardinality(R) = Cardinality(S \X AllQueries)
  <2>1. cfg.seeds * cfg.queries \in Nat  BY <1>1
  <2> QED  BY <1>4, <1>8, <1>9, <1>10, <2>1
<1>12. R = S \X AllQueries  BY <1>4, <1>7, <1>11, FS_Subset
<1>13. AllQueries # {}
  <2>1. cfg.queries \in Nat \ {0}  BY DEF CInv, CampaignConfig, BenchConfig
  <2> QED  BY <2>1 DEF AllQueries
<1>14. ASSUME NEW s \in S PROVE s \in Analyzed /\ AllQueries \subseteq Rows(reports[s])
  <2>1. ASSUME NEW q \in AllQueries PROVE s \in Analyzed /\ q \in Rows(reports[s])
    <3>1. <<s, q>> \in R  BY <1>12
    <3>2. PICK v \in Analyzed : \E p \in Rows(reports[v]) : <<s, q>> = <<v, p>>  BY <1>6, <3>1
    <3> QED  BY <3>2
  <2> QED  BY <1>13, <2>1
<1> QED  BY <1>5, <1>14 DEF S

\* No row is a meaningful slowdown.
LEMMA NoneMeaningful ==
  ASSUME CInv, Passed, NEW s \in 1 .. cfg.seeds, NEW q \in AllQueries
  PROVE  ~Meaningful(reports[s], q)
<1> DEFINE R == RowsIn(Analyzed)
           M == {r \in R : Meaningful(reports[r[1]], r[2])}
<1>1. cfg.seeds \in Nat /\ cfg.queries \in Nat /\ cfg.maximum = 0
  BY DEF CInv, CampaignConfig, BenchConfig
<1>2. IsFiniteSet((1 .. cfg.seeds) \X AllQueries)
  <2>1. IsFiniteSet(1 .. cfg.seeds)  BY <1>1, FS_Interval
  <2>2. IsFiniteSet(AllQueries)  BY <1>1, FS_Interval DEF AllQueries
  <2> QED  BY <2>1, <2>2, FS_Product
<1>3. \A r : r \in R <=> \E v \in Analyzed : \E p \in Rows(reports[v]) : r = <<v, p>>
  BY DEF RowsIn
<1>4. Analyzed \subseteq 1 .. cfg.seeds  BY DEF Analyzed, CInv, Files
<1>5. R \subseteq (1 .. cfg.seeds) \X AllQueries  BY <1>3, <1>4, EveryRowIsThere
<1>6. <<s, q>> \in R  BY <1>3, EveryRowIsThere
<1>7. Cardinality(M) <= cfg.maximum * Cardinality(R)  BY DEF Passed
<1> HIDE DEF R
<1>8. IsFiniteSet(R) /\ IsFiniteSet(M) /\ Cardinality(R) \in Nat /\ Cardinality(M) \in Nat
  <2>1. IsFiniteSet(R)  BY <1>2, <1>5, FS_Subset
  <2>2. M \in SUBSET R  OBVIOUS
  <2> HIDE DEF M
  <2>3. IsFiniteSet(M)  BY <2>1, <2>2, FS_Subset
  <2> QED  BY <2>1, <2>3, FS_CardinalityType
<1> HIDE DEF M
<1>9. Cardinality(M) = 0  BY <1>1, <1>7, <1>8
<1>10. M = {}  BY <1>8, <1>9, FS_EmptySet
<1> QED  BY <1>6, <1>10 DEF M

LEMMA CampaignJudges == CInv => CampaignVerdict
<1> SUFFICES ASSUME CInv, script = "passed", NEW s \in 1 .. cfg.seeds
             PROVE  /\ reports[s].there
                    /\ \A q \in AllQueries :
                         LET sampled == {x \in ToSet(reports[s].samples) : x.query = q}
                         IN  /\ {x.algorithm : x \in sampled} = Algorithms
                             /\ \A x \in sampled : x.correct
                             /\ \E t, b \in sampled :
                                  /\ t.algorithm = "aegis" /\ isClassical(b.algorithm)
                                  /\ t.ns > 0 /\ b.ns > 0
                                  /\ 4 * t.ns < 5 * b.ns \/ t.ns - b.ns < cfg.penaltyFloor
                                  /\ \A c \in sampled :
                                       isClassical(c.algorithm) /\ c.ns > 0 => b.ns <= c.ns
  BY DEF CampaignVerdict, AllQueries
<1> DEFINE file == reports[s]
<1>1. Passed /\ cfg.penaltyFloor \in Nat  BY DEF CInv, CampaignConfig
<1>2. file.there /\ Rows(file) = AllQueries
  BY <1>1, EveryRowIsThere DEF Analyzed
<1>3. Complete(file)  BY <1>2 DEF CInv, Files
<1> HIDE DEF file
<1> SUFFICES ASSUME NEW q \in AllQueries
             PROVE  LET sampled == {x \in ToSet(file.samples) : x.query = q}
                    IN  /\ {x.algorithm : x \in sampled} = Algorithms
                        /\ \A x \in sampled : x.correct
                        /\ \E t, b \in sampled :
                             /\ t.algorithm = "aegis" /\ isClassical(b.algorithm)
                             /\ t.ns > 0 /\ b.ns > 0
                             /\ 4 * t.ns < 5 * b.ns \/ t.ns - b.ns < cfg.penaltyFloor
                             /\ \A c \in sampled :
                                  isClassical(c.algorithm) /\ c.ns > 0 => b.ns <= c.ns
  BY <1>2 DEF file
<1> DEFINE sampled == {x \in ToSet(file.samples) : x.query = q}
<1>4. /\ \A x \in ToSet(file.samples) : x.correct /\ x.algorithm = x.of /\ x.ns \in Nat
      /\ {<<x.query, x.of>> : x \in ToSet(file.samples)} = AllQueries \X Algorithms
  <2>1. \A x \in ToSet(file.samples) : x \in Sample  BY <1>3 DEF Complete, ToSet
  <2>2. \A x \in Sample : x.ns \in Nat  BY DEF Sample
  <2> QED  BY <1>3, <2>1, <2>2 DEF Complete
<1>5. {x.algorithm : x \in sampled} = Algorithms
  <2>1. ASSUME NEW x \in sampled PROVE x.algorithm \in Algorithms
    <3>1. <<x.query, x.of>> \in {<<y.query, y.of>> : y \in ToSet(file.samples)}  OBVIOUS
    <3>2. <<x.query, x.of>> \in AllQueries \X Algorithms  BY <1>4, <3>1
    <3> QED  BY <1>4, <3>2
  <2>2. ASSUME NEW alg \in Algorithms PROVE \E x \in sampled : x.algorithm = alg
    <3>1. <<q, alg>> \in {<<x.query, x.of>> : x \in ToSet(file.samples)}  BY <1>4
    <3>2. PICK x \in ToSet(file.samples) : <<q, alg>> = <<x.query, x.of>>  BY <3>1
    <3> QED  BY <1>4, <3>2
  <2> QED  BY <2>1, <2>2
<1>6. PICK t \in Targets(file, q) : t.ns > 0 /\ t.correct
  BY <1>2 DEF Rows, HasRow
<1>7. Baselines(file, q) # {}  BY <1>2 DEF Rows, HasRow
<1>8. Targets(file, q) = {x \in sampled : x.algorithm = "aegis"}  BY DEF Targets
<1>9. Baselines(file, q) = {x \in sampled : isClassical(x.algorithm) /\ x.ns > 0}
  BY <1>4 DEF Baselines
<1>10. ~Meaningful(file, q)  BY <1>1, NoneMeaningful DEF file
<1> DEFINE times == {b.ns : b \in Baselines(file, q)}
<1>11. PICK m \in times : \A n \in times : m <= n
  <2>1. times \subseteq Nat /\ times # {}  BY <1>4, <1>7, <1>9
  <2> HIDE DEF times
  <2> QED  BY <2>1, LeastNumber
<1>12. PICK b \in Baselines(file, q) : b.ns = m  BY <1>11
<1>13. \A c \in Baselines(file, q) : b.ns <= c.ns  BY <1>11, <1>12
<1>14. 4 * t.ns < 5 * b.ns \/ t.ns - b.ns < cfg.penaltyFloor
  <2>1. t.ns \in Nat /\ b.ns \in Nat  BY <1>4, <1>8, <1>9
  <2>2. ~(4 * t.ns >= 5 * b.ns /\ t.ns - b.ns >= cfg.penaltyFloor)
    BY <1>10 DEF Meaningful
  <2> QED  BY <1>1, <2>1, <2>2
<1>15. /\ t \in sampled /\ b \in sampled /\ t.algorithm = "aegis" /\ isClassical(b.algorithm)
       /\ t.ns > 0 /\ b.ns > 0
  BY <1>6, <1>8, <1>9
<1>16. \A c \in sampled : isClassical(c.algorithm) /\ c.ns > 0 => b.ns <= c.ns
  BY <1>9, <1>13
<1>17. \A x \in sampled : x.correct  BY <1>4
<1> HIDE DEF sampled
<1>18. \E t1, b1 \in sampled :
         /\ t1.algorithm = "aegis" /\ isClassical(b1.algorithm) /\ t1.ns > 0 /\ b1.ns > 0
         /\ 4 * t1.ns < 5 * b1.ns \/ t1.ns - b1.ns < cfg.penaltyFloor
         /\ \A c \in sampled : isClassical(c.algorithm) /\ c.ns > 0 => b1.ns <= c.ns
  BY <1>14, <1>15, <1>16, Zenon
<1> QED  BY <1>5, <1>17, <1>18 DEF sampled

\* A campaign that passes has judged every query of every seed, for any numbers of
\* them and wherever it was killed and resumed.
THEOREM CampaignVerdictHolds == CampaignSpec => []CampaignVerdict
<1>1. CampaignConfig /\ BenchInit /\ CampaignInit => CInv  BY CampaignInitially
<1>2. CInv /\ [(Campaigning \/ Kill \/ Restart) /\ UNCHANGED cfg]_<<benchVars, campaignVars, cfg>>
        => CInv'
  BY CampaignKeeps
<1> QED  BY <1>1, <1>2, CampaignJudges, PTL DEF CampaignSpec

-----------------------------------------------------------------------------
(* The replay: medians.                                                    *)

AtMost(s, t) == {k \in DOMAIN s : s[k].ns <= t}
Below(s, t) == {k \in DOMAIN s : s[k].ns < t}

IsMedian(s, t) ==
  /\ t \in {s[k].ns : k \in DOMAIN s}
  /\ 2 * Cardinality(AtMost(s, t)) >= Len(s)
  /\ 2 * Cardinality(Below(s, t)) < Len(s)

\* A function on a finite set takes a largest value.
LEMMA LargestValue ==
  ASSUME NEW D, IsFiniteSet(D), D # {}, NEW f \in [D -> Nat]
  PROVE  \E m \in D : \A k \in D : f[k] <= f[m]
<1> DEFINE Above(m) == {k \in D : f[k] > f[m]}
           T == {Cardinality(Above(m)) : m \in D}
<1>1. \A m \in D : IsFiniteSet(Above(m)) /\ Cardinality(Above(m)) \in Nat
  <2> TAKE m \in D
  <2>1. Above(m) \in SUBSET D  OBVIOUS
  <2> HIDE DEF Above
  <2> QED  BY <2>1, FS_Subset, FS_CardinalityType
<1>2. PICK m \in D : \A k \in D : Cardinality(Above(m)) <= Cardinality(Above(k))
  <2>1. T \subseteq Nat /\ T # {}  BY <1>1
  <2>2. PICK t \in T : \A u \in T : t <= u
    <3> HIDE DEF T
    <3> QED  BY <2>1, LeastNumber
  <2> HIDE DEF Above
  <2> QED  BY <2>2
<1>3. ASSUME NEW k \in D, f[k] > f[m] PROVE FALSE
  <2>1. Above(k) \in SUBSET Above(m) /\ k \in Above(m) /\ k \notin Above(k)
    BY <1>3
  <2> HIDE DEF Above
  <2>2. Above(k) # Above(m)  BY <2>1
  <2>3. Cardinality(Above(k)) <= Cardinality(Above(m))
        /\ Cardinality(Above(k)) # Cardinality(Above(m))
    BY <1>1, <2>1, <2>2, FS_Subset
  <2> QED  BY <1>1, <1>2, <2>3
<1> QED  BY <1>3

LEMMA Counting ==
  ASSUME NEW s \in Seq(Result)
  PROVE  /\ IsFiniteSet(DOMAIN s) /\ Cardinality(DOMAIN s) = Len(s) /\ Len(s) \in Nat
         /\ \A S \in SUBSET DOMAIN s : IsFiniteSet(S) /\ Cardinality(S) \in Nat
         /\ \A S, U \in SUBSET DOMAIN s : S \subseteq U => Cardinality(S) <= Cardinality(U)
         /\ \A k \in DOMAIN s : s[k].ns \in Nat
<1>1. DOMAIN s = 1 .. Len(s) /\ Len(s) \in Nat  OBVIOUS
<1>2. 1 \in Int /\ Len(s) \in Int  BY <1>1
<1>3. /\ IsFiniteSet(1 .. Len(s))
      /\ Cardinality(1 .. Len(s)) = IF 1 > Len(s) THEN 0 ELSE Len(s) - 1 + 1
  BY <1>2, FS_Interval
<1>4. IsFiniteSet(DOMAIN s) /\ Cardinality(DOMAIN s) = Len(s)  BY <1>1, <1>3
<1>5. \A S \in SUBSET DOMAIN s : IsFiniteSet(S) /\ Cardinality(S) \in Nat
  BY <1>4, FS_Subset, FS_CardinalityType
<1>6. \A S, U \in SUBSET DOMAIN s : S \subseteq U => Cardinality(S) <= Cardinality(U)
  BY <1>5, FS_Subset
<1>7. \A k \in DOMAIN s : s[k] \in Result  OBVIOUS
<1>8. \A k \in DOMAIN s : s[k].ns \in Nat  BY <1>7 DEF Result
<1> QED  BY <1>1, <1>4, <1>5, <1>6, <1>8

LEMMA MedianUnique ==
  ASSUME NEW s \in Seq(Result), NEW t, NEW u, IsMedian(s, t), IsMedian(s, u)
  PROVE  t = u
<1>1. ASSUME NEW a, NEW b, IsMedian(s, a), IsMedian(s, b), a < b PROVE FALSE
  <2>1. a \in Nat /\ b \in Nat  BY <1>1, Counting DEF IsMedian
  <2>2. AtMost(s, a) \subseteq Below(s, b)  BY <1>1, <2>1, Counting DEF AtMost, Below
  <2>3. /\ Cardinality(AtMost(s, a)) <= Cardinality(Below(s, b))
        /\ Cardinality(AtMost(s, a)) \in Nat /\ Cardinality(Below(s, b)) \in Nat
        /\ Len(s) \in Nat
    BY <2>2, Counting DEF AtMost, Below
  <2> QED  BY <1>1, <2>3 DEF IsMedian
<1>2. t \in Nat /\ u \in Nat  BY Counting DEF IsMedian
<1>3. ~(t < u) /\ ~(u < t)  BY <1>1
<1> QED  BY <1>2, <1>3

LEMMA MedianThere ==
  ASSUME NEW s \in Seq(Result), s # <<>>
  PROVE  \E t : IsMedian(s, t)
<1> DEFINE f == [k \in DOMAIN s |-> s[k].ns]
           H == {t \in {s[k].ns : k \in DOMAIN s} : 2 * Cardinality(AtMost(s, t)) >= Len(s)}
<1>1. f \in [DOMAIN s -> Nat] /\ \A k \in DOMAIN s : f[k] = s[k].ns  BY Counting
<1>2. Len(s) \in Nat \ {0} /\ DOMAIN s # {}  OBVIOUS
<1> HIDE DEF f
<1>3. PICK m \in DOMAIN s : \A k \in DOMAIN s : f[k] <= f[m]
  BY <1>1, <1>2, Counting, LargestValue
<1>4. AtMost(s, s[m].ns) = DOMAIN s  BY <1>1, <1>3 DEF AtMost
<1>5. s[m].ns \in H  BY <1>2, <1>4, Counting
<1>6. H \subseteq Nat  BY Counting
<1>7. PICK t \in H : \A u \in H : t <= u
  <2> HIDE DEF H
  <2> QED  BY <1>5, <1>6, LeastNumber
<1>8. /\ Cardinality(Below(s, t)) \in Nat /\ IsFiniteSet(Below(s, t)) /\ t \in Nat
  BY <1>6, <1>7, Counting DEF Below
<1>9. ASSUME 2 * Cardinality(Below(s, t)) >= Len(s) PROVE FALSE
  <2> DEFINE D == Below(s, t)
             g == [k \in D |-> s[k].ns]
  <2>1. D # {}
    <3> SUFFICES ASSUME D = {} PROVE FALSE  OBVIOUS
    <3>1. Cardinality(D) = 0  BY FS_EmptySet
    <3> QED  BY <1>2, <1>9, <3>1
  <2>2. g \in [D -> Nat] /\ \A k \in D : g[k] = s[k].ns  BY Counting DEF Below
  <2> HIDE DEF g
  <2>3. PICK n \in D : \A k \in D : g[k] <= g[n]  BY <1>8, <2>1, <2>2, LargestValue
  <2>4. n \in DOMAIN s /\ s[n].ns < t /\ s[n].ns \in Nat  BY <2>3, Counting DEF Below
  <2>5. Below(s, t) \subseteq AtMost(s, s[n].ns)  BY <2>2, <2>3 DEF Below, AtMost
  <2>6. /\ Cardinality(Below(s, t)) <= Cardinality(AtMost(s, s[n].ns))
        /\ Cardinality(AtMost(s, s[n].ns)) \in Nat
    BY <2>5, Counting DEF Below, AtMost
  <2>7. s[n].ns \in H  BY <1>2, <1>8, <1>9, <2>4, <2>6
  <2> QED  BY <1>7, <1>8, <2>4, <2>7
<1>10. IsMedian(s, t)  BY <1>2, <1>7, <1>8, <1>9 DEF IsMedian
<1> QED  BY <1>10

LEMMA MedianOfMeasured ==
  ASSUME NEW alg, measured[alg] \in Seq(Result), measured[alg] # <<>>
  PROVE  IsMedian(measured[alg], medianNS(alg)) /\ medianNS(alg) \in Nat
<1> DEFINE s == measured[alg]
           T == {s[k].ns : k \in DOMAIN s}
<1>1. PICK t : IsMedian(s, t)  BY MedianThere
<1>2. medianNS(alg) = CHOOSE u \in T : IsMedian(s, u)
  <2>1. medianNS(alg) = CHOOSE u \in T : /\ 2 * Cardinality(AtMost(s, u)) >= Len(s)
                                         /\ 2 * Cardinality(Below(s, u)) < Len(s)
    BY DEF medianNS, AtMost, Below
  <2>2. \A u \in T : IsMedian(s, u) <=> /\ 2 * Cardinality(AtMost(s, u)) >= Len(s)
                                        /\ 2 * Cardinality(Below(s, u)) < Len(s)
    BY DEF IsMedian
  <2> QED  BY <2>1, <2>2
<1>3. t \in T  BY <1>1 DEF IsMedian
<1>4. IsMedian(s, medianNS(alg))  BY <1>1, <1>2, <1>3
<1> QED  BY <1>4, Counting DEF IsMedian

LEMMA MiddleIsMedian ==
  ASSUME NEW s \in Seq(Result), NEW t \in {r.ns : r \in ToSet(s)},
         Cardinality(AtMost(s, t)) = (Len(s) + 1) \div 2
  PROVE  IsMedian(s, t)
<1>1. PICK k \in DOMAIN s : t = s[k].ns  BY DEF ToSet
<1>2. t \in Nat /\ Len(s) \in Nat  BY <1>1, Counting
<1>3. /\ Below(s, t) \subseteq AtMost(s, t) /\ k \in AtMost(s, t) /\ k \notin Below(s, t)
      /\ AtMost(s, t) \in SUBSET DOMAIN s /\ Below(s, t) \in SUBSET DOMAIN s
  BY <1>1, <1>2, Counting DEF AtMost, Below
<1>4. /\ IsFiniteSet(AtMost(s, t)) /\ Cardinality(AtMost(s, t)) \in Nat
      /\ Cardinality(Below(s, t)) \in Nat
  BY <1>3, Counting
<1>5. Below(s, t) # AtMost(s, t) /\ Below(s, t) \in SUBSET AtMost(s, t)  BY <1>3
<1>6. Cardinality(Below(s, t)) < Cardinality(AtMost(s, t))  BY <1>4, <1>5, FS_Subset
<1>7. /\ 2 * Cardinality(AtMost(s, t)) >= Len(s) /\ 2 * Cardinality(Below(s, t)) < Len(s)
  BY <1>2, <1>4, <1>6
<1> QED  BY <1>1, <1>7 DEF IsMedian

-----------------------------------------------------------------------------
(* The replay: what is said of one case.                                   *)

All(c) == (UNION {ToSet(c.results[alg]) : alg \in Replayed}) \cup {c.traced}

Middle(c, alg) ==
  {t \in {r.ns : r \in ToSet(c.results[alg])} :
     Cardinality({k \in DOMAIN c.results[alg] : c.results[alg][k].ns <= t})
       = (cfg.repeats + 1) \div 2}

GuardPassesCase(c, g) ==
  /\ c.classification = "adaptive-scheduler-tail" => c.outcome[g] = "improved"
  /\ c.regression[g] < cfg.penaltyFloor

GuardEarnsCase(c, g) ==
  \A a \in Middle(c, "aegis"), t \in Middle(c, g) :
    /\ t - a < cfg.penaltyFloor
    /\ \A d \in Middle(c, "dijkstra"), s \in Middle(c, "aegis-static") :
         4 * a >= 5 * d /\ a - d >= cfg.penaltyFloor /\ a - s >= cfg.penaltyFloor
           /\ 20 * s <= 19 * a
         => t < a

CaseSound(c) ==
  /\ c.allCorrect <=> \A r, d \in All(c) : Agrees(r, d) /\ r.valid
  /\ \A g \in Guards : GuardPassesCase(c, g) => GuardEarnsCase(c, g)

\* A case in which every algorithm has been measured.
FullyMeasured ==
  /\ measured \in [Replayed -> Seq(Result)]
  /\ \A alg \in Replayed : Len(measured[alg]) = cfg.repeats

LEMMA CaseCorrect ==
  ASSUME ReplayConfig, FullyMeasured, NEW c, c.results = measured,
         c.allCorrect = ((\A alg \in Replayed : AllRight(alg)) /\ IsRight(c.traced))
  PROVE  c.allCorrect <=> \A r, d \in All(c) : Agrees(r, d) /\ r.valid
<1>1. "dijkstra" \in Replayed /\ cfg.repeats \in Nat \ {0}  BY DEF ReplayConfig
<1>2. 1 \in DOMAIN measured["dijkstra"]  BY <1>1 DEF FullyMeasured
<1>3. \A e : e \in All(c) <=>
        e = c.traced \/ \E alg \in Replayed : \E k \in DOMAIN measured[alg] : e = measured[alg][k]
  <2> DEFINE U == UNION {ToSet(measured[alg]) : alg \in Replayed}
  <2>1. All(c) = U \cup {c.traced}  BY DEF All
  <2> TAKE e
  <2>2. e \in U <=> \E alg \in Replayed : e \in ToSet(measured[alg])  OBVIOUS
  <2>3. ASSUME NEW alg \in Replayed
        PROVE  e \in ToSet(measured[alg]) <=> \E k \in DOMAIN measured[alg] : e = measured[alg][k]
    BY DEF ToSet
  <2> HIDE DEF U
  <2>4. e \in All(c) <=> e = c.traced \/ e \in U  BY <2>1
  <2> QED  BY <2>2, <2>3, <2>4, Zenon
<1>4. ReferenceOf \in All(c)  BY <1>1, <1>2, <1>3 DEF ReferenceOf
<1>5. c.allCorrect <=> \A e \in All(c) : IsRight(e)  <2>1. (\A alg \in Replayed : AllRight(alg))
          <=> \A alg \in Replayed : \A k \in DOMAIN measured[alg] : IsRight(measured[alg][k])
    BY DEF AllRight
  <2>2. (\A e \in All(c) : IsRight(e))
          <=> /\ IsRight(c.traced)
              /\ \A alg \in Replayed : \A k \in DOMAIN measured[alg] : IsRight(measured[alg][k])
    <3>1. ASSUME \A e \in All(c) : IsRight(e)
          PROVE  /\ IsRight(c.traced)
                 /\ \A alg \in Replayed : \A k \in DOMAIN measured[alg] : IsRight(measured[alg][k])
      BY <1>3, <3>1
    <3>2. ASSUME IsRight(c.traced),
                 \A alg \in Replayed : \A k \in DOMAIN measured[alg] : IsRight(measured[alg][k]),
                 NEW e \in All(c)
          PROVE  IsRight(e)
      BY <1>3, <3>2
    <3> QED  BY <3>1, <3>2
  <2> QED  BY <2>1, <2>2
<1>6. (\A e \in All(c) : IsRight(e)) <=> \A r, d \in All(c) : Agrees(r, d) /\ r.valid
  BY <1>4 DEF IsRight, Agrees
<1> QED  BY <1>5, <1>6

LEMMA MediansMeasured ==
  ASSUME ReplayConfig, FullyMeasured, NEW c, c.results = measured, NEW alg \in Replayed
  PROVE  medianNS(alg) \in Nat /\ \A t \in Middle(c, alg) : t = medianNS(alg)
<1>1. measured[alg] \in Seq(Result) /\ Len(measured[alg]) = cfg.repeats  BY DEF FullyMeasured
<1>2. cfg.repeats \in Nat \ {0}  BY DEF ReplayConfig
<1>3. measured[alg] # <<>>  BY <1>1, <1>2
<1>4. IsMedian(measured[alg], medianNS(alg)) /\ medianNS(alg) \in Nat
  BY <1>1, <1>3, MedianOfMeasured
<1>5. ASSUME NEW t \in Middle(c, alg) PROVE t = medianNS(alg)
  <2>1. t \in {r.ns : r \in ToSet(measured[alg])}  BY DEF Middle
  <2>2. Cardinality(AtMost(measured[alg], t)) = (Len(measured[alg]) + 1) \div 2
    BY <1>1 DEF Middle, AtMost
  <2>3. IsMedian(measured[alg], t)  BY <1>1, <2>1, <2>2, MiddleIsMedian
  <2> QED  BY <1>1, <1>4, <2>3, MedianUnique
<1> QED  BY <1>4, <1>5

\* The fastest classical algorithm is not slower than Dijkstra's.
LEMMA FastestIsFast ==
  ASSUME ReplayConfig, FullyMeasured
  PROVE  FastestClassical \in Nat /\ FastestClassical <= medianNS("dijkstra")
<1> DEFINE T == {medianNS(alg) : alg \in Replayed \cap {"dijkstra", "bidijkstra", "astar"}}
<1>1. "dijkstra" \in Replayed  BY DEF ReplayConfig
<1>2. \A alg \in Replayed : medianNS(alg) \in Nat
  <2> TAKE alg \in Replayed
  <2>1. measured[alg] \in Seq(Result) /\ Len(measured[alg]) = cfg.repeats  BY DEF FullyMeasured
  <2>2. cfg.repeats \in Nat \ {0}  BY DEF ReplayConfig
  <2>3. measured[alg] # <<>>  BY <2>1, <2>2
  <2> QED  BY <2>1, <2>3, MedianOfMeasured
<1>3. T \subseteq Nat /\ medianNS("dijkstra") \in T  BY <1>1, <1>2
<1>4. FastestClassical = CHOOSE t \in T : \A u \in T : t <= u  BY DEF FastestClassical
<1> HIDE DEF T
<1>5. \E t \in T : \A u \in T : t <= u  BY <1>3, LeastNumber
<1>6. FastestClassical \in T /\ \A u \in T : FastestClassical <= u  BY <1>4, <1>5
<1> QED  BY <1>3, <1>6

LEMMA GuardJudged ==
  ASSUME ReplayConfig, FullyMeasured, NEW c, c.results = measured, NEW g \in Guards,
         c.classification = Classification, c.outcome[g] = Outcome(g),
         c.regression[g] = Gain(medianNS("aegis"), medianNS(g)), GuardPassesCase(c, g)
  PROVE  GuardEarnsCase(c, g)
<1> DEFINE A == medianNS("aegis")
           G == medianNS(g)
           D == medianNS("dijkstra")
           S == medianNS("aegis-static")
           F == FastestClassical
           floor == cfg.penaltyFloor
<1>1. /\ "dijkstra" \in Replayed /\ "aegis-static" \in Replayed /\ "aegis" \in Replayed
      /\ g \in Replayed /\ floor \in Nat \ {0}
  BY DEF ReplayConfig, Guards
<1>2. A \in Nat /\ G \in Nat /\ D \in Nat /\ S \in Nat  BY <1>1, MediansMeasured
<1>3. /\ \A t \in Middle(c, "aegis") : t = A
      /\ \A t \in Middle(c, g) : t = G
      /\ \A t \in Middle(c, "dijkstra") : t = D
      /\ \A t \in Middle(c, "aegis-static") : t = S
  BY <1>1, MediansMeasured
<1>4. F \in Nat /\ F <= D  BY FastestIsFast
<1>5. G - A < floor
  <2>1. Gain(A, G) < floor  BY DEF GuardPassesCase
  <2> QED  BY <1>1, <1>2, <2>1 DEF Gain
<1>6. ASSUME 4 * A >= 5 * D, A - D >= floor, A - S >= floor, 20 * S <= 19 * A
      PROVE  G < A
  <2>1. ReplayMeaningful
    <3>1. 4 * A >= 5 * F  BY <1>2, <1>4, <1>6
    <3>2. F < A /\ A - F >= floor  BY <1>1, <1>2, <1>4, <1>6
    <3> QED  BY <3>1, <3>2 DEF ReplayMeaningful, Gain
  <2>2. Gain(S, A) >= floor \div 2 /\ 100 * S <= 95 * A
    <3>1. S < A  BY <1>1, <1>2, <1>6
    <3>2. Gain(S, A) = A - S  BY <3>1 DEF Gain
    <3> QED  BY <1>1, <1>2, <1>6, <3>2
  <2>3. Classification = "adaptive-scheduler-tail"  BY <2>1, <2>2 DEF Classification
  <2>4. Outcome(g) = "improved"  BY <2>3 DEF GuardPassesCase
  <2>5. guardFloor >= 1  BY <1>1 DEF guardFloor
  <2>6. Gain(G, A) >= guardFloor
    <3> DEFINE better == Gain(G, A) >= guardFloor
               worse == Gain(A, G) >= floor
    <3>1. Outcome(g) = CASE better -> "improved" [] worse -> "regressed" [] OTHER -> "neutral"
      BY DEF Outcome
    <3> HIDE DEF better, worse
    <3>2. better  BY <2>4, <3>1
    <3> QED  BY <3>2 DEF better
  <2>7. Gain(G, A) > 0
    <3>1. Gain(G, A) \in Nat /\ guardFloor \in Nat  BY <1>1, <1>2 DEF Gain, guardFloor
    <3> QED  BY <2>5, <2>6, <3>1
  <2> QED  BY <1>2, <2>7 DEF Gain
<1> HIDE DEF A, G, D, S, F, floor
<1> QED  BY <1>3, <1>5, <1>6 DEF GuardEarnsCase, floor

-----------------------------------------------------------------------------
(* The replay: every algorithm is measured once in a round.                *)

Listed == Len(cfg.algorithms)

LEMMA ReplayListed ==
  ASSUME ReplayConfig
  PROVE  /\ Listed \in Nat \ {0} /\ DOMAIN cfg.algorithms = 1 .. Listed
         /\ Replayed = {cfg.algorithms[p] : p \in 1 .. Listed}
         /\ \A p \in 1 .. Listed : cfg.algorithms[p] \in Replayed
<1> DEFINE listed == cfg.algorithms
<1>0. listed \in Seq(Replayed)  BY DEF ReplayConfig
<1> HIDE DEF listed
<1>1. Listed \in Nat /\ DOMAIN listed = 1 .. Listed
  <2>1. Len(listed) \in Nat /\ DOMAIN listed = 1 .. Len(listed)  BY <1>0
  <2> QED  BY <2>1 DEF Listed, listed
<1>2. Replayed = {listed[p] : p \in 1 .. Listed}  BY <1>1 DEF Replayed, ToSet, listed
<1>3. Listed # 0
  <2>1. "aegis" \in Replayed  BY DEF ReplayConfig
  <2>2. \E p \in 1 .. Listed : TRUE  BY <1>2, <2>1
  <2> QED  BY <1>1, <2>2
<1> QED  BY <1>1, <1>2, <1>3 DEF listed

\* Adding the same to two remainders keeps them apart.
LEMMA RotationInjective ==
  ASSUME NEW n \in Nat \ {0}, NEW i \in Nat, NEW a \in 0 .. n - 1, NEW b \in 0 .. n - 1,
         (a + i) % n = (b + i) % n
  PROVE  a = b
<1>1. ASSUME NEW c \in 0 .. n - 1, NEW d \in 0 .. n - 1, (c + i) % n = (d + i) % n, c < d
      PROVE  FALSE
  <2> DEFINE q == (c + i) \div n
             r == (d + i) \div n
  <2>1. c + i \in Nat /\ d + i \in Nat  OBVIOUS
  <2>2. /\ (c + i) % n = (c + i) - n * q /\ q \in Nat
        /\ (d + i) % n = (d + i) - n * r /\ r \in Nat
    BY <2>1
  <2> HIDE DEF q, r
  <2>3. d - c = n * r - n * q /\ n * r \in Nat /\ n * q \in Nat  BY <1>1, <2>2
  <2>4. q < r
    <3> SUFFICES ASSUME ~(q < r) PROVE FALSE  OBVIOUS
    <3>1. PICK e \in Nat : q = r + e  BY <2>2, q - r \in Nat
    <3>2. n * q = n * r + n * e /\ n * e \in Nat  BY <2>2, <3>1
    <3> QED  BY <1>1, <2>3, <3>2
  <2>5. PICK e \in Nat : r = q + 1 + e  BY <2>2, <2>4, r - q - 1 \in Nat
  <2>6. n * r = n * q + n + n * e /\ n * e \in Nat  BY <2>2, <2>5
  <2> QED  BY <1>1, <2>3, <2>6
<1>2. ~(a < b)  BY <1>1
<1>3. ~(b < a)  BY <1>1
<1> QED  BY <1>2, <1>3

LEMMA RotatedOnce ==
  ASSUME ReplayConfig, NEW i \in Nat
  PROVE  /\ \A p \in 1 .. Listed : Rotated(cfg.algorithms, i)[p] \in Replayed
         /\ \A p, q \in 1 .. Listed :
              Rotated(cfg.algorithms, i)[p] = Rotated(cfg.algorithms, i)[q] => p = q
         /\ \A alg \in Replayed : \E p \in 1 .. Listed : Rotated(cfg.algorithms, i)[p] = alg
<1> DEFINE n == Listed
           R == Rotated(cfg.algorithms, i)
           f == [a \in 0 .. n - 1 |-> (a + i) % n]
<1>1. /\ n \in Nat \ {0} /\ Replayed = {cfg.algorithms[p] : p \in 1 .. n}
      /\ \A p, q \in 1 .. n : cfg.algorithms[p] = cfg.algorithms[q] => p = q
  BY ReplayListed DEF ReplayConfig, IsInjective
<1>2. \A p \in 1 .. n : R[p] = cfg.algorithms[((p - 1 + i) % n) + 1]
  BY ReplayListed DEF Rotated, Listed
<1> HIDE DEF n, R
<1>3. \A a \in 0 .. n - 1 : f[a] = (a + i) % n /\ f[a] \in 0 .. n - 1
  <2> TAKE a \in 0 .. n - 1
  <2>1. a + i \in Nat  OBVIOUS
  <2>2. (a + i) % n \in 0 .. n - 1  BY <1>1, <2>1
  <2> QED  BY <2>2
<1>4. f \in [0 .. n - 1 -> 0 .. n - 1]  BY <1>3
<1>5. \A a, b \in 0 .. n - 1 : f[a] = f[b] => a = b
  BY <1>1, <1>3, RotationInjective
<1> HIDE DEF f
<1>6. \A b \in 0 .. n - 1 : \E a \in 0 .. n - 1 : f[a] = b
  <2>1. f \in Injection(0 .. n - 1, 0 .. n - 1)  BY <1>4, <1>5 DEF Injection, IsInjective
  <2>2. IsFiniteSet(0 .. n - 1)
    <3>1. 0 \in Int /\ n - 1 \in Int  BY <1>1
    <3> QED  BY <3>1, FS_Interval
  <2>3. f \in Surjection(0 .. n - 1, 0 .. n - 1)  BY <2>1, <2>2, FS_Injection
  <2> QED  BY <2>3 DEF Surjection
<1>7. \A p \in 1 .. n : p - 1 \in 0 .. n - 1 /\ R[p] = cfg.algorithms[f[p - 1] + 1]
                        /\ f[p - 1] + 1 \in 1 .. n
  BY <1>1, <1>2, <1>3
<1>8. ASSUME NEW p \in 1 .. n PROVE R[p] \in Replayed  BY <1>1, <1>7
<1>9. ASSUME NEW p \in 1 .. n, NEW q \in 1 .. n, R[p] = R[q] PROVE p = q
  <2>1. f[p - 1] + 1 = f[q - 1] + 1  BY <1>1, <1>7, <1>9
  <2>2. f[p - 1] = f[q - 1]  BY <1>3, <1>7, <2>1
  <2>3. p - 1 = q - 1  BY <1>5, <1>7, <2>2
  <2> QED  BY <1>1, <2>3
<1>10. ASSUME NEW alg \in Replayed PROVE \E p \in 1 .. n : R[p] = alg
  <2>1. PICK t \in 1 .. n : alg = cfg.algorithms[t]  BY <1>1
  <2>2. t - 1 \in 0 .. n - 1  BY <1>1
  <2>3. PICK a \in 0 .. n - 1 : f[a] = t - 1  BY <1>6, <2>2
  <2>4. a + 1 \in 1 .. n /\ (a + 1) - 1 = a /\ (t - 1) + 1 = t  BY <1>1
  <2>5. R[a + 1] = cfg.algorithms[f[a] + 1]  BY <1>7, <2>4
  <2> QED  BY <2>1, <2>3, <2>4, <2>5
<1> QED  BY <1>8, <1>9, <1>10 DEF n, R

\* How often an algorithm has been measured when p searches of a round are made.
Turns(round, p, alg) ==
  IF round < cfg.warmup THEN 0
  ELSE (round - cfg.warmup)
         + IF \E j \in 1 .. p :
                Rotated(cfg.algorithms, round - cfg.warmup + Len(cases))[j] = alg
           THEN 1 ELSE 0

InRound ==
  \E round \in Nat, p \in 0 .. Listed - 1 :
    /\ step = Listed * round + p
    /\ round < Rounds \/ (round = Rounds /\ p = 0)
    /\ \A alg \in Replayed : Len(measured[alg]) = Turns(round, p, alg)

\* The cases are a sequence, of whatever they hold.
RInv ==
  /\ ReplayConfig
  /\ phase \in {"replaying", "done", "failed"}
  /\ measured \in [Replayed -> Seq(Result)] /\ cases \in Seq(ToSet(cases))
  /\ phase = "replaying" => Len(cases) < cfg.queries /\ InRound
  /\ phase = "done" => Len(cases) = cfg.queries
  /\ \A c \in ToSet(cases) : CaseSound(c)

LEMMA ConfigStays ==
  ASSUME cfg' = cfg
  PROVE  /\ ReplayConfig' = ReplayConfig /\ Replayed' = Replayed /\ Listed' = Listed
         /\ Rounds' = Rounds
         /\ \A c : CaseSound(c)' = CaseSound(c)
<1>1. Replayed' = Replayed /\ Listed' = Listed /\ Rounds' = Rounds
  BY DEF Replayed, Listed, Rounds
<1>2. ReplayConfig' = ReplayConfig  BY <1>1 DEF ReplayConfig
<1>3. /\ Guards' = Guards /\ \A c : All(c)' = All(c)
      /\ \A c, alg : Middle(c, alg)' = Middle(c, alg)
  BY <1>1 DEF Guards, All, Middle
<1>4. \A c, g : /\ GuardPassesCase(c, g)' = GuardPassesCase(c, g)
                /\ GuardEarnsCase(c, g)' = GuardEarnsCase(c, g)
  BY <1>3 DEF GuardPassesCase, GuardEarnsCase
<1>5. \A c : CaseSound(c)' = CaseSound(c)  BY <1>3, <1>4 DEF CaseSound, Agrees
<1> QED  BY <1>1, <1>2, <1>5

LEMMA RoundBegins ==
  ASSUME ReplayConfig, step = 0, measured = [alg \in Replayed |-> <<>>]
  PROVE  measured \in [Replayed -> Seq(Result)] /\ InRound
<1>1. /\ Listed \in Nat \ {0} /\ cfg.warmup \in Nat /\ cfg.repeats \in Nat \ {0}
  BY ReplayListed DEF ReplayConfig
<1>2. step = Listed * 0 + 0 /\ 0 < Rounds /\ 0 \in 0 .. Listed - 1  BY <1>1 DEF Rounds
<1>3. \A alg \in Replayed : Turns(0, 0, alg) = 0  BY <1>1 DEF Turns
<1>4. \A alg \in Replayed : Len(measured[alg]) = Turns(0, 0, alg)  BY <1>3
<1> QED  BY <1>2, <1>4 DEF InRound

LEMMA ReplayInitially ==
  ASSUME ReplayConfig, ReplayInit
  PROVE  RInv
<1>1. phase = "replaying" /\ cases = <<>> /\ step = 0 /\ measured = [alg \in Replayed |-> <<>>]
  BY DEF ReplayInit
<1>2. Len(cases) < cfg.queries /\ cases \in Seq(ToSet(cases))
  <2>1. cfg.queries \in Nat \ {0}  BY DEF ReplayConfig
  <2> QED  BY <1>1, <2>1
<1>3. ToSet(cases) = {}  BY <1>1 DEF ToSet
<1> QED  BY <1>1, <1>2, <1>3, RoundBegins DEF RInv

LEMMA replayOneKeeps ==
  ASSUME RInv, replayOne, cfg' = cfg
  PROVE  RInv'
<1>1. phase = "replaying" /\ step < Rounds * Listed /\ cases' = cases
  BY DEF replayOne, Listed
<1>2. PICK r \in cfg.outcomes :
        IF ~r.ok THEN phase' = "failed" /\ UNCHANGED <<step, measured>>
        ELSE /\ step' = step + 1 /\ UNCHANGED phase
             /\ measured' = IF step < cfg.warmup * Listed THEN measured
                            ELSE [measured EXCEPT ![AlgorithmAt(step)] =
                                    Append(@, [r EXCEPT !.ns = Measured(@)])]
  BY DEF replayOne, Listed
<1>3. /\ ReplayConfig' /\ Replayed' = Replayed /\ Listed' = Listed /\ Rounds' = Rounds
      /\ \A c \in ToSet(cases') : CaseSound(c)'
      /\ cases' \in Seq(ToSet(cases'))
  BY <1>1, ConfigStays DEF RInv
<1>4. CASE ~r.ok
  <2>1. phase' = "failed" /\ measured' = measured  BY <1>2, <1>4
  <2> QED  BY <1>1, <1>3, <2>1 DEF RInv
<1>5. CASE r.ok
  <2>1. /\ Listed \in Nat \ {0} /\ cfg.warmup \in Nat /\ cfg.repeats \in Nat \ {0}
        /\ Rounds \in Nat /\ Rounds >= cfg.warmup /\ Len(cases) \in Nat
        /\ measured \in [Replayed -> Seq(Result)]
    <3>1. cases \in Seq(ToSet(cases))  BY DEF RInv
    <3>2. cfg.warmup \in Nat /\ cfg.repeats \in Nat \ {0}  BY DEF RInv, ReplayConfig
    <3> QED  BY <3>1, <3>2, ReplayListed DEF RInv, Rounds
  <2>2. PICK round \in Nat, p \in 0 .. Listed - 1 :
          /\ step = Listed * round + p
          /\ round < Rounds \/ (round = Rounds /\ p = 0)
          /\ \A alg \in Replayed : Len(measured[alg]) = Turns(round, p, alg)
    BY <1>1 DEF RInv, InRound
  <2>3. step < Listed * Rounds /\ (step < cfg.warmup * Listed <=> step < Listed * cfg.warmup)
    BY <1>1, <2>1
  <2>4. round < Rounds /\ (step < cfg.warmup * Listed <=> round < cfg.warmup)
    BY <2>1, <2>2, <2>3, DivisionOrder
  <2>5. step \in Nat /\ step \div Listed = round /\ step % Listed = p
    BY <2>1, <2>2, DivisionOf
  <2>6. /\ step' = step + 1 /\ phase' = "replaying"
        /\ measured' = IF round < cfg.warmup THEN measured
                       ELSE [measured EXCEPT ![AlgorithmAt(step)] =
                               Append(@, [r EXCEPT !.ns = Measured(@)])]
    BY <1>1, <1>2, <1>5, <2>4
  <2> DEFINE run == round - cfg.warmup
             R == Rotated(cfg.algorithms, run + Len(cases))
             alg == R[p + 1]
  <2>7. ASSUME round >= cfg.warmup
        PROVE  /\ run \in Nat /\ AlgorithmAt(step) = alg /\ alg \in Replayed
               /\ \A a \in Replayed : \A j \in 1 .. p + 1 : R[j] = a <=>
                    (j = p + 1 /\ a = alg) \/ (j \in 1 .. p /\ R[j] = a)
               /\ \A j \in 1 .. p : R[j] # alg
               /\ \A a \in Replayed : \E j \in 1 .. Listed : R[j] = a
    <3>1. run \in Nat /\ run + Len(cases) \in Nat /\ p + 1 \in 1 .. Listed  BY <2>1, <2>7
    <3>2. ~(round < cfg.warmup)  BY <2>1, <2>7
    <3>3. AlgorithmAt(step) = alg  BY <2>5, <3>2 DEF AlgorithmAt, Listed
    <3>4. /\ \A j \in 1 .. Listed : R[j] \in Replayed
          /\ \A j, k \in 1 .. Listed : R[j] = R[k] => j = k
          /\ \A a \in Replayed : \E j \in 1 .. Listed : R[j] = a
      BY <3>1, RotatedOnce DEF RInv
    <3> HIDE DEF run, R
    <3>5. alg \in Replayed  BY <3>1, <3>4
    <3>6. \A j \in 1 .. p : j \in 1 .. Listed /\ j # p + 1  BY <2>1, <3>1
    <3>7. \A j \in 1 .. p : R[j] # alg  BY <3>1, <3>4, <3>6
    <3>8. \A a \in Replayed : \A j \in 1 .. p + 1 : R[j] = a <=>
            (j = p + 1 /\ a = alg) \/ (j \in 1 .. p /\ R[j] = a)
      <4> TAKE a \in Replayed
      <4> TAKE j \in 1 .. p + 1
      <4>1. CASE j = p + 1  BY <4>1
      <4>2. CASE j \in 1 .. p  BY <3>6, <4>2
      <4> QED  BY <4>1, <4>2
    <3> QED  BY <3>1, <3>3, <3>4, <3>5, <3>7, <3>8
  <2> HIDE DEF run, R, alg
  <2>8. measured' \in [Replayed -> Seq(Result)]
    <3>1. CASE round < cfg.warmup  BY <2>1, <2>6, <3>1
    <3>2. CASE ~(round < cfg.warmup)
      <4>1. [r EXCEPT !.ns = Measured(@)] \in Result
        <5>1. r \in Result  BY DEF RInv, ReplayConfig
        <5>2. Measured(r.ns) \in Nat  BY <5>1 DEF Measured, Result
        <5> QED  BY <5>1, <5>2 DEF Result
      <4> DEFINE e == [r EXCEPT !.ns = Measured(@)]
      <4>2. round >= cfg.warmup  BY <2>1, <3>2
      <4>3. measured' = [measured EXCEPT ![alg] = Append(@, e)] /\ alg \in Replayed
        BY <2>6, <2>7, <3>2, <4>2
      <4>4. e \in Result  BY <4>1
      <4> HIDE DEF e
      <4>5. Append(measured[alg], e) \in Seq(Result)  BY <2>1, <4>3, <4>4
      <4> QED  BY <2>1, <4>3, <4>5
    <3> QED  BY <3>1, <3>2
  <2>9. \A a \in Replayed : Len(measured'[a]) =
          IF round < cfg.warmup THEN 0
          ELSE run + IF \E j \in 1 .. p + 1 : R[j] = a THEN 1 ELSE 0
    <3>1. CASE round < cfg.warmup  BY <2>2, <2>6, <3>1 DEF Turns
    <3>2. CASE ~(round < cfg.warmup)
      <4>1. round >= cfg.warmup  BY <2>1, <3>2
      <4>2. \A a \in Replayed : Len(measured'[a]) =
              IF a = alg THEN Len(measured[a]) + 1 ELSE Len(measured[a])
        BY <2>1, <2>6, <2>7, <3>2, <4>1
      <4>3. \A a \in Replayed : Len(measured[a]) = run + IF \E j \in 1 .. p : R[j] = a THEN 1 ELSE 0
        BY <2>2, <3>2 DEF Turns, run, R
      <4>4. ASSUME NEW a \in Replayed
            PROVE  Len(measured'[a]) = run + IF \E j \in 1 .. p + 1 : R[j] = a THEN 1 ELSE 0
        <5>1. CASE a = alg
          <6>1. ~ \E j \in 1 .. p : R[j] = a  BY <2>7, <4>1, <5>1
          <6>2. p + 1 \in 1 .. p + 1 /\ R[p + 1] = a  BY <2>2, <5>1 DEF alg
          <6> QED  BY <2>7, <4>1, <4>2, <4>3, <5>1, <6>1, <6>2
        <5>2. CASE a # alg
          <6>1. (\E j \in 1 .. p + 1 : R[j] = a) <=> \E j \in 1 .. p : R[j] = a
            BY <2>2, <2>7, <4>1, <5>2
          <6> QED  BY <4>2, <4>3, <5>2, <6>1
        <5> QED  BY <5>1, <5>2
      <4> QED  BY <3>2, <4>4
    <3> QED  BY <3>1, <3>2
  <2>10. InRound'
    <3>1. CASE p + 1 # Listed
      <4>1. /\ p + 1 \in 0 .. Listed - 1 /\ Listed * round + (p + 1) = step + 1
        BY <2>1, <2>2, <2>5, <3>1
      <4>2. \A a \in Replayed : Len(measured'[a]) = Turns(round, p + 1, a)'
        BY <1>1, <2>9 DEF Turns, run, R
      <4> QED  BY <1>3, <2>4, <2>6, <4>1, <4>2 DEF InRound
    <3>2. CASE p + 1 = Listed
      <4>1. Listed * (round + 1) + 0 = step + 1 /\ round + 1 \in Nat /\ 0 \in 0 .. Listed - 1
        BY <2>1, <2>2, <2>5, <3>2
      <4>2. round + 1 < Rounds \/ round + 1 = Rounds  BY <2>1, <2>4
      <4>3. \A a \in Replayed : Len(measured'[a]) = Turns(round + 1, 0, a)'
        <5> TAKE a \in Replayed
        <5>1. CASE round + 1 < cfg.warmup
          <6>1. round < cfg.warmup  BY <2>1, <5>1
          <6> QED  BY <2>9, <5>1, <6>1 DEF Turns
        <5>2. CASE ~(round + 1 < cfg.warmup)
          <6>1. Turns(round + 1, 0, a)' = round + 1 - cfg.warmup
            BY <2>1, <5>2, SMTT(60) DEF Turns
          <6>2. CASE round < cfg.warmup  BY <2>1, <2>9, <5>2, <6>1, <6>2
          <6>3. CASE ~(round < cfg.warmup)
            <7>1. \E j \in 1 .. p + 1 : R[j] = a  BY <2>1, <2>7, <3>2, <6>3
            <7>2. Len(measured'[a]) = run + 1  BY <2>9, <6>3, <7>1
            <7> QED  BY <2>1, <6>1, <7>2 DEF run
          <6> QED  BY <6>2, <6>3
        <5> QED  BY <5>1, <5>2
      <4> QED  BY <1>3, <2>6, <4>1, <4>2, <4>3 DEF InRound
    <3> QED  BY <3>1, <3>2
  <2>11. phase = "replaying" => Len(cases) < cfg.queries  BY DEF RInv
  <2> QED  BY <1>1, <1>3, <2>6, <2>8, <2>10, <2>11 DEF RInv
<1> QED  BY <1>4, <1>5

LEMMA TraceKeeps ==
  ASSUME RInv, Trace, cfg' = cfg
  PROVE  RInv'
<1>1. phase = "replaying" /\ step = Rounds * Listed  BY DEF Trace, Listed
<1>2. PICK r \in cfg.outcomes :
        IF ~r.ok THEN phase' = "failed" /\ UNCHANGED <<step, measured, cases>>
        ELSE /\ cases' = Append(cases,
                  [results |-> measured, traced |-> r, classification |-> Classification,
                   allCorrect |-> (\A alg \in Replayed : AllRight(alg)) /\ IsRight(r),
                   outcome |-> [g \in Guards |-> Outcome(g)],
                   regression |-> [g \in Guards |-> Gain(medianNS("aegis"), medianNS(g))]])
             /\ step' = 0 /\ measured' = [alg \in Replayed |-> <<>>]
             /\ phase' = IF Len(cases) + 1 = cfg.queries THEN "done" ELSE phase
  BY DEF Trace
<1>3. /\ ReplayConfig' /\ Replayed' = Replayed
      /\ \A c \in ToSet(cases) : CaseSound(c)'
  BY ConfigStays DEF RInv
<1>4. CASE ~r.ok
  <2>1. phase' = "failed" /\ measured' = measured /\ cases' = cases  BY <1>2, <1>4
  <2> QED  BY <1>3, <2>1 DEF RInv
<1>5. CASE r.ok
  <2> DEFINE c == [results |-> measured, traced |-> r, classification |-> Classification,
                   allCorrect |-> (\A alg \in Replayed : AllRight(alg)) /\ IsRight(r),
                   outcome |-> [g \in Guards |-> Outcome(g)],
                   regression |-> [g \in Guards |-> Gain(medianNS("aegis"), medianNS(g))]]
  <2>1. /\ cases' = Append(cases, c) /\ step' = 0 /\ measured' = [alg \in Replayed |-> <<>>]
        /\ phase' = IF Len(cases) + 1 = cfg.queries THEN "done" ELSE phase
    BY <1>2, <1>5
  <2>2. FullyMeasured
    <3>1. /\ Listed \in Nat \ {0} /\ cfg.warmup \in Nat /\ cfg.repeats \in Nat \ {0}
          /\ Rounds = cfg.warmup + cfg.repeats
      BY ReplayListed DEF RInv, ReplayConfig, Rounds
    <3>2. PICK round \in Nat, p \in 0 .. Listed - 1 :
            /\ step = Listed * round + p
            /\ round < Rounds \/ (round = Rounds /\ p = 0)
            /\ \A alg \in Replayed : Len(measured[alg]) = Turns(round, p, alg)
      BY <1>1 DEF RInv, InRound
    <3>3. ~(Listed * round + p < Listed * Rounds)
      <4>1. Listed * Rounds = Rounds * Listed /\ Listed * Rounds \in Nat  BY <3>1
      <4> QED  BY <1>1, <3>2, <4>1
    <3>4. ~(round < Rounds)
      <4>1. Rounds \in Nat  BY <3>1
      <4> QED  BY <3>1, <3>3, <4>1, DivisionOrder
    <3>5. round = Rounds /\ p = 0  BY <3>2, <3>4
    <3>6. \A alg \in Replayed : Turns(round, p, alg) = cfg.repeats
      <4> TAKE alg \in Replayed
      <4>1. ~(round < cfg.warmup) /\ round - cfg.warmup = cfg.repeats  BY <3>1, <3>5
      <4>2. ~ \E j \in 1 .. p :
                Rotated(cfg.algorithms, round - cfg.warmup + Len(cases))[j] = alg
        BY <3>5
      <4> QED  BY <3>1, <4>1, <4>2 DEF Turns
    <3> QED  BY <3>2, <3>6 DEF FullyMeasured, RInv
  <2>3. CaseSound(c)
    <3>1. /\ c.results = measured /\ c.traced = r /\ c.classification = Classification
          /\ c.allCorrect = ((\A alg \in Replayed : AllRight(alg)) /\ IsRight(c.traced))
          /\ \A g \in Guards : /\ c.outcome[g] = Outcome(g)
                               /\ c.regression[g] = Gain(medianNS("aegis"), medianNS(g))
      OBVIOUS
    <3> HIDE DEF c
    <3>2. ReplayConfig  BY DEF RInv
    <3>3. c.allCorrect <=> \A q, d \in All(c) : Agrees(q, d) /\ q.valid
      BY <2>2, <3>1, <3>2, CaseCorrect
    <3>4. \A g \in Guards : GuardPassesCase(c, g) => GuardEarnsCase(c, g)
      BY <2>2, <3>1, <3>2, GuardJudged
    <3> QED  BY <3>3, <3>4 DEF CaseSound
  <2>4. PICK d : d = c  OBVIOUS
  <2> HIDE DEF c
  <2>5. cases' = Append(cases, d) /\ CaseSound(d)  BY <2>1, <2>3, <2>4
  <2>6. CaseSound(d)'  BY <2>5, ConfigStays
  <2>7. /\ cases' \in Seq(ToSet(cases')) /\ ToSet(cases') = ToSet(cases) \cup {d}
        /\ Len(cases') = Len(cases) + 1 /\ Len(cases) \in Nat
    <3>1. cases \in Seq(ToSet(cases))  BY DEF RInv
    <3> DEFINE S == ToSet(cases) \cup {d}
    <3>2. ToSet(cases) \subseteq S /\ d \in S  OBVIOUS
    <3>3. \A k \in DOMAIN cases : cases[k] \in ToSet(cases)  BY DEF ToSet
    <3>4. Len(cases) \in Nat /\ DOMAIN cases = 1 .. Len(cases)  BY <3>1
    <3>5. cases \in Seq(S)
      <4> HIDE DEF S
      <4> QED  BY <3>1, <3>2
    <3>6. /\ Append(cases, d) \in Seq(S) /\ Len(Append(cases, d)) = Len(cases) + 1
          /\ DOMAIN Append(cases, d) = 1 .. Len(cases) + 1
          /\ \A k \in 1 .. Len(cases) : Append(cases, d)[k] = cases[k]
          /\ Append(cases, d)[Len(cases) + 1] = d
      <4> HIDE DEF S
      <4> QED  BY <3>2, <3>5
    <3>7. ToSet(Append(cases, d)) = S
      <4>1. ToSet(Append(cases, d)) = {Append(cases, d)[k] : k \in 1 .. Len(cases) + 1}
        BY <3>6 DEF ToSet
      <4>2. ToSet(cases) = {cases[k] : k \in 1 .. Len(cases)}  BY <3>4 DEF ToSet
      <4>3. \A k \in 1 .. Len(cases) + 1 : k \in 1 .. Len(cases) \/ k = Len(cases) + 1
        BY <3>4
      <4>4. \A k \in 1 .. Len(cases) : k \in 1 .. Len(cases) + 1  BY <3>4
      <4>5. Len(cases) + 1 \in 1 .. Len(cases) + 1  BY <3>4
      <4> QED  BY <3>6, <4>1, <4>2, <4>3, <4>4, <4>5
    <3> QED  BY <2>5, <3>4, <3>6, <3>7
  <2>8. \A e \in ToSet(cases') : CaseSound(e)'  BY <1>3, <2>6, <2>7
  <2>9. phase' = "replaying" => Len(cases') < cfg'.queries
    <3>1. cfg.queries \in Nat /\ Len(cases) < cfg.queries  BY <1>1 DEF RInv, ReplayConfig
    <3> QED  BY <2>1, <2>7, <3>1
  <2>10. phase' = "done" => Len(cases') = cfg'.queries  BY <1>1, <2>1, <2>7
  <2>11. (measured \in [Replayed -> Seq(Result)] /\ InRound)'
    <3>1. step' = 0 /\ measured' = [alg \in Replayed' |-> <<>>]  BY <1>3, <2>1
    <3>2. (ReplayConfig /\ step = 0 /\ measured = [alg \in Replayed |-> <<>>]
             => measured \in [Replayed -> Seq(Result)] /\ InRound)'
      BY RoundBegins, PTL
    <3> QED  BY <1>3, <3>1, <3>2
  <2> QED  BY <1>1, <1>3, <2>1, <2>7, <2>8, <2>9, <2>10, <2>11 DEF RInv
<1> QED  BY <1>4, <1>5

LEMMA ReplayStays ==
  ASSUME RInv, UNCHANGED <<replayVars, cfg>>
  PROVE  RInv'
<1>1. UNCHANGED <<phase, step, measured, cases>> /\ cfg' = cfg  BY DEF replayVars
<1>2. \A c \in ToSet(cases) : CaseSound(c)'  BY <1>1, ConfigStays DEF RInv
<1>3. InRound' = InRound  BY <1>1, ConfigStays DEF InRound, Turns
<1> QED  BY <1>1, <1>2, <1>3, ConfigStays DEF RInv

LEMMA ReplayJudges == RInv => ReplayVerdict
<1> SUFFICES ASSUME RInv, phase = "done" PROVE ReplayVerdict
  BY DEF ReplayVerdict
<1>1. Len(cases) = cfg.queries  BY DEF RInv
<1>2. \A k \in DOMAIN cases : CaseSound(cases[k])  BY DEF RInv, ToSet
<1>3. ReplayCorrect <=> \A k \in DOMAIN cases : \A r, d \in All(cases[k]) : Agrees(r, d) /\ r.valid
  BY <1>2 DEF ReplayCorrect, CaseSound
<1>4. \A g \in Guards : GuardPass(g) => \A k \in DOMAIN cases : GuardEarnsCase(cases[k], g)
  BY <1>2 DEF GuardPass, GuardPassesCase, CaseSound
<1> QED  BY <1>1, <1>3, <1>4 DEF ReplayVerdict, All, Middle, GuardEarnsCase

\* The report of the replay means what it says for any cases, algorithms, rounds,
\* floor and outcomes of the searches.
THEOREM ReplayVerdictHolds == ReplaySpec => []ReplayVerdict
<1>1. ReplayConfig /\ ReplayInit => RInv  BY ReplayInitially
<1>2. RInv /\ [ReplayRegret /\ UNCHANGED cfg]_<<replayVars, cfg>> => RInv'
  BY replayOneKeeps, TraceKeeps, ReplayStays DEF ReplayRegret
<1> QED  BY <1>1, <1>2, ReplayJudges, PTL DEF ReplaySpec
=============================================================================
