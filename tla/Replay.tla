------------------------------- MODULE Replay -------------------------------
(***************************************************************************)
(* The replay of meaningful slowdowns (replay.go:131-445): each case is    *)
(* measured again, all algorithms in turn and another first in each round, *)
(* and once more untimed for a trace; then its slowdown is classified and  *)
(* the guards are judged, of which a release is to turn one on.            *)
(*                                                                         *)
(* A unit of time is 250 microseconds.                                     *)
(***************************************************************************)
EXTENDS SearchRun, FiniteSets, SequencesExt

VARIABLES
  phase,     \* "replaying", "done" or "failed"
  step,      \* the searches of the case so far
  measured,  \* the results of each algorithm in the case
  cases      \* the reports of the cases so far, with the results they rest on

replayVars == <<phase, step, measured, cases>>

Replayed == ToSet(cfg.algorithms)
Guards == Replayed \cap {"aegis-late-guard", "aegis-connect-32"}

ReplayInit ==
  /\ phase = "replaying" /\ step = 0 /\ cases = <<>>
  /\ measured = [alg \in Replayed |-> <<>>]

\* The searches of a case: rounds of all algorithms, the first ones to warm up.
Rounds == cfg.warmup + cfg.repeats
AlgorithmAt(k) ==
  LET round == k \div Len(cfg.algorithms)
      run == IF round < cfg.warmup THEN round ELSE round - cfg.warmup
  IN  Rotated(cfg.algorithms, run + Len(cases))[(k % Len(cfg.algorithms)) + 1]

\* An error ends the replay.
replayOne ==
  /\ phase = "replaying" /\ step < Rounds * Len(cfg.algorithms)
  /\ \E r \in cfg.outcomes :
       IF ~r.ok THEN phase' = "failed" /\ UNCHANGED <<step, measured>>
       ELSE /\ step' = step + 1 /\ UNCHANGED phase
            /\ measured' = IF step < cfg.warmup * Len(cfg.algorithms) THEN measured
                           ELSE [measured EXCEPT ![AlgorithmAt(step)] =
                                   Append(@, [r EXCEPT !.ns = Measured(@)])]
  /\ UNCHANGED cases

\* The reference is Dijkstra's first result, wherever in the first round that is.
ReferenceOf == measured["dijkstra"][1]
IsRight(r) == Agrees(r, ReferenceOf) /\ r.valid

\* fault: judged as they come, and those before the reference against nothing
RightAtOnce(alg) ==
  \A k \in DOMAIN measured[alg] :
    LET first == Rotated(cfg.algorithms, Len(cases))
        early == k = 1 /\ \E i, j \in DOMAIN first : i < j /\ first[i] = alg /\ first[j] = "dijkstra"
    IN  IF early THEN Agrees(measured[alg][k], ResultZero) ELSE IsRight(measured[alg][k])
AllRight(alg) == \A k \in DOMAIN measured[alg] : IsRight(measured[alg][k])

\* The lower of the middle durations.
medianNS(alg) ==
  LET s == measured[alg]
  IN  CHOOSE t \in {s[k].ns : k \in DOMAIN s} :
        /\ 2 * Cardinality({k \in DOMAIN s : s[k].ns <= t}) >= Len(s)
        /\ 2 * Cardinality({k \in DOMAIN s : s[k].ns < t}) < Len(s)

FastestClassical ==
  LET classical == {medianNS(alg) : alg \in Replayed \cap {"dijkstra", "bidijkstra", "astar"}}
  IN  CHOOSE t \in classical : \A u \in classical : t <= u

\* By how much a time is better or worse than the default's.
Gain(a, b) == IF a < b THEN b - a ELSE 0
guardFloor == IF cfg.penaltyFloor \div 2 < 1 THEN 1 ELSE cfg.penaltyFloor \div 2

Outcome(guard) ==
  CASE Gain(medianNS(guard), medianNS("aegis")) >= guardFloor -> "improved"
    [] Gain(medianNS("aegis"), medianNS(guard)) >= cfg.penaltyFloor -> "regressed"
    [] OTHER -> "neutral"

ReplayMeaningful ==
  /\ 4 * medianNS("aegis") >= 5 * FastestClassical
  /\ Gain(FastestClassical, medianNS("aegis")) >= cfg.penaltyFloor

\* A tail of the adaptive scheduler is one that the static one shortens.
Classification ==
  IF ~ReplayMeaningful THEN "not-reproduced"
  ELSE IF /\ Gain(medianNS("aegis-static"), medianNS("aegis")) >= cfg.penaltyFloor \div 2
          /\ 100 * medianNS("aegis-static") <= 95 * medianNS("aegis")
       THEN "adaptive-scheduler-tail"
       ELSE "persistent-classical-tail"

\* The traced search ends the case, and the next one begins.
Trace ==
  /\ phase = "replaying" /\ step = Rounds * Len(cfg.algorithms)
  /\ \E r \in cfg.outcomes :
       IF ~r.ok THEN phase' = "failed" /\ UNCHANGED <<step, measured, cases>>
       ELSE /\ cases' = Append(cases,
                 [results |-> measured, traced |-> r, classification |-> Classification,
                  allCorrect |-> (\A alg \in Replayed : AllRight(alg)) /\ IsRight(r),
                  outcome |-> [g \in Guards |-> Outcome(g)],
                  regression |-> [g \in Guards |-> Gain(medianNS("aegis"), medianNS(g))]])
            /\ step' = 0 /\ measured' = [alg \in Replayed |-> <<>>]
            /\ phase' = IF Len(cases) + 1 = cfg.queries THEN "done" ELSE phase

ReplayRegret == replayOne \/ Trace

\* What the report says of the cases together.
ReplayCorrect == \A k \in DOMAIN cases : cases[k].allCorrect
GuardPass(g) ==
  \A k \in DOMAIN cases :
    /\ cases[k].classification = "adaptive-scheduler-tail" => cases[k].outcome[g] = "improved"
    /\ cases[k].regression[g] < cfg.penaltyFloor

\* What ReplayRegret accepts, with its defaults put in, and the algorithms it lists;
\* without cases it returns at once.
ReplayConfig ==
  /\ cfg.queries \in Nat \ {0} /\ cfg.repeats \in Nat \ {0} /\ cfg.warmup \in Nat
  /\ cfg.penaltyFloor \in Nat \ {0} /\ cfg.outcomes \subseteq Result
  /\ cfg.algorithms \in Seq(Replayed) /\ IsInjective(cfg.algorithms)
  /\ {"dijkstra", "aegis-static", "aegis"} \subseteq Replayed

ReplaySpec == ReplayConfig /\ ReplayInit /\ [][ReplayRegret /\ UNCHANGED cfg]_<<replayVars, cfg>>

\* ---------------------------------------------------------------------------
\* Properties

\* A replay that ends is correct exactly when every measured search, those
\* that ran before the reference did included, and the traced one answered like all
\* of Dijkstra's; and a guard passes only if it was never measured slower than the
\* default by the floor and was faster in every case in which the default was
\* meaningfully slow and the static scheduler was not (replay.go:186-262, 288-445).
ReplayVerdict ==
  phase = "done" =>
    LET all(c) == (UNION {ToSet(c.results[alg]) : alg \in Replayed}) \cup {c.traced}
        middle(c, alg) == {t \in {r.ns : r \in ToSet(c.results[alg])} :
                             Cardinality({k \in DOMAIN c.results[alg] : c.results[alg][k].ns <= t})
                               = (cfg.repeats + 1) \div 2}
    IN  /\ Len(cases) = cfg.queries
        /\ ReplayCorrect <=>
             \A k \in DOMAIN cases : \A r, d \in all(cases[k]) : Agrees(r, d) /\ r.valid
        /\ \A g \in Guards : GuardPass(g) =>
             \A k \in DOMAIN cases :
               \A a \in middle(cases[k], "aegis"), t \in middle(cases[k], g) :
                 /\ t - a < cfg.penaltyFloor
                 /\ \A d \in middle(cases[k], "dijkstra"), s \in middle(cases[k], "aegis-static") :
                      4 * a >= 5 * d /\ a - d >= cfg.penaltyFloor /\ a - s >= cfg.penaltyFloor
                        /\ 20 * s <= 19 * a
                      => t < a
=============================================================================
