------------------------------- MODULE MCTools -------------------------------
(***************************************************************************)
(* The tools of internal/bench, one of them at a time: drawing queries,    *)
(* the stress driver, the benchmark, the campaign and the replay.          *)
(***************************************************************************)
EXTENDS QueryPool, Stress, Campaign, Replay

CONSTANT MaxKills   \* bound: how often a campaign is killed or started again

MCPlace == {<<0, 0>>, <<1, 0>>, <<3, 0>>}
Abs(x) == IF x < 0 THEN -x ELSE x
MCMeters(p, q) == Max({Abs(p[1] - q[1]), Abs(p[2] - q[2])})

\* ---------------------------------------------------------------------------
\* Outcomes of searches: routes of one length, right and wrong, found in several
\* times, no route, and no result.

Route(d, ns) == [ok |-> TRUE, reachable |-> TRUE, distance |-> d, valid |-> TRUE, ns |-> ns]
Broken == [Route(1, 1) EXCEPT !.valid = FALSE]
NoRoute == [ok |-> TRUE, reachable |-> FALSE, distance |-> 0, valid |-> TRUE, ns |-> 0]

\* ---------------------------------------------------------------------------
\* Graphs of four nodes, two of them in one place: all that have a ring's arcs or
\* not and one of its chords or not, and of three nodes.

Pairs(n) == {a \in (1 .. n) \X (1 .. n) : a[1] # a[2]}
MCGraph(n, arcs) ==
  Finalize([v \in 1 .. n |-> [id |-> v, place |-> <<<<0, 0>>, <<1, 0>>, <<3, 0>>, <<0, 0>>>>[v]]],
           [v \in 1 .. n |-> LET heads == SetToSortSeq({a[2] : a \in {b \in arcs : b[1] = v}}, <)
                             IN  [k \in DOMAIN heads |-> [to |-> heads[k], cost |-> 3]]])
MCArcs(n) == IF n = 3 THEN Pairs(3)
             ELSE {<<1, 2>>, <<2, 3>>, <<3, 4>>, <<4, 1>>, <<2, 1>>, <<3, 2>>, <<4, 3>>, <<1, 3>>}

\* ---------------------------------------------------------------------------
\* The configurations of the tools.

Default ==
  [tool |-> "draw", queries |-> 3, outcomes |-> {}, graph |-> NoGraph,
   pairMode |-> "strongly-connected", suite |-> "mixed", verifyEvery |-> 0,
   algorithms |-> <<"dijkstra">>, repeats |-> 1, order |-> "interleaved", measureMemory |-> FALSE,
   seeds |-> 1, maxKills |-> 0, penaltyFloor |-> 4, maximum |-> 0, warmup |-> 0]

DrawSetups ==
  {[Default EXCEPT !.graph = MCGraph(n, arcs), !.suite = s] :
     <<n, arcs, s>> \in UNION {{n} \X (SUBSET MCArcs(n)) \X {"mixed"} : n \in {3, 4}}}

StressSetups ==
  {[Default EXCEPT !.tool = "stress", !.verifyEvery = e,
                   !.outcomes = {Route(1, 0), Route(2, 5), Broken, NoRoute, ResultZero}] : e \in 0 .. 2}

\* One query in three rounds; two queries, in either order, with the memory pass.
BenchmarkSetups ==
  {[Default EXCEPT !.tool = "benchmark", !.queries = 1, !.repeats = 3, !.order = o,
                   !.algorithms = <<"dijkstra", "aegis">>,
                   !.outcomes = {Route(1, 1), Route(2, 5), NoRoute, ResultZero}] :
     o \in {"interleaved", "rotated"}}
  \cup
  {[Default EXCEPT !.tool = "benchmark", !.queries = 2, !.order = o, !.measureMemory = TRUE,
                   !.algorithms = <<"dijkstra", "aegis">>,
                   !.outcomes = {Route(1, 1), NoRoute, ResultZero}] : o \in {"interleaved", "rotated"}}

\* A coarse clock may measure nothing.
CampaignSetups ==
  {[Default EXCEPT !.tool = "campaign", !.queries = 1, !.seeds = 2, !.maxKills = MaxKills,
                   !.algorithms = <<"dijkstra", "aegis">>, !.penaltyFloor = 2,
                   !.outcomes = {Route(1, 0), Route(1, 4), Route(1, 5), Route(1, 8), NoRoute, ResultZero}]}

\* Times around the thresholds, in units of 250 microseconds, and a wrong answer.
ReplaySetups ==
  LET algs == <<"dijkstra", "aegis-static", "aegis-late-guard", "aegis-connect-32", "aegis">>
  IN  {[Default EXCEPT !.tool = "replay", !.queries = 1, !.algorithms = algs,
                       !.outcomes = {Route(1, 8), Route(1, 14), Route(1, 16), Route(1, 20), NoRoute}],
       [Default EXCEPT !.tool = "replay", !.queries = 2, !.algorithms = algs,
                       !.outcomes = {Route(1, 8), Route(1, 16)}],
       [Default EXCEPT !.tool = "replay", !.queries = 1, !.warmup = 1, !.repeats = 2,
                       !.algorithms = <<"dijkstra", "aegis-static", "aegis">>,
                       !.outcomes = {Route(1, 0), Route(2, 8), ResultZero}]}

MCSetups == DrawSetups \cup StressSetups \cup BenchmarkSetups \cup CampaignSetups \cup ReplaySetups

\* ---------------------------------------------------------------------------
\* The tool that is chosen runs, the others do not.

toolVars == <<cfg, poolVars, stressVars, benchVars, campaignVars, replayVars>>

Init ==
  /\ cfg \in MCSetups
  /\ IF cfg.tool = "draw" THEN PoolInit ELSE pool = {} /\ drawn = 0 /\ last = <<>>
  /\ StressInit /\ BenchInit /\ CampaignInit /\ ReplayInit

Only(tool, Step) == cfg.tool = tool /\ Step /\ UNCHANGED cfg

Draw == Only("draw", makeQueries) /\ UNCHANGED <<stressVars, benchVars, campaignVars, replayVars>>
StressWork(w) ==
  Only("stress", Work(w)) /\ UNCHANGED <<poolVars, benchVars, campaignVars, replayVars>>
StressReport ==
  Only("stress", Report) /\ UNCHANGED <<poolVars, benchVars, campaignVars, replayVars>>
StressCancelled ==
  Only("stress", ParentEnds) /\ UNCHANGED <<poolVars, benchVars, campaignVars, replayVars>>
Benchmarking ==
  Only("benchmark", Bench) /\ UNCHANGED <<poolVars, stressVars, campaignVars, replayVars>>
CampaignStep ==
  Only("campaign", Campaigning) /\ UNCHANGED <<poolVars, stressVars, replayVars>>
CampaignKilled ==
  Only("campaign", Kill \/ Restart) /\ UNCHANGED <<poolVars, stressVars, replayVars>>
Replaying ==
  Only("replay", ReplayRegret) /\ UNCHANGED <<poolVars, stressVars, benchVars, campaignVars>>

Next ==
  \/ Draw \/ (\E w \in Worker : StressWork(w)) \/ StressReport \/ StressCancelled
  \/ Benchmarking \/ CampaignStep \/ CampaignKilled \/ Replaying

Spec == Init /\ [][Next]_toolVars
=============================================================================
