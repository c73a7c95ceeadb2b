-------------------------------- MODULE Race --------------------------------
(***************************************************************************)
(* The race portfolio (race.go): one query is given to two searches in     *)
(* goroutines of their own, the first success is the answer and cancels    *)
(* the other.  race does not wait for the loser, so the loser goes on with *)
(* its workspace until it notices, while the process serves other queries: *)
(* those are the Callers here, whose searches take workspaces out of the   *)
(* same pools.                                                             *)
(***************************************************************************)
EXTENDS Workspaces, Sequences

CONSTANTS
  Callers,        \* other goroutines that search
  RaceQueries,    \* the queries race is called with
  Geometry        \* g.MinCostPerMeter > 0

Racers == {"bidijkstra", IF Geometry THEN "astar" ELSE "dijkstra"}   \* algs

ASSUME RaceAssumption ==
  /\ Searcher = Racers \cup Callers /\ Racers \cap Callers = {}
  /\ Geometry \in BOOLEAN /\ RaceQueries \subseteq Queries

VARIABLES
  stage,      \* of race: "idle", "first", "second", "returned"
  goroutine,  \* of a racer: "none", "spawned", "running", "sending", "ended"
  outcome,    \* what a racer's Run returned: "none", "ok", "error"
  ch,         \* the channel, a sequence of racers whose outcome it holds
  cancelled,  \* the context the racers poll
  callerGone, \* the caller's own context: disconnected or timed out
  reply       \* what race returned

rvars == <<stage, goroutine, outcome, ch, cancelled, callerGone, reply>>
vars == <<wvars, rvars>>

ChanUnbuffered == 0   \* fault: the loser has nobody to send to
ChanCapacity == 2

\* The reply carries the winner's statistics; selected is the winner's name.
Answer(a) == [err |-> FALSE, algorithm |-> "aegis-race", selected |-> a]
Failure == [err |-> TRUE, algorithm |-> "", selected |-> ""]

Init ==
  /\ WInit
  /\ stage = "idle"
  /\ goroutine = [a \in Racers |-> "none"]
  /\ outcome = [a \in Racers |-> "none"]
  /\ ch = <<>>
  /\ cancelled = FALSE /\ callerGone = FALSE
  /\ reply = Failure

\* The context of the searches when they are spawned.  Its cancel is deferred.
SpawnedCancelled == TRUE   \* fault: cancel is called, not deferred
Spawned == callerGone

Call ==
  /\ stage = "idle"
  /\ stage' = "first"
  /\ goroutine' = [a \in Racers |-> "spawned"]
  /\ cancelled' = Spawned
  /\ UNCHANGED <<wvars, outcome, ch, callerGone, reply>>

Begin(a) ==
  /\ goroutine[a] = "spawned"
  /\ \E q \in RaceQueries :
       /\ \A b \in Racers : Searching(b) => run[b].query = q   \* they share one query
       /\ Acquire(a, a, q)
  /\ goroutine' = [goroutine EXCEPT ![a] = "running"]
  /\ UNCHANGED <<stage, outcome, ch, cancelled, callerGone, reply>>

\* Run returns: with an answer, or with an error once it has seen the context
\* done.  A search polls only now and then, so it may answer all the same.
End(a) ==
  /\ goroutine[a] = "running"
  /\ Release(a)
  /\ \/ outcome' = [outcome EXCEPT ![a] = "ok"]
     \/ cancelled /\ outcome' = [outcome EXCEPT ![a] = "error"]
  /\ goroutine' = [goroutine EXCEPT ![a] = "sending"]
  /\ UNCHANGED <<stage, ch, cancelled, callerGone, reply>>

Receiving == stage \in {"first", "second"}

\* Without room in the channel a send waits for a receiver.
Send(a) ==
  /\ goroutine[a] = "sending"
  /\ Len(ch) < ChanCapacity \/ (Receiving /\ ch = <<>>)
  /\ ch' = Append(ch, a)
  /\ goroutine' = [goroutine EXCEPT ![a] = "ended"]
  /\ UNCHANGED <<wvars, stage, outcome, cancelled, callerGone, reply>>

\* race returns, which also runs the deferred cancel.
Return(r) ==
  /\ stage' = "returned"
  /\ reply' = r
  /\ cancelled' = TRUE

\* The first result to arrive: an answer is returned, an error is kept back.
FirstAsItIs(a) ==   \* fault: an error is returned without waiting for the other
  Return(IF outcome[a] = "ok" THEN Answer(a) ELSE Failure)
First(a) ==
  IF outcome[a] = "ok" THEN Return(Answer(a))
  ELSE stage' = "second" /\ UNCHANGED <<reply, cancelled>>

Second(a) == Return(IF outcome[a] = "ok" THEN Answer(a) ELSE Failure)

Receive ==
  /\ Receiving /\ ch # <<>>
  /\ ch' = Tail(ch)
  /\ IF stage = "first" THEN First(Head(ch)) ELSE Second(Head(ch))
  /\ UNCHANGED <<wvars, goroutine, outcome, callerGone>>

\* ---------------------------------------------------------------------------
\* The surroundings

\* The client disconnects or its timeout fires; the searches' context follows.
CallerLeaves ==
  /\ ~callerGone /\ stage # "returned"
  /\ callerGone' = TRUE
  /\ cancelled' = TRUE
  /\ UNCHANGED <<wvars, stage, goroutine, outcome, ch, reply>>

Search(a) == Searching(a) /\ Use(a) /\ UNCHANGED rvars

Next ==
  \/ Call \/ CallerLeaves \/ Receive
  \/ \E a \in Racers : Begin(a) \/ Search(a) \/ End(a) \/ Send(a)
  \/ \E c \in Callers : Serve(c) /\ UNCHANGED rvars

Spec == Init /\ [][Next]_vars

\* Goroutines and the caller of race keep running; a search comes to an end, as
\* the runs of the searches show.  Nothing is assumed of other callers.
FairSpec ==
  /\ Spec
  /\ WF_vars(Receive)
  /\ \A a \in Racers : WF_vars(Begin(a)) /\ WF_vars(End(a)) /\ WF_vars(Send(a))

\* ---------------------------------------------------------------------------
\* Properties

\* What race returns is the reply of a search that succeeded, under its name; it
\* returns an error only when both searches did (race.go:28-43).
ReplyIsAnAnswer ==
  stage = "returned" =>
    IF reply.err THEN \A a \in Racers : outcome[a] = "error"
    ELSE reply.selected \in Racers /\ outcome[reply.selected] = "ok"

\* The cancellation among the two is private: the caller sees an error only if
\* its own context is done (race.go:16-17, 29-30).
ErrorOnlyIfCallerGone == stage = "returned" /\ reply.err => callerGone

\* Once called, race returns and both goroutines come to their end, the loser
\* too although nobody receives from it any more: no goroutine and no workspace
\* leaks (race.go:18, 26).
NobodyBlocks ==
  stage = "first" ~> stage = "returned" /\ \A a \in Racers : goroutine[a] = "ended"
=============================================================================
