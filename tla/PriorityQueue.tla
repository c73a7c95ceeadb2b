--------------------------- MODULE PriorityQueue ---------------------------
(***************************************************************************)
(* What the searches expect of their frontier queue                        *)
(* (internal/search/radix.go:5-8): what is pushed stays until it is        *)
(* popped, what is handed out has the least key of all that is queued, and *)
(* what has been looked at is what is popped next: peekValid drops a stale *)
(* entry by popping it unseen (internal/search/acbs.go:645-656).           *)
(***************************************************************************)
EXTENDS Naturals

CONSTANTS Key, Id, NoItem

VARIABLES queued,  \* the items <<key, id>> in the queue
          out      \* the item the last call returned, NoItem if it returned none

Least == {x \in queued : \A y \in queued : x[1] <= y[1]}

Init == queued = {} /\ out = NoItem

Push ==
  /\ \E x \in Key \X Id : x \notin queued /\ queued' = queued \cup {x}
  /\ out' = NoItem

\* The items that may be handed out: once one has been looked at and nothing pushed
\* since, only that one.
Due == IF out \in queued THEN Least \cap {out} ELSE Least

Peek ==
  /\ IF queued = {} THEN out' = NoItem ELSE out' \in Due
  /\ UNCHANGED queued

Pop == \E x \in Due : queued' = queued \ {x} /\ out' = x

Reset == queued' = {} /\ out' = NoItem

Next == Push \/ Peek \/ Pop \/ Reset

Spec == Init /\ [][Next]_<<queued, out>>
=============================================================================
