------------------------------ MODULE NodeIndex ------------------------------
(***************************************************************************)
(* The route handler of the HTTP server (server.go:92-143) and the index   *)
(* of node IDs it uses (graph.go:200-209): a Go map that the first request *)
(* which names a node builds, without a lock.  net/http runs every request *)
(* on a goroutine of its own.                                              *)
(*                                                                         *)
(* A read or a write of a map during a write of another goroutine is a     *)
(* data race: the runtime may end the process, or a read may find the      *)
(* node or not.                                                            *)
(***************************************************************************)
EXTENDS Naturals

CONSTANTS
  Handler,  \* the goroutines of the requests
  Nodes     \* how many nodes the graph has; their IDs are 1 .. Nodes

VARIABLES
  idToIndex,  \* the IDs in the map; Nil before it is made
  writing,    \* the handlers that are inside a map write
  crashed,    \* the runtime has ended the process
  handler     \* of a handler: where it is, what it was asked and how far it is

vars == <<idToIndex, writing, crashed, handler>>

Nil == [made |-> FALSE, ids |-> {}]

\* What a request may name: a node's ID, an unknown one, or a place.
Place == 0
Name == 0 .. Nodes + 1

Init ==
  /\ idToIndex = Nil /\ writing = {} /\ crashed = FALSE
  /\ handler = [h \in Handler |-> [at |-> "idle", asked |-> <<Place, Place>>, k |-> 1, fill |-> 1]]

At(h, where) == handler[h].at = where /\ ~crashed
Wanted(h) == handler[h].asked[handler[h].k]
Races(h) == writing \ {h} # {}

Receive(h) ==
  /\ At(h, "idle")
  /\ \E s, t \in Name :
       handler' = [handler EXCEPT ![h] = [at |-> "resolve", asked |-> <<s, t>>, k |-> 1, fill |-> 1]]
  /\ UNCHANGED <<idToIndex, writing, crashed>>

\* A name that is resolved leads to the next, the last to the search and a reply.
Resolved(h) ==
  handler' = [handler EXCEPT ![h].at = IF handler[h].k = 1 THEN "resolve" ELSE "route",
                             ![h].k = 2]

\* resolveNode: a place has a nearest node; an ID is looked up, and the map made
\* when there is none.
resolveNode(h) ==
  /\ At(h, "resolve")
  /\ \/ Wanted(h) = Place /\ Resolved(h) /\ UNCHANGED idToIndex
     \/ /\ Wanted(h) # Place /\ idToIndex.made
        /\ handler' = [handler EXCEPT ![h].at = "lookup"]
        /\ UNCHANGED idToIndex
     \/ /\ Wanted(h) # Place /\ ~idToIndex.made
        /\ handler' = [handler EXCEPT ![h].at = "make", ![h].fill = 1]
        /\ UNCHANGED idToIndex
  /\ UNCHANGED <<writing, crashed>>

Make(h) ==
  /\ At(h, "make")
  /\ idToIndex' = [made |-> TRUE, ids |-> {}]
  /\ handler' = [handler EXCEPT ![h].at = "fill"]
  /\ UNCHANGED <<writing, crashed>>

\* A map write, from its check for other writers to its end.
BeginStore(h) ==
  /\ At(h, "fill") /\ h \notin writing
  /\ writing' = writing \cup {h}
  /\ crashed' \in {FALSE, Races(h)}
  /\ UNCHANGED <<idToIndex, handler>>

EndStore(h) ==
  /\ At(h, "fill") /\ h \in writing
  /\ writing' = writing \ {h}
  /\ idToIndex' = [idToIndex EXCEPT !.ids = @ \cup {handler[h].fill}]
  /\ handler' = [handler EXCEPT ![h].fill = @ + 1,
                                ![h].at = IF handler[h].fill = Nodes THEN "lookup" ELSE "fill"]
  /\ UNCHANGED crashed

\* The lookup, with any outcome while another goroutine writes.
Lookup(h) ==
  /\ At(h, "lookup")
  /\ crashed' \in {FALSE, Races(h)}
  /\ \E found \in IF Races(h) THEN BOOLEAN ELSE {Wanted(h) \in idToIndex.ids} :
       IF found THEN Resolved(h)
       ELSE handler' = [handler EXCEPT ![h].at = "not found"]
  /\ UNCHANGED <<idToIndex, writing>>

\* The connection takes the next request.
Reply(h) ==
  /\ At(h, "route") \/ At(h, "not found")
  /\ handler' = [handler EXCEPT ![h].at = "idle"]
  /\ UNCHANGED <<idToIndex, writing, crashed>>

Next ==
  \E h \in Handler :
    \/ Receive(h) \/ resolveNode(h) \/ Make(h) \/ BeginStore(h) \/ EndStore(h)
    \/ Lookup(h) \/ Reply(h)

Spec == Init /\ [][Next]_vars

\* ---------------------------------------------------------------------------
\* Properties

\* A request that names nodes of the graph gets a route reply, not "node ID not
\* found", and the server stays up, whatever else it is asked at the same time
\* (DATA.md:187: an ID of the graph is what a caller has to give;
\* server_test.go:30-37 asserts status 200 for such a request).
KnownNodesAreFound ==
  /\ ~crashed
  /\ \A h \in Handler : handler[h].at = "not found" => Wanted(h) \notin 1 .. Nodes
=============================================================================
