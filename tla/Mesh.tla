-------------------------------- MODULE Mesh --------------------------------
(***************************************************************************)
(* Nodes that route one model's requests among themselves: peer.Registry's  *)
(* polls and Resolve, PickRoute, handleProxy with proxyToPeer, and the      *)
(* status endpoint a poll reads.                                            *)
(*                                                                          *)
(* A request is a chain of handlers, one per node it was forwarded to: leg  *)
(* 1 is its client's, leg i + 1 is the one that leg i waits for.  Nothing   *)
(* but the origin header ends the chain; MaxLegs is a bound of the model,   *)
(* one leg more than the code should ever use.                              *)
(*                                                                          *)
(* Each node has one backend here, whose health comes and goes: Node has    *)
(* the choice among backends, Supervisor the reasons.  A node is listed by  *)
(* all the others and never by itself.  Resolve's reads of one peer, each   *)
(* under its own lock in the code, are one step.                            *)
(***************************************************************************)
EXTENDS Integers, FiniteSets

CONSTANTS
    Nodes,
    Holders,    \* the nodes whose model.name is the requested model
    Requests,
    NoNode,
    Ceiling,    \* balancer.max_in_flight_per_backend, 0 for no ceiling
    MaxLegs

ASSUME NodesAssumption == Holders \subseteq Nodes /\ NoNode \notin Nodes
ASSUME RequestsAssumption == IsFiniteSet(Requests)
ASSUME CeilingAssumption == Ceiling \in Nat
ASSUME MaxLegsAssumption == MaxLegs \in Nat \ {0}

VARIABLES
    up,         \* the node's process runs
    healthy,    \* its backend is Healthy
    inFlight,   \* BackendState.inFlight
    reachable,  \* PeerState.status of each peer, and so whether its models are listed
    polled,     \* PeerState.totalInFlight
    dispatched, \* PeerState.localInFlight
    polling,    \* where pollPeer is with each peer: idle, asked, answered
    reply,      \* the load in the status document on its way back
    at,         \* where the handler of each leg is
    on,         \* the node it runs on
    to          \* the peer it forwards to

nodeVars == <<up, healthy>>
viewVars == <<reachable, polled, polling, reply>>
legVars == <<at, on, to>>
vars == <<up, healthy, inFlight, dispatched, viewVars, legVars>>

Legs == 1 .. MaxLegs
Over == {"none", "done", "lost"}    \* no handler runs; lost: its node crashed
Live == {"arrived", "entering", "serving", "sending", "waiting"}

Handles(n, r, i) == on[r][i] = n /\ at[r][i] \in Live

Init ==
    /\ up = [n \in Nodes |-> TRUE]
    /\ healthy = [n \in Nodes |-> FALSE]
    /\ inFlight = [n \in Nodes |-> 0]
    /\ reachable = [n \in Nodes |-> [p \in Nodes |-> FALSE]]
    /\ polled = [n \in Nodes |-> [p \in Nodes |-> 0]]
    /\ dispatched = [n \in Nodes |-> [p \in Nodes |-> 0]]
    /\ polling = [n \in Nodes |-> [p \in Nodes |-> "idle"]]
    /\ reply = [n \in Nodes |-> [p \in Nodes |-> 0]]
    /\ at = [r \in Requests |-> [i \in Legs |-> "none"]]
    /\ on = [r \in Requests |-> [i \in Legs |-> NoNode]]
    /\ to = [r \in Requests |-> [i \in Legs |-> NoNode]]

-----------------------------------------------------------------------------
(* Registry.PollOnce and pollPeer.  A poll can time out at any point.       *)
PollOnce(n) ==
    /\ up[n] /\ \A p \in Nodes : polling[n][p] = "idle"
    /\ polling' = [polling EXCEPT ![n] =
                    [p \in Nodes |-> IF p = n THEN "idle" ELSE "asked"]]
    /\ UNCHANGED <<nodeVars, inFlight, dispatched, reachable, polled, reply,
                   legVars>>

(* The peer's StatusResponse.  Its models do not depend on its health, and  *)
(* nothing that routes reads the healthy backends it reports.               *)
Answer(n, p) ==
    /\ polling[n][p] = "asked" /\ up[p]
    /\ polling' = [polling EXCEPT ![n][p] = "answered"]
    /\ reply' = [reply EXCEPT ![n][p] = inFlight[p]]
    /\ UNCHANGED <<nodeVars, inFlight, dispatched, reachable, polled, legVars>>

Update(n, p) ==
    /\ polling[n][p] = "answered"
    /\ reachable' = [reachable EXCEPT ![n][p] = TRUE]
    /\ polled' = [polled EXCEPT ![n][p] = reply[n][p]]
    /\ polling' = [polling EXCEPT ![n][p] = "idle"]
    /\ reply' = [reply EXCEPT ![n][p] = 0]
    /\ UNCHANGED <<nodeVars, inFlight, dispatched, legVars>>

MarkUnreachable_KeepsModels(n, p) ==
    /\ polling[n][p] # "idle"
    /\ polled' = [polled EXCEPT ![n][p] = 0]
    /\ polling' = [polling EXCEPT ![n][p] = "idle"]
    /\ reply' = [reply EXCEPT ![n][p] = 0]
    /\ UNCHANGED <<nodeVars, inFlight, dispatched, reachable, legVars>>

MarkUnreachable(n, p) ==
    /\ polling[n][p] # "idle"
    /\ reachable' = [reachable EXCEPT ![n][p] = FALSE]
    /\ polled' = [polled EXCEPT ![n][p] = 0]
    /\ polling' = [polling EXCEPT ![n][p] = "idle"]
    /\ reply' = [reply EXCEPT ![n][p] = 0]
    /\ UNCHANGED <<nodeVars, inFlight, dispatched, legVars>>

PollStep(n, p) == Answer(n, p) \/ Update(n, p) \/ MarkUnreachable(n, p)

-----------------------------------------------------------------------------
(* PeerState.TotalInFlight: traffic of every node as last polled, or this   *)
(* node's own, whichever is larger.                                         *)
TotalInFlight(n, p) ==
    IF dispatched[n][p] > polled[n][p] THEN dispatched[n][p] ELSE polled[n][p]

(* Registry.Resolve: a route is named by the node it leads to.              *)
LocalRoutes(n) == {m \in Holders \cap {n} : healthy[m]}
PeerRoutes(n) == {p \in Holders \ {n} : reachable[n][p]}

Load(n, m) == IF m = n THEN inFlight[n] ELSE TotalInFlight(n, m)

Resolve_Forwards(r, i) == LocalRoutes(on[r][i]) \cup PeerRoutes(on[r][i])

(* A request that carries the origin header has local routes only.          *)
Resolve(r, i) ==
    LocalRoutes(on[r][i]) \cup (IF i > 1 THEN {} ELSE PeerRoutes(on[r][i]))

(* PickRoute: the lightest routes, those of a local backend at its ceiling  *)
(* left out, and the local ones if there are any among them.                *)
Available(n, routes) ==
    {m \in routes : m = n /\ Ceiling > 0 => Load(n, m) < Ceiling}

PickRoute(n, routes) ==
    LET open == Available(n, routes)
        tied == {m \in open : \A o \in open : Load(n, m) <= Load(n, o)}
    IN  IF n \in tied THEN {n} ELSE tied

-----------------------------------------------------------------------------
(* handleProxy *)
Move(r, i, where) == at' = [at EXCEPT ![r][i] = where]

Arrive(r, n) ==
    /\ up[n] /\ \A i \in Legs : at[r][i] = "none"
    /\ Move(r, 1, "arrived")
    /\ on' = [on EXCEPT ![r][1] = n]
    /\ UNCHANGED <<nodeVars, inFlight, dispatched, viewVars, to>>

RouteLocal(r, i) ==
    /\ at[r][i] = "arrived"
    /\ on[r][i] \in PickRoute(on[r][i], Resolve(r, i))
    /\ Move(r, i, "entering")
    /\ UNCHANGED <<nodeVars, inFlight, dispatched, viewVars, on, to>>

RouteToPeer(r, i) ==
    /\ at[r][i] = "arrived"
    /\ \E p \in PickRoute(on[r][i], Resolve(r, i)) \ {on[r][i]} :
        to' = [to EXCEPT ![r][i] = p]
    /\ Move(r, i, "sending")
    /\ UNCHANGED <<nodeVars, inFlight, dispatched, viewVars, on>>

(* No route is a 503, no route below its ceiling a 429.                     *)
Refuse(r, i) ==
    /\ at[r][i] = "arrived"
    /\ PickRoute(on[r][i], Resolve(r, i)) = {}
    /\ Move(r, i, "done")
    /\ UNCHANGED <<nodeVars, inFlight, dispatched, viewVars, on, to>>

(* proxyRequest *)
Enter(r, i) ==
    /\ at[r][i] = "entering"
    /\ inFlight' = [inFlight EXCEPT ![on[r][i]] = @ + 1]
    /\ Move(r, i, "serving")
    /\ UNCHANGED <<nodeVars, dispatched, viewVars, on, to>>

LeaveBackend(r, i) ==
    /\ at[r][i] = "serving"
    /\ inFlight' = [inFlight EXCEPT ![on[r][i]] = @ - 1]
    /\ Move(r, i, "done")
    /\ UNCHANGED <<nodeVars, dispatched, viewVars, on, to>>

(* proxyToPeer, between IncLocalInFlight and DecLocalInFlight               *)
Dispatch(r, i) ==
    /\ at[r][i] = "sending"
    /\ dispatched' = [dispatched EXCEPT ![on[r][i]][to[r][i]] = @ + 1]
    /\ Move(r, i, "waiting")
    /\ UNCHANGED <<nodeVars, inFlight, viewVars, on, to>>

Forward(r, i) ==
    /\ i + 1 \in Legs /\ at[r][i] = "waiting" /\ at[r][i + 1] = "none"
    /\ up[to[r][i]]
    /\ Move(r, i + 1, "arrived")
    /\ on' = [on EXCEPT ![r][i + 1] = to[r][i]]
    /\ UNCHANGED <<nodeVars, inFlight, dispatched, viewVars, to>>

LeavePeer_Keeps(r, i) ==
    /\ at[r][i] = "waiting"
    /\ dispatched' = dispatched
    /\ Move(r, i, "done")
    /\ UNCHANGED <<nodeVars, inFlight, viewVars, on, to>>

LeavePeer(r, i) ==
    /\ at[r][i] = "waiting"
    /\ dispatched' = [dispatched EXCEPT ![on[r][i]][to[r][i]] = @ - 1]
    /\ Move(r, i, "done")
    /\ UNCHANGED <<nodeVars, inFlight, viewVars, on, to>>

(* The peer refuses the connection, or its handler is over or was lost.     *)
PeerAnswers(r, i) ==
    /\ i + 1 \in Legs /\ at[r][i] = "waiting"
    /\ \/ at[r][i + 1] = "none" /\ ~up[to[r][i]]
       \/ at[r][i + 1] \in {"done", "lost"}
    /\ LeavePeer(r, i)

(* The caller's connection is gone: the client's, or that of the node the   *)
(* request came from.  The request's context ends the call.                 *)
CallerGone_ClientsOnly(r, i) == i = 1
CallerGone(r, i) == i > 1 => at[r][i - 1] \in {"done", "lost"}

Abandon(r, i) ==
    CallerGone(r, i) /\ (LeaveBackend(r, i) \/ LeavePeer(r, i))

HandlerStep(r, i) ==
    \/ RouteLocal(r, i) \/ RouteToPeer(r, i) \/ Refuse(r, i)
    \/ Enter(r, i) \/ Dispatch(r, i) \/ PeerAnswers(r, i)

(* The request is over everywhere, and its name is used for the next one.   *)
Renew(r) ==
    /\ at[r][1] # "none" /\ \A i \in Legs : at[r][i] \in Over
    /\ at' = [at EXCEPT ![r] = [i \in Legs |-> "none"]]
    /\ on' = [on EXCEPT ![r] = [i \in Legs |-> NoNode]]
    /\ to' = [to EXCEPT ![r] = [i \in Legs |-> NoNode]]
    /\ UNCHANGED <<nodeVars, inFlight, dispatched, viewVars>>

-----------------------------------------------------------------------------
(* A crash takes the node's handlers, counters and view of the mesh.        *)
Crash(n) ==
    /\ up[n]
    /\ up' = [up EXCEPT ![n] = FALSE]
    /\ healthy' = [healthy EXCEPT ![n] = FALSE]
    /\ inFlight' = [inFlight EXCEPT ![n] = 0]
    /\ dispatched' = [dispatched EXCEPT ![n] = [p \in Nodes |-> 0]]
    /\ reachable' = [reachable EXCEPT ![n] = [p \in Nodes |-> FALSE]]
    /\ polled' = [polled EXCEPT ![n] = [p \in Nodes |-> 0]]
    /\ polling' = [polling EXCEPT ![n] = [p \in Nodes |-> "idle"]]
    /\ reply' = [reply EXCEPT ![n] = [p \in Nodes |-> 0]]
    /\ at' = [r \in Requests |-> [i \in Legs |->
                IF Handles(n, r, i) THEN "lost" ELSE at[r][i]]]
    /\ UNCHANGED <<on, to>>

Restart(n) ==
    /\ ~up[n]
    /\ up' = [up EXCEPT ![n] = TRUE]
    /\ UNCHANGED <<healthy, inFlight, dispatched, viewVars, legVars>>

HealthChanges(n) ==
    /\ up[n]
    /\ healthy' = [healthy EXCEPT ![n] = ~@]
    /\ UNCHANGED <<up, inFlight, dispatched, viewVars, legVars>>

-----------------------------------------------------------------------------
Next ==
    \/ \E n \in Nodes : PollOnce(n) \/ Crash(n) \/ Restart(n) \/ HealthChanges(n)
    \/ \E n, p \in Nodes : PollStep(n, p)
    \/ \E r \in Requests, n \in Nodes : Arrive(r, n)
    \/ \E r \in Requests, i \in Legs :
        HandlerStep(r, i) \/ Forward(r, i) \/ LeaveBackend(r, i) \/ Abandon(r, i)
    \/ \E r \in Requests : Renew(r)

Spec == Init /\ [][Next]_vars

(***************************************************************************)
(* Fairness: a running node polls, a poll is answered or times out, a       *)
(* handler goes on, and a server notices that its caller is gone.  No       *)
(* engine is assumed to finish a request and no client to hang up.          *)
(***************************************************************************)
Fairness ==
    /\ \A n \in Nodes : WF_vars(PollOnce(n))
    /\ \A n, p \in Nodes : WF_vars(PollStep(n, p))
    /\ \A r \in Requests, i \in Legs :
        WF_vars(HandlerStep(r, i)) /\ (i > 1 => WF_vars(Abandon(r, i)))

FairSpec == Spec /\ Fairness

-----------------------------------------------------------------------------
(* Every variable has its type: no counter goes negative.                   *)
TypeOK ==
    /\ up \in [Nodes -> BOOLEAN] /\ healthy \in [Nodes -> BOOLEAN]
    /\ inFlight \in [Nodes -> Nat]
    /\ reachable \in [Nodes -> [Nodes -> BOOLEAN]]
    /\ polled \in [Nodes -> [Nodes -> Nat]]
    /\ dispatched \in [Nodes -> [Nodes -> Nat]]
    /\ polling \in [Nodes -> [Nodes -> {"idle", "asked", "answered"}]]
    /\ reply \in [Nodes -> [Nodes -> Nat]]
    /\ at \in [Requests -> [Legs -> Over \cup Live]]
    /\ on \in [Requests -> [Legs -> Nodes \cup {NoNode}]]
    /\ to \in [Requests -> [Legs -> Nodes \cup {NoNode}]]

(* The legs on a node's backend, and those that wait for a peer.            *)
Serving(n) ==
    {l \in Requests \X Legs : on[l[1]][l[2]] = n /\ at[l[1]][l[2]] = "serving"}

Waiting(n, p) ==
    {l \in Requests \X Legs :
        on[l[1]][l[2]] = n /\ to[l[1]][l[2]] = p /\ at[l[1]][l[2]] = "waiting"}

(* The counters that routing reads are exact through every refusal, crash   *)
(* and abandonment: a backend's in-flight count is the number of handlers   *)
(* on it, a peer's write-through count the number that wait for it.         *)
CountsExact ==
    \A n \in Nodes :
        /\ inFlight[n] = Cardinality(Serving(n))
        /\ \A p \in Nodes : dispatched[n][p] = Cardinality(Waiting(n, p))

(* Two nodes that each believe the other has the model do not bounce a      *)
(* request between them (handler.go:174-176): however stale their views, no *)
(* node handles the same request twice.                                     *)
NoBounce ==
    \A r \in Requests, n \in Nodes, i, j \in Legs :
        Handles(n, r, i) /\ Handles(n, r, j) => i = j

(* A burst is not blind between polls (peer.go:37-41): what a node believes *)
(* a peer to carry is never less than what it is itself waiting for there.  *)
OwnLoadSeen ==
    \A n, p \in Nodes : TotalInFlight(n, p) >= Cardinality(Waiting(n, p))

(* A peer that is gone for good stops being routed to, whatever answer of   *)
(* its was on the way when it went (peer.go:91-96).                         *)
GonePeerNotRouted ==
    \A n, p \in Nodes : n # p =>
        (<>[]~up[p] => <>[](p \notin PeerRoutes(n)))

(* A request that is over for its client, who may have hung up, is over     *)
(* everywhere: the slot it holds on another node is freed even when the     *)
(* engine there never answers, and when the node in between crashed.        *)
OrphanFreesSlot ==
    \A r \in Requests :
        at[r][1] \in {"done", "lost"} ~> \A i \in Legs : at[r][i] \in Over
=============================================================================
