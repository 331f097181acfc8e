-------------------------------- MODULE Node --------------------------------
(***************************************************************************)
(* One node serving inference: the requests of proxy.handleProxy and        *)
(* proxyRequest running against the backends that Supervisor supervises.    *)
(*                                                                          *)
(* A request resolves its routes and picks one from that snapshot (Route),  *)
(* takes its in-flight slot (Enter), sends the request to whatever engine   *)
(* listens on the backend's port (Connect), gets the response headers       *)
(* (Respond), and streams the body.  When backendClient.Do fails it reports *)
(* the hard failure in the two steps of NoteHardFailure; when the body      *)
(* breaks off it reports nothing.  Every path ends in the deferred          *)
(* DecrInFlight (CloseHandler).                                             *)
(***************************************************************************)
EXTENDS Supervisor, FiniteSets

CONSTANT Ceiling    \* balancer.max_in_flight_per_backend, 0 for no ceiling

ASSUME CeilingAssumption == Ceiling \in Nat
ASSUME RequestsAssumption == IsFiniteSet(Requests)

VARIABLES
    at,         \* where the handler of a request is
    target,     \* the backend of its route
    serving,    \* the generation that accepted its connection
    inFlight    \* BackendState.inFlight

reqVars == <<at, target, serving, inFlight>>
nodeVars == <<vars, reqVars>>

Handling == {"sending", "waiting", "streaming", "failed", "noting", "closing"}

NodeInit ==
    /\ Init
    /\ at = [r \in Requests |-> "out"]
    /\ target = [r \in Requests |-> NoBackend]
    /\ serving = [r \in Requests |-> NoGen]
    /\ inFlight = [b \in Backends |-> 0]

Move(r, to) == at' = [at EXCEPT ![r] = to]

-----------------------------------------------------------------------------
(* Registry.Resolve and PickRoute, on a node without peers: the healthy     *)
(* backends below the ceiling that have the fewest requests in flight, ties *)
(* by rotation.  With none, the client gets a 429 or a 503.                 *)
Candidates ==
    {b \in Backends : status[b] = "healthy"
                      /\ (Ceiling > 0 => inFlight[b] < Ceiling)}

Choices == {b \in Candidates : \A c \in Candidates : inFlight[b] <= inFlight[c]}

Route(r) ==
    /\ node = "serving" /\ at[r] = "out"
    /\ \E b \in Choices : target' = [target EXCEPT ![r] = b]
    /\ Move(r, "routed")
    /\ UNCHANGED <<vars, serving, inFlight>>

Enter(r) ==
    /\ Up /\ at[r] = "routed"
    /\ inFlight' = [inFlight EXCEPT ![target[r]] = @ + 1]
    /\ Move(r, "sending")
    /\ UNCHANGED <<vars, target, serving>>

(* Only one engine can listen on the port; it may be loading, and answer    *)
(* 503.                                                                     *)
Connect(r) ==
    /\ Up /\ at[r] = "sending"
    /\ \E g \in Gens : Listening(target[r], g)
                       /\ serving' = [serving EXCEPT ![r] = g]
    /\ Move(r, "waiting")
    /\ UNCHANGED <<vars, target, inFlight>>

Respond(r) ==
    /\ Up /\ at[r] = "waiting" /\ Listening(target[r], serving[r])
    /\ Move(r, "streaming")
    /\ UNCHANGED <<vars, target, serving, inFlight>>

(* Do fails: refused, or cut off before the headers.                        *)
HardFailure(r) ==
    /\ Up
    /\ \/ at[r] = "sending" /\ \A g \in Gens : ~Listening(target[r], g)
       \/ at[r] = "waiting" /\ ~Alive(target[r], serving[r])
    /\ Move(r, "failed")
    /\ UNCHANGED <<vars, target, serving, inFlight>>

(* Every net.OpError counts as one: a dial that times out on an engine that *)
(* hangs, a connection that a living engine resets.                         *)
LooksHard(r) ==
    /\ Up /\ at[r] \in {"sending", "waiting"}
    /\ Move(r, "failed")
    /\ UNCHANGED <<vars, target, serving, inFlight>>

(* The request cannot be built, or Do fails otherwise: nothing is reported. *)
SoftFailure(r) ==
    /\ Up /\ at[r] \in {"sending", "waiting"}
    /\ Move(r, "closing")
    /\ UNCHANGED <<vars, target, serving, inFlight>>

LatchFailure(r) ==
    /\ at[r] = "failed"
    /\ NoteLatch(r, target[r])
    /\ Move(r, "noting")
    /\ UNCHANGED <<target, serving, inFlight>>

Evict(r) ==
    /\ at[r] = "noting"
    /\ NoteStatus(r)
    /\ Move(r, "closing")
    /\ UNCHANGED <<target, serving, inFlight>>

ClientGone(r) ==
    /\ Up /\ at[r] \in {"sending", "waiting", "streaming"}
    /\ Move(r, "closing")
    /\ UNCHANGED <<vars, target, serving, inFlight>>

(* The body ends, or breaks off because the engine is gone.                 *)
StreamEnds(r) ==
    /\ Up /\ at[r] = "streaming" /\ Listening(target[r], serving[r])
    /\ Move(r, "closing")
    /\ UNCHANGED <<vars, target, serving, inFlight>>

StreamBreaks(r) ==
    /\ Up /\ at[r] = "streaming" /\ ~Alive(target[r], serving[r])
    /\ Move(r, "closing")
    /\ UNCHANGED <<vars, target, serving, inFlight>>

CloseHandler_LeaksSlot(r) ==
    /\ Up /\ at[r] = "closing"
    /\ inFlight' = inFlight
    /\ target' = [target EXCEPT ![r] = NoBackend]
    /\ serving' = [serving EXCEPT ![r] = NoGen]
    /\ Move(r, "out")
    /\ UNCHANGED vars

CloseHandler(r) ==
    /\ Up /\ at[r] = "closing"
    /\ inFlight' = [inFlight EXCEPT ![target[r]] = @ - 1]
    /\ target' = [target EXCEPT ![r] = NoBackend]
    /\ serving' = [serving EXCEPT ![r] = NoGen]
    /\ Move(r, "out")
    /\ UNCHANGED vars

(* What a handler does of its own accord, whatever engine and client do.    *)
HandlerStep(r) ==
    \/ Enter(r) \/ Connect(r) \/ HardFailure(r) \/ LatchFailure(r) \/ Evict(r)
    \/ StreamBreaks(r) \/ CloseHandler(r)

RequestStep(r) ==
    \/ Route(r) \/ HandlerStep(r) \/ Respond(r) \/ ClientGone(r) \/ StreamEnds(r)
    \/ LooksHard(r) \/ SoftFailure(r)

-----------------------------------------------------------------------------
(* The supervisor's own steps leave the requests where they are.            *)
SupervisorStep ==
    /\ \/ TickStart \/ LoopReturn
       \/ \E b \in Backends : HealthStep(b) \/ Deadline(b)
       \/ MainStep
       \/ \E b \in Backends, g \in Gens : EngineMoves(b, g)
    /\ UNCHANGED reqVars

NodeNext == SupervisorStep \/ \E r \in Requests : RequestStep(r)

NodeSpec == NodeInit /\ [][NodeNext]_nodeVars

(* A handler goes on when it can; no engine answers and no client hangs up  *)
(* by assumption.                                                           *)
FairNodeSpec ==
    /\ NodeSpec /\ LoopFairness /\ MainFairness
    /\ \A r \in Requests : WF_nodeVars(HandlerStep(r))

-----------------------------------------------------------------------------
(* Every variable has its type; the in-flight counter never goes negative.  *)
NodeTypeOK ==
    /\ TypeOK
    /\ at \in [Requests -> Handling \cup {"out", "routed"}]
    /\ target \in [Requests -> Backends \cup {NoBackend}]
    /\ serving \in [Requests -> Gens \cup {NoGen}]
    /\ inFlight \in [Backends -> Nat]

(* The in-flight counter, the only figure routing reads, is exactly the     *)
(* number of handlers inside proxyRequest on that backend, on every path    *)
(* out of it.                                                               *)
InFlightExact ==
    \A b \in Backends :
        inFlight[b] = Cardinality({r \in Requests :
                                    target[r] = b /\ at[r] \in Handling})

OnEngine(r) == at[r] \in {"waiting", "streaming"}

(* backendClient has no timeout and leaves liveness to the health loop      *)
(* (streaming.go:17-20): a request on an engine the node has taken down     *)
(* does end, even when the engine was hung and its client never hangs up.   *)
ReplacedEngineFreesRequests ==
    \A r \in Requests :
        (OnEngine(r) /\ cmd[target[r]] # serving[r])
            ~> (~OnEngine(r) \/ node = "exited")

(* A request's late report takes a Dead backend back to Unhealthy           *)
(* (state.go:146-154), with no engine behind it.  The health loop does not  *)
(* leave it there: it is Dead again, or gets an engine (manager.go:94-106,  *)
(* 215-235), unless the node shuts down.                                    *)
LateReportsSettle ==
    \A b \in Backends :
        (status[b] = "unhealthy" /\ \A g \in Gens : ~Alive(b, g))
            ~> (status[b] = "dead" \/ (\E g \in Gens : Alive(b, g)) \/ node # "serving")

(* The other half of that promise: a request on an engine that the health   *)
(* loop has given up on ends too.                                           *)
DeadEngineFreesRequests ==
    \A r \in Requests :
        (OnEngine(r) /\ status[target[r]] = "dead")
            ~> (~OnEngine(r) \/ node # "serving")
=============================================================================
