----------------------------- MODULE MeshProofs -----------------------------
(***************************************************************************)
(* A request is never bounced, whatever the nodes believe of each other, and *)
(* the counters that routing reads are exact in every mesh, for any finite  *)
(* set of requests.                                                         *)
(*                                                                          *)
(* NoBounce speaks of live handlers only; the invariant behind it says how  *)
(* far a chain of handlers can have grown.  Only leg 1 forwards, it         *)
(* forwards to another node, and leg 2 runs where leg 1 forwarded to.       *)
(***************************************************************************)
EXTENDS Mesh, FiniteSetTheorems, TLAPS

LegTypes ==
    /\ at \in [Requests -> [Legs -> Over \cup Live]]
    /\ on \in [Requests -> [Legs -> Nodes \cup {NoNode}]]
    /\ to \in [Requests -> [Legs -> Nodes \cup {NoNode}]]

Forwards(r, i) == at[r][i] \in {"sending", "waiting"}

OnlyClientsForwarded ==
    \A r \in Requests, i \in Legs :
        Forwards(r, i) => i = 1 /\ to[r][1] # on[r][1]

ChainIsShort ==
    \A r \in Requests, i \in Legs :
        i > 1 /\ at[r][i] # "none" =>
            /\ i = 2
            /\ at[r][1] \in {"waiting", "done", "lost"}
            /\ on[r][2] = to[r][1] /\ to[r][1] # on[r][1]

ChainInv == LegTypes /\ OnlyClientsForwarded /\ ChainIsShort

(* Legs are counted from 1.                                                  *)
LEMMA LegsAreNumbers == 1 \in Legs /\ Legs \subseteq Nat /\ \A i \in Legs : i >= 1
BY MaxLegsAssumption DEF Legs

(* A picked route is one of the resolved ones, and a request that was       *)
(* forwarded has none but the local one.                                    *)
LEMMA ForwardedStays ==
    ASSUME NEW r \in Requests, NEW i \in Legs, i > 1
    PROVE PickRoute(on[r][i], Resolve(r, i)) \subseteq {on[r][i]}
BY DEF PickRoute, Resolve, Available, LocalRoutes

(* No request has a chain at first.                                         *)
LEMMA ChainInit == Init => ChainInv
BY LegsAreNumbers
   DEF Init, ChainInv, LegTypes, OnlyClientsForwarded, ChainIsShort, Forwards, Over

(* What a step does to the chain of one request is all there is to check:   *)
(* the invariant speaks of each request by itself.                          *)
LEMMA ChainStep == ChainInv /\ [Next]_vars => ChainInv'
<1> SUFFICES ASSUME ChainInv, [Next]_vars PROVE ChainInv'
  OBVIOUS
<1> USE LegsAreNumbers
    DEF ChainInv, LegTypes, OnlyClientsForwarded, ChainIsShort, Forwards
<1>1. CASE UNCHANGED <<at, on, to>>
  BY <1>1
<1>2. ASSUME NEW r \in Requests, NEW n \in Nodes, Arrive(r, n) PROVE ChainInv'
  BY <1>2 DEF Arrive, Move, Live
<1>3. ASSUME NEW r \in Requests, NEW i \in Legs, RouteLocal(r, i)
      PROVE ChainInv'
  BY <1>3 DEF RouteLocal, Move, Live
<1>4. ASSUME NEW r \in Requests, NEW i \in Legs, RouteToPeer(r, i)
      PROVE ChainInv'
  <2>1. i = 1
    <3>1. PickRoute(on[r][i], Resolve(r, i)) \ {on[r][i]} # {}
      BY <1>4 DEF RouteToPeer
    <3>2. ~(i > 1)
      BY <3>1, ForwardedStays
    <3> QED
      BY <3>2
  <2>2. PICK p \in PickRoute(on[r][1], Resolve(r, 1)) \ {on[r][1]} :
            to' = [to EXCEPT ![r][1] = p]
    BY <1>4, <2>1 DEF RouteToPeer
  <2>3. p \in Nodes
    BY <2>2, NodesAssumption
       DEF PickRoute, Resolve, Available, LocalRoutes, PeerRoutes
  <2>4. at' = [at EXCEPT ![r][1] = "sending"] /\ on' = on
    BY <1>4, <2>1 DEF RouteToPeer, Move
  <2>5. at[r][1] = "arrived" /\ 1 \in Legs
    BY <1>4, <2>1 DEF RouteToPeer
  <2>6. LegTypes'
    BY <2>2, <2>3, <2>4, <2>5 DEF Live
  <2>7. OnlyClientsForwarded'
    BY <2>2, <2>3, <2>4, <2>5
  <2>8. ChainIsShort'
    BY <2>2, <2>3, <2>4, <2>5
  <2> QED
    BY <2>6, <2>7, <2>8
<1>5. ASSUME NEW r \in Requests, NEW i \in Legs, Refuse(r, i) PROVE ChainInv'
  BY <1>5 DEF Refuse, Move, Over
<1>6. ASSUME NEW r \in Requests, NEW i \in Legs, Enter(r, i) PROVE ChainInv'
  BY <1>6 DEF Enter, Move, Live
<1>7. ASSUME NEW r \in Requests, NEW i \in Legs, Dispatch(r, i) PROVE ChainInv'
  BY <1>7 DEF Dispatch, Move, Live
<1>8. ASSUME NEW r \in Requests, NEW i \in Legs, Forward(r, i) PROVE ChainInv'
  <2>1. i = 1 /\ i + 1 = 2 /\ at[r][1] = "waiting" /\ to[r][1] # on[r][1]
    BY <1>8 DEF Forward
  <2>2. 2 \in Legs /\ at' = [at EXCEPT ![r][2] = "arrived"]
            /\ on' = [on EXCEPT ![r][2] = to[r][1]] /\ to' = to
    BY <1>8, <2>1 DEF Forward, Move
  <2> QED
    BY <2>1, <2>2 DEF Live
<1>9. ASSUME NEW r \in Requests, NEW i \in Legs,
             LeaveBackend(r, i) \/ LeavePeer(r, i)
      PROVE ChainInv'
  <2>1. /\ at[r][i] \in {"serving", "waiting"}
        /\ at' = [at EXCEPT ![r][i] = "done"] /\ on' = on /\ to' = to
    BY <1>9 DEF LeaveBackend, LeavePeer, Move
  <2>2. LegTypes'
    BY <2>1 DEF Over
  <2>3. OnlyClientsForwarded'
    BY <2>1
  <2>4. ChainIsShort'
    BY <2>1
  <2> QED
    BY <2>2, <2>3, <2>4
<1>10. ASSUME NEW r \in Requests, Renew(r) PROVE ChainInv'
  BY <1>10 DEF Renew, Over
<1>11. ASSUME NEW n \in Nodes, Crash(n) PROVE ChainInv'
  <2>1. /\ \A r \in Requests, i \in Legs : at'[r][i] \in {at[r][i], "lost"}
        /\ \A r \in Requests, i \in Legs :
                at[r][i] = "none" => at'[r][i] = "none"
        /\ LegTypes'
    BY <1>11 DEF Crash, Handles, Over, Live
  <2>2. on' = on /\ to' = to
    BY <1>11 DEF Crash
  <2>3. OnlyClientsForwarded'
    BY <2>1, <2>2
  <2>4. ChainIsShort'
    BY <2>1, <2>2
  <2> QED
    BY <2>1, <2>3, <2>4
<1> QED
  BY <1>1, <1>2, <1>3, <1>4, <1>5, <1>6, <1>7, <1>8, <1>9, <1>10, <1>11
     DEF Next, vars, legVars, HandlerStep, PeerAnswers, Abandon, PollStep,
         PollOnce, Answer, Update, MarkUnreachable, Restart, HealthChanges

(* Two live legs are leg 1 and leg 2, which are on different nodes.         *)
LEMMA ChainImpliesNoBounce == ChainInv => NoBounce
BY LegsAreNumbers
   DEF ChainInv, ChainIsShort, LegTypes, NoBounce, Handles, Live

(* For every mesh, every spread of the model over its nodes and every       *)
(* ceiling: no node handles the same request twice.                         *)
THEOREM RequestsNeverBounce == Spec => []NoBounce
BY ChainInit, ChainStep, ChainImpliesNoBounce, PTL DEF Spec
-----------------------------------------------------------------------------
(* CountInv is inductive: the types, the counts, and that a leg which has   *)
(* chosen a peer has a node to wait for.                                    *)
CounterTypes ==
    /\ up \in [Nodes -> BOOLEAN] /\ healthy \in [Nodes -> BOOLEAN]
    /\ inFlight \in [Nodes -> Int]
    /\ reachable \in [Nodes -> [Nodes -> BOOLEAN]]
    /\ polled \in [Nodes -> [Nodes -> Nat]]
    /\ dispatched \in [Nodes -> [Nodes -> Int]]
    /\ polling \in [Nodes -> [Nodes -> {"idle", "asked", "answered"}]]
    /\ reply \in [Nodes -> [Nodes -> Nat]]
    /\ LegTypes

Placed ==
    \A r \in Requests, i \in Legs :
        /\ at[r][i] \in Live => on[r][i] \in Nodes
        /\ at[r][i] \in {"sending", "waiting"} => to[r][i] \in Nodes

CountInv == CounterTypes /\ Placed /\ CountsExact

-----------------------------------------------------------------------------
LEMMA FiniteLegs == IsFiniteSet(Requests \X Legs)
<1>1. IsFiniteSet(Legs)
  BY MaxLegsAssumption, FS_Interval DEF Legs
<1> QED
  BY <1>1, RequestsAssumption, FS_Product

(* Both sets of legs are finite, so that their sizes are numbers.           *)
LEMMA FiniteCounts ==
    /\ \A n : IsFiniteSet(Serving(n)) /\ Cardinality(Serving(n)) \in Nat
    /\ \A n, p : IsFiniteSet(Waiting(n, p)) /\ Cardinality(Waiting(n, p)) \in Nat
<1>1. \A n, p : Serving(n) \subseteq Requests \X Legs
                /\ Waiting(n, p) \subseteq Requests \X Legs
  BY DEF Serving, Waiting
<1> QED
  BY <1>1, FiniteLegs, FS_Subset, FS_CardinalityType

LEMMA CountInit == Init => CountInv
<1> SUFFICES ASSUME Init PROVE CountInv
  OBVIOUS
<1>1. CounterTypes
  BY DEF Init, CounterTypes, LegTypes, Over
<1>2. Placed
  BY DEF Init, Placed, Live
<1>3. \A n, p \in Nodes : Serving(n) = {} /\ Waiting(n, p) = {}
  BY DEF Init, Serving, Waiting
<1> QED
  BY <1>1, <1>2, <1>3, FS_EmptySet DEF Init, CountInv, CountsExact

-----------------------------------------------------------------------------
(* Two finite sets that differ in one element at most differ by one in size *)
(* or not at all.                                                           *)
LEMMA OneElement ==
    ASSUME NEW S, NEW T, NEW x, IsFiniteSet(S), IsFiniteSet(T),
           S \ {x} = T \ {x}
    PROVE  /\ (x \in S <=> x \in T) => Cardinality(T) = Cardinality(S)
           /\ x \notin S /\ x \in T => Cardinality(T) = Cardinality(S) + 1
           /\ x \in S /\ x \notin T => Cardinality(T) = Cardinality(S) - 1
<1>1. ASSUME x \in S <=> x \in T PROVE S = T
  BY <1>1
<1>2. ASSUME x \notin S, x \in T PROVE Cardinality(T) = Cardinality(S) + 1
  <2>1. T = S \cup {x}
    BY <1>2
  <2> QED
    BY <1>2, <2>1, FS_AddElement
<1>3. ASSUME x \in S, x \notin T PROVE Cardinality(T) = Cardinality(S) - 1
  <2>1. T = S \ {x}
    BY <1>3
  <2> QED
    BY <1>3, <2>1, FS_RemoveElement
<1> QED
  BY <1>1, <1>2, <1>3

OthersStay(r, i) ==
    \A q \in Requests, j \in Legs : q # r \/ j # i =>
        at'[q][j] = at[q][j] /\ on'[q][j] = on[q][j] /\ to'[q][j] = to[q][j]

(* What a step of leg i of request r does to the counts: they follow the    *)
(* leg.                                                                     *)
LEMMA LegCounts ==
    ASSUME NEW r \in Requests, NEW i \in Legs, OthersStay(r, i),
           NEW n, NEW p
    PROVE  LET was == on[r][i] = n /\ at[r][i] = "serving"
               is == on'[r][i] = n /\ at'[r][i] = "serving"
               waited == on[r][i] = n /\ to[r][i] = p /\ at[r][i] = "waiting"
               waits == on'[r][i] = n /\ to'[r][i] = p /\ at'[r][i] = "waiting"
           IN  /\ (was <=> is) => Cardinality(Serving(n)') = Cardinality(Serving(n))
               /\ ~was /\ is => Cardinality(Serving(n)') = Cardinality(Serving(n)) + 1
               /\ was /\ ~is => Cardinality(Serving(n)') = Cardinality(Serving(n)) - 1
               /\ (waited <=> waits) =>
                    Cardinality(Waiting(n, p)') = Cardinality(Waiting(n, p))
               /\ ~waited /\ waits =>
                    Cardinality(Waiting(n, p)') = Cardinality(Waiting(n, p)) + 1
               /\ waited /\ ~waits =>
                    Cardinality(Waiting(n, p)') = Cardinality(Waiting(n, p)) - 1
<1>1. IsFiniteSet(Serving(n)) /\ IsFiniteSet(Waiting(n, p))
  BY FiniteCounts
<1>2. Serving(n)' \subseteq Requests \X Legs /\ Waiting(n, p)' \subseteq Requests \X Legs
  BY DEF Serving, Waiting
<1>3. IsFiniteSet(Serving(n)') /\ IsFiniteSet(Waiting(n, p)')
  BY <1>2, FiniteLegs, FS_Subset
<1>4. Serving(n)' \ {<<r, i>>} = Serving(n) \ {<<r, i>>}
      /\ Waiting(n, p)' \ {<<r, i>>} = Waiting(n, p) \ {<<r, i>>}
  BY DEF OthersStay, Serving, Waiting
<1>5. /\ <<r, i>> \in Serving(n) <=> on[r][i] = n /\ at[r][i] = "serving"
      /\ <<r, i>> \in Serving(n)' <=> on'[r][i] = n /\ at'[r][i] = "serving"
      /\ <<r, i>> \in Waiting(n, p) <=>
            on[r][i] = n /\ to[r][i] = p /\ at[r][i] = "waiting"
      /\ <<r, i>> \in Waiting(n, p)' <=>
            on'[r][i] = n /\ to'[r][i] = p /\ at'[r][i] = "waiting"
  BY DEF Serving, Waiting
<1> QED
  BY <1>1, <1>3, <1>4, <1>5, OneElement

-----------------------------------------------------------------------------
(* A leg that moves on the same node towards the same peer, and is neither  *)
(* served nor waiting before or after, moves no counter.                    *)
LEMMA QuietLeg ==
    ASSUME CountInv, NEW r \in Requests, NEW i \in Legs, OthersStay(r, i),
           UNCHANGED <<inFlight, dispatched>>,
           at[r][i] \notin {"serving", "waiting"},
           at'[r][i] \notin {"serving", "waiting"}
    PROVE  CountsExact'
<1>1. ASSUME NEW n \in Nodes, NEW p \in Nodes
      PROVE  Cardinality(Serving(n)') = Cardinality(Serving(n))
             /\ Cardinality(Waiting(n, p)') = Cardinality(Waiting(n, p))
  BY LegCounts
<1> QED
  BY <1>1 DEF CountInv, CountsExact

(* A leg that comes to the backend, leaves it, or starts or stops waiting   *)
(* for its peer, moves the one counter with it.                             *)
LEMMA EnterStep ==
    ASSUME CountInv, NEW r \in Requests, NEW i \in Legs, Enter(r, i)
    PROVE  CountInv'
<1> USE DEF CountInv, CounterTypes, LegTypes, Placed, Move, viewVars, nodeVars, Over, Live
<1>1. on[r][i] \in Nodes /\ OthersStay(r, i)
  BY DEF Enter, OthersStay
<1>2. CounterTypes' /\ Placed'
  BY <1>1 DEF Enter
<1>3. at[r][i] = "entering" /\ at'[r][i] = "serving"
      /\ on'[r][i] = on[r][i] /\ to'[r][i] = to[r][i]
  BY DEF Enter
<1>4. ASSUME NEW n \in Nodes, NEW p \in Nodes
      PROVE  /\ dispatched'[n][p] = dispatched[n][p]
             /\ n = on[r][i] => inFlight'[n] = inFlight[n] + 1
             /\ n # on[r][i] => inFlight'[n] = inFlight[n]
  BY <1>1 DEF Enter
<1>5. ASSUME NEW n \in Nodes, NEW p \in Nodes
      PROVE  inFlight[n] = Cardinality(Serving(n))
             /\ dispatched[n][p] = Cardinality(Waiting(n, p))
  BY DEF CountsExact
<1> HIDE DEF CountInv, CounterTypes, LegTypes, Placed, Move, viewVars, nodeVars, Over, Live
<1>6. ASSUME NEW n \in Nodes, NEW p \in Nodes
      PROVE  inFlight'[n] = Cardinality(Serving(n)')
             /\ dispatched'[n][p] = Cardinality(Waiting(n, p)')
  <2>1. Cardinality(Waiting(n, p)') = Cardinality(Waiting(n, p))
    BY <1>1, <1>3, LegCounts
  <2>2. n = on[r][i] => Cardinality(Serving(n)') = Cardinality(Serving(n)) + 1
    BY <1>1, <1>3, LegCounts
  <2>3. n # on[r][i] => Cardinality(Serving(n)') = Cardinality(Serving(n))
    BY <1>1, <1>3, LegCounts
  <2> QED
    BY <1>4, <1>5, <2>1, <2>2, <2>3
<1> QED
  BY <1>2, <1>6 DEF CountInv, CountsExact

LEMMA LeaveBackendStep ==
    ASSUME CountInv, NEW r \in Requests, NEW i \in Legs, LeaveBackend(r, i)
    PROVE  CountInv'
<1> USE DEF CountInv, CounterTypes, LegTypes, Placed, Move, viewVars, nodeVars, Over, Live
<1>1. on[r][i] \in Nodes /\ OthersStay(r, i)
  BY DEF LeaveBackend, OthersStay
<1>2. CounterTypes' /\ Placed'
  BY <1>1 DEF LeaveBackend
<1>3. at[r][i] = "serving" /\ at'[r][i] = "done"
      /\ on'[r][i] = on[r][i] /\ to'[r][i] = to[r][i]
  BY DEF LeaveBackend
<1>4. ASSUME NEW n \in Nodes, NEW p \in Nodes
      PROVE  /\ dispatched'[n][p] = dispatched[n][p]
             /\ n = on[r][i] => inFlight'[n] = inFlight[n] - 1
             /\ n # on[r][i] => inFlight'[n] = inFlight[n]
  BY <1>1 DEF LeaveBackend
<1>5. ASSUME NEW n \in Nodes, NEW p \in Nodes
      PROVE  inFlight[n] = Cardinality(Serving(n))
             /\ dispatched[n][p] = Cardinality(Waiting(n, p))
  BY DEF CountsExact
<1> HIDE DEF CountInv, CounterTypes, LegTypes, Placed, Move, viewVars, nodeVars, Over, Live
<1>6. ASSUME NEW n \in Nodes, NEW p \in Nodes
      PROVE  inFlight'[n] = Cardinality(Serving(n)')
             /\ dispatched'[n][p] = Cardinality(Waiting(n, p)')
  <2>1. Cardinality(Waiting(n, p)') = Cardinality(Waiting(n, p))
    BY <1>1, <1>3, LegCounts
  <2>2. n = on[r][i] => Cardinality(Serving(n)') = Cardinality(Serving(n)) - 1
    BY <1>1, <1>3, LegCounts
  <2>3. n # on[r][i] => Cardinality(Serving(n)') = Cardinality(Serving(n))
    BY <1>1, <1>3, LegCounts
  <2> QED
    BY <1>4, <1>5, <2>1, <2>2, <2>3
<1> QED
  BY <1>2, <1>6 DEF CountInv, CountsExact

LEMMA DispatchStep ==
    ASSUME CountInv, NEW r \in Requests, NEW i \in Legs, Dispatch(r, i)
    PROVE  CountInv'
<1> USE DEF CountInv, CounterTypes, LegTypes, Placed, Move, viewVars, nodeVars, Over, Live
<1>1. on[r][i] \in Nodes /\ to[r][i] \in Nodes /\ OthersStay(r, i)
  BY DEF Dispatch, OthersStay
<1>2. CounterTypes' /\ Placed'
  BY <1>1 DEF Dispatch
<1>3. at[r][i] = "sending" /\ at'[r][i] = "waiting"
      /\ on'[r][i] = on[r][i] /\ to'[r][i] = to[r][i]
  BY DEF Dispatch
<1>4. ASSUME NEW n \in Nodes, NEW p \in Nodes
      PROVE  /\ inFlight'[n] = inFlight[n]
             /\ n = on[r][i] /\ p = to[r][i] => dispatched'[n][p] = dispatched[n][p] + 1
             /\ ~(n = on[r][i] /\ p = to[r][i]) => dispatched'[n][p] = dispatched[n][p]
  BY <1>1 DEF Dispatch
<1>5. ASSUME NEW n \in Nodes, NEW p \in Nodes
      PROVE  inFlight[n] = Cardinality(Serving(n))
             /\ dispatched[n][p] = Cardinality(Waiting(n, p))
  BY DEF CountsExact
<1> HIDE DEF CountInv, CounterTypes, LegTypes, Placed, Move, viewVars, nodeVars, Over, Live
<1>6. ASSUME NEW n \in Nodes, NEW p \in Nodes
      PROVE  inFlight'[n] = Cardinality(Serving(n)')
             /\ dispatched'[n][p] = Cardinality(Waiting(n, p)')
  <2>1. Cardinality(Serving(n)') = Cardinality(Serving(n))
    BY <1>1, <1>3, LegCounts
  <2>2. n = on[r][i] /\ p = to[r][i] => Cardinality(Waiting(n, p)') = Cardinality(Waiting(n, p)) + 1
    BY <1>1, <1>3, LegCounts
  <2>3. ~(n = on[r][i] /\ p = to[r][i]) => Cardinality(Waiting(n, p)') = Cardinality(Waiting(n, p))
    BY <1>1, <1>3, LegCounts
  <2> QED
    BY <1>4, <1>5, <2>1, <2>2, <2>3
<1> QED
  BY <1>2, <1>6 DEF CountInv, CountsExact

LEMMA LeavePeerStep ==
    ASSUME CountInv, NEW r \in Requests, NEW i \in Legs, LeavePeer(r, i)
    PROVE  CountInv'
<1> USE DEF CountInv, CounterTypes, LegTypes, Placed, Move, viewVars, nodeVars, Over, Live
<1>1. on[r][i] \in Nodes /\ to[r][i] \in Nodes /\ OthersStay(r, i)
  BY DEF LeavePeer, OthersStay
<1>2. CounterTypes' /\ Placed'
  BY <1>1 DEF LeavePeer
<1>3. at[r][i] = "waiting" /\ at'[r][i] = "done"
      /\ on'[r][i] = on[r][i] /\ to'[r][i] = to[r][i]
  BY DEF LeavePeer
<1>4. ASSUME NEW n \in Nodes, NEW p \in Nodes
      PROVE  /\ inFlight'[n] = inFlight[n]
             /\ n = on[r][i] /\ p = to[r][i] => dispatched'[n][p] = dispatched[n][p] - 1
             /\ ~(n = on[r][i] /\ p = to[r][i]) => dispatched'[n][p] = dispatched[n][p]
  BY <1>1 DEF LeavePeer
<1>5. ASSUME NEW n \in Nodes, NEW p \in Nodes
      PROVE  inFlight[n] = Cardinality(Serving(n))
             /\ dispatched[n][p] = Cardinality(Waiting(n, p))
  BY DEF CountsExact
<1> HIDE DEF CountInv, CounterTypes, LegTypes, Placed, Move, viewVars, nodeVars, Over, Live
<1>6. ASSUME NEW n \in Nodes, NEW p \in Nodes
      PROVE  inFlight'[n] = Cardinality(Serving(n)')
             /\ dispatched'[n][p] = Cardinality(Waiting(n, p)')
  <2>1. Cardinality(Serving(n)') = Cardinality(Serving(n))
    BY <1>1, <1>3, LegCounts
  <2>2. n = on[r][i] /\ p = to[r][i] => Cardinality(Waiting(n, p)') = Cardinality(Waiting(n, p)) - 1
    BY <1>1, <1>3, LegCounts
  <2>3. ~(n = on[r][i] /\ p = to[r][i]) => Cardinality(Waiting(n, p)') = Cardinality(Waiting(n, p))
    BY <1>1, <1>3, LegCounts
  <2> QED
    BY <1>4, <1>5, <2>1, <2>2, <2>3
<1> QED
  BY <1>2, <1>6 DEF CountInv, CountsExact

LEMMA LegStep ==
    ASSUME CountInv, NEW r \in Requests, NEW i \in Legs, HandlerStep(r, i)
    PROVE  CountInv'
<1> USE DEF CountInv, CounterTypes, LegTypes, Placed, Move, viewVars, nodeVars, Over, Live
<1>1. CASE RouteLocal(r, i)
  <2>1. OthersStay(r, i)
    BY <1>1 DEF RouteLocal, OthersStay
  <2>2. CounterTypes' /\ Placed'
    BY <1>1 DEF RouteLocal
  <2>3. CountsExact'
    BY <1>1, <2>1, QuietLeg DEF RouteLocal
  <2> QED
    BY <2>2, <2>3
<1>2. CASE RouteToPeer(r, i)
  <2>1. PICK p \in PickRoute(on[r][i], Resolve(r, i)) \ {on[r][i]} :
            to' = [to EXCEPT ![r][i] = p]
    BY <1>2 DEF RouteToPeer
  <2>2. p \in Nodes
    BY <2>1, NodesAssumption
       DEF PickRoute, Available, Resolve, LocalRoutes, PeerRoutes
  <2>3. OthersStay(r, i)
    BY <1>2, <2>1 DEF RouteToPeer, OthersStay
  <2>4. CounterTypes' /\ Placed'
    BY <1>2, <2>1, <2>2 DEF RouteToPeer
  <2>5. CountsExact'
    BY <1>2, <2>3, QuietLeg DEF RouteToPeer
  <2> QED
    BY <2>4, <2>5
<1>3. CASE Refuse(r, i)
  <2>1. OthersStay(r, i)
    BY <1>3 DEF Refuse, OthersStay
  <2>2. CounterTypes' /\ Placed'
    BY <1>3 DEF Refuse
  <2>3. CountsExact'
    BY <1>3, <2>1, QuietLeg DEF Refuse
  <2> QED
    BY <2>2, <2>3
<1>4. CASE Enter(r, i)
  BY <1>4, EnterStep
<1>5. CASE Dispatch(r, i)
  BY <1>5, DispatchStep
<1>6. CASE PeerAnswers(r, i)
  BY <1>6, LeavePeerStep DEF PeerAnswers
<1> QED
  BY <1>1, <1>2, <1>3, <1>4, <1>5, <1>6 DEF HandlerStep

(* A leg that arrives is new to its node, and counted nowhere yet.          *)
LEMMA ArriveStep ==
    ASSUME CountInv, NEW r \in Requests, NEW i \in Legs, NEW n \in Nodes,
           at[r][i] = "none", Move(r, i, "arrived"),
           on' = [on EXCEPT ![r][i] = n],
           UNCHANGED <<nodeVars, inFlight, dispatched, viewVars, to>>
    PROVE  CountInv'
<1> USE DEF CountInv, CounterTypes, LegTypes, Placed, Move, viewVars, nodeVars, Over, Live
<1>1. OthersStay(r, i)
  BY DEF OthersStay
<1>2. CounterTypes' /\ Placed'
  OBVIOUS
<1>3. CountsExact'
  BY <1>1, QuietLeg
<1> QED
  BY <1>2, <1>3

-----------------------------------------------------------------------------
(* A request that is over everywhere is counted nowhere.                    *)
LEMMA RenewStep ==
    ASSUME CountInv, NEW r \in Requests, Renew(r)
    PROVE  CountInv'
<1> USE DEF CountInv, CounterTypes, LegTypes, Placed, Renew, viewVars, nodeVars, Over, Live
<1>1. CounterTypes' /\ Placed'
  OBVIOUS
<1>2. ASSUME NEW n, NEW p
      PROVE  Serving(n)' = Serving(n) /\ Waiting(n, p)' = Waiting(n, p)
  BY DEF Serving, Waiting
<1> QED
  BY <1>1, <1>2 DEF CountsExact

(* A crash empties the node's sets with its counters.                       *)
LEMMA CrashStep ==
    ASSUME CountInv, NEW c \in Nodes, Crash(c)
    PROVE  CountInv'
<1> USE DEF CountInv, CounterTypes, LegTypes, Placed, Crash, viewVars, nodeVars, Over, Live
<1>1. CounterTypes' /\ Placed'
  BY DEF Handles
<1>2. ASSUME NEW n \in Nodes, NEW p \in Nodes
      PROVE  inFlight'[n] = Cardinality(Serving(n)')
             /\ dispatched'[n][p] = Cardinality(Waiting(n, p)')
  <2>1. CASE n = c
    <3>1. Serving(n)' = {} /\ Waiting(n, p)' = {}
      BY <2>1 DEF Serving, Waiting, Handles
    <3>2. inFlight'[n] = 0 /\ dispatched'[n][p] = 0
      BY <2>1
    <3> QED
      BY <3>1, <3>2, FS_EmptySet
  <2>2. CASE n # c
    <3>1. Serving(n)' = Serving(n) /\ Waiting(n, p)' = Waiting(n, p)
      BY <2>2 DEF Serving, Waiting, Handles
    <3>2. inFlight'[n] = inFlight[n] /\ dispatched'[n][p] = dispatched[n][p]
      BY <2>2
    <3> QED
      BY <3>1, <3>2 DEF CountsExact
  <2> QED
    BY <2>1, <2>2
<1> QED
  BY <1>1, <1>2 DEF CountsExact

(* A step that moves no leg and no counter keeps the counts.                *)
LEMMA SameCounts ==
    ASSUME CountInv, UNCHANGED <<inFlight, dispatched, legVars>>
    PROVE  Placed' /\ CountsExact'
<1> USE DEF CountInv, legVars
<1>1. Placed'
  BY DEF Placed
<1>2. ASSUME NEW n, NEW p
      PROVE  Serving(n)' = Serving(n) /\ Waiting(n, p)' = Waiting(n, p)
  BY DEF Serving, Waiting
<1> QED
  BY <1>1, <1>2 DEF CountsExact

LEMMA ViewStep ==
    ASSUME CountInv, NEW n \in Nodes, NEW p \in Nodes,
           PollOnce(n) \/ Restart(n) \/ HealthChanges(n) \/ PollStep(n, p)
    PROVE  CountInv'
<1> USE DEF CounterTypes, LegTypes, viewVars, nodeVars, legVars
<1>1. CounterTypes /\ inFlight[p] \in Nat
  BY FiniteCounts DEF CountInv, CountsExact
<1>2. CASE PollOnce(n)
  BY <1>1, <1>2, SameCounts DEF PollOnce, CountInv
<1>3. CASE Restart(n)
  BY <1>1, <1>3, SameCounts DEF Restart, CountInv
<1>4. CASE HealthChanges(n)
  BY <1>1, <1>4, SameCounts DEF HealthChanges, CountInv
<1>5. CASE Answer(n, p)
  BY <1>1, <1>5, SameCounts DEF Answer, CountInv
<1>6. CASE Update(n, p)
  BY <1>1, <1>6, SameCounts DEF Update, CountInv
<1>7. CASE MarkUnreachable(n, p)
  BY <1>1, <1>7, SameCounts DEF MarkUnreachable, CountInv
<1> QED
  BY <1>2, <1>3, <1>4, <1>5, <1>6, <1>7 DEF PollStep

-----------------------------------------------------------------------------
LEMMA CountStep == CountInv /\ [Next]_vars => CountInv'
<1> SUFFICES ASSUME CountInv, [Next]_vars PROVE CountInv'
  OBVIOUS
<1>1. ASSUME NEW n \in Nodes,
             PollOnce(n) \/ Crash(n) \/ Restart(n) \/ HealthChanges(n)
      PROVE  CountInv'
  BY <1>1, ViewStep, CrashStep
<1>2. ASSUME NEW n \in Nodes, NEW p \in Nodes, PollStep(n, p) PROVE CountInv'
  BY <1>2, ViewStep
<1>3. ASSUME NEW r \in Requests, NEW n \in Nodes, Arrive(r, n) PROVE CountInv'
  <2>1. 1 \in Legs
    BY MaxLegsAssumption DEF Legs
  <2> QED
    BY <1>3, <2>1, ArriveStep DEF Arrive
<1>4. ASSUME NEW r \in Requests, NEW i \in Legs, HandlerStep(r, i) PROVE CountInv'
  BY <1>4, LegStep
<1>5. ASSUME NEW r \in Requests, NEW i \in Legs, Forward(r, i) PROVE CountInv'
  <2>1. i + 1 \in Legs /\ to[r][i] \in Nodes
    BY <1>5 DEF Forward, CountInv, Placed
  <2> QED
    BY <1>5, <2>1, ArriveStep DEF Forward
<1>6. ASSUME NEW r \in Requests, NEW i \in Legs,
             LeaveBackend(r, i) \/ Abandon(r, i)
      PROVE  CountInv'
  BY <1>6, LeaveBackendStep, LeavePeerStep DEF Abandon
<1>7. ASSUME NEW r \in Requests, Renew(r) PROVE CountInv'
  BY <1>7, RenewStep
<1>8. CASE UNCHANGED vars
  <2>1. CounterTypes'
    BY <1>8 DEF vars, CountInv, CounterTypes, LegTypes, viewVars, nodeVars, legVars
  <2> QED
    BY <1>8, <2>1, SameCounts DEF vars, CountInv, legVars
<1> QED
  BY <1>1, <1>2, <1>3, <1>4, <1>5, <1>6, <1>7, <1>8 DEF Next

(* Both counts are exact, in every mesh and whatever crashes.               *)
THEOREM CountsAreExact == Spec => []CountInv /\ []CountsExact
<1>1. CountInv => CountsExact
  BY DEF CountInv
<1> QED
  BY CountInit, CountStep, <1>1, PTL DEF Spec

(* What routing reads of a peer covers the node's own traffic to it.        *)
THEOREM OwnLoadIsSeen == Spec => []OwnLoadSeen
<1>1. CountInv => OwnLoadSeen
  BY FiniteCounts DEF CountInv, CounterTypes, LegTypes, CountsExact, OwnLoadSeen, TotalInFlight
<1> QED
  BY CountsAreExact, <1>1, PTL

(* No counter goes below zero.                                              *)
THEOREM MeshTyped == Spec => []TypeOK
<1>1. CountInv => TypeOK
  BY FiniteCounts DEF CountInv, CounterTypes, LegTypes, CountsExact, TypeOK
<1> QED
  BY CountsAreExact, <1>1, PTL
=============================================================================
