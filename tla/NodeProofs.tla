----------------------------- MODULE NodeProofs -----------------------------
(***************************************************************************)
(* Supervisor implements RoutableSlot; a node that serves requests          *)
(* implements the supervisor whose requests report failures out of the      *)
(* blue, and its in-flight counters are exact, for any finite number of     *)
(* requests and any number of backends.                                     *)
(*                                                                          *)
(* NodeInv is InFlightExact with what it needs: the types of the request    *)
(* variables, and that a request being handled has a backend.               *)
(***************************************************************************)
EXTENDS Node, SupervisorProofs, FiniteSetTheorems, TLAPS

USE MaxRespawnsAssumption, NoBackendAssumption DEF NoGen

-----------------------------------------------------------------------------
(* Every step of the supervisor is a step of one slot, or leaves the slots'  *)
(* view alone.                                                              *)

(* What a change of status does to the slots that are routable.             *)
LEMMA StatusView ==
    ASSUME TypeOK, NEW b \in Backends, NEW s, status' = [status EXCEPT ![b] = s]
    PROVE  routable' = [routable EXCEPT ![b] = (s = "healthy")]
BY DEF routable, TypeOK

(* Any status but healthy takes the slot out of routing.                    *)
LEMMA WithdrawnView ==
    ASSUME TypeOK, NEW b \in Backends, NEW s, s # "healthy",
           status' = [status EXCEPT ![b] = s]
    PROVE  routable' = [routable EXCEPT ![b] = FALSE]
BY DEF routable, TypeOK

(* The slots that are routable depend on the statuses only.                 *)
LEMMA SameStatus == status' = status => routable' = routable
BY DEF routable

(* The used generations depend on the engines only.                         *)
LEMMA SameUsed == engine' = engine => used' = used
BY DEF used, Spawned

(* The closed slots depend on where Shutdown is only.                       *)
LEMMA SameClosed == spc' = spc => closed' = closed
BY DEF closed

(* A step that leaves these alone is a stutter of RoutableSlot.             *)
LEMMA SameSlots ==
    UNCHANGED <<engine, status, cmd, seenReady, spc>> => UNCHANGED Slot!vars
BY SameStatus, SameUsed, SameClosed DEF Slot!vars

(* A slot that Shutdown has reached may show anything.                      *)
LEMMA ClosedSlot ==
    ASSUME TypeOK, NEW b \in Backends, spc[b] # "idle", closed' = closed,
           NEW r \in BOOLEAN, routable' = [routable EXCEPT ![b] = r],
           NEW h \in Gens \cup {NoGen}, cmd' = [cmd EXCEPT ![b] = h],
           NEW a \in Gens \cup {NoGen},
           seenReady' = [seenReady EXCEPT ![b] = a],
           NEW G \in SUBSET Gens, used' = [used EXCEPT ![b] = G]
    PROVE  Slot!Next
<1>1. Slot!ClosedStep(b)
    <2>1. Slot!Generations = Gens /\ Slot!Free = NoGen
        BY DEF Slot!Generations, Slot!Free, Gens
    <2>2. \E i \in BOOLEAN : routable' = [routable EXCEPT ![b] = i]
        OBVIOUS
    <2>3. \E i \in Gens \cup {NoGen} : cmd' = [cmd EXCEPT ![b] = i]
        OBVIOUS
    <2>4. \E i \in Gens \cup {NoGen} : seenReady' = [seenReady EXCEPT ![b] = i]
        OBVIOUS
    <2>5. \E I \in SUBSET Gens : used' = [used EXCEPT ![b] = I]
        OBVIOUS
    <2> QED
        BY <2>1, <2>2, <2>3, <2>4, <2>5 DEF Slot!ClosedStep
<1>2. closed[b]
    BY DEF closed
<1> QED
    BY <1>1, <1>2 DEF Slot!Next

(* Taking a slot out of routing is a step whether it was routable or not.   *)
LEMMA WithdrawnSlot ==
    ASSUME TypeOK, NEW b \in Backends, NEW s,
           status' = [status EXCEPT ![b] = s], s # "healthy",
           used' = used, UNCHANGED <<cmd, seenReady, spc>>
    PROVE  Slot!Next
<1>1. routable' = [routable EXCEPT ![b] = FALSE] /\ closed' = closed
    BY WithdrawnView, SameClosed
<1>2. CASE spc[b] = "idle"
    <2>1. Slot!Withdraw(b)
        BY <1>1 DEF Slot!Withdraw
    <2>2. ~closed[b]
        BY <1>2 DEF closed
    <2> QED
        BY <2>1, <2>2 DEF Slot!Next
<1>3. CASE spc[b] # "idle"
    <2>1. /\ cmd' = [cmd EXCEPT ![b] = cmd[b]] /\ cmd[b] \in Gens \cup {NoGen}
          /\ seenReady' = [seenReady EXCEPT ![b] = seenReady[b]]
          /\ seenReady[b] \in Gens \cup {NoGen}
        BY DEF TypeOK
    <2>2. used' = [used EXCEPT ![b] = used[b]] /\ used[b] \in SUBSET Gens
        BY DEF used
    <2> QED
        BY <1>1, <1>3, <2>1, <2>2, ClosedSlot
<1> QED
    BY <1>2, <1>3

(* checkOne declares a backend healthy: the slot is admitted, and its       *)
(* holder is the one that answered.                                         *)
LEMMA PromoteSlot ==
    ASSUME IInv, NEW b \in Backends, Promote(b)
    PROVE  Slot!Next
<1>1. /\ status' = [status EXCEPT ![b] = "healthy"]
      /\ UNCHANGED <<engine, cmd, seenReady, spc>>
    BY DEF Promote, SetStatus, procVars, mainVars, ghostVars
<1>2. routable' = [routable EXCEPT ![b] = TRUE] /\ UNCHANGED <<used, closed>>
    BY <1>1, StatusView, SameUsed, SameClosed DEF IInv
<1>3. CASE spc[b] = "idle"
    <2>1. cmd[b] # NoGen /\ seenReady[b] = cmd[b]
        BY <1>3 DEF IInv, SafeInv, GoodProbeIsOfCmd, Promote
    <2>2. Slot!Admit(b) /\ ~closed[b]
        BY <1>1, <1>2, <1>3, <2>1 DEF Slot!Admit, Slot!Free, closed
    <2> QED
        BY <2>2 DEF Slot!Next
<1>4. CASE spc[b] # "idle"
    <2>1. /\ cmd' = [cmd EXCEPT ![b] = cmd[b]] /\ cmd[b] \in Gens \cup {NoGen}
          /\ seenReady' = [seenReady EXCEPT ![b] = seenReady[b]]
          /\ seenReady[b] \in Gens \cup {NoGen}
        BY <1>1 DEF IInv, TypeOK
    <2>2. used' = [used EXCEPT ![b] = used[b]] /\ used[b] \in SUBSET Gens
        BY <1>2 DEF used
    <2> QED
        BY <1>2, <1>4, <2>1, <2>2, ClosedSlot DEF IInv
<1> QED
    BY <1>3, <1>4

(* A good probe: the holder of the slot answers.                            *)
LEMMA ProbeOkSlot ==
    ASSUME IInv, NEW b \in Backends, ProbeOk(b)
    PROVE  Slot!Next
<1>1. PICK g \in Gens : /\ engine[b][g] = "ready"
                        /\ seenReady' = [seenReady EXCEPT ![b] = g]
    BY ProbeOkSees
<1>2. UNCHANGED <<routable, cmd, used, closed>>
    BY SameStatus, SameUsed, SameClosed
    DEF ProbeOk, stateVars, procVars, mainVars
<1>3. CASE spc[b] = "idle"
    <2>1. g = cmd[b] /\ g # NoGen
        BY <1>1, <1>3, HeldByCmd DEF ProbeOk, Alive, AlivePhases, Gens
    <2>2. Slot!Answer(b) /\ ~closed[b]
        BY <1>1, <1>2, <1>3, <2>1 DEF Slot!Answer, Slot!Free, closed
    <2> QED
        BY <2>2 DEF Slot!Next
<1>4. CASE spc[b] # "idle"
    <2>1. /\ cmd' = [cmd EXCEPT ![b] = cmd[b]] /\ cmd[b] \in Gens \cup {NoGen}
        BY <1>2 DEF IInv, TypeOK
    <2>2. used' = [used EXCEPT ![b] = used[b]] /\ used[b] \in SUBSET Gens
        BY <1>2 DEF used
    <2>3. /\ routable' = [routable EXCEPT ![b] = routable[b]]
          /\ routable[b] \in BOOLEAN
        BY <1>2 DEF routable
    <2> QED
        BY <1>1, <1>2, <1>4, <2>1, <2>2, <2>3, ClosedSlot DEF IInv
<1> QED
    BY <1>3, <1>4

(* respawn takes the engine from cmd: the slot, unroutable by then, is      *)
(* released.                                                                *)
LEMMA RespawnStopSlot ==
    ASSUME IInv, NEW b \in Backends, RespawnStop(b)
    PROVE  Slot!Next
<1>1. /\ cmd' = [cmd EXCEPT ![b] = NoGen]
      /\ UNCHANGED <<engine, status, seenReady, spc>>
    BY DEF RespawnStop, StopTake, stateVars, mainVars, ghostVars
<1>2. UNCHANGED <<routable, used, closed>>
    BY <1>1, SameStatus, SameUsed, SameClosed
<1>3. ~routable[b]
    BY DEF RespawnStop, IInv, SafeInv, UnroutableOnTheWayDown, routable
<1>4. CASE spc[b] = "idle"
    <2>1. Slot!Release(b) /\ ~closed[b]
        BY <1>1, <1>2, <1>3, <1>4 DEF Slot!Release, Slot!Free, closed
    <2> QED
        BY <2>1 DEF Slot!Next
<1>5. CASE spc[b] # "idle"
    <2>1. /\ seenReady' = [seenReady EXCEPT ![b] = seenReady[b]]
          /\ seenReady[b] \in Gens \cup {NoGen}
        BY <1>1 DEF IInv, TypeOK
    <2>2. used' = [used EXCEPT ![b] = used[b]] /\ used[b] \in SUBSET Gens
        BY <1>2 DEF used
    <2>3. /\ routable' = [routable EXCEPT ![b] = routable[b]]
          /\ routable[b] \in BOOLEAN
        BY <1>2 DEF routable
    <2> QED
        BY <1>1, <1>2, <1>5, <2>1, <2>2, <2>3, ClosedSlot DEF IInv
<1> QED
    BY <1>4, <1>5

(* Backend.Start: a new generation is installed on a free slot.             *)
LEMMA SpawnSlot ==
    ASSUME IInv, NEW b \in Backends, Spawn(b)
    PROVE  Slot!Next
<1> DEFINE g == respawns[b] + 1
<1>1. g \in Gens
    BY DEF IInv, TypeOK, Gens
<1>2. /\ cmd' = [cmd EXCEPT ![b] = g]
      /\ engine' = [engine EXCEPT ![b][g] = "booting"]
      /\ status' = [status EXCEPT ![b] = "starting"]
      /\ UNCHANGED <<seenReady, spc>>
    BY DEF Spawn, Become, SetStatus, mainVars
<1>3. routable' = [routable EXCEPT ![b] = FALSE] /\ closed' = closed
    BY <1>2, WithdrawnView, SameClosed DEF IInv
<1>4. used' = [used EXCEPT ![b] = @ \cup {g}]
    <2>1. \A c \in Backends, i \in Gens :
            Spawned(c, i)' <=> Spawned(c, i) \/ (c = b /\ i = g)
        BY <1>1, <1>2 DEF IInv, TypeOK, EngineTypeOK, Spawned
    <2>2. used[b] \cup {g} = {i \in Gens : Spawned(b, i)'}
        BY <1>1, <2>1 DEF used
    <2>3. \A c \in Backends \ {b} : used[c] = {i \in Gens : Spawned(c, i)'}
        BY <2>1 DEF used
    <2> QED
        BY <2>2, <2>3 DEF used
<1>5. cmd[b] = NoGen /\ ~routable[b] /\ g \notin used[b]
    <2>1. pc[b] = "start"
        BY DEF Spawn
    <2>2. cmd[b] = NoGen
        BY <2>1 DEF IInv, SafeInv, NoEngineToStart
    <2>3. ~routable[b]
        BY <2>1 DEF IInv, SafeInv, UnroutableOnTheWayDown, routable
    <2>4. ~Spawned(b, g)
        <3>1. SUFFICES ASSUME Spawned(b, g) PROVE FALSE
            OBVIOUS
        <3>2. g <= respawns[b]
            BY <1>1, <2>1, <3>1 DEF IInv, SafeInv, NextIsUnused
        <3> QED
            BY <3>2 DEF IInv, TypeOK
    <2> QED
        BY <2>2, <2>3, <2>4 DEF used
<1>6. routable' = routable
    BY <1>3, <1>5 DEF routable
<1>7. CASE spc[b] = "idle"
    <2>1. Slot!Install(b, g) /\ ~closed[b] /\ g \in Slot!Generations
        BY <1>1, <1>2, <1>3, <1>4, <1>5, <1>6, <1>7
        DEF Slot!Install, Slot!Free, Slot!Generations, NoGen, Gens, closed
    <2> QED
        BY <2>1 DEF Slot!Next
<1>8. CASE spc[b] # "idle"
    <2>1. /\ seenReady' = [seenReady EXCEPT ![b] = seenReady[b]]
          /\ seenReady[b] \in Gens \cup {NoGen}
        BY <1>2 DEF IInv, TypeOK
    <2>2. used[b] \cup {g} \in SUBSET Gens
        BY <1>1 DEF used
    <2>3. used' = [used EXCEPT ![b] = used[b] \cup {g}]
        BY <1>4
    <2> QED
        BY <1>1, <1>2, <1>3, <1>8, <2>1, <2>2, <2>3, ClosedSlot DEF IInv
<1> QED
    BY <1>7, <1>8

(* Shutdown reaches a backend: its slot is closed.                          *)
LEMMA ShutdownTakeSlot ==
    ASSUME IInv, NEW b \in Backends, ShutdownTake(b)
    PROVE  Slot!Next
<1>1. /\ cmd' = [cmd EXCEPT ![b] = NoGen]
      /\ UNCHANGED <<engine, status, seenReady>>
    BY DEF ShutdownTake, StopTake, stateVars, ghostVars
<1>2. UNCHANGED <<routable, used>>
    BY <1>1, SameStatus, SameUsed
<1>3. ~closed[b] /\ closed' = [closed EXCEPT ![b] = TRUE]
    BY DEF ShutdownTake, closed, IInv, TypeOK
<1>4. Slot!Close(b)
    BY <1>1, <1>2, <1>3 DEF Slot!Close, Slot!Free
<1> QED
    BY <1>3, <1>4 DEF Slot!Next

(* StopEnd moves a spawned engine to another spawned phase.                 *)
LEMMA StopEndUsed ==
    ASSUME IInv, NEW w \in Stoppers, NEW b \in Backends, StopEnd(w, b)
    PROVE  used' = used
<1>1. \A c \in Backends, g \in Gens : Spawned(c, g)' <=> Spawned(c, g)
    BY StopEndShape
<1> QED
    BY <1>1 DEF used

(* The end of the health loop's Stop.                                       *)
LEMMA StoppedSlot ==
    ASSUME IInv, NEW b \in Backends, RespawnStopped(b)
    PROVE  Slot!Next
<1>1. /\ status' = [status EXCEPT ![b] = "dead"]
      /\ UNCHANGED <<cmd, seenReady, spc>>
    BY DEF RespawnStopped, StopEnd, SetStatus, mainVars, ghostVars
<1>2. used' = used
    BY StopEndUsed DEF RespawnStopped, Stoppers
<1> QED
    BY <1>1, <1>2, WithdrawnSlot DEF IInv

(* The end of Shutdown's Stop, on a slot that is closed.                    *)
LEMMA ShutdownStoppedSlot ==
    ASSUME IInv, NEW b \in Backends, ShutdownStopped(b)
    PROVE  Slot!Next
<1>1. /\ status' = [status EXCEPT ![b] = "dead"]
      /\ spc[b] = "stop" /\ spc' = [spc EXCEPT ![b] = "done"]
      /\ UNCHANGED <<cmd, seenReady>>
    BY DEF ShutdownStopped, StopEnd, SetStatus, ghostVars
<1>2. used' = used
    BY StopEndUsed DEF ShutdownStopped, Stoppers
<1>3. closed' = closed
    BY <1>1 DEF closed, IInv, TypeOK
<1>4. routable' = [routable EXCEPT ![b] = FALSE]
    BY <1>1, WithdrawnView DEF IInv
<1>5. /\ cmd' = [cmd EXCEPT ![b] = cmd[b]] /\ cmd[b] \in Gens \cup {NoGen}
      /\ seenReady' = [seenReady EXCEPT ![b] = seenReady[b]]
      /\ seenReady[b] \in Gens \cup {NoGen}
    BY <1>1 DEF IInv, TypeOK
<1>6. used' = [used EXCEPT ![b] = used[b]] /\ used[b] \in SUBSET Gens
    BY <1>2 DEF used
<1> QED
    BY <1>1, <1>3, <1>4, <1>5, <1>6, ClosedSlot DEF IInv

(* Every step of a health goroutine is one of a slot, or a stutter.         *)
LEMMA HealthStepSlot ==
    ASSUME IInv, NEW b \in Backends, HealthStep(b)
    PROVE  Slot!Next \/ UNCHANGED Slot!vars
<1> USE DEF stateVars, procVars, checkVars, mainVars, ghostVars
<1>1. CASE Visit(b)
    BY <1>1, SameSlots DEF Visit
<1>2. CASE ProbeOk(b)
    BY <1>2, ProbeOkSlot
<1>3. CASE ProbeFail(b)
    BY <1>3, SameSlots DEF ProbeFail
<1>4. CASE ReadStatusOk(b)
    BY <1>4, SameSlots DEF ReadStatusOk
<1>5. CASE Promote(b)
    BY <1>5, PromoteSlot
<1>6. CASE ReadStatusFailed(b)
    BY <1>6, SameSlots DEF ReadStatusFailed
<1>7. CASE TakeHardFailure(b)
    BY <1>7, SameSlots DEF TakeHardFailure
<1>8. CASE Loading(b)
    BY <1>8, SameSlots DEF Loading
<1>9. CASE Strike(b)
    <2>1. PICK s \in Statuses \ {"healthy"} : status' = [status EXCEPT ![b] = s]
        <3>1. CASE prev[b] = "healthy"
            BY <1>9, <3>1 DEF Strike, SetStatus, Statuses
        <3>2. CASE prev[b] # "healthy"
            <4>1. status[b] \in Statuses \ {"healthy"}
                BY <1>9, <3>2 DEF Strike, IInv, SafeInv, TypeOK,
                                  UnroutableOnTheWayDown
            <4> QED
                BY <1>9, <3>2, <4>1 DEF Strike, SetStatus
        <3> QED
            BY <3>1, <3>2
    <2>2. used' = used /\ UNCHANGED <<cmd, seenReady, spc>>
        BY <1>9, SameUsed DEF Strike
    <2> QED
        BY <2>1, <2>2, WithdrawnSlot DEF IInv
<1>10. CASE GiveUp(b) \/ SpawnFails(b)
    <2>1. /\ status' = [status EXCEPT ![b] = "dead"]
          /\ used' = used /\ UNCHANGED <<cmd, seenReady, spc>>
        BY <1>10, SameUsed DEF GiveUp, SpawnFails, SetStatus
    <2> QED
        BY <2>1, WithdrawnSlot DEF IInv
<1>11. CASE RespawnStop(b)
    BY <1>11, RespawnStopSlot
<1>12. CASE RespawnStopped(b)
    BY <1>12, StoppedSlot
<1>13. CASE Spawn(b)
    BY <1>13, SpawnSlot
<1> QED
    BY <1>1, <1>2, <1>3, <1>4, <1>5, <1>6, <1>7, <1>8, <1>9, <1>10, <1>11,
       <1>12, <1>13 DEF HealthStep

(* And so is every other step.                                              *)
LEMMA OtherStepSlot ==
    ASSUME IInv, Next, \A b \in Backends : ~HealthStep(b)
    PROVE  Slot!Next \/ UNCHANGED Slot!vars
<1> USE DEF stateVars, procVars, checkVars, mainVars, ghostVars
<1>1. CASE TickStart
    BY <1>1, SameSlots DEF TickStart
<1>2. CASE LoopReturn \/ Signal
    BY <1>2, SameSlots DEF LoopReturn, Signal
<1>3. ASSUME NEW b \in Backends, Deadline(b) PROVE UNCHANGED Slot!vars
    BY <1>3, SameSlots DEF Deadline
<1>4. ASSUME NEW r \in Requests, NEW b \in Backends, NoteLatch(r, b)
      PROVE  UNCHANGED Slot!vars
    BY <1>4, SameSlots DEF NoteLatch
<1>5. ASSUME NEW r \in Requests, NoteStatus(r) PROVE Slot!Next
    <2>1. noting[r] \in Backends
        BY <1>5 DEF NoteStatus, IInv, TypeOK
    <2>2. /\ status' = [status EXCEPT ![noting[r]] = "unhealthy"]
          /\ used' = used /\ UNCHANGED <<cmd, seenReady, spc>>
        BY <1>5, SameUsed DEF NoteStatus, SetStatus
    <2> QED
        BY <2>1, <2>2, WithdrawnSlot DEF IInv
<1>6. CASE ShutDown \/ ListenerFails \/ Drained \/ Exit
    BY <1>6, SameSlots DEF ShutDown, ListenerFails, Drained, Exit, MainGoes
<1>7. ASSUME NEW b \in Backends, ShutdownTake(b) PROVE Slot!Next
    BY <1>7, ShutdownTakeSlot
<1>8. ASSUME NEW b \in Backends, ShutdownStopped(b) PROVE Slot!Next
    BY <1>8, ShutdownStoppedSlot
<1>9. ASSUME NEW b \in Backends, NEW g \in Gens, EngineMoves(b, g)
      PROVE  UNCHANGED Slot!vars
    <2>1. EngineStep(b, g)
        BY <1>9 DEF EngineMoves
    <2>2. PICK phase \in Phases \ {"none"} : Become(b, g, phase)
        BY <2>1, EngineStepShape
    <2>3. Spawned(b, g)
        BY <2>1, EngineStepShape
    <2>4. \A c \in Backends, i \in Gens : Spawned(c, i)' <=> Spawned(c, i)
        BY <2>2, <2>3 DEF Become, IInv, TypeOK, EngineTypeOK, Spawned
    <2>5. used' = used
        BY <2>4 DEF used
    <2> QED
        BY <1>9, <2>5, SameStatus, SameClosed DEF EngineMoves, Slot!vars
<1> QED
    BY <1>1, <1>2, <1>3, <1>4, <1>5, <1>6, <1>7, <1>8, <1>9 DEF Next, MainStep

(* After Manager.Start, each slot is free or held by generation 1.          *)
LEMMA InitSlot == Init => Slot!Init
<1> SUFFICES ASSUME Init PROVE Slot!Init
    OBVIOUS
<1>1. routable = [b \in Backends |-> FALSE]
    BY DEF Init, routable
<1>2. cmd \in [Backends -> {Slot!Free, 1}]
    BY DEF Init, Slot!Free
<1>3. used = [b \in Backends |-> {cmd[b]} \ {Slot!Free}]
    <2>1. \A b \in Backends, g \in Gens : Spawned(b, g) <=> g = cmd[b]
        BY DEF Init, Spawned
    <2>2. ASSUME NEW b \in Backends
          PROVE  {g \in Gens : Spawned(b, g)} = {cmd[b]} \ {NoGen}
        <3>1. {g \in Gens : Spawned(b, g)} = {g \in Gens : g = cmd[b]}
            BY <2>1
        <3>2. cmd[b] = NoGen \/ cmd[b] \in Gens
            BY <1>2 DEF Gens, Slot!Free
        <3>3. NoGen \notin Gens
            BY DEF Gens
        <3> QED
            BY <3>1, <3>2, <3>3
    <2> QED
        BY <2>2 DEF used, Slot!Free
<1>4. seenReady = [b \in Backends |-> Slot!Free]
    BY DEF Init, Slot!Free
<1>5. closed = [b \in Backends |-> FALSE]
    BY DEF Init, closed
<1> QED
    BY <1>1, <1>2, <1>3, <1>4, <1>5 DEF Slot!Init

(* The supervisor keeps RoutableSlot's promise: an engine that traffic is   *)
(* routed to has itself answered as ready, a GPU is handed to the next      *)
(* generation only when it is free and unrouted, generations are never      *)
(* reused, and there are at most max_respawns + 1 of them.                  *)
THEOREM ImplementsSlot == Spec => SlotSpec
<1>1. IInv /\ [Next]_vars => [Slot!Next]_(Slot!vars)
    <2> SUFFICES ASSUME IInv, [Next]_vars
                 PROVE  Slot!Next \/ UNCHANGED Slot!vars
        OBVIOUS
    <2>1. CASE UNCHANGED vars
        BY <2>1, SameSlots DEF vars, stateVars, procVars, mainVars, ghostVars
    <2> QED
        BY <2>1, HealthStepSlot, OtherStepSlot
<1> QED
    BY <1>1, InitSlot, Safety, PTL DEF Spec, SlotSpec, Slot!Spec

-----------------------------------------------------------------------------

RequestTypes ==
    /\ at \in [Requests -> Handling \cup {"out", "routed"}]
    /\ target \in [Requests -> Backends \cup {NoBackend}]
    /\ serving \in [Requests -> Gens \cup {NoGen}]
    /\ inFlight \in [Backends -> Int]

HasBackend == \A r \in Requests : at[r] # "out" => target[r] \in Backends

InProxy(b) == {r \in Requests : target[r] = b /\ at[r] \in Handling}

NodeInv == RequestTypes /\ HasBackend /\ InFlightExact

-----------------------------------------------------------------------------
(* Every step of the node is one of the supervisor's, or leaves the         *)
(* supervisor alone: what Supervisor's theorems say of every behaviour of   *)
(* its own holds of a serving node.                                         *)
LEMMA StepIsSupervised == RequestTypes /\ HasBackend /\ [NodeNext]_nodeVars => [Next]_vars
<1> SUFFICES ASSUME RequestTypes, HasBackend, NodeNext PROVE [Next]_vars
  BY DEF nodeVars
<1>1. CASE SupervisorStep
  BY <1>1 DEF SupervisorStep, Next
<1>2. ASSUME NEW r \in Requests, LatchFailure(r) PROVE Next
  <2>1. target[r] \in Backends
    BY <1>2 DEF HasBackend, LatchFailure
  <2> QED
    BY <1>2, <2>1 DEF LatchFailure, Next
<1>3. ASSUME NEW r \in Requests, Evict(r) PROVE Next
  BY <1>3 DEF Evict, Next
<1>4. ASSUME NEW r \in Requests,
             Route(r) \/ Enter(r) \/ Connect(r) \/ HardFailure(r)
             \/ StreamBreaks(r) \/ CloseHandler(r) \/ Respond(r)
             \/ ClientGone(r) \/ StreamEnds(r) \/ LooksHard(r) \/ SoftFailure(r)
      PROVE UNCHANGED vars
  BY <1>4 DEF Route, Enter, Connect, HardFailure, StreamBreaks, CloseHandler,
              Respond, ClientGone, StreamEnds, LooksHard, SoftFailure
<1> QED
  BY <1>1, <1>2, <1>3, <1>4 DEF NodeNext, RequestStep, HandlerStep

-----------------------------------------------------------------------------
(* A request that enters or leaves the proxy changes the count of its       *)
(* backend by one, and a request that moves within it changes nothing.      *)
LEMMA CountOfSubset ==
    ASSUME NEW b PROVE IsFiniteSet(InProxy(b)) /\ Cardinality(InProxy(b)) \in Nat
<1>1. InProxy(b) \subseteq Requests
  BY DEF InProxy
<1> QED
  BY <1>1, RequestsAssumption, FS_Subset, FS_CardinalityType

LEMMA NodeInvInit == NodeInit => NodeInv
<1> SUFFICES ASSUME NodeInit PROVE NodeInv
  OBVIOUS
<1>1. RequestTypes
  BY DEF NodeInit, RequestTypes, NoGen
<1>2. HasBackend
  BY DEF NodeInit, HasBackend
<1>3. ASSUME NEW b \in Backends PROVE inFlight[b] = Cardinality(InProxy(b))
  <2>1. InProxy(b) = {}
    BY DEF NodeInit, InProxy, Handling
  <2> QED
    BY <2>1, FS_EmptySet DEF NodeInit
<1> QED
  BY <1>1, <1>2, <1>3 DEF NodeInv, InFlightExact, InProxy

LEMMA NodeInvStep == NodeInv /\ [NodeNext]_nodeVars => NodeInv'
<1> SUFFICES ASSUME NodeInv, [NodeNext]_nodeVars PROVE NodeInv'
  OBVIOUS
<1> USE DEF RequestTypes, HasBackend, Handling, Move
<1> RequestTypes /\ HasBackend
  BY DEF NodeInv
<1>a. \A b \in Backends : inFlight[b] = Cardinality(InProxy(b))
  BY DEF NodeInv, InFlightExact, InProxy
<1>b. SUFFICES /\ RequestTypes' /\ HasBackend'
               /\ \A b \in Backends : inFlight'[b] = Cardinality(InProxy(b)')
  BY DEF NodeInv, InFlightExact, InProxy
<1>1. ASSUME UNCHANGED reqVars
      PROVE  /\ RequestTypes' /\ HasBackend'
             /\ \A b \in Backends : inFlight'[b] = Cardinality(InProxy(b)')
  BY <1>1, <1>a DEF reqVars, InProxy
<1>2. ASSUME NEW r \in Requests, Route(r)
      PROVE  /\ RequestTypes' /\ HasBackend'
             /\ \A b \in Backends : inFlight'[b] = Cardinality(InProxy(b)')
  <2>1. PICK c \in Backends : target' = [target EXCEPT ![r] = c]
    BY <1>2 DEF Route, Choices, Candidates
  <2>2. at[r] = "out" /\ at' = [at EXCEPT ![r] = "routed"]
        /\ inFlight' = inFlight /\ serving' = serving
    BY <1>2 DEF Route
  <2>3. \A b \in Backends : InProxy(b)' = InProxy(b)
    BY <2>1, <2>2 DEF InProxy
  <2> QED
    BY <2>1, <2>2, <2>3, <1>a
<1>3. ASSUME NEW r \in Requests, Enter(r)
      PROVE  /\ RequestTypes' /\ HasBackend'
             /\ \A b \in Backends : inFlight'[b] = Cardinality(InProxy(b)')
  <2>1. /\ at[r] = "routed" /\ target[r] \in Backends
        /\ at' = [at EXCEPT ![r] = "sending"]
        /\ inFlight' = [inFlight EXCEPT ![target[r]] = @ + 1]
        /\ target' = target /\ serving' = serving
    BY <1>3 DEF Enter
  <2>2. r \notin InProxy(target[r])
    BY <2>1 DEF InProxy
  <2>3. InProxy(target[r])' = InProxy(target[r]) \cup {r}
    BY <2>1 DEF InProxy
  <2>4. Cardinality(InProxy(target[r])') = Cardinality(InProxy(target[r])) + 1
    BY <2>2, <2>3, CountOfSubset, FS_AddElement
  <2>5. \A b \in Backends \ {target[r]} : InProxy(b)' = InProxy(b)
    BY <2>1 DEF InProxy
  <2>6. \A b \in Backends : inFlight'[b] = Cardinality(InProxy(b)')
    BY <2>1, <2>4, <2>5, <1>a
  <2> QED
    BY <2>1, <2>6
<1>4. ASSUME NEW r \in Requests,
             Connect(r) \/ HardFailure(r) \/ LatchFailure(r) \/ Evict(r)
             \/ StreamBreaks(r) \/ Respond(r) \/ ClientGone(r) \/ StreamEnds(r)
             \/ LooksHard(r) \/ SoftFailure(r)
      PROVE  /\ RequestTypes' /\ HasBackend'
             /\ \A b \in Backends : inFlight'[b] = Cardinality(InProxy(b)')
  <2>1. /\ at[r] \in Handling /\ inFlight' = inFlight /\ target' = target
        /\ \E to \in Handling : at' = [at EXCEPT ![r] = to]
        /\ serving' \in [Requests -> Gens \cup {NoGen}]
    BY <1>4 DEF Connect, HardFailure, LatchFailure, Evict, StreamBreaks,
                Respond, ClientGone, StreamEnds, LooksHard, SoftFailure
  <2>2. \A b \in Backends : InProxy(b)' = InProxy(b)
    BY <2>1 DEF InProxy
  <2> QED
    BY <2>1, <2>2, <1>a
<1>5. ASSUME NEW r \in Requests, CloseHandler(r)
      PROVE  /\ RequestTypes' /\ HasBackend'
             /\ \A b \in Backends : inFlight'[b] = Cardinality(InProxy(b)')
  <2>1. PICK c \in Backends : target[r] = c
    BY <1>5 DEF CloseHandler
  <2>2. /\ at[r] = "closing"
        /\ at' = [at EXCEPT ![r] = "out"]
        /\ inFlight' = [inFlight EXCEPT ![c] = @ - 1]
        /\ target' = [target EXCEPT ![r] = NoBackend]
        /\ serving' = [serving EXCEPT ![r] = NoGen]
    BY <1>5, <2>1 DEF CloseHandler
  <2>3. r \in InProxy(c)
    BY <2>1, <2>2 DEF InProxy
  <2>4. /\ InProxy(c)' = InProxy(c) \ {r}
        /\ \A b \in Backends \ {c} : InProxy(b)' = InProxy(b)
    BY <2>1, <2>2 DEF InProxy
  <2>5. Cardinality(InProxy(c) \ {r}) = Cardinality(InProxy(c)) - 1
    BY <2>3, CountOfSubset, FS_RemoveElement
  <2>6. \A b \in Backends : inFlight'[b] = Cardinality(InProxy(b)')
    BY <2>2, <2>4, <2>5, <1>a
  <2> QED
    BY <2>2, <2>6
<1> QED
  BY <1>b, <1>1, <1>2, <1>3, <1>4, <1>5
     DEF NodeNext, SupervisorStep, RequestStep, HandlerStep, nodeVars

(* The in-flight counter of every backend is the number of handlers in      *)
(* proxyRequest on it, whatever fails and whoever hangs up.                 *)
THEOREM InFlightIsExact == NodeSpec => []InFlightExact
<1>1. NodeInv => InFlightExact
  BY DEF NodeInv
<1> QED
  BY <1>1, NodeInvInit, NodeInvStep, PTL DEF NodeSpec

(* A serving node is a supervisor: Node implements Supervisor.              *)
THEOREM NodeIsSupervised == NodeSpec => Spec
<1>1. NodeInit => Init
  BY DEF NodeInit
<1>2. NodeInv => RequestTypes /\ HasBackend
  BY DEF NodeInv
<1> QED
  BY <1>1, <1>2, NodeInvInit, NodeInvStep, StepIsSupervised, PTL DEF NodeSpec, Spec

(* With requests that come, fail and report in the order the handlers give  *)
(* them, the health loop still keeps the promise of RoutableSlot.           *)
THEOREM NodeKeepsTheSlot == NodeSpec => SlotSpec
BY NodeIsSupervised, ImplementsSlot, PTL

(* So no request is routed to an engine that has not itself answered a      *)
(* probe as ready.                                                          *)
THEOREM NodeRoutesToReady == NodeSpec => []RoutableIsReady
BY NodeIsSupervised, RoutedIsReady, PTL

(* Every variable of Node keeps its type; no counter goes below zero.       *)
THEOREM NodeTyped == NodeSpec => []NodeTypeOK
<1>1. ASSUME NodeInv, NEW b \in Backends PROVE inFlight[b] \in Nat
  BY <1>1, CountOfSubset DEF NodeInv, InFlightExact, InProxy
<1>2. NodeInv /\ TypeOK => NodeTypeOK
  BY <1>1 DEF NodeInv, RequestTypes, NodeTypeOK
<1> QED
  BY <1>2, NodeInvInit, NodeInvStep, NodeIsSupervised, TypeCorrect, PTL DEF NodeSpec
=============================================================================
