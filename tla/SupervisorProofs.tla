-------------------------- MODULE SupervisorProofs --------------------------
(***************************************************************************)
(* Supervisor's type and safety for every set of backends, every budget and *)
(* threshold, and every set of requests that report failures.  TypeOK alone *)
(* is inductive; OneEngine, Owned and RoutableIsReady follow from IInv,     *)
(* which adds what holds at each point of a health goroutine.  Without      *)
(* requests, LoopInv adds what the health loop then knows of its engines.   *)
(***************************************************************************)
EXTENDS SupervisorSlot, TLAPS

USE MaxRespawnsAssumption, FailureThresholdAssumption, NoBackendAssumption
USE DEF NoGen

(* The counters of strikes stop at the threshold.                           *)
LEMMA SaturateType ==
    ASSUME NEW n \in 0 .. FailureThreshold
    PROVE  Saturate(n + 1) \in 0 .. FailureThreshold
BY DEF Saturate

(* The state after Manager.Start has its type.                              *)
LEMMA InitType == Init => TypeOK
<1> SUFFICES ASSUME Init PROVE TypeOK
    OBVIOUS
<1>1. cmd \in [Backends -> Gens \cup {NoGen}]
    BY DEF Init, Gens
<1>2. EngineTypeOK
    BY DEF Init, EngineTypeOK, Phases
<1>3. stopping \in [Stoppers -> [Backends -> Gens \cup {NoGen}]]
    BY DEF Init
<1>4. /\ status \in [Backends -> Statuses]
      /\ pc \in [Backends -> HealthPoints]
      /\ prev \in [Backends -> Statuses]
    BY DEF Init, Statuses, HealthPoints
<1>5. /\ failures \in [Backends -> 0 .. FailureThreshold]
      /\ respawns \in [Backends -> 0 .. MaxRespawns]
      /\ strikes \in [Backends -> 0 .. FailureThreshold]
    BY DEF Init
<1> QED
    BY <1>1, <1>2, <1>3, <1>4, <1>5 DEF Init, TypeOK

(* Every step of a health goroutine keeps the type: a respawn is within the *)
(* budget, so the generation it spawns is one of Gens.                      *)
LEMMA HealthStepType ==
    ASSUME TypeOK, NEW b \in Backends, HealthStep(b)
    PROVE  TypeOK'
<1> USE DEF TypeOK, EngineTypeOK, Gens, Phases, Statuses, HealthPoints,
            Stoppers, Goto, SetStatus, stateVars, procVars, mainVars, ghostVars
<1>1. CASE Visit(b)
    BY <1>1 DEF Visit
<1>2. CASE ProbeOk(b)
    BY <1>2 DEF ProbeOk
<1>3. CASE ProbeFail(b)
    BY <1>3, SaturateType DEF ProbeFail
<1>4. CASE ReadStatusOk(b)
    BY <1>4 DEF ReadStatusOk
<1>5. CASE Promote(b)
    BY <1>5 DEF Promote
<1>6. CASE ReadStatusFailed(b)
    BY <1>6 DEF ReadStatusFailed
<1>7. CASE TakeHardFailure(b)
    BY <1>7, SaturateType DEF TakeHardFailure
<1>8. CASE Loading(b)
    BY <1>8 DEF Loading, DropLocals
<1>9. CASE Strike(b)
    BY <1>9 DEF Strike, DropLocals
<1>10. CASE GiveUp(b)
    BY <1>10 DEF GiveUp
<1>11. CASE RespawnStop(b)
    BY <1>11 DEF RespawnStop, StopTake, BudgetSpent
<1>12. CASE RespawnStopped(b)
    BY <1>12 DEF RespawnStopped, StopEnd
<1>13. CASE Spawn(b)
    BY <1>13 DEF Spawn, Become
<1>14. CASE SpawnFails(b)
    BY <1>14 DEF SpawnFails
<1> QED
    BY <1>1, <1>2, <1>3, <1>4, <1>5, <1>6, <1>7, <1>8, <1>9, <1>10, <1>11,
       <1>12, <1>13, <1>14 DEF HealthStep

(* An engine moves only if it was spawned, and never comes back to life.    *)
LEMMA EngineStepShape ==
    ASSUME NEW b \in Backends, NEW g \in Gens, EngineStep(b, g)
    PROVE  /\ Spawned(b, g)
           /\ \E phase \in Phases \ {"none"} :
                /\ Become(b, g, phase)
                /\ phase \in AlivePhases => Alive(b, g)
BY DEF EngineStep, Listen, Serve, Leave, ProcessExit, Spawned, Phases, Alive,
       AlivePhases

(* An engine's own moves keep it in its phases.                             *)
LEMMA EngineMovesType ==
    ASSUME TypeOK, NEW b \in Backends, NEW g \in Gens, EngineMoves(b, g)
    PROVE  TypeOK'
<1>1. EngineStep(b, g)
    BY DEF EngineMoves
<1>2. PICK phase \in Phases \ {"none"} : Become(b, g, phase)
    BY <1>1, EngineStepShape
<1>3. engine' \in [Backends -> [Gens -> Phases]]
    BY <1>2 DEF Become, TypeOK, EngineTypeOK
<1> QED
    BY <1>3 DEF EngineMoves, TypeOK, EngineTypeOK, stateVars, procVars,
                checkVars, mainVars, ghostVars

(* So does every step of the requests, of main and of Shutdown.             *)
LEMMA OtherStepType ==
    ASSUME TypeOK, Next, \A b \in Backends : ~HealthStep(b)
    PROVE  TypeOK'
<1> USE DEF TypeOK, EngineTypeOK, Gens, Phases, Statuses, HealthPoints,
            Stoppers, Goto, SetStatus, stateVars, procVars, checkVars, mainVars,
            ghostVars
<1>1. CASE TickStart
    BY <1>1 DEF TickStart
<1>2. CASE LoopReturn
    BY <1>2 DEF LoopReturn
<1>3. ASSUME NEW b \in Backends, Deadline(b) PROVE TypeOK'
    BY <1>3 DEF Deadline
<1>4. ASSUME NEW r \in Requests, NEW b \in Backends, NoteLatch(r, b)
      PROVE  TypeOK'
    BY <1>4 DEF NoteLatch
<1>5. ASSUME NEW r \in Requests, NoteStatus(r) PROVE TypeOK'
    BY <1>5 DEF NoteStatus
<1>6. CASE Signal
    BY <1>6 DEF Signal
<1>7. CASE ShutDown \/ ListenerFails \/ Drained \/ Exit
    BY <1>7 DEF ShutDown, ListenerFails, Drained, Exit, MainGoes
<1>8. ASSUME NEW b \in Backends, ShutdownTake(b) PROVE TypeOK'
    BY <1>8 DEF ShutdownTake, StopTake
<1>9. ASSUME NEW b \in Backends, ShutdownStopped(b) PROVE TypeOK'
    BY <1>9 DEF ShutdownStopped, StopEnd
<1>10. ASSUME NEW b \in Backends, NEW g \in Gens, EngineMoves(b, g)
       PROVE  TypeOK'
    BY <1>10, EngineMovesType
<1> QED
    BY <1>1, <1>2, <1>3, <1>4, <1>5, <1>6, <1>7, <1>8, <1>9, <1>10
    DEF Next, MainStep

(* A step that changes nothing keeps the type.                              *)
LEMMA StutterType == TypeOK /\ UNCHANGED vars => TypeOK'
BY DEF TypeOK, EngineTypeOK, vars, stateVars, procVars, checkVars, mainVars,
       ghostVars

(* Type correctness, for any number of backends and requests and any        *)
(* budget and threshold.                                                    *)
THEOREM TypeCorrect == Spec => []TypeOK
<1>1. TypeOK /\ [Next]_vars => TypeOK'
    BY HealthStepType, OtherStepType, StutterType
<1> QED
    BY <1>1, InitType, PTL DEF Spec

(* Where no Stop is at work, the only running engine is cmd.                *)
LEMMA HeldByCmd ==
    ASSUME IInv, NEW b \in Backends, NEW g \in Gens,
           pc[b] # "stop", spc[b] = "idle", Alive(b, g)
    PROVE  g = cmd[b]
<1>1. \A w \in Stoppers : stopping[w][b] = NoGen
    BY DEF IInv, SafeInv, TakenByStop, Stoppers
<1>2. g # NoGen
    BY DEF Gens
<1> QED
    BY <1>1, <1>2 DEF IInv, SafeInv, Owned

(* A probe that succeeds was answered by a ready engine.                    *)
LEMMA ProbeOkSees ==
    ASSUME NEW b \in Backends, ProbeOk(b)
    PROVE  \E g \in Gens : /\ engine[b][g] = "ready"
                           /\ seenReady' = [seenReady EXCEPT ![b] = g]
BY DEF ProbeOk

(* Stop ends the engine it took and touches no other.                       *)
LEMMA StopEndShape ==
    ASSUME IInv, NEW w \in Stoppers, NEW b \in Backends, StopEnd(w, b),
           NEW c \in Backends, NEW g \in Gens
    PROVE  /\ Alive(c, g)' => Alive(c, g) /\ (c # b \/ g # stopping[w][b])
           /\ Spawned(c, g)' <=> Spawned(c, g)
<1> DEFINE h == stopping[w][b]
<1>1. g # NoGen
    BY DEF Gens
<1>2. CASE c # b \/ g # h
    <2>1. engine'[c][g] = engine[c][g]
        BY <1>2 DEF StopEnd, IInv, TypeOK, EngineTypeOK
    <2> QED
        BY <1>2, <2>1 DEF Alive, Spawned
<1>3. CASE c = b /\ g = h
    <2>1. engine'[c][g] \in {"killed", "exited"}
        BY <1>3 DEF StopEnd, IInv, TypeOK, EngineTypeOK
    <2>2. Spawned(c, g)
        BY <1>1, <1>3 DEF IInv, SafeInv, HeldIsSpawned
    <2> QED
        BY <2>1, <2>2 DEF Alive, AlivePhases, Spawned
<1> QED
    BY <1>2, <1>3

(* No move of an engine brings one to life that was not, so none is without *)
(* an owner.                                                                *)
LEMMA EngineMovesSafe ==
    ASSUME IInv, TypeOK', NEW b \in Backends, NEW g \in Gens, EngineMoves(b, g)
    PROVE  SafeInv'
<1>1. EngineStep(b, g)
    BY DEF EngineMoves
<1>2. PICK phase \in Phases \ {"none"} :
        Become(b, g, phase) /\ (phase \in AlivePhases => Alive(b, g))
    BY <1>1, EngineStepShape
<1>3. Spawned(b, g)
    BY <1>1, EngineStepShape
<1>4. \A c \in Backends, i \in Gens :
        /\ Alive(c, i)' => Alive(c, i)
        /\ Spawned(c, i)' <=> Spawned(c, i)
    BY <1>2, <1>3 DEF IInv, TypeOK, EngineTypeOK, Become, Alive, Spawned
<1> QED
    BY <1>4 DEF EngineMoves, IInv, SafeInv, TypeOK, Owned, RoutableIsReady,
        TakenByStop, NoEngineToStart, GoodProbeIsOfCmd, UnroutableOnTheWayDown, NextIsUnused,
        HeldIsSpawned, stateVars, procVars, checkVars, mainVars, ghostVars

(* The end of the health loop's Stop: what it took is down.                 *)
LEMMA RespawnStoppedSafe ==
    ASSUME IInv, NEW b \in Backends, RespawnStopped(b)
    PROVE  SafeInv'
<1>1. StopEnd("health", b) /\ "health" \in Stoppers
    BY DEF RespawnStopped, Stoppers
<1>2. \A c \in Backends, g \in Gens :
        /\ Alive(c, g)' => Alive(c, g) /\ (c # b \/ g # stopping["health"][b])
        /\ Spawned(c, g)' <=> Spawned(c, g)
    BY <1>1, StopEndShape
<1>3. /\ status' = [status EXCEPT ![b] = "dead"]
      /\ pc[b] = "stop" /\ pc' = [pc EXCEPT ![b] = "start"]
      /\ stopping' = [stopping EXCEPT !["health"][b] = NoGen]
      /\ UNCHANGED <<cmd, spc, prev, respawns, seenReady>>
    BY DEF RespawnStopped, StopEnd, Goto, SetStatus, mainVars, ghostVars
<1> USE <1>3 DEF IInv, SafeInv, TypeOK
<1>4. Owned'
    BY <1>2 DEF Owned, Stoppers
<1>5. RoutableIsReady' /\ GoodProbeIsOfCmd' /\ UnroutableOnTheWayDown'
    BY DEF RoutableIsReady, GoodProbeIsOfCmd, UnroutableOnTheWayDown
<1>6. TakenByStop' /\ NoEngineToStart'
    BY DEF TakenByStop, NoEngineToStart, Stoppers
<1>7. NextIsUnused'
    BY <1>2 DEF NextIsUnused
<1>8. HeldIsSpawned'
    BY <1>2 DEF HeldIsSpawned, Stoppers
<1> QED
    BY <1>4, <1>5, <1>6, <1>7, <1>8

(* The end of Shutdown's Stop: what it took is down.                        *)
LEMMA ShutdownStoppedSafe ==
    ASSUME IInv, NEW b \in Backends, ShutdownStopped(b)
    PROVE  SafeInv'
<1>1. StopEnd("shutdown", b) /\ "shutdown" \in Stoppers
    BY DEF ShutdownStopped, Stoppers
<1>2. \A c \in Backends, g \in Gens :
        /\ Alive(c, g)' => Alive(c, g) /\ (c # b \/ g # stopping["shutdown"][b])
        /\ Spawned(c, g)' <=> Spawned(c, g)
    BY <1>1, StopEndShape
<1>3. /\ status' = [status EXCEPT ![b] = "dead"]
      /\ spc' = [spc EXCEPT ![b] = "done"]
      /\ stopping' = [stopping EXCEPT !["shutdown"][b] = NoGen]
      /\ UNCHANGED <<cmd, pc, prev, respawns, seenReady>>
    BY DEF ShutdownStopped, StopEnd, SetStatus, checkVars, ghostVars
<1> USE <1>3 DEF IInv, SafeInv, TypeOK
<1>4. Owned'
    BY <1>2 DEF Owned, Stoppers
<1>5. RoutableIsReady' /\ GoodProbeIsOfCmd' /\ UnroutableOnTheWayDown'
    BY DEF RoutableIsReady, GoodProbeIsOfCmd, UnroutableOnTheWayDown
<1>6. TakenByStop' /\ NoEngineToStart'
    BY DEF TakenByStop, NoEngineToStart, Stoppers
<1>7. NextIsUnused'
    BY <1>2 DEF NextIsUnused
<1>8. HeldIsSpawned'
    BY <1>2 DEF HeldIsSpawned, Stoppers
<1> QED
    BY <1>4, <1>5, <1>6, <1>7, <1>8

(* Every step of a health goroutine keeps the invariant.                    *)
LEMMA HealthStepSafe ==
    ASSUME IInv, TypeOK', NEW b \in Backends, HealthStep(b)
    PROVE  SafeInv'
<1> USE DEF IInv, SafeInv, TypeOK, EngineTypeOK, Gens, Phases, Statuses,
            HealthPoints, Stoppers, Goto, SetStatus, stateVars, procVars, mainVars, ghostVars,
            Owned, RoutableIsReady, TakenByStop, NoEngineToStart,
            GoodProbeIsOfCmd, UnroutableOnTheWayDown, NextIsUnused,
            HeldIsSpawned, Alive, AlivePhases, Spawned
<1>1. CASE Visit(b)
    BY <1>1 DEF Visit
<1>2. CASE ProbeOk(b)
    <2>1. PICK g \in Gens : /\ engine[b][g] = "ready"
                            /\ seenReady' = [seenReady EXCEPT ![b] = g]
        BY <1>2, ProbeOkSees
    <2>2. pc[b] = "probing"
        BY <1>2 DEF ProbeOk
    <2>3. spc[b] = "idle" => g = cmd[b]
        BY <2>1, <2>2, HeldByCmd DEF Alive, AlivePhases
    <2> QED
        BY <1>2, <2>1, <2>3 DEF ProbeOk
<1>3. CASE ProbeFail(b)
    BY <1>3 DEF ProbeFail
<1>4. CASE ReadStatusOk(b)
    BY <1>4 DEF ReadStatusOk
<1>5. CASE Promote(b)
    BY <1>5 DEF Promote
<1>6. CASE ReadStatusFailed(b)
    BY <1>6 DEF ReadStatusFailed
<1>7. CASE TakeHardFailure(b)
    BY <1>7 DEF TakeHardFailure
<1>8. CASE Loading(b)
    BY <1>8 DEF Loading, DropLocals, Patient
<1>9. CASE Strike(b)
    BY <1>9 DEF Strike, DropLocals, Patient
<1>10. CASE GiveUp(b)
    BY <1>10 DEF GiveUp
<1>11. CASE RespawnStop(b)
    BY <1>11 DEF RespawnStop, StopTake, BudgetSpent
<1>12. CASE RespawnStopped(b)
    BY <1>12, RespawnStoppedSafe
<1>13. CASE Spawn(b)
    BY <1>13 DEF Spawn, Become
<1>14. CASE SpawnFails(b)
    BY <1>14 DEF SpawnFails
<1> QED
    BY <1>1, <1>2, <1>3, <1>4, <1>5, <1>6, <1>7, <1>8, <1>9, <1>10,
       <1>11, <1>12, <1>13, <1>14 DEF HealthStep

(* So does every other step, those of Shutdown included, which may run      *)
(* beside the health goroutine of the same backend.                         *)
LEMMA OtherStepSafe ==
    ASSUME IInv, TypeOK', Next, \A b \in Backends : ~HealthStep(b)
    PROVE  SafeInv'
<1> USE DEF IInv, SafeInv, TypeOK, EngineTypeOK, Gens, Phases, Statuses,
            HealthPoints, Stoppers, Goto, SetStatus, stateVars, procVars, checkVars, mainVars, ghostVars,
            Owned, RoutableIsReady, TakenByStop, NoEngineToStart,
            GoodProbeIsOfCmd, UnroutableOnTheWayDown, NextIsUnused,
            HeldIsSpawned, Alive, AlivePhases, Spawned
<1>1. CASE TickStart
    BY <1>1 DEF TickStart, AllIdle
<1>2. CASE LoopReturn
    BY <1>2 DEF LoopReturn
<1>3. ASSUME NEW b \in Backends, Deadline(b) PROVE SafeInv'
    BY <1>3 DEF Deadline
<1>4. ASSUME NEW r \in Requests, NEW b \in Backends, NoteLatch(r, b)
      PROVE  SafeInv'
    BY <1>4 DEF NoteLatch
<1>5. ASSUME NEW r \in Requests, NoteStatus(r) PROVE SafeInv'
    BY <1>5 DEF NoteStatus
<1>6. CASE Signal
    BY <1>6 DEF Signal
<1>7. CASE ShutDown \/ ListenerFails \/ Drained \/ Exit
    BY <1>7 DEF ShutDown, ListenerFails, Drained, Exit, MainGoes
<1>8. ASSUME NEW b \in Backends, ShutdownTake(b) PROVE SafeInv'
    BY <1>8 DEF ShutdownTake, StopTake
<1>9. ASSUME NEW b \in Backends, ShutdownStopped(b) PROVE SafeInv'
    BY <1>9, ShutdownStoppedSafe
<1>10. ASSUME NEW b \in Backends, NEW g \in Gens, EngineMoves(b, g)
       PROVE  SafeInv'
    BY <1>10, EngineMovesSafe
<1> QED
    BY <1>1, <1>2, <1>3, <1>4, <1>5, <1>6, <1>7, <1>8, <1>9, <1>10
    DEF Next, MainStep

(* A step that changes nothing keeps the invariant.                         *)
LEMMA StutterSafe == IInv /\ UNCHANGED vars => SafeInv'
BY DEF IInv, SafeInv, vars, stateVars, procVars, checkVars, mainVars, ghostVars,
            Owned, RoutableIsReady, TakenByStop, NoEngineToStart,
            GoodProbeIsOfCmd, UnroutableOnTheWayDown, NextIsUnused,
            HeldIsSpawned, Alive, AlivePhases, Spawned

(* The invariant holds after Manager.Start.                                 *)
LEMMA InitSafe == Init => SafeInv
<1> SUFFICES ASSUME Init PROVE SafeInv
    OBVIOUS
<1>1. \A b \in Backends, g \in Gens : Spawned(b, g) <=> g = cmd[b]
    BY DEF Init, Spawned
<1> QED
  BY <1>1 DEF SafeInv, Init, Gens, Stoppers,
            Owned, RoutableIsReady, TakenByStop, NoEngineToStart,
            GoodProbeIsOfCmd, UnroutableOnTheWayDown, NextIsUnused,
            HeldIsSpawned, Alive, AlivePhases, Spawned

(* The inductive invariant.                                                 *)
THEOREM Safety == Spec => []IInv
<1>1. Init => IInv
    BY InitType, InitSafe DEF IInv
<1>2. IInv /\ [Next]_vars => IInv'
    <2> SUFFICES ASSUME IInv, [Next]_vars PROVE IInv'
        OBVIOUS
    <2>1. TypeOK'
        BY HealthStepType, OtherStepType, StutterType DEF IInv
    <2>2. SafeInv'
        BY <2>1, HealthStepSafe, OtherStepSafe, StutterSafe
    <2> QED
        BY <2>1, <2>2 DEF IInv
<1> QED
    BY <1>1, <1>2, PTL DEF Spec

(* Of two generations of a backend that run at once, Shutdown is stopping   *)
(* one: the health loop has taken cmd away whenever its own Stop holds the  *)
(* other.                                                                   *)
THEOREM OneEngineAtATime == Spec => []OneEngine
<1>1. IInv => OneEngine
    <2> SUFFICES ASSUME IInv, NEW b \in Backends, NEW g \in Gens, NEW h \in Gens,
                        Alive(b, g), Alive(b, h), g # h
                 PROVE  stopping["shutdown"][b] \in {g, h}
        BY DEF OneEngine
    <2>1. \A i \in Gens : Alive(b, i) =>
             i \in {cmd[b], stopping["health"][b], stopping["shutdown"][b]}
        BY DEF IInv, SafeInv, Owned, Stoppers
    <2>2. pc[b] # "stop" => stopping["health"][b] = NoGen
        BY DEF IInv, SafeInv, TakenByStop
    <2>3. pc[b] = "stop" => cmd[b] = NoGen
        BY DEF IInv, SafeInv, NoEngineToStart
    <2>4. NoGen \notin Gens
        BY DEF Gens
    <2> QED
        BY <2>1, <2>2, <2>3, <2>4
<1> QED
    BY <1>1, Safety, PTL

(* No running engine is forgotten by both cmd and Stop.                     *)
THEOREM NoneForgotten == Spec => []Owned
<1>1. IInv => Owned
    BY DEF IInv, SafeInv
<1> QED
    BY <1>1, Safety, PTL

(* Traffic is routed only to an engine that answered as ready itself.       *)
THEOREM RoutedIsReady == Spec => []RoutableIsReady
<1>1. IInv => RoutableIsReady
    BY DEF IInv, SafeInv
<1> QED
    BY <1>1, Safety, PTL

-----------------------------------------------------------------------------
(* Only the health loop's own Stop, at the start of a respawn, takes an     *)
(* engine down while Shutdown has not reached its backend.                  *)
LEMMA OnlyARespawnStops ==
    ASSUME IInv, Next, NEW b \in Backends, StopsRunning(b)
    PROVE  pc[b] = "respawn" /\ spc[b] = "idle"
<1> USE DEF IInv, TypeOK, StopsRunning
<1>1. CASE \E c \in Backends : RespawnStop(c)
    BY <1>1 DEF RespawnStop, StopTake, mainVars
<1>2. CASE \E c \in Backends : ShutdownTake(c)
    BY <1>2 DEF ShutdownTake, StopTake
<1>3. CASE \E c \in Backends : Spawn(c)
    BY <1>3 DEF Spawn, Gens
<1>4. CASE \A c \in Backends : ~RespawnStop(c) /\ ~ShutdownTake(c) /\ ~Spawn(c)
    <2>1. cmd' = cmd
        BY <1>4 DEF Next, MainStep, HealthStep, TickStart, LoopReturn,
            Deadline, NoteLatch, NoteStatus, Signal, ShutDown,
            ListenerFails, Drained, Exit, MainGoes, ShutdownStopped,
            EngineMoves, Visit, ProbeOk, ProbeFail, ReadStatusOk, Promote,
            ReadStatusFailed, TakeHardFailure, Loading, Strike, GiveUp,
            RespawnStopped, SpawnFails, procVars
    <2> QED
        BY <2>1
<1> QED
    BY <1>1, <1>2, <1>3, <1>4

(* On the way to a respawn there is a failed probe of this engine.          *)
Struck ==
    \A b \in Backends :
        pc[b] \in {"failed", "judge", "verdict", "respawn"} => strikes[b] > 0

(* Only a failed probe starts a goroutine on that way.                      *)
LEMMA StruckStep == TypeOK /\ Struck /\ [Next]_vars => Struck'
<1> SUFFICES ASSUME TypeOK, Struck, [Next]_vars PROVE Struck'
    OBVIOUS
<1> USE DEF Struck, TypeOK, HealthPoints, Goto, mainVars, ghostVars, checkVars
<1>1. ASSUME NEW b \in Backends, ProbeFail(b) PROVE Struck'
    <2>1. Saturate(strikes[b] + 1) > 0
        BY DEF Saturate
    <2> QED
        BY <1>1, <2>1 DEF ProbeFail
<1>2. ASSUME NEW b \in Backends, ProbeOk(b) \/ Spawn(b) PROVE Struck'
    BY <1>2 DEF ProbeOk, Spawn
<1>3. ASSUME NEW b \in Backends, HealthStep(b), ~ProbeFail(b), ~ProbeOk(b),
             ~Spawn(b)
      PROVE  Struck'
    BY <1>3 DEF HealthStep, Visit, ReadStatusOk, Promote, ReadStatusFailed,
        TakeHardFailure, Loading, Strike, GiveUp, RespawnStop, RespawnStopped,
        SpawnFails
<1>4. ASSUME \A b \in Backends : ~HealthStep(b), Next PROVE Struck'
    BY <1>4 DEF Next, MainStep, TickStart, LoopReturn, Deadline, NoteLatch,
        NoteStatus, Signal, ShutDown, ListenerFails, Drained, Exit, MainGoes,
        ShutdownTake, ShutdownStopped, EngineMoves
<1>5. CASE UNCHANGED vars
    BY <1>5 DEF vars
<1> QED
    BY <1>1, <1>2, <1>3, <1>4, <1>5

(* However many requests report a failure, an engine is stopped only after  *)
(* a probe of the health loop failed too.                                   *)
THEOREM StoppedOnlyAfterAProbe == Spec => NeverOnHearsay
<1>1. Init => Struck
    BY DEF Init, Struck
<1>2. IInv /\ Struck /\ [Next]_vars
        => [\A b \in Backends : StopsRunning(b) => strikes[b] > 0]_vars
    BY OnlyARespawnStops DEF Struck
<1> QED
    BY <1>1, <1>2, StruckStep, TypeCorrect, Safety, PTL DEF Spec, NeverOnHearsay

-----------------------------------------------------------------------------
(* What a health loop knows that no request tells anything.  Requests break *)
(* it: one that outlives the engine it was sent to reports its successor.   *)

(* Failures never run ahead of the failed probes they count.                *)
Counted ==
    \A b \in Backends :
        /\ pc[b] # "ok" => failures[b] <= strikes[b]
        /\ pc[b] \in {"failed", "judge"} => Saturate(failures[b] + 1) <= strikes[b]

(* A probe was answered by an engine that was spawned.                      *)
SeenIsSpawned ==
    \A b \in Backends : seenReady[b] # NoGen => Spawned(b, seenReady[b])

(* Nobody reports a hard failure.                                           *)
Unlatched == \A b \in Backends : ~latch[b] /\ ~hard[b]

(* The status tells whether the engine ever was ready, between the points   *)
(* where a goroutine has changed one of the two.                            *)
StatusTells ==
    \A b \in Backends : spc[b] = "idle" =>
        /\ status[b] = "starting" /\ pc[b] \notin {"ok", "promote", "stop", "start"}
                => seenReady[b] # cmd[b]
        /\ status[b] \in {"healthy", "unhealthy"} /\ pc[b] \notin {"stop", "start"}
                => seenReady[b] = cmd[b]
        /\ status[b] = "dead" => pc[b] \in {"idle", "due", "start"}

(* So does the status that checkOne read.                                   *)
PrevTells ==
    \A b \in Backends : spc[b] = "idle" /\ pc[b] \in {"judge", "verdict"} =>
        /\ prev[b] # "dead"
        /\ prev[b] = "starting" <=> seenReady[b] # cmd[b]

(* A respawn is of an engine that never was ready and is overdue, or of one *)
(* that was and has failed enough probes since.                             *)
RespawnReason ==
    \A b \in Backends : spc[b] = "idle" /\ pc[b] = "respawn" =>
        \/ overdue[b] /\ seenReady[b] # cmd[b]
        \/ strikes[b] >= FailureThreshold /\ seenReady[b] = cmd[b]

LoopInv ==
    /\ Counted /\ SeenIsSpawned /\ Unlatched /\ StatusTells /\ PrevTells
    /\ RespawnReason

(* The loop has learned nothing after Manager.Start.                        *)
LEMMA InitLoop == Init => LoopInv
<1> SUFFICES ASSUME Init PROVE LoopInv
    OBVIOUS
<1>1. \A b \in Backends : status[b] # "healthy" /\ status[b] # "unhealthy"
    BY DEF Init
<1>2. \A b \in Backends : status[b] = "starting" => seenReady[b] # cmd[b]
    <2> SUFFICES ASSUME NEW b \in Backends, status[b] = "starting"
                 PROVE  seenReady[b] = NoGen /\ cmd[b] = 1
        OBVIOUS
    <2>1. seenReady[b] = NoGen /\ cmd[b] = IF status[b] = "dead" THEN NoGen ELSE 1
        BY DEF Init
    <2> QED
        BY <2>1
<1>3. /\ \A b \in Backends : failures[b] = 0 /\ strikes[b] = 0 /\ pc[b] = "idle"
      /\ \A b \in Backends : seenReady[b] = NoGen /\ ~latch[b] /\ ~hard[b]
    BY DEF Init
<1> QED
    BY <1>1, <1>2, <1>3 DEF LoopInv, Counted, SeenIsSpawned, Unlatched, StatusTells,
        PrevTells, RespawnReason

(* A probe that is answered is answered by cmd, until Shutdown takes it.    *)
LEMMA ProbeOkOfCmd ==
    ASSUME IInv, NEW b \in Backends, ProbeOk(b)
    PROVE  \E g \in Gens : /\ engine[b][g] = "ready"
                           /\ seenReady' = [seenReady EXCEPT ![b] = g]
                           /\ spc[b] = "idle" => g = cmd[b]
<1>1. PICK g \in Gens : engine[b][g] = "ready"
                        /\ seenReady' = [seenReady EXCEPT ![b] = g]
    BY ProbeOkSees
<1>2. pc[b] = "probing"
    BY DEF ProbeOk
<1> QED
    BY <1>1, <1>2, HeldByCmd DEF Alive, AlivePhases

(* The generation to spawn next has answered no probe yet.                  *)
LEMMA SpawnIsUnseen ==
    ASSUME IInv, SeenIsSpawned, NEW b \in Backends, pc[b] = "start"
    PROVE  seenReady[b] # respawns[b] + 1
<1>1. respawns[b] \in Nat /\ seenReady[b] \in Gens \cup {NoGen}
    BY DEF IInv, TypeOK
<1>2. CASE seenReady[b] = NoGen
    BY <1>1, <1>2
<1>3. CASE seenReady[b] # NoGen
    <2>1. seenReady[b] \in Gens /\ Spawned(b, seenReady[b])
        BY <1>1, <1>3 DEF SeenIsSpawned
    <2>2. seenReady[b] <= respawns[b]
        BY <2>1 DEF IInv, SafeInv, NextIsUnused
    <2> QED
        BY <1>1, <2>1, <2>2 DEF Gens
<1> QED
    BY <1>2, <1>3

(* Every step of a health goroutine keeps what the loop knows.              *)
LEMMA HealthStepLoop ==
    ASSUME IInv, TypeOK', LoopInv, NEW b \in Backends, HealthStep(b)
    PROVE  LoopInv'
<1> USE DEF IInv, TypeOK, EngineTypeOK, Phases, Statuses, HealthPoints, LoopInv,
            Goto, SetStatus, stateVars, procVars, mainVars, ghostVars, Counted,
            SeenIsSpawned, Unlatched, StatusTells, PrevTells, RespawnReason, Spawned
<1>1. CASE Visit(b)
    BY <1>1 DEF Visit
<1>2. CASE ProbeOk(b)
    <2>1. PICK g \in Gens : /\ engine[b][g] = "ready"
                            /\ seenReady' = [seenReady EXCEPT ![b] = g]
                            /\ spc[b] = "idle" => g = cmd[b]
        BY <1>2, ProbeOkOfCmd
    <2> QED
        BY <1>2, <2>1 DEF ProbeOk
<1>3. CASE ProbeFail(b)
    BY <1>3, SaturateType DEF ProbeFail, Saturate
<1>4. CASE ReadStatusOk(b)
    BY <1>4 DEF ReadStatusOk
<1>5. CASE Promote(b)
    BY <1>5 DEF Promote, SafeInv, GoodProbeIsOfCmd
<1>6. CASE ReadStatusFailed(b)
    BY <1>6 DEF ReadStatusFailed
<1>7. CASE TakeHardFailure(b)
    BY <1>7 DEF TakeHardFailure, Saturate
<1>8. CASE Loading(b)
    BY <1>8 DEF Loading, DropLocals, Patient
<1>9. CASE Strike(b)
    <2>1. /\ pc[b] = "verdict" /\ ~hard[b] /\ ~hard'[b]
          /\ spc[b] = "idle" => prev[b] \in {"healthy", "unhealthy"}
          /\ spc[b] = "idle" => seenReady[b] = cmd[b]
        BY <1>9 DEF Strike, DropLocals, Patient
    <2>2. /\ status' = [status EXCEPT ![b] = IF prev[b] = "healthy" THEN "unhealthy"
                                                                  ELSE status[b]]
          /\ pc' = [pc EXCEPT ![b] = IF failures[b] >= FailureThreshold
                                     THEN "respawn" ELSE "idle"]
          /\ hard' = [hard EXCEPT ![b] = FALSE]
          /\ UNCHANGED <<engine, latch, cmd, failures, overdue, spc, seenReady, strikes>>
        BY <1>9, <2>1 DEF Strike, DropLocals
    <2>3. Counted' /\ SeenIsSpawned' /\ Unlatched'
        BY <2>1, <2>2
    <2>4. StatusTells'
        BY <2>1, <2>2
    <2>5. PrevTells'
        BY <1>9, <2>1, <2>2 DEF Strike, DropLocals
    <2>6. RespawnReason'
        <3>1. ASSUME NEW c \in Backends, c # b
              PROVE  /\ pc'[c] = pc[c] /\ spc'[c] = spc[c] /\ overdue'[c] = overdue[c]
                     /\ seenReady'[c] = seenReady[c] /\ strikes'[c] = strikes[c]
                     /\ cmd'[c] = cmd[c]
            BY <2>2, <3>1
        <3>2. pc'[b] = "respawn" => failures[b] >= FailureThreshold
            BY <2>2
        <3>3. failures[b] <= strikes[b] /\ failures[b] \in Nat /\ strikes[b] \in Nat
            BY <2>1
        <3> QED
            BY <2>1, <2>2, <3>1, <3>2, <3>3
    <2> QED
        BY <2>3, <2>4, <2>5, <2>6
<1>10. CASE GiveUp(b)
    BY <1>10 DEF GiveUp
<1>11. CASE RespawnStop(b)
    BY <1>11 DEF RespawnStop, StopTake
<1>12. CASE RespawnStopped(b)
    BY <1>12, StopEndShape DEF RespawnStopped, StopEnd, SafeInv, HeldIsSpawned, Stoppers
<1>13. CASE Spawn(b)
    <2>1. seenReady[b] # respawns[b] + 1
        BY <1>13, SpawnIsUnseen DEF Spawn
    <2> QED
        BY <1>13, <2>1 DEF Spawn, Become
<1>14. CASE SpawnFails(b)
    BY <1>14 DEF SpawnFails
<1> QED
    BY <1>1, <1>2, <1>3, <1>4, <1>5, <1>6, <1>7, <1>8, <1>9, <1>10,
       <1>11, <1>12, <1>13, <1>14 DEF HealthStep

(* What a probe has seen was spawned, also after Shutdown's Stop.           *)
LEMMA ShutdownUnspawnsNone ==
    ASSUME IInv, SeenIsSpawned, TypeOK', NEW b \in Backends, ShutdownStopped(b)
    PROVE  SeenIsSpawned'
<1>1. StopEnd("shutdown", b) /\ "shutdown" \in Stoppers
    BY DEF ShutdownStopped, Stoppers
<1>2. \A c \in Backends, g \in Gens : Spawned(c, g)' <=> Spawned(c, g)
    BY <1>1, StopEndShape
<1>3. seenReady' = seenReady /\ seenReady \in [Backends -> Gens \cup {NoGen}]
    BY DEF ShutdownStopped, ghostVars, IInv, TypeOK
<1> QED
    BY <1>2, <1>3 DEF SeenIsSpawned

(* So does every other step, when there are no requests to report anything. *)
LEMMA OtherStepLoop ==
    ASSUME IInv, TypeOK', LoopInv, Requests = {}, Next,
           \A b \in Backends : ~HealthStep(b)
    PROVE  LoopInv'
<1> USE DEF IInv, TypeOK, EngineTypeOK, Phases, Statuses, HealthPoints, LoopInv,
            Goto, SetStatus, stateVars, procVars, checkVars, mainVars, ghostVars, Counted,
            SeenIsSpawned, Unlatched, StatusTells, PrevTells, RespawnReason, Spawned
<1>1. CASE TickStart
    BY <1>1 DEF TickStart, AllIdle
<1>2. CASE LoopReturn
    BY <1>2 DEF LoopReturn
<1>3. ASSUME NEW b \in Backends, Deadline(b) PROVE LoopInv'
    BY <1>3 DEF Deadline
<1>4. CASE Signal
    BY <1>4 DEF Signal
<1>5. CASE ShutDown \/ ListenerFails \/ Drained \/ Exit
    BY <1>5 DEF ShutDown, ListenerFails, Drained, Exit, MainGoes
<1>6. ASSUME NEW b \in Backends, ShutdownTake(b) PROVE LoopInv'
    BY <1>6 DEF ShutdownTake, StopTake
<1>7. ASSUME NEW b \in Backends, ShutdownStopped(b) PROVE LoopInv'
    <2>1. SeenIsSpawned'
        BY <1>7, ShutdownUnspawnsNone
    <2> QED
        BY <1>7, <2>1 DEF ShutdownStopped, StopEnd
<1>8. ASSUME NEW b \in Backends, NEW g \in Gens, EngineMoves(b, g) PROVE LoopInv'
    <2>1. PICK phase \in Phases \ {"none"} : Become(b, g, phase)
        BY <1>8, EngineStepShape DEF EngineMoves
    <2> QED
        BY <1>8, <2>1 DEF EngineMoves, Become
<1> QED
    BY <1>1, <1>2, <1>3, <1>4, <1>5, <1>6, <1>7, <1>8 DEF Next, MainStep

(* A step that changes nothing keeps it too.                                *)
LEMMA StutterLoop == LoopInv /\ UNCHANGED vars => LoopInv'
BY DEF LoopInv, vars, stateVars, procVars, checkVars, mainVars, ghostVars, Counted,
       SeenIsSpawned, Unlatched, StatusTells, PrevTells, RespawnReason, Spawned

(* What the loop knows holds throughout, when no request reports anything.  *)
LEMMA LoopKnows == Requests = {} => (Spec => []LoopInv)
<1> SUFFICES ASSUME Requests = {} PROVE Spec => []LoopInv
    OBVIOUS
<1>1. IInv /\ IInv' /\ LoopInv /\ [Next]_vars => LoopInv'
    BY HealthStepLoop, OtherStepLoop, StutterLoop DEF IInv
<1> QED
    BY <1>1, InitLoop, Safety, PTL DEF Spec

-----------------------------------------------------------------------------
(* An engine that was never ready is left to load until its startup timeout *)
(* (manager.go:147), on a node whose requests report nothing.               *)
THEOREM LoadingIsPatient == Requests = {} => (Spec => PatientWithLoading)
<1> SUFFICES ASSUME Requests = {} PROVE Spec => PatientWithLoading
    OBVIOUS
<1>1. IInv /\ LoopInv /\ [Next]_vars =>
        [\A b \in Backends : StopsRunning(b) /\ seenReady[b] # cmd[b] => overdue[b]]_vars
    BY OnlyARespawnStops DEF LoopInv, RespawnReason
<1> QED
    BY <1>1, LoopKnows, Safety, PTL DEF Spec, PatientWithLoading

(* An engine that was ready is stopped only after failure_threshold failed  *)
(* probes in a row, on a node whose requests report nothing.                *)
THEOREM ReadyIsGivenChances == Requests = {} => (Spec => LadderBeforeRespawn)
<1> SUFFICES ASSUME Requests = {} PROVE Spec => LadderBeforeRespawn
    OBVIOUS
<1>1. IInv /\ LoopInv /\ [Next]_vars =>
        [\A b \in Backends : StopsRunning(b) /\ seenReady[b] = cmd[b] =>
            strikes[b] >= FailureThreshold \/ (fresh[b] /\ strikes[b] > 0)]_vars
    BY OnlyARespawnStops DEF LoopInv, RespawnReason
<1> QED
    BY <1>1, LoopKnows, Safety, PTL DEF Spec, LadderBeforeRespawn

(* A backend given up on stays Dead until Shutdown, on a node whose         *)
(* requests report nothing: no goroutine is where it would change that.     *)
THEOREM GivenUpForGood == Requests = {} => (Spec => DeadIsFinal)
<1> SUFFICES ASSUME Requests = {} PROVE Spec => DeadIsFinal
    OBVIOUS
<1>1. ASSUME TypeOK, LoopInv, Next, NEW b \in Backends,
             status[b] = "dead", pc[b] # "start", spc[b] = "idle"
      PROVE  status'[b] = "dead"
    <2>1. pc[b] \in {"idle", "due"}
        BY <1>1 DEF LoopInv, StatusTells
    <2>2. CASE \E c \in Backends : HealthStep(c)
        BY <1>1, <2>1, <2>2 DEF TypeOK, HealthStep, Visit, ProbeOk, ProbeFail,
            ReadStatusOk, Promote, ReadStatusFailed, TakeHardFailure, Loading, Strike,
            GiveUp, RespawnStop, RespawnStopped, StopEnd, Spawn, SpawnFails, SetStatus,
            stateVars
    <2>3. CASE \E c \in Backends : ShutdownStopped(c)
        BY <1>1, <2>3 DEF TypeOK, ShutdownStopped, StopEnd, SetStatus
    <2>4. CASE \A c \in Backends : ~HealthStep(c) /\ ~ShutdownStopped(c)
        BY <1>1, <2>4 DEF Next, MainStep, TickStart, LoopReturn, Deadline, NoteLatch,
            NoteStatus, Signal, ShutDown, ListenerFails, Drained, Exit, MainGoes,
            ShutdownTake, EngineMoves, stateVars
    <2> QED
        BY <2>2, <2>3, <2>4
<1>2. TypeOK /\ LoopInv /\ [Next]_vars =>
        [\A b \in Backends :
            status[b] = "dead" /\ pc[b] # "start" /\ spc[b] = "idle"
                => status'[b] = "dead"]_vars
    BY <1>1
<1> QED
    BY <1>2, LoopKnows, TypeCorrect, PTL DEF Spec, DeadIsFinal

-----------------------------------------------------------------------------
(* Shutdown begins with every backend its own, and the loop is over only    *)
(* when none of its goroutines is at work.                                  *)
ShutdownOrder ==
    /\ node \in {"serving", "draining"} => \A b \in Backends : spc[b] = "idle"
    /\ ~looping => AllIdle

(* Every step keeps that order.                                             *)
LEMMA ShutdownOrderStep == TypeOK /\ ShutdownOrder /\ [Next]_vars => ShutdownOrder'
<1> SUFFICES ASSUME TypeOK, ShutdownOrder, [Next]_vars PROVE ShutdownOrder'
    OBVIOUS
<1> USE DEF TypeOK, ShutdownOrder, AllIdle, mainVars, checkVars
<1>1. ASSUME NEW b \in Backends, HealthStep(b) PROVE ShutdownOrder'
    <2>1. pc[b] # "idle" /\ UNCHANGED <<node, looping, spc>>
        BY <1>1 DEF HealthStep, Visit, ProbeOk, ProbeFail, ReadStatusOk, Promote,
            ReadStatusFailed, TakeHardFailure, Loading, Strike, GiveUp, RespawnStop,
            RespawnStopped, Spawn, SpawnFails
    <2> QED
        BY <2>1
<1>2. ASSUME NEW b \in Backends, ShutdownTake(b) \/ ShutdownStopped(b)
      PROVE  ShutdownOrder'
    BY <1>2 DEF ShutdownTake, ShutdownStopped
<1>3. ASSUME Next, \A b \in Backends :
                ~HealthStep(b) /\ ~ShutdownTake(b) /\ ~ShutdownStopped(b)
      PROVE  ShutdownOrder'
    BY <1>3 DEF Next, MainStep, TickStart, LoopReturn, Deadline, NoteLatch, NoteStatus,
        Signal, ShutDown, ListenerFails, Drained, Exit, MainGoes, EngineMoves
<1>4. CASE UNCHANGED vars
    BY <1>4 DEF vars
<1> QED
    BY <1>1, <1>2, <1>3, <1>4

(* With the loop over, Shutdown takes each engine for good.                 *)
TakenForGood ==
    /\ ~looping /\ AllIdle
    /\ \A b \in Backends : spc[b] # "idle" => cmd[b] = NoGen

(* Nothing is left that would spawn another.                                *)
LEMMA TakenForGoodStep == TypeOK /\ TakenForGood /\ [Next]_vars => TakenForGood'
<1> SUFFICES ASSUME TypeOK, TakenForGood, [Next]_vars PROVE TakenForGood'
    OBVIOUS
<1> USE DEF TypeOK, TakenForGood, AllIdle, mainVars, checkVars, procVars
<1>1. \A b \in Backends : ~HealthStep(b)
    BY DEF HealthStep, Visit, ProbeOk, ProbeFail, ReadStatusOk, Promote,
        ReadStatusFailed, TakeHardFailure, Loading, Strike, GiveUp, RespawnStop,
        RespawnStopped, Spawn, SpawnFails
<1>2. ASSUME NEW b \in Backends, ShutdownTake(b) PROVE TakenForGood'
    BY <1>2 DEF ShutdownTake, StopTake
<1>3. ASSUME NEW b \in Backends, ShutdownStopped(b) PROVE TakenForGood'
    BY <1>3 DEF ShutdownStopped
<1>4. ASSUME Next, \A b \in Backends : ~ShutdownTake(b) /\ ~ShutdownStopped(b)
      PROVE  TakenForGood'
    BY <1>1, <1>4 DEF Next, MainStep, TickStart, LoopReturn, Deadline, NoteLatch,
        NoteStatus, Signal, ShutDown, ListenerFails, Drained, Exit, MainGoes, EngineMoves
<1>5. CASE UNCHANGED vars
    BY <1>5 DEF vars
<1> QED
    BY <1>2, <1>3, <1>4, <1>5

(* What Shutdown is done with runs no engine.                               *)
LEMMA DoneMeansNone ==
    ASSUME IInv, TakenForGood, \A b \in Backends : spc[b] = "done"
    PROVE  NoneAlive
<1> SUFFICES ASSUME NEW b \in Backends, NEW g \in Gens, Alive(b, g) PROVE FALSE
    BY DEF NoneAlive
<1>1. cmd[b] = NoGen /\ \A w \in Stoppers : stopping[w][b] = NoGen
    BY DEF TakenForGood, AllIdle, IInv, SafeInv, TakenByStop, Stoppers
<1> QED
    BY <1>1 DEF IInv, SafeInv, Owned, Gens

(* main leaves only when Shutdown is done with every backend.               *)
ExitedAfterShutdown ==
    node = "exited" => \A b \in Backends : spc[b] = "done"

(* Every step keeps that.                                                   *)
LEMMA ExitedStep ==
    TypeOK /\ ExitedAfterShutdown /\ [Next]_vars => ExitedAfterShutdown'
<1> SUFFICES ASSUME TypeOK, ExitedAfterShutdown, [Next]_vars
             PROVE  ExitedAfterShutdown'
    OBVIOUS
<1> USE DEF TypeOK, ExitedAfterShutdown, mainVars
<1>1. ASSUME NEW b \in Backends, HealthStep(b) PROVE ExitedAfterShutdown'
    BY <1>1 DEF HealthStep, Visit, ProbeOk, ProbeFail, ReadStatusOk, Promote,
        ReadStatusFailed, TakeHardFailure, Loading, Strike, GiveUp, RespawnStop,
        RespawnStopped, Spawn, SpawnFails
<1>2. ASSUME NEW b \in Backends, ShutdownTake(b) \/ ShutdownStopped(b)
      PROVE  ExitedAfterShutdown'
    BY <1>2 DEF ShutdownTake, ShutdownStopped
<1>3. ASSUME Next, \A b \in Backends :
                ~HealthStep(b) /\ ~ShutdownTake(b) /\ ~ShutdownStopped(b)
      PROVE  ExitedAfterShutdown'
    BY <1>3 DEF Next, MainStep, TickStart, LoopReturn, Deadline, NoteLatch, NoteStatus,
        Signal, ShutDown, ListenerFails, Drained, Exit, MainGoes, EngineMoves
<1>4. CASE UNCHANGED vars
    BY <1>4 DEF vars
<1> QED
    BY <1>1, <1>2, <1>3, <1>4

(* No engine outlives a node that began to stop its backends when its       *)
(* health loop was over, whatever its requests and engines did.             *)
THEOREM WaitingForTheLoopSuffices == Spec => LoopOverThenNoneOutlives
<1> DEFINE Over == ~looping /\ node \in {"serving", "draining"}
           Clean == node = "exited" => NoneAlive
<1>1. Init => ShutdownOrder /\ ExitedAfterShutdown
    BY DEF Init, ShutdownOrder, ExitedAfterShutdown, AllIdle
<1>2. ShutdownOrder /\ Over => TakenForGood
    BY DEF ShutdownOrder, TakenForGood
<1>3. IInv /\ ExitedAfterShutdown /\ TakenForGood => Clean
    BY DoneMeansNone DEF ExitedAfterShutdown
<1>4. Spec => [](Over => []Clean)
    <2> HIDE DEF Over, Clean
    <2> QED
        BY <1>1, <1>2, <1>3, ShutdownOrderStep, TakenForGoodStep, ExitedStep,
           TypeCorrect, Safety, PTL DEF Spec
<1> QED
    BY <1>4 DEF LoopOverThenNoneOutlives
=============================================================================
