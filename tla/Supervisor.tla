----------------------------- MODULE Supervisor -----------------------------
(***************************************************************************)
(* The supervision of the backends by one node: freetoken.Manager's health  *)
(* loop and Shutdown, Backend.Start and Stop, the status and the            *)
(* hard-failure latch of balancer.BackendState, and the order in which main *)
(* shuts them down.                                                         *)
(*                                                                          *)
(* The goroutines are the tick's, one per backend (pc), Shutdown's, one per *)
(* backend (spc), main (node), and the proxied requests, which touch this   *)
(* state only through NoteHardFailure (noting).  A step is what a goroutine *)
(* does between two points where another can intervene: b.mu guards cmd,    *)
(* started, failures and respawns, but status and the latch are separate    *)
(* atomics that NoteHardFailure writes with no lock held.                   *)
(*                                                                          *)
(* A definition named X_Y, such as Visit_ProbesDead, is X with a bug that   *)
(* code could plausibly have; no specification uses it.  It is there to     *)
(* show that a property would notice the bug.                               *)
(***************************************************************************)
EXTENDS Engine

CONSTANTS
    Requests,           \* proxied requests that may note a hard failure
    FailureThreshold,   \* health.failure_threshold
    NoBackend           \* not a backend

ASSUME FailureThresholdAssumption == FailureThreshold \in Nat \ {0}
ASSUME NoBackendAssumption == NoBackend \notin Backends

VARIABLES
    status,     \* BackendState.status
    latch,      \* BackendState.hardFailure
    cmd,        \* Backend.cmd: the generation it runs, NoGen for nil
    failures,   \* Backend.failures, no further than FailureThreshold
    respawns,   \* Backend.respawns
    overdue,    \* Backend.Uptime() > startup_timeout
    pc,         \* where the health goroutine of a backend is
    prev, hard, \* checkOne's locals, at their initial values when not in use
    stopping,   \* stopping[w][b]: what w's call of Stop took from cmd
    spc,        \* where Shutdown's goroutine of a backend is
    noting,     \* the backend of a NoteHardFailure that has only latched
    node,       \* main: serving, draining, stopping, exited
    cancelled,  \* the signal context is done
    looping,    \* Manager.Run has not returned
    \* history, read by properties only
    seenReady,  \* the last generation that a probe found ready
    strikes,    \* failed probes since cmd was spawned or last found ready
    fresh       \* a hard failure was latched since then

NoGen == 0
Statuses == {"starting", "healthy", "unhealthy", "dead"}
Stoppers == {"health", "shutdown"}
HealthPoints == {"idle", "due", "probing", "ok", "promote",
                 "failed", "judge", "verdict", "respawn", "stop", "start"}

stateVars == <<status, latch>>
procVars == <<cmd, failures, respawns, overdue, stopping>>
checkVars == <<pc, prev, hard>>
mainVars == <<node, cancelled, looping, spc>>
ghostVars == <<seenReady, strikes, fresh>>
vars == <<engine, stateVars, procVars, checkVars, noting, mainVars, ghostVars>>

Saturate(n) == IF n > FailureThreshold THEN FailureThreshold ELSE n

(* The program runs until main returns; then only the engines go on.        *)
Up == node # "exited"
Goto(b, point) == pc' = [pc EXCEPT ![b] = point]
SetStatus(b, s) == status' = [status EXCEPT ![b] = s]

-----------------------------------------------------------------------------
(* Manager.Start has spawned every backend it could and left the rest Dead. *)
Init ==
    /\ status \in [Backends -> {"starting", "dead"}]
    /\ cmd = [b \in Backends |-> IF status[b] = "dead" THEN NoGen ELSE 1]
    /\ engine = [b \in Backends |-> [g \in Gens |->
                    IF g = cmd[b] THEN "booting" ELSE "none"]]
    /\ latch = [b \in Backends |-> FALSE]
    /\ failures = [b \in Backends |-> 0]
    /\ respawns = [b \in Backends |-> 0]
    /\ overdue = [b \in Backends |-> FALSE]
    /\ pc = [b \in Backends |-> "idle"]
    /\ prev = [b \in Backends |-> "starting"]
    /\ hard = [b \in Backends |-> FALSE]
    /\ stopping = [w \in Stoppers |-> [b \in Backends |-> NoGen]]
    /\ spc = [b \in Backends |-> "idle"]
    /\ noting = [r \in Requests |-> NoBackend]
    /\ node = "serving"
    /\ cancelled = FALSE
    /\ looping = TRUE
    /\ seenReady = [b \in Backends |-> NoGen]
    /\ strikes = [b \in Backends |-> 0]
    /\ fresh = [b \in Backends |-> FALSE]

-----------------------------------------------------------------------------
(* Run and tick.  A tick ends when every goroutine it started is done.      *)
AllIdle == \A b \in Backends : pc[b] = "idle"

TickStart ==
    /\ Up /\ looping /\ AllIdle
    /\ pc' = [b \in Backends |-> "due"]
    /\ UNCHANGED <<engine, stateVars, procVars, prev, hard, noting, mainVars,
                   ghostVars>>

LoopReturn_MidTick ==
    /\ Up /\ looping /\ cancelled
    /\ looping' = FALSE
    /\ UNCHANGED <<engine, stateVars, procVars, checkVars, noting, node,
                   cancelled, spc, ghostVars>>

LoopReturn ==
    /\ Up /\ looping /\ cancelled /\ AllIdle
    /\ looping' = FALSE
    /\ UNCHANGED <<engine, stateVars, procVars, checkVars, noting, node,
                   cancelled, spc, ghostVars>>

Visit_ProbesDead(b) ==
    /\ Up /\ pc[b] = "due"
    /\ Goto(b, "probing")
    /\ UNCHANGED <<engine, stateVars, procVars, prev, hard, noting, mainVars,
                   ghostVars>>

Visit_TrustsLatch(b) ==
    /\ Up /\ pc[b] = "due"
    /\ Goto(b, IF status[b] = "dead" THEN "idle"
               ELSE IF latch[b] THEN "respawn" ELSE "probing")
    /\ UNCHANGED <<engine, stateVars, procVars, prev, hard, noting, mainVars,
                   ghostVars>>

Visit_SkipsNil(b) ==
    /\ Up /\ pc[b] = "due"
    /\ Goto(b, IF status[b] = "dead" \/ cmd[b] = NoGen THEN "idle" ELSE "probing")
    /\ UNCHANGED <<engine, stateVars, procVars, prev, hard, noting, mainVars,
                   ghostVars>>

Visit(b) ==
    /\ Up /\ pc[b] = "due"
    /\ Goto(b, IF status[b] = "dead" THEN "idle" ELSE "probing")
    /\ UNCHANGED <<engine, stateVars, procVars, prev, hard, noting, mainVars,
                   ghostVars>>

-----------------------------------------------------------------------------
(* checkOne.  A probe succeeds only on a ready engine and a live context;   *)
(* it can fail at any time, a timeout being one of the ways.                *)
ProbeOk(b) ==
    /\ Up /\ pc[b] = "probing" /\ ~cancelled
    /\ \E g \in Gens : engine[b][g] = "ready"
                       /\ seenReady' = [seenReady EXCEPT ![b] = g]
    /\ Goto(b, "ok")
    /\ strikes' = [strikes EXCEPT ![b] = 0]
    /\ fresh' = [fresh EXCEPT ![b] = FALSE]
    /\ UNCHANGED <<engine, stateVars, procVars, prev, hard, noting, mainVars>>

ProbeFail(b) ==
    /\ Up /\ pc[b] = "probing"
    /\ Goto(b, "failed")
    /\ strikes' = [strikes EXCEPT ![b] = Saturate(@ + 1)]
    /\ UNCHANGED <<engine, stateVars, procVars, prev, hard, noting, mainVars,
                   seenReady, fresh>>

ReadStatusOk_KeepsFailures(b) ==
    /\ Up /\ pc[b] = "ok"
    /\ Goto(b, IF status[b] = "healthy" THEN "idle" ELSE "promote")
    /\ UNCHANGED <<engine, stateVars, procVars, prev, hard, noting, mainVars,
                   ghostVars>>

ReadStatusOk(b) ==
    /\ Up /\ pc[b] = "ok"
    /\ failures' = [failures EXCEPT ![b] = 0]
    /\ Goto(b, IF status[b] = "healthy" THEN "idle" ELSE "promote")
    /\ UNCHANGED <<engine, stateVars, cmd, respawns, overdue, stopping, prev,
                   hard, noting, mainVars, ghostVars>>

Promote(b) ==
    /\ Up /\ pc[b] = "promote"
    /\ SetStatus(b, "healthy")
    /\ Goto(b, "idle")
    /\ UNCHANGED <<engine, latch, procVars, prev, hard, noting, mainVars,
                   ghostVars>>

ReadStatusFailed(b) ==
    /\ Up /\ pc[b] = "failed"
    /\ prev' = [prev EXCEPT ![b] = status[b]]
    /\ Goto(b, "judge")
    /\ UNCHANGED <<engine, stateVars, procVars, hard, noting, mainVars,
                   ghostVars>>

TakeHardFailure(b) ==
    /\ Up /\ pc[b] = "judge"
    /\ hard' = [hard EXCEPT ![b] = latch[b]]
    /\ latch' = [latch EXCEPT ![b] = FALSE]
    /\ failures' = [failures EXCEPT ![b] = Saturate(@ + 1)]
    /\ Goto(b, "verdict")
    /\ UNCHANGED <<engine, status, cmd, respawns, overdue, stopping, prev,
                   noting, mainVars, ghostVars>>

Patient_Never(b) == FALSE
Patient(b) == prev[b] = "starting" /\ ~hard[b]

DropLocals(b) ==
    /\ prev' = [prev EXCEPT ![b] = "starting"]
    /\ hard' = [hard EXCEPT ![b] = FALSE]

Loading(b) ==
    /\ Up /\ pc[b] = "verdict" /\ Patient(b)
    /\ Goto(b, IF overdue[b] THEN "respawn" ELSE "idle")
    /\ DropLocals(b)
    /\ UNCHANGED <<engine, stateVars, procVars, noting, mainVars, ghostVars>>

Strike_KeepsRouting(b) ==
    /\ Up /\ pc[b] = "verdict" /\ ~Patient(b)
    /\ Goto(b, IF hard[b] \/ failures[b] >= FailureThreshold
               THEN "respawn" ELSE "idle")
    /\ DropLocals(b)
    /\ UNCHANGED <<engine, stateVars, procVars, noting, mainVars, ghostVars>>

Strike_OnlyWhenHard(b) ==
    /\ Up /\ pc[b] = "verdict" /\ ~Patient(b)
    /\ SetStatus(b, IF prev[b] = "healthy" THEN "unhealthy" ELSE status[b])
    /\ Goto(b, IF hard[b] THEN "respawn" ELSE "idle")
    /\ DropLocals(b)
    /\ UNCHANGED <<engine, latch, procVars, noting, mainVars, ghostVars>>

Strike(b) ==
    /\ Up /\ pc[b] = "verdict" /\ ~Patient(b)
    /\ SetStatus(b, IF prev[b] = "healthy" THEN "unhealthy" ELSE status[b])
    /\ Goto(b, IF hard[b] \/ failures[b] >= FailureThreshold
               THEN "respawn" ELSE "idle")
    /\ DropLocals(b)
    /\ UNCHANGED <<engine, latch, procVars, noting, mainVars, ghostVars>>

-----------------------------------------------------------------------------
(* Backend.Stop, called by a health goroutine or by one of Shutdown's.      *)
StopTake_ClearsFirst(w, b) ==
    /\ stopping' = [stopping EXCEPT ![w][b] = NoGen]
    /\ cmd' = [cmd EXCEPT ![b] = NoGen]

StopTake_KeepsCmd(w, b) ==
    /\ stopping' = [stopping EXCEPT ![w][b] = cmd[b]]
    /\ cmd' = cmd

StopTake(w, b) ==
    /\ stopping' = [stopping EXCEPT ![w][b] = cmd[b]]
    /\ cmd' = [cmd EXCEPT ![b] = NoGen]

StopEnd_NoKill(w, b) ==
    /\ engine' = engine
    /\ SetStatus(b, "dead")
    /\ stopping' = [stopping EXCEPT ![w][b] = NoGen]

(* The process group is gone, or the grace period is over and it is killed. *)
StopEnd(w, b) ==
    /\ engine' = [engine EXCEPT ![b][stopping[w][b]] =
                    IF @ = "exited" THEN "exited" ELSE "killed"]
    /\ SetStatus(b, "dead")
    /\ stopping' = [stopping EXCEPT ![w][b] = NoGen]

(* Manager.respawn *)
BudgetSpent(b) == respawns[b] >= MaxRespawns

GiveUp(b) ==
    /\ Up /\ pc[b] = "respawn" /\ BudgetSpent(b)
    /\ SetStatus(b, "dead")
    /\ Goto(b, "idle")
    /\ UNCHANGED <<engine, latch, procVars, prev, hard, noting, mainVars,
                   ghostVars>>

RespawnStop(b) ==
    /\ Up /\ pc[b] = "respawn" /\ ~BudgetSpent(b)
    /\ respawns' = [respawns EXCEPT ![b] = @ + 1]
    /\ StopTake("health", b)
    /\ Goto(b, IF cmd[b] = NoGen THEN "start" ELSE "stop")
    /\ UNCHANGED <<engine, stateVars, failures, overdue, prev, hard, noting,
                   mainVars, ghostVars>>

RespawnStopped(b) ==
    /\ Up /\ pc[b] = "stop"
    /\ StopEnd("health", b)
    /\ Goto(b, "start")
    /\ UNCHANGED <<latch, cmd, failures, respawns, overdue, prev, hard, noting,
                   mainVars, ghostVars>>

(* Backend.Start, which leaves the latch as it is.                          *)
Spawn(b) ==
    /\ Up /\ pc[b] = "start"
    /\ LET g == respawns[b] + 1 IN
        /\ Become(b, g, "booting")
        /\ cmd' = [cmd EXCEPT ![b] = g]
    /\ failures' = [failures EXCEPT ![b] = 0]
    /\ overdue' = [overdue EXCEPT ![b] = FALSE]
    /\ SetStatus(b, "starting")
    /\ strikes' = [strikes EXCEPT ![b] = 0]
    /\ fresh' = [fresh EXCEPT ![b] = FALSE]
    /\ Goto(b, "idle")
    /\ UNCHANGED <<latch, respawns, stopping, prev, hard, noting, mainVars,
                   seenReady>>

SpawnFails(b) ==
    /\ Up /\ pc[b] = "start"
    /\ SetStatus(b, "dead")
    /\ Goto(b, "idle")
    /\ UNCHANGED <<engine, latch, procVars, prev, hard, noting, mainVars,
                   ghostVars>>

HealthStep(b) ==
    \/ Visit(b) \/ ProbeOk(b) \/ ProbeFail(b)
    \/ ReadStatusOk(b) \/ Promote(b)
    \/ ReadStatusFailed(b) \/ TakeHardFailure(b) \/ Loading(b) \/ Strike(b)
    \/ GiveUp(b) \/ RespawnStop(b) \/ RespawnStopped(b)
    \/ Spawn(b) \/ SpawnFails(b)

-----------------------------------------------------------------------------
(* BackendState.NoteHardFailure: two stores, by a request's goroutine.      *)
NoteLatch(r, b) ==
    /\ Up /\ noting[r] = NoBackend
    /\ latch' = [latch EXCEPT ![b] = TRUE]
    /\ fresh' = [fresh EXCEPT ![b] = TRUE]
    /\ noting' = [noting EXCEPT ![r] = b]
    /\ UNCHANGED <<engine, status, procVars, checkVars, mainVars, seenReady,
                   strikes>>

NoteStatus(r) ==
    /\ Up /\ noting[r] # NoBackend
    /\ SetStatus(noting[r], "unhealthy")
    /\ noting' = [noting EXCEPT ![r] = NoBackend]
    /\ UNCHANGED <<engine, latch, procVars, checkVars, mainVars, ghostVars>>

(* The startup timeout passes, counted from the last spawn.                 *)
Deadline(b) ==
    /\ Up /\ ~overdue[b] /\ \E g \in Gens : Spawned(b, g)
    /\ overdue' = [overdue EXCEPT ![b] = TRUE]
    /\ UNCHANGED <<engine, stateVars, cmd, failures, respawns, stopping,
                   checkVars, noting, mainVars, ghostVars>>

-----------------------------------------------------------------------------
(* main: a signal cancels the context; a listener that fails does not.      *)
Signal ==
    /\ Up /\ ~cancelled
    /\ cancelled' = TRUE
    /\ UNCHANGED <<engine, stateVars, procVars, checkVars, noting, node,
                   looping, spc, ghostVars>>

MainGoes(from, to) ==
    /\ node = from /\ node' = to
    /\ UNCHANGED <<engine, stateVars, procVars, checkVars, noting, cancelled,
                   looping, spc, ghostVars>>

ShutDown == cancelled /\ MainGoes("serving", "draining")
ListenerFails == MainGoes("serving", "draining")

(* srv.Shutdown returns: every handler is done, or 30 s have passed.        *)
Drained == MainGoes("draining", "stopping")

(* Manager.Shutdown *)
ShutdownTake(b) ==
    /\ node = "stopping" /\ spc[b] = "idle"
    /\ StopTake("shutdown", b)
    /\ spc' = [spc EXCEPT ![b] = IF cmd[b] = NoGen THEN "done" ELSE "stop"]
    /\ UNCHANGED <<engine, stateVars, failures, respawns, overdue, checkVars,
                   noting, node, cancelled, looping, ghostVars>>

ShutdownStopped_NoGrace(b) ==
    /\ node = "stopping" /\ spc[b] = "stop"
    /\ ~Alive(b, stopping["shutdown"][b])
    /\ StopEnd("shutdown", b)
    /\ spc' = [spc EXCEPT ![b] = "done"]
    /\ UNCHANGED <<latch, cmd, failures, respawns, overdue, checkVars, noting,
                   node, cancelled, looping, ghostVars>>

ShutdownStopped(b) ==
    /\ node = "stopping" /\ spc[b] = "stop"
    /\ StopEnd("shutdown", b)
    /\ spc' = [spc EXCEPT ![b] = "done"]
    /\ UNCHANGED <<latch, cmd, failures, respawns, overdue, checkVars, noting,
                   node, cancelled, looping, ghostVars>>

Exit ==
    /\ \A b \in Backends : spc[b] = "done"
    /\ MainGoes("stopping", "exited")

EngineMoves(b, g) ==
    /\ EngineStep(b, g)
    /\ UNCHANGED <<stateVars, procVars, checkVars, noting, mainVars, ghostVars>>

-----------------------------------------------------------------------------
MainStep ==
    \/ Signal \/ ShutDown \/ ListenerFails \/ Drained \/ Exit
    \/ \E b \in Backends : ShutdownTake(b) \/ ShutdownStopped(b)

Next ==
    \/ TickStart \/ LoopReturn
    \/ \E b \in Backends : HealthStep(b) \/ Deadline(b)
    \/ \E r \in Requests, b \in Backends : NoteLatch(r, b)
    \/ \E r \in Requests : NoteStatus(r)
    \/ MainStep
    \/ \E b \in Backends, g \in Gens : EngineMoves(b, g)

Spec == Init /\ [][Next]_vars

(***************************************************************************)
(* Fairness: the Go scheduler runs every runnable goroutine, the ticker and *)
(* the startup clock advance, a probe and a Stop end by their timeouts, a   *)
(* killed process group ends, and main goes on once it was told to.  No     *)
(* engine is assumed to load, to answer or to crash.                        *)
(***************************************************************************)
LoopFairness ==
    /\ WF_vars(TickStart)
    /\ \A b \in Backends : WF_vars(HealthStep(b)) /\ WF_vars(Deadline(b))

MainFairness ==
    /\ WF_vars(ShutDown) /\ WF_vars(Drained) /\ WF_vars(Exit)
    /\ \A b \in Backends :
        WF_vars(ShutdownTake(b)) /\ WF_vars(ShutdownStopped(b))

Fairness ==
    /\ LoopFairness /\ MainFairness
    /\ \A r \in Requests : WF_vars(NoteStatus(r))

FairSpec == Spec /\ Fairness

-----------------------------------------------------------------------------
(* Every variable has its type: the respawn budget is never overspent, so   *)
(* that a generation of Gens is there for each spawn.                       *)
TypeOK ==
    /\ EngineTypeOK
    /\ status \in [Backends -> Statuses]
    /\ latch \in [Backends -> BOOLEAN]
    /\ cmd \in [Backends -> Gens \cup {NoGen}]
    /\ failures \in [Backends -> 0 .. FailureThreshold]
    /\ respawns \in [Backends -> 0 .. MaxRespawns]
    /\ overdue \in [Backends -> BOOLEAN]
    /\ pc \in [Backends -> HealthPoints]
    /\ prev \in [Backends -> Statuses]
    /\ hard \in [Backends -> BOOLEAN]
    /\ stopping \in [Stoppers -> [Backends -> Gens \cup {NoGen}]]
    /\ spc \in [Backends -> {"idle", "stop", "done"}]
    /\ noting \in [Requests -> Backends \cup {NoBackend}]
    /\ node \in {"serving", "draining", "stopping", "exited"}
    /\ cancelled \in BOOLEAN
    /\ looping \in BOOLEAN
    /\ seenReady \in [Backends -> Gens \cup {NoGen}]
    /\ strikes \in [Backends -> 0 .. FailureThreshold]
    /\ fresh \in [Backends -> BOOLEAN]

(* A backend's next engine is not started while the one before is left to   *)
(* run: of two that run at once, Shutdown is stopping one.  A group that    *)
(* was sent SIGKILL does not count: Stop does not wait for its end, so the  *)
(* next engine may load while the killed one still holds memory of the GPU. *)
OneEngine ==
    \A b \in Backends : \A g, h \in Gens :
        Alive(b, g) /\ Alive(b, h) /\ g # h => stopping["shutdown"][b] \in {g, h}

(* No running engine is forgotten: it is the Backend's cmd, or a call of    *)
(* Stop is at work on it.                                                   *)
Owned ==
    \A b \in Backends, g \in Gens : Alive(b, g) =>
        g = cmd[b] \/ \E w \in Stoppers : stopping[w][b] = g

(* A status that routes traffic is never left over from an engine that was  *)
(* replaced: the running generation itself answered a probe as ready.       *)
RoutableIsReady ==
    \A b \in Backends : spc[b] = "idle" /\ status[b] = "healthy" =>
        cmd[b] # NoGen /\ seenReady[b] = cmd[b]

(* The health loop, not Shutdown, takes a running engine down.              *)
StopsRunning(b) == cmd[b] # NoGen /\ cmd'[b] = NoGen /\ spc'[b] = "idle"

(* An engine that was never ready is left to load until its startup         *)
(* timeout.  Only without proxied requests: one that outlives the engine it *)
(* was sent to reports a failure of its successor.                          *)
PatientWithLoading ==
    [][\A b \in Backends :
        StopsRunning(b) /\ seenReady[b] # cmd[b] => overdue[b]]_vars

(* An engine that has been ready is stopped only after failure_threshold    *)
(* failed probes in a row, or one after a hard failure noted since the last *)
(* good probe.                                                              *)
LadderBeforeRespawn ==
    [][\A b \in Backends :
        StopsRunning(b) /\ seenReady[b] = cmd[b] =>
            strikes[b] >= FailureThreshold \/ (fresh[b] /\ strikes[b] > 0)]_vars

(* A request's report alone never stops an engine: a probe failed first.    *)
NeverOnHearsay ==
    [][\A b \in Backends : StopsRunning(b) => strikes[b] > 0]_vars

(* A backend given up on stays Dead.                                        *)
DeadIsFinal ==
    [][\A b \in Backends :
        status[b] = "dead" /\ pc[b] # "start" /\ spc[b] = "idle"
            => status'[b] = "dead"]_vars

(* An engine that is gone is replaced, or its backend is Dead, unless the   *)
(* node shuts down first.                                                   *)
LostIsReplaced ==
    \A b \in Backends, g \in Gens :
        (cmd[b] = g /\ engine[b][g] = "exited")
            ~> (cmd[b] # g \/ status[b] = "dead" \/ node # "serving")

(* The inductive invariant behind OneEngine, Owned, RoutableIsReady and the *)
(* refinement of RoutableSlot: what holds at each point of a health         *)
(* goroutine.                                                               *)
TakenByStop ==
    \A b \in Backends :
        /\ pc[b] # "stop" => stopping["health"][b] = NoGen
        /\ spc[b] # "stop" => stopping["shutdown"][b] = NoGen

NoEngineToStart ==
    \A b \in Backends : pc[b] \in {"stop", "start"} => cmd[b] = NoGen

GoodProbeIsOfCmd ==
    \A b \in Backends : pc[b] \in {"ok", "promote"} /\ spc[b] = "idle" =>
        cmd[b] # NoGen /\ seenReady[b] = cmd[b]

UnroutableOnTheWayDown ==
    \A b \in Backends :
        /\ pc[b] \in {"respawn", "stop", "start"} => status[b] # "healthy"
        /\ pc[b] \in {"judge", "verdict"} /\ prev[b] # "healthy"
                => status[b] # "healthy"

NextIsUnused ==
    \A b \in Backends, g \in Gens : Spawned(b, g) =>
        /\ g <= respawns[b] + 1
        /\ pc[b] \in {"stop", "start"} => g <= respawns[b]

HeldIsSpawned ==
    \A b \in Backends :
        /\ cmd[b] # NoGen => Spawned(b, cmd[b])
        /\ \A w \in Stoppers :
            stopping[w][b] # NoGen => Spawned(b, stopping[w][b])

SafeInv ==
    /\ Owned /\ RoutableIsReady /\ TakenByStop /\ NoEngineToStart
    /\ GoodProbeIsOfCmd /\ UnroutableOnTheWayDown /\ NextIsUnused
    /\ HeldIsSpawned

IInv == TypeOK /\ SafeInv

(* A signalled node exits, whatever its engines and health loop do.         *)
ShutdownCompletes == cancelled ~> node = "exited"

NoneAlive == \A b \in Backends, g \in Gens : ~Alive(b, g)

(* Manager.Shutdown "stops every backend" (manager.go:237).                 *)
NoEngineOutlivesNode == node = "exited" => NoneAlive

(* It does when the health loop was over before it began.                   *)
LoopOverThenNoneOutlives ==
    []((~looping /\ node \in {"serving", "draining"})
        => [](node = "exited" => NoneAlive))
=============================================================================
