------------------------------- MODULE Engine -------------------------------
(***************************************************************************)
(* The FreeToken engine as the node sees it: a process outside src/ that    *)
(* a Backend spawns, probes, proxies to and stops.  Each backend spawns one *)
(* engine per generation, and a generation is never spawned twice.          *)
(*                                                                          *)
(*   none     not spawned                                                   *)
(*   booting  the process runs, nothing listens on its port yet             *)
(*   loading  it listens and answers /health, but Health.Ready is false:    *)
(*            loading weights, or rebuilding its cache                      *)
(*   ready    Health.Ready holds and generation requests are served         *)
(*   killed   the process group was sent SIGKILL and is not yet gone        *)
(*   exited   gone                                                          *)
(*                                                                          *)
(* A hung engine is one that stays in its phase and never takes a step.     *)
(***************************************************************************)
EXTENDS Integers

CONSTANTS
    Backends,       \* one per GPU of gpus.devices
    MaxRespawns     \* health.max_respawns

ASSUME MaxRespawnsAssumption == MaxRespawns \in Nat

VARIABLE engine     \* engine[b][g]: the phase of generation g of backend b

(* Generation 1 is spawned by Manager.Start, generation n + 1 by the n-th  *)
(* respawn of the budget.                                                   *)
Gens == 1 .. (MaxRespawns + 1)

Phases == {"none", "booting", "loading", "ready", "killed", "exited"}
AlivePhases == {"booting", "loading", "ready"}

Alive(b, g) == engine[b][g] \in AlivePhases
Listening(b, g) == engine[b][g] \in {"loading", "ready"}
Spawned(b, g) == engine[b][g] # "none"

EngineTypeOK == engine \in [Backends -> [Gens -> Phases]]

Become(b, g, phase) == engine' = [engine EXCEPT ![b][g] = phase]

Listen(b, g) == engine[b][g] = "booting" /\ Become(b, g, "loading")
Serve(b, g) == engine[b][g] = "loading" /\ Become(b, g, "ready")
Leave(b, g) == engine[b][g] = "ready" /\ Become(b, g, "loading")

(* A crash, an answer to SIGTERM, or the end of a killed process group.     *)
ProcessExit(b, g) ==
    engine[b][g] \in AlivePhases \cup {"killed"} /\ Become(b, g, "exited")

EngineStep(b, g) ==
    Listen(b, g) \/ Serve(b, g) \/ Leave(b, g) \/ ProcessExit(b, g)
=============================================================================
