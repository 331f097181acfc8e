------------------------------- MODULE Figures -------------------------------
(***************************************************************************)
(* What a node publishes about one backend, beside its status: the context  *)
(* its engine accepts, and whether it is on the card it was pinned to.      *)
(* Backend.Probe reads four documents of the engine one after the other; in *)
(* between the engine may crash or start to rebuild its cache, which moves   *)
(* the figure, and after a respawn it is another engine that answers.       *)
(*                                                                          *)
(* When to respawn is the Supervisor's subject; here a failed probe may     *)
(* always be the deciding one.                                              *)
(***************************************************************************)
EXTENDS Integers

CONSTANTS
    MaxSeqLens,     \* the values of freetoken.max_seq_len, 0 if not given
    Advertised,     \* the context of the checkpoint, as /v1/models has it
    Pools,          \* the sizes an engine may give its KV pool, in tokens
    FailingReads,   \* the documents that a living engine may fail to answer
    MaxGens,        \* bounds the engines spawned
    MaxRebuilds     \* bounds the cache rebuilds of an engine

ASSUME MaxSeqLensAssumption == MaxSeqLens \subseteq Nat
ASSUME SizesAssumption == Advertised \in Nat \ {0} /\ Pools \subseteq Nat \ {0}
ASSUME ReadsAssumption == FailingReads \subseteq {"health", "stats", "models", "cache"}
ASSUME BoundsAssumption == MaxGens \in Nat \ {0} /\ MaxRebuilds \in Nat

VARIABLES
    gen,            \* which engine cmd is
    phase,          \* of it: loading, serving, rebuilding, gone
    pool,           \* its KV pool, as /v1/cache/status reports it
    rebuilds,       \* how often it has been rebuilt
    card,           \* what it reports of its card: pinned, other, blank
    maxSeqLen,      \* freetoken.max_seq_len
    at,             \* where the health goroutine is
    status,         \* BackendState.status
    health,         \* Backend.health: blank, loading, rebuilding, serving
    gpuUUID,        \* Backend.gpuUUID: blank, pinned, other
    ctxLearned,     \* Backend.ctxLearned
    limit,          \* learnContextLen's local
    maxModelLen,    \* BackendState.maxModelLen
    reported,       \* a mismatch of this engine's card has been reported
    asOf,           \* the engine and rebuild that maxModelLen was read at
    seen            \* the last rebuild of this engine that a probe has seen

engineVars == <<gen, phase, pool, rebuilds, card, maxSeqLen>>
contextVars == <<ctxLearned, limit, maxModelLen, asOf>>
vars == <<engineVars, at, status, health, gpuUUID, contextVars, reported, seen>>

Lesser(m, n) == IF m < n THEN m ELSE n

Init ==
    /\ gen = 1 /\ phase = "loading" /\ rebuilds = 0
    /\ pool \in Pools /\ card \in {"pinned", "other", "blank"}
    /\ maxSeqLen \in MaxSeqLens
    /\ at = "idle" /\ status = "Starting" /\ health = "blank" /\ gpuUUID = "blank"
    /\ ctxLearned = FALSE /\ limit = 0 /\ maxModelLen = maxSeqLen
    /\ reported = FALSE /\ asOf = <<1, 0>> /\ seen = 0

-----------------------------------------------------------------------------
(* The engine: loads, rebuilds its cache on ft ctl cache, crashes.          *)
EngineGoes(from, to) ==
    /\ phase \in from /\ phase' = to
    /\ UNCHANGED <<gen, card, maxSeqLen, at, status, health, gpuUUID, contextVars,
                   reported, seen>>

Rebuild ==
    /\ EngineGoes({"serving"}, "rebuilding")
    /\ rebuilds < MaxRebuilds /\ rebuilds' = rebuilds + 1
    /\ pool' \in Pools

EngineStep ==
    \/ Rebuild
    \/ /\ \/ EngineGoes({"loading", "rebuilding"}, "serving")
          \/ EngineGoes({"loading", "serving", "rebuilding"}, "gone")
       /\ UNCHANGED <<pool, rebuilds>>

-----------------------------------------------------------------------------
Step(from, to) == at = from /\ at' = to

Answers == phase # "gone"
Lost(document) == phase = "gone" \/ document \in FailingReads

(* Backend.Probe reads /health.  Coming out of a rebuild, it is to learn    *)
(* the context again.                                                       *)
Invalidate_Never(now) == ctxLearned

Invalidate(now) ==
    IF health = "rebuilding" /\ now = "serving" THEN FALSE ELSE ctxLearned

ReadHealth(now) ==
    /\ Step("idle", IF now = "serving" THEN "stats" ELSE "failed")
    /\ \/ Answers /\ now = phase
       \/ Lost("health") /\ now = "blank"
    /\ health' = now
    /\ ctxLearned' = Invalidate(now)
    /\ seen' = IF now = "rebuilding" THEN rebuilds ELSE seen
    /\ UNCHANGED <<engineVars, status, gpuUUID, limit, maxModelLen, asOf, reported>>

RefreshStats ==
    /\ Step("stats", IF maxSeqLen > 0 \/ ctxLearned THEN "verdict" ELSE "models")
    /\ \/ Answers /\ gpuUUID' = card
       \/ Lost("stats") /\ gpuUUID' = gpuUUID
    /\ UNCHANGED <<engineVars, status, health, contextVars, reported, seen>>

(* learnContextLen: the smaller of the two answers, or the one there is.    *)
ReadContextLen ==
    /\ Step("models", "cache")
    /\ \/ Answers /\ limit' = Advertised
       \/ Lost("models") /\ limit' = 0
    /\ UNCHANGED <<engineVars, status, health, gpuUUID, ctxLearned, maxModelLen, asOf,
                   reported, seen>>

Publish_NeedsBoth(figure) ==
    /\ maxModelLen' = IF figure > 0 /\ limit > 0 THEN figure ELSE maxModelLen
    /\ asOf' = IF figure > 0 THEN <<gen, rebuilds>> ELSE asOf

Publish(figure) ==
    /\ maxModelLen' = IF figure > 0 THEN figure ELSE maxModelLen
    /\ asOf' = IF figure > 0 THEN <<gen, rebuilds>> ELSE asOf

ReadKVCapacity ==
    /\ Step("cache", "verdict")
    /\ \/ Answers /\ Publish(IF limit = 0 THEN pool ELSE Lesser(pool, limit))
       \/ Lost("cache") /\ Publish(limit)
    /\ ctxLearned' = TRUE /\ limit' = 0
    /\ UNCHANGED <<engineVars, status, health, gpuUUID, reported, seen>>

(* checkOne after a good probe, with verifyPinning on the way to healthy.   *)
Promote_OnlyFirst ==
    /\ Step("verdict", "idle")
    /\ status' = "Healthy"
    /\ reported' = (reported \/ (status = "Starting" /\ gen = 1 /\ gpuUUID = "other"))
    /\ UNCHANGED <<engineVars, health, gpuUUID, contextVars, seen>>

Promote ==
    /\ Step("verdict", "idle")
    /\ status' = "Healthy"
    /\ reported' = (reported \/ (status # "Healthy" /\ gpuUUID = "other"))
    /\ UNCHANGED <<engineVars, health, gpuUUID, contextVars, seen>>

(* and after a failed one.                                                  *)
Tolerate ==
    /\ Step("failed", "idle")
    /\ status' = IF status = "Healthy" THEN "Unhealthy" ELSE status
    /\ UNCHANGED <<engineVars, health, gpuUUID, contextVars, reported, seen>>

(* The respawn budget is spent, or the next engine does not start.          *)
GiveUp ==
    /\ Step("failed", "over") /\ status' = "Dead"
    /\ phase' \in {phase, "gone"}
    /\ UNCHANGED <<gen, pool, rebuilds, card, maxSeqLen, health, gpuUUID, contextVars,
                   reported, seen>>

Start_KeepsFigure == ctxLearned' = FALSE /\ maxModelLen' = maxModelLen

(* The figures that Backend.Start sets: the configured context, or none.    *)
Start == ctxLearned' = FALSE /\ maxModelLen' = maxSeqLen

(* The next engine may bind another card, as CUDA numbers them then; the    *)
(* UUID of the one before stays until it answers for its own.               *)
Respawn ==
    /\ Step("failed", "idle") /\ status' = "Starting"
    /\ gen < MaxGens /\ gen' = gen + 1
    /\ phase' = "loading" /\ rebuilds' = 0 /\ pool' \in Pools
    /\ card' \in {"pinned", "other", "blank"}
    /\ health' = "blank" /\ Start
    /\ seen' = 0 /\ reported' = FALSE
    /\ UNCHANGED <<maxSeqLen, gpuUUID, limit, asOf>>

ProbeStep ==
    \/ \E now \in {"blank", "loading", "rebuilding", "serving"} : ReadHealth(now)
    \/ RefreshStats \/ ReadContextLen \/ ReadKVCapacity
    \/ Promote \/ Tolerate \/ GiveUp \/ Respawn

Next == EngineStep \/ ProbeStep

Spec == Init /\ [][Next]_vars

(* The ticker and the probe's timeout keep the health goroutine going.      *)
FairSpec == Spec /\ WF_vars(ProbeStep)

-----------------------------------------------------------------------------
(* Every variable has its type; the context is asked for once per engine    *)
(* and rebuild, and never when it is configured (backend.go:62-64).          *)
TypeOK ==
    /\ gen \in 1 .. MaxGens /\ rebuilds \in 0 .. MaxRebuilds /\ pool \in Pools
    /\ phase \in {"loading", "serving", "rebuilding", "gone"}
    /\ card \in {"pinned", "other", "blank"} /\ gpuUUID \in {"pinned", "other", "blank"}
    /\ maxSeqLen \in MaxSeqLens
    /\ at \in {"idle", "stats", "models", "cache", "verdict", "failed", "over"}
    /\ status \in {"Starting", "Healthy", "Unhealthy", "Dead"}
    /\ health \in {"blank", "loading", "rebuilding", "serving"}
    /\ ctxLearned \in BOOLEAN /\ reported \in BOOLEAN
    /\ limit \in {0, Advertised}
    /\ maxModelLen \in MaxSeqLens \cup Pools \cup {0, Advertised}
    /\ seen \in 0 .. rebuilds
    /\ at \in {"models", "cache"} => ~ctxLearned /\ maxSeqLen = 0

(* The published context is the configured one or was read from the engine  *)
(* that runs, never from one before it, through crashes in the middle of a  *)
(* probe and respawns (backend.go:198-204).                                 *)
ContextOfThisEngine ==
    maxModelLen = maxSeqLen \/ (maxSeqLen = 0 /\ asOf[1] = gen)

(* After a good probe, the context published of a living engine is no older *)
(* than the last rebuild that a probe has seen (backend.go:305-309), as long *)
(* as no read of /health fails in between.                                  *)
RebuildIsLearned ==
    at = "idle" /\ health = "serving" /\ phase # "gone" /\ maxSeqLen = 0
        => asOf[1] = gen /\ asOf[2] >= seen

(* A healthy backend whose living engine says that it is on another card    *)
(* than it was pinned to has been reported (manager.go:180-187).            *)
MismatchIsReported ==
    status = "Healthy" /\ phase # "gone" /\ card = "other" => reported

(* An engine that goes on serving has its context published.                *)
ContextIsPublished ==
    <>[](status = "Healthy" /\ phase = "serving") => <>(maxModelLen > 0)
=============================================================================
