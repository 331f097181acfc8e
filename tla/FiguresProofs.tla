----------------------------- MODULE FiguresProofs -----------------------------
(***************************************************************************)
(* What Figures promises, for every configured and advertised context, any  *)
(* pools and any number of engines and rebuilds.                            *)
(***************************************************************************)
EXTENDS Figures, TLAPS

(* The steps of the probe, by name, as the proofs split them.               *)
LEMMA NextSteps ==
    ASSUME Next
    PROVE  \/ EngineStep
           \/ \E now \in {"blank", "loading", "rebuilding", "serving"} : ReadHealth(now)
           \/ RefreshStats \/ ReadContextLen \/ ReadKVCapacity
           \/ Promote \/ Tolerate \/ GiveUp \/ Respawn
    BY DEF Next, ProbeStep

(* What learnContextLen publishes is a pool or the advertised context.      *)
LEMMA FigureType ==
    ASSUME pool \in Pools, limit \in {0, Advertised}
    PROVE  LET figure == IF limit = 0 THEN pool ELSE Lesser(pool, limit)
           IN  figure \in Pools \cup {Advertised} /\ figure > 0
    BY SizesAssumption DEF Lesser

-----------------------------------------------------------------------------
(* Every variable has its type, whatever the engine does during a probe; in *)
(* particular the context is only asked for when it is neither configured   *)
(* nor learned (Backend.refreshStats).                                      *)
THEOREM FiguresTyped == Spec => []TypeOK
<1>1. Init => TypeOK
    <2> SUFFICES ASSUME Init PROVE TypeOK
        OBVIOUS
    <2>1. gen \in 1 .. MaxGens /\ rebuilds \in 0 .. MaxRebuilds /\ seen \in 0 .. rebuilds
        BY BoundsAssumption DEF Init
    <2>2. maxModelLen \in MaxSeqLens \cup Pools \cup {0, Advertised}
        BY DEF Init
    <2>3. ctxLearned \in BOOLEAN /\ reported \in BOOLEAN /\ limit \in {0, Advertised}
        BY DEF Init
    <2> QED
        BY <2>1, <2>2, <2>3 DEF Init, TypeOK
<1>2. TypeOK /\ [Next]_vars => TypeOK'
    <2> SUFFICES ASSUME TypeOK, [Next]_vars PROVE TypeOK'
        OBVIOUS
    <2> USE MaxSeqLensAssumption, SizesAssumption, BoundsAssumption
    <2>1. CASE EngineStep
        BY <2>1 DEF EngineStep, EngineGoes, Rebuild, contextVars, TypeOK
    <2>2. ASSUME NEW now \in {"blank", "loading", "rebuilding", "serving"}, ReadHealth(now)
          PROVE  TypeOK'
        <3>1. ctxLearned' \in BOOLEAN
            BY <2>2, Zenon DEF ReadHealth, Invalidate, TypeOK
        <3>2. seen' \in 0 .. rebuilds'
            BY <2>2 DEF ReadHealth, engineVars, TypeOK
        <3>3. at' \in {"stats", "failed"}
            BY <2>2 DEF ReadHealth, Step
        <3> QED
            BY <2>2, <3>1, <3>2, <3>3 DEF ReadHealth, engineVars, TypeOK
    <2>3. CASE RefreshStats
        BY <2>3 DEF RefreshStats, Step, engineVars, contextVars, TypeOK
    <2>4. CASE ReadContextLen
        BY <2>4 DEF ReadContextLen, Step, engineVars, TypeOK
    <2>5. CASE ReadKVCapacity
        <3>1. maxModelLen' \in MaxSeqLens \cup Pools \cup {0, Advertised}
            BY <2>5, FigureType DEF ReadKVCapacity, Publish, TypeOK
        <3> QED
            BY <2>5, <3>1 DEF ReadKVCapacity, Step, engineVars, TypeOK
    <2>6. CASE Promote
        BY <2>6 DEF Promote, Step, engineVars, contextVars, TypeOK
    <2>7. CASE Tolerate
        BY <2>7 DEF Tolerate, Step, engineVars, contextVars, TypeOK
    <2>8. CASE GiveUp
        BY <2>8 DEF GiveUp, Step, contextVars, TypeOK
    <2>9. CASE Respawn
        <3>1. gen' \in 1 .. MaxGens /\ rebuilds' \in 0 .. MaxRebuilds /\ seen' \in 0 .. rebuilds'
            BY <2>9 DEF Respawn, TypeOK
        <3>2. ctxLearned' \in BOOLEAN
            BY <2>9 DEF Respawn, Start
        <3>3. maxModelLen' \in MaxSeqLens \cup Pools \cup {0, Advertised}
            BY <2>9 DEF Respawn, Start, TypeOK
        <3> QED
            BY <2>9, <3>1, <3>2, <3>3 DEF Respawn, Step, TypeOK
    <2>10. CASE UNCHANGED vars
        BY <2>10 DEF vars, engineVars, contextVars, TypeOK
    <2> QED
        BY <2>1, <2>2, <2>3, <2>4, <2>5, <2>6, <2>7, <2>8, <2>9, <2>10, NextSteps
<1> QED
    BY <1>1, <1>2, PTL DEF Spec

-----------------------------------------------------------------------------
(* The context that is published is the configured one or was read from the *)
(* engine that runs: Start takes away what an earlier engine had published, *)
(* and learnContextLen publishes only what this one answered.               *)
THEOREM NeverOfAnotherEngine == Spec => []ContextOfThisEngine
<1>1. Init => ContextOfThisEngine
    BY DEF Init, ContextOfThisEngine
<1>2. TypeOK /\ ContextOfThisEngine /\ [Next]_vars => ContextOfThisEngine'
    <2> SUFFICES ASSUME TypeOK, ContextOfThisEngine, [Next]_vars
                 PROVE  ContextOfThisEngine'
        OBVIOUS
    <2> USE DEF ContextOfThisEngine
    <2>1. CASE EngineStep
        BY <2>1 DEF EngineStep, EngineGoes, Rebuild, contextVars
    <2>2. ASSUME NEW now \in {"blank", "loading", "rebuilding", "serving"}, ReadHealth(now)
          PROVE  ContextOfThisEngine'
        BY <2>2 DEF ReadHealth, engineVars
    <2>3. CASE ReadKVCapacity
        <3>1. maxSeqLen = 0 /\ maxSeqLen' = 0 /\ gen' = gen
            BY <2>3 DEF ReadKVCapacity, Step, engineVars, TypeOK
        <3>2. \/ maxModelLen' = maxModelLen /\ asOf' = asOf
              \/ asOf' = <<gen, rebuilds>>
            BY <2>3 DEF ReadKVCapacity, Publish
        <3> QED
            BY <3>1, <3>2
    <2>4. CASE Respawn
        BY <2>4 DEF Respawn, Start
    <2>5. CASE RefreshStats \/ ReadContextLen \/ Promote \/ Tolerate \/ GiveUp \/ UNCHANGED vars
        BY <2>5 DEF RefreshStats, ReadContextLen, Promote, Tolerate, GiveUp, vars,
                    engineVars, contextVars
    <2> QED
        BY <2>1, <2>2, <2>3, <2>4, <2>5, NextSteps
<1> QED
    BY <1>1, <1>2, FiguresTyped, PTL DEF Spec

-----------------------------------------------------------------------------
(* Reads of /health do not fail on a living engine, and it answers one of   *)
(* the two questions that learnContextLen asks.                             *)
Learnable ==
    "health" \notin FailingReads /\ ~({"models", "cache"} \subseteq FailingReads)

(* Where the probe is tells what it has read.                               *)
ProbeStages ==
    /\ at \in {"stats", "models", "cache", "verdict"} => health = "serving"
    /\ at = "failed" => health # "serving"
    /\ at \in {"idle", "verdict"} /\ health = "serving" /\ maxSeqLen = 0 => ctxLearned
    /\ at = "cache" /\ phase # "gone" /\ "models" \notin FailingReads
        => limit = Advertised

(* A rebuild that a probe has seen is of an engine that had loaded.         *)
RebuildsAreLater == health = "rebuilding" => phase # "loading"

(* What is latched as learned is of this engine, and no older than the last *)
(* rebuild seen, unless the last probe saw it going on: then the next good  *)
(* one takes the latch back.                                                *)
LatchIsSound ==
    ctxLearned /\ maxSeqLen = 0 /\ phase # "gone"
        => asOf[1] = gen /\ (asOf[2] >= seen \/ health = "rebuilding")

LearnInv == ProbeStages /\ RebuildsAreLater /\ LatchIsSound

(* A reading of /health on a living engine is what the engine is doing.     *)
LEMMA HealthIsTold ==
    ASSUME Learnable, NEW now, ReadHealth(now), phase # "gone"
    PROVE  now = phase
    BY DEF Learnable, ReadHealth, Lost

(* What was learned from the engine at hand becomes the published figure.   *)
LEMMA CapacityIsLearned ==
    ASSUME Learnable, TypeOK, ProbeStages, ReadKVCapacity, phase # "gone"
    PROVE  asOf' = <<gen, rebuilds>>
<1>1. at = "cache" /\ pool \in Pools /\ limit \in {0, Advertised}
    BY DEF ReadKVCapacity, Step, TypeOK
<1>2. CASE Publish(IF limit = 0 THEN pool ELSE Lesser(pool, limit))
    BY <1>1, <1>2, FigureType DEF Publish
<1>3. CASE Lost("cache") /\ Publish(limit)
    <2>1. limit = Advertised
        BY <1>1, <1>3 DEF Lost, Learnable, ProbeStages
    <2> QED
        BY <1>3, <2>1, SizesAssumption DEF Publish
<1> QED
    BY <1>2, <1>3 DEF ReadKVCapacity

LEMMA LearnStep ==
    ASSUME Learnable, TypeOK, LearnInv, [Next]_vars
    PROVE  LearnInv'
<1> USE DEF LearnInv
<1>1. CASE EngineStep
    <2>1. /\ phase' # "gone" => phase # "gone"
          /\ phase' = "loading" => phase = "loading"
          /\ UNCHANGED <<gen, maxSeqLen, at, health, ctxLearned, limit, asOf, seen>>
        BY <1>1 DEF EngineStep, EngineGoes, Rebuild, contextVars, TypeOK
    <2> QED
        BY <2>1 DEF ProbeStages, RebuildsAreLater, LatchIsSound
<1>2. ASSUME NEW now \in {"blank", "loading", "rebuilding", "serving"}, ReadHealth(now)
      PROVE  LearnInv'
    <2>1. /\ UNCHANGED <<gen, maxSeqLen, phase, rebuilds, limit, asOf>>
          /\ health' = now /\ ctxLearned' = Invalidate(now)
          /\ seen' = IF now = "rebuilding" THEN rebuilds ELSE seen
          /\ at' = IF now = "serving" THEN "stats" ELSE "failed"
        BY <1>2 DEF ReadHealth, Step, engineVars
    <2>2. phase # "gone" => now = phase
        BY <1>2, HealthIsTold
    <2>3. ProbeStages'
        BY <2>1 DEF ProbeStages
    <2>4. RebuildsAreLater'
        BY <2>1, <2>2 DEF RebuildsAreLater
    <2>5. ASSUME ctxLearned', maxSeqLen = 0, phase # "gone"
          PROVE  asOf[1] = gen /\ (asOf[2] >= seen' \/ now = "rebuilding")
        <3>1. ctxLearned /\ ~(health = "rebuilding" /\ now = "serving")
            BY <2>1, <2>5 DEF Invalidate
        <3>2. CASE now = "rebuilding"
            BY <2>5, <3>1, <3>2 DEF LatchIsSound
        <3>3. CASE now # "rebuilding"
            <4>1. health # "rebuilding"
                BY <2>2, <2>5, <3>1, <3>3 DEF RebuildsAreLater, TypeOK
            <4> QED
                BY <2>1, <2>5, <3>1, <3>3, <4>1 DEF LatchIsSound
        <3> QED
            BY <3>2, <3>3
    <2> QED
        BY <2>1, <2>3, <2>4, <2>5 DEF LatchIsSound
<1>3. CASE RefreshStats
    <2>1. /\ at = "stats"
          /\ at' = IF maxSeqLen > 0 \/ ctxLearned THEN "verdict" ELSE "models"
          /\ UNCHANGED <<gen, phase, maxSeqLen, health, ctxLearned, limit, asOf, seen>>
        BY <1>3 DEF RefreshStats, Step, engineVars, contextVars
    <2> QED
        BY <2>1 DEF ProbeStages, RebuildsAreLater, LatchIsSound
<1>4. CASE ReadContextLen
    <2>1. /\ at = "models" /\ at' = "cache"
          /\ limit' = Advertised \/ Lost("models")
          /\ UNCHANGED <<gen, phase, maxSeqLen, health, ctxLearned, asOf, seen>>
        BY <1>4 DEF ReadContextLen, Step, engineVars
    <2> QED
        BY <2>1 DEF Lost, ProbeStages, RebuildsAreLater, LatchIsSound
<1>5. CASE ReadKVCapacity
    <2>1. /\ at = "cache" /\ at' = "verdict" /\ ctxLearned' = TRUE
          /\ UNCHANGED <<gen, phase, rebuilds, maxSeqLen, health, seen>>
        BY <1>5 DEF ReadKVCapacity, Step, engineVars
    <2>2. phase # "gone" => asOf' = <<gen, rebuilds>>
        BY <1>5, CapacityIsLearned
    <2>3. seen \in Int /\ rebuilds \in Int /\ seen <= rebuilds
        BY BoundsAssumption DEF TypeOK
    <2> QED
        BY <2>1, <2>2, <2>3 DEF ProbeStages, RebuildsAreLater, LatchIsSound
<1>6. CASE Promote \/ Tolerate
    <2>1. /\ at = "verdict" \/ at = "failed"
          /\ at' = "idle"
          /\ UNCHANGED <<gen, phase, maxSeqLen, health, ctxLearned, limit, asOf, seen>>
        BY <1>6 DEF Promote, Tolerate, Step, engineVars, contextVars
    <2> QED
        BY <2>1 DEF ProbeStages, RebuildsAreLater, LatchIsSound
<1>7. CASE GiveUp
    <2>1. /\ at' = "over" /\ phase' \in {phase, "gone"}
          /\ UNCHANGED <<gen, maxSeqLen, health, ctxLearned, limit, asOf, seen>>
        BY <1>7 DEF GiveUp, Step, contextVars
    <2> QED
        BY <2>1 DEF ProbeStages, RebuildsAreLater, LatchIsSound
<1>8. CASE Respawn
    BY <1>8 DEF Respawn, Step, Start, ProbeStages, RebuildsAreLater, LatchIsSound
<1>9. CASE UNCHANGED vars
    BY <1>9 DEF vars, engineVars, contextVars, ProbeStages, RebuildsAreLater, LatchIsSound
<1> QED
    BY <1>1, <1>2, <1>3, <1>4, <1>5, <1>6, <1>7, <1>8, <1>9, NextSteps

(* After a good probe, the context published of a living engine is no older *)
(* than the last rebuild that a probe has seen: Probe forgets the figure    *)
(* when it finds the engine serving again.                                  *)
THEOREM RebuildsAreLearned ==
    ASSUME Learnable PROVE Spec => []RebuildIsLearned
<1>1. Init => LearnInv
    BY DEF Init, LearnInv, ProbeStages, RebuildsAreLater, LatchIsSound
<1>2. TypeOK /\ LearnInv /\ [Next]_vars => LearnInv'
    BY LearnStep
<1>3. LearnInv => RebuildIsLearned
    BY DEF LearnInv, ProbeStages, LatchIsSound, RebuildIsLearned
<1> QED
    BY <1>1, <1>2, <1>3, FiguresTyped, PTL DEF Spec

-----------------------------------------------------------------------------
(* Past the statistics of a living engine, the card is the one it reports.  *)
CardIsTold ==
    at \in {"models", "cache", "verdict"} /\ phase # "gone" => gpuUUID = card

(* A healthy backend whose engine is on another card than it was pinned to  *)
(* has been reported, if engines answer for their statistics: verifyPinning *)
(* comes after the read, on each way to healthy.                            *)
THEOREM MismatchesAreReported ==
    ASSUME "stats" \notin FailingReads PROVE Spec => []MismatchIsReported
<1> DEFINE Inv == CardIsTold /\ MismatchIsReported
<1>1. Init => Inv
    BY DEF Init, CardIsTold, MismatchIsReported
<1>2. Inv /\ [Next]_vars => Inv'
    <2> SUFFICES ASSUME CardIsTold, MismatchIsReported, [Next]_vars
                 PROVE  CardIsTold' /\ MismatchIsReported'
        OBVIOUS
    <2> USE DEF CardIsTold, MismatchIsReported
    <2>1. CASE EngineStep
        BY <2>1 DEF EngineStep, EngineGoes, Rebuild
    <2>2. ASSUME NEW now \in {"blank", "loading", "rebuilding", "serving"}, ReadHealth(now)
          PROVE  CardIsTold' /\ MismatchIsReported'
        BY <2>2 DEF ReadHealth, Step, engineVars
    <2>3. CASE RefreshStats
        BY <2>3 DEF RefreshStats, Step, Lost, Answers, engineVars
    <2>4. CASE ReadContextLen \/ ReadKVCapacity
        BY <2>4 DEF ReadContextLen, ReadKVCapacity, Step, engineVars
    <2>5. CASE Promote
        BY <2>5 DEF Promote, Step, engineVars
    <2>6. CASE Tolerate
        BY <2>6 DEF Tolerate, Step, engineVars
    <2>7. CASE GiveUp \/ Respawn
        BY <2>7 DEF GiveUp, Respawn, Step
    <2>8. CASE UNCHANGED vars
        BY <2>8 DEF vars, engineVars
    <2> QED
        BY <2>1, <2>2, <2>3, <2>4, <2>5, <2>6, <2>7, <2>8, NextSteps
<1> QED
    BY <1>1, <1>2, PTL DEF Spec
=============================================================================
