-------------------------------- MODULE Host --------------------------------
(***************************************************************************)
(* The nodes of one host: how each comes by its configuration, who serves    *)
(* the mesh port, and what the node that records energy knows of the cards   *)
(* of the others.  Strangers are its peers on other hosts, whose cards have  *)
(* the same numbers.                                                         *)
(*                                                                          *)
(* A configuration is a record of what the properties tell apart; zero and   *)
(* NoModel stand for what a file leaves out.  Any other socket on the host,  *)
(* an engine's included, may take the default mesh port at any time.         *)
(***************************************************************************)
EXTENDS Integers, Sequences, FiniteSets, Functions

CONSTANTS
    Instances, Strangers, Models,
    Recorder,        \* the instance with energy.enabled
    Files,           \* the configuration files an instance may be started with
    Overrides,       \* and the command lines
    NoModel,
    DefaultPort, DefaultMeshPort, DefaultBasePort, DefaultSlots

ASSUME RecorderAssumption == Recorder \in Instances /\ Instances \cap Strangers = {}

NoConf == [model |-> NoModel, port |-> 0, mesh |-> 0, base |-> 0,
           devices |-> <<>>, slots |-> 0, ceiling |-> 0]

IsConfig(c) ==
    /\ DOMAIN c \subseteq DOMAIN NoConf
    /\ \A key \in DOMAIN c : key \notin {"model", "devices"} => c[key] \in Int
    /\ "devices" \in DOMAIN c => c.devices \in Seq(Int)
    /\ "model" \in DOMAIN c => c.model \in Models \cup {NoModel}

(* A command line has no say in slots and ceiling: Config.set knows no such *)
(* keys.                                                                    *)
ASSUME ConfigsAssumption ==
    /\ NoModel \notin Models
    /\ \A f \in Files : DOMAIN f = DOMAIN NoConf /\ IsConfig(f)
    /\ \A o \in Overrides : IsConfig(o) /\ {"slots", "ceiling"} \cap DOMAIN o = {}
    /\ DefaultPort \in Int /\ DefaultMeshPort \in Nat \ {0}
    /\ DefaultBasePort \in Int /\ DefaultSlots \in Nat \ {0}

VARIABLES
    proc,       \* of each instance: down, up, draining
    conf,       \* its configuration, NoConf when it is down
    asked,      \* the overrides it was given
    cancelled,  \* the signal context is done
    listens,    \* its listener is open
    page,       \* where ServeMeshPort is: off, asking, waiting, serving
    foreign,    \* another socket has the default mesh port
    heard,      \* the recorder's PeerState of each other node
    labels      \* the models in its last readings

procVars == <<proc, conf, asked, cancelled>>
viewVars == <<heard, labels>>
vars == <<procVars, listens, page, foreign, viewVars>>

Others == (Instances \ {Recorder}) \cup Strangers
Unheard == [model |-> NoModel, cards |-> {}]  \* unreachable, backends cleared

-----------------------------------------------------------------------------
(* Config.ApplyDefaults: an unset ceiling is the number of slots.           *)
OrDefault(value, default) == IF value = 0 THEN default ELSE value

ApplyDefaults(c) ==
    [c EXCEPT !.port = OrDefault(@, DefaultPort),
              !.mesh = OrDefault(@, DefaultMeshPort),
              !.base = OrDefault(@, DefaultBasePort),
              !.slots = OrDefault(@, DefaultSlots),
              !.ceiling = OrDefault(@, OrDefault(c.slots, DefaultSlots))]

(* Config.Backends: one per device, on consecutive ports.                   *)
EnginePorts(c) == {c.base + i - 1 : i \in DOMAIN c.devices}

(* Config.Validate, as far as it concerns these fields.                     *)
Validate(c) ==
    /\ c.model # NoModel /\ c.devices # <<>>
    /\ IsInjective(c.devices) /\ \A d \in Range(c.devices) : d >= 0
    /\ c.port # c.mesh \/ c.mesh = 0
    /\ c.port \notin EnginePorts(c)
    /\ c.mesh # 0 => c.mesh \notin EnginePorts(c)

ApplyOverrides(c, given) ==
    [key \in DOMAIN c |-> IF key \in DOMAIN given THEN given[key] ELSE c[key]]

Load(file) == ApplyDefaults(file)

Cards(c) == Range(c.devices)

-----------------------------------------------------------------------------
Init ==
    /\ proc = [i \in Instances |-> "down"]
    /\ conf = [i \in Instances |-> NoConf]
    /\ asked = [i \in Instances |-> <<>>]
    /\ cancelled = [i \in Instances |-> FALSE]
    /\ listens = [i \in Instances |-> FALSE]
    /\ page = [i \in Instances |-> "off"]
    /\ foreign = FALSE
    /\ heard = [p \in Others |-> Unheard]
    /\ labels = <<>>

(* main, up to its listener.  What Load or the second Validate refuses ends *)
(* the process before anything has been started.                            *)
Start(i, given, result) ==
    /\ proc[i] = "down"
    /\ proc' = [proc EXCEPT ![i] = "up"]
    /\ conf' = [conf EXCEPT ![i] = result]
    /\ asked' = [asked EXCEPT ![i] = given]
    /\ cancelled' = [cancelled EXCEPT ![i] = FALSE]
    /\ page' = [page EXCEPT ![i] = IF result.mesh > 0 THEN "asking" ELSE "off"]
    /\ heard' = IF i = Recorder THEN [p \in Others |-> Unheard] ELSE heard
    /\ labels' = IF i = Recorder THEN <<>> ELSE labels
    /\ UNCHANGED <<listens, foreign>>

Boot_TrustsLoad(i) ==
    \E file \in Files, given \in Overrides :
        /\ Validate(Load(file))
        /\ Start(i, given, ApplyOverrides(Load(file), given))

Boot(i) ==
    \E file \in Files, given \in Overrides :
        LET result == ApplyOverrides(Load(file), given)
        IN  /\ Validate(Load(file)) /\ Validate(result)
            /\ Start(i, given, result)

Taken(port) ==
    \/ foreign /\ port = DefaultMeshPort
    \/ \E j \in Instances : listens[j] /\ conf[j].port = port
    \/ \E j \in Instances : page[j] = "serving" /\ conf[j].mesh = port

Listen(i) ==
    /\ proc[i] = "up" /\ ~cancelled[i] /\ ~listens[i] /\ ~Taken(conf[i].port)
    /\ listens' = [listens EXCEPT ![i] = TRUE]
    /\ UNCHANGED <<procVars, page, foreign, viewVars>>

(* The node drains, with its context not cancelled.                         *)
ListenFails(i) ==
    /\ proc[i] = "up" /\ ~cancelled[i] /\ ~listens[i] /\ Taken(conf[i].port)
    /\ proc' = [proc EXCEPT ![i] = "draining"]
    /\ UNCHANGED <<conf, asked, cancelled, listens, page, foreign, viewVars>>

Signal(i) ==
    /\ proc[i] # "down" /\ ~cancelled[i]
    /\ cancelled' = [cancelled EXCEPT ![i] = TRUE]
    /\ UNCHANGED <<proc, conf, asked, listens, page, foreign, viewVars>>

Drain(i) ==
    /\ proc[i] = "up" /\ cancelled[i]
    /\ proc' = [proc EXCEPT ![i] = "draining"]
    /\ listens' = [listens EXCEPT ![i] = FALSE]
    /\ UNCHANGED <<conf, asked, cancelled, page, foreign, viewVars>>

(* The process ends, having drained or not.                                 *)
Gone(i) ==
    /\ proc' = [proc EXCEPT ![i] = "down"]
    /\ conf' = [conf EXCEPT ![i] = NoConf]
    /\ asked' = [asked EXCEPT ![i] = <<>>]
    /\ cancelled' = [cancelled EXCEPT ![i] = FALSE]
    /\ listens' = [listens EXCEPT ![i] = FALSE]
    /\ page' = [page EXCEPT ![i] = "off"]
    /\ UNCHANGED <<foreign, viewVars>>

Exit(i) == proc[i] = "draining" /\ Gone(i)
Crash(i) == proc[i] # "down" /\ Gone(i)

MainStep(i) == Listen(i) \/ ListenFails(i) \/ Drain(i) \/ Exit(i)

-----------------------------------------------------------------------------
(* ServeMeshPort *)
SetPage(i, where) ==
    /\ page' = [page EXCEPT ![i] = where]
    /\ UNCHANGED <<procVars, listens, foreign, viewVars>>

Win(i) == page[i] = "asking" /\ ~Taken(conf[i].mesh) /\ SetPage(i, "serving")

Lose_GivesUp(i) == page[i] = "asking" /\ Taken(conf[i].mesh) /\ SetPage(i, "off")

Lose(i) == page[i] = "asking" /\ Taken(conf[i].mesh) /\ SetPage(i, "waiting")

Retry(i) == page[i] = "waiting" /\ SetPage(i, "asking")

(* Serve returns though nobody asked it to, and the loop goes round.        *)
ServeFails(i) == page[i] = "serving" /\ ~cancelled[i] /\ SetPage(i, "asking")

StopServing(i) == page[i] # "off" /\ cancelled[i] /\ SetPage(i, "off")

PageStep(i) == Win(i) \/ Lose(i) \/ Retry(i) \/ StopServing(i)

ForeignSocket ==
    /\ foreign \/ ~Taken(DefaultMeshPort)
    /\ foreign' = ~foreign
    /\ UNCHANGED <<procVars, listens, page, viewVars>>

-----------------------------------------------------------------------------
(* The recorder's polls: of an instance that listens, or of a stranger with *)
(* whatever cards.                                                          *)
Reports(p) ==
    IF p \in Strangers THEN {[model |-> p, cards |-> UNION {Cards(f) : f \in Files}]}
    ELSE IF listens[p] THEN {[model |-> conf[p].model, cards |-> Cards(conf[p])]}
    ELSE {}

Hear(p) ==
    /\ proc[Recorder] # "down" /\ ~cancelled[Recorder]
    /\ \E report \in Reports(p) : heard' = [heard EXCEPT ![p] = report]
    /\ UNCHANGED <<procVars, listens, page, foreign, labels>>

MarkUnreachable_KeepsBackends(p) ==
    /\ proc[Recorder] # "down" /\ ~cancelled[Recorder]
    /\ UNCHANGED vars

MarkUnreachable(p) ==
    /\ proc[Recorder] # "down" /\ ~cancelled[Recorder]
    /\ heard' = [heard EXCEPT ![p] = Unheard]
    /\ UNCHANGED <<procVars, listens, page, foreign, labels>>

Poll(p) == Hear(p) \/ MarkUnreachable(p)

(* Registry.GPUModels: its own cards, and what neighbours claim; of two that *)
(* claim a card the one listed later wins, which is left open here.         *)
ModelsOf(neighbours) ==
    LET own == Cards(conf[Recorder])
        theirs == UNION {heard[p].cards : p \in neighbours}
        models == {conf[Recorder].model} \cup {heard[p].model : p \in neighbours}
    IN  {f \in [own \cup theirs -> models] :
            \A c \in DOMAIN f :
                IF c \in own THEN f[c] = conf[Recorder].model
                ELSE \E p \in neighbours : c \in heard[p].cards /\ f[c] = heard[p].model}

GPUModels_AnyHost == ModelsOf(Others)
GPUModels == ModelsOf(Others \cap Instances)

Record ==
    /\ proc[Recorder] # "down" /\ ~cancelled[Recorder]
    /\ labels' \in GPUModels
    /\ UNCHANGED <<procVars, listens, page, foreign, heard>>

-----------------------------------------------------------------------------
Next ==
    \/ \E i \in Instances :
        Boot(i) \/ Signal(i) \/ Crash(i) \/ MainStep(i) \/ PageStep(i) \/ ServeFails(i)
    \/ ForeignSocket \/ (\E p \in Others : Poll(p)) \/ Record

(***************************************************************************)
(* Fairness: main and ServeMeshPort go on, the retry timer fires, a poll is  *)
(* answered or times out, the recorder samples.  No node is assumed to be   *)
(* started, stopped or spared.                                              *)
(***************************************************************************)
Fairness ==
    /\ \A i \in Instances : WF_vars(MainStep(i)) /\ WF_vars(PageStep(i))
    /\ \A p \in Others : WF_vars(Poll(p))
    /\ WF_vars(Record)

Spec == Init /\ [][Next]_vars /\ Fairness

-----------------------------------------------------------------------------
TypeOK ==
    /\ proc \in [Instances -> {"down", "up", "draining"}]
    /\ page \in [Instances -> {"off", "asking", "waiting", "serving"}]
    /\ cancelled \in [Instances -> BOOLEAN] /\ listens \in [Instances -> BOOLEAN]
    /\ foreign \in BOOLEAN
    /\ \A i \in Instances : /\ IsConfig(conf[i]) /\ DOMAIN conf[i] = DOMAIN NoConf
                            /\ proc[i] = "down" => conf[i] = NoConf
                            /\ listens[i] => proc[i] = "up"
                            /\ page[i] # "off" => conf[i].mesh > 0
    /\ \A p \in Others \cap Instances : heard[p] = Unheard \/ heard[p].model \in Models

(* What a node runs with is sound, whichever way it was given: in the file, *)
(* as a default or on the command line.  No two of its sockets or backends  *)
(* get in each other's way ...                                              *)
Sockets(c) == {c.port} \cup (IF c.mesh > 0 THEN {c.mesh} ELSE {}) \cup EnginePorts(c)

NoSelfConflict(c) ==
    /\ Cardinality(Sockets(c)) = (IF c.mesh > 0 THEN 2 ELSE 1) + Len(c.devices)
    /\ Cardinality(Cards(c)) = Len(c.devices)

(* ... the command line has the last word, zero included, and ...           *)
OverridesWin(i) == \A key \in DOMAIN asked[i] : conf[i][key] = asked[i][key]

(* ... the ceiling on requests is not off, as zero means to PickRoute.      *)
ConfigIsSound ==
    \A i \in Instances : proc[i] # "down" =>
        /\ NoSelfConflict(conf[i])
        /\ OverridesWin(i)
        /\ conf[i].ceiling # 0

(* A card's draw is never charged to a model on another host, and a card of *)
(* the recorder's own to no other model than its own.                       *)
ChargedToThisHost ==
    \A c \in DOMAIN labels :
        /\ labels[c] \in Models
        /\ proc[Recorder] # "down" /\ c \in Cards(conf[Recorder]) =>
            labels[c] = conf[Recorder].model

(* The mesh port hands over: a node that stays, once nobody else takes it,  *)
(* serves the page, through failures of its listener.                       *)
PortHandsOver ==
    \A i \in Instances :
        <>[](proc[i] = "up" /\ ~cancelled[i] /\ conf[i].mesh = DefaultMeshPort
             /\ ~foreign /\ \A j \in Instances \ {i} : ~listens[j] /\ page[j] # "serving")
        => []<>(page[i] = "serving")

(* A card stops being charged to a model when the instance that had it is   *)
(* gone or has been given other cards.                                      *)
Serves(i, c) == listens[i] /\ c \in Cards(conf[i])

CardIsReleased ==
    \A c \in UNION {Cards(f) : f \in Files} :
        (/\ <>[](proc[Recorder] # "down" /\ ~cancelled[Recorder] /\ c \notin Cards(conf[Recorder]))
         /\ <>[](\A i \in Instances \ {Recorder} : ~Serves(i, c)))
        => <>[](c \notin DOMAIN labels)
=============================================================================
