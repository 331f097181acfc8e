------------------------------ MODULE HostProofs ----------------------------
(***************************************************************************)
(* A host's nodes run with sound configurations, and its energy is charged   *)
(* to models of this host, for any instances, strangers, files and command   *)
(* lines.                                                                    *)
(*                                                                          *)
(* HostInv adds to TypeOK and ConfigIsSound what a label needs: a neighbour  *)
(* whose cards are known is known by one of this host's models.              *)
(***************************************************************************)
EXTENDS Host, FiniteSetTheorems, TLAPS

Complete(c) == DOMAIN c = DOMAIN NoConf /\ IsConfig(c)

LEMMA Keys ==
    DOMAIN NoConf = {"model", "port", "mesh", "base", "devices", "slots", "ceiling"}
BY DEF NoConf

LEMMA Fields ==
    ASSUME NEW c, Complete(c)
    PROVE  /\ c.port \in Int /\ c.mesh \in Int /\ c.base \in Int
           /\ c.slots \in Int /\ c.ceiling \in Int
           /\ c.devices \in Seq(Int) /\ c.model \in Models \cup {NoModel}
BY Keys DEF Complete, IsConfig

LEMMA NothingIsComplete == Complete(NoConf)
<1>1. NoConf.devices \in Seq(Int) /\ NoConf.model = NoModel
  BY DEF NoConf
<1>2. \A key \in DOMAIN NoConf : key \notin {"model", "devices"} => NoConf[key] \in Int
  BY DEF NoConf
<1> QED
  BY <1>1, <1>2 DEF Complete, IsConfig

-----------------------------------------------------------------------------
(* Defaults leave a configuration complete, and a ceiling that is not off.  *)
LEMMA DefaultsComplete ==
    ASSUME NEW c, Complete(c)
    PROVE  Complete(ApplyDefaults(c)) /\ ApplyDefaults(c).ceiling # 0
<1> DEFINE d == ApplyDefaults(c)
<1>1. DOMAIN d = DOMAIN c
  BY DEF ApplyDefaults
<1>2. /\ d.port = OrDefault(c.port, DefaultPort)
      /\ d.mesh = OrDefault(c.mesh, DefaultMeshPort)
      /\ d.base = OrDefault(c.base, DefaultBasePort)
      /\ d.slots = OrDefault(c.slots, DefaultSlots)
      /\ d.ceiling = OrDefault(c.ceiling, OrDefault(c.slots, DefaultSlots))
      /\ d.devices = c.devices /\ d.model = c.model
  BY Keys DEF ApplyDefaults, Complete
<1>3. /\ d.port \in Int /\ d.mesh \in Int /\ d.base \in Int
      /\ d.slots \in Int /\ d.ceiling \in Int
      /\ d.devices \in Seq(Int) /\ d.model \in Models \cup {NoModel}
      /\ d.ceiling # 0
  BY <1>2, Fields, ConfigsAssumption DEF OrDefault
<1> HIDE DEF d
<1> QED
  BY <1>1, <1>3, Keys DEF Complete, IsConfig, d

(* A command line leaves it complete too, wins, and does not touch the      *)
(* ceiling.                                                                 *)
LEMMA OverriddenComplete ==
    ASSUME NEW c, Complete(c), NEW given \in Overrides
    PROVE  LET d == ApplyOverrides(c, given)
           IN  /\ Complete(d) /\ d.ceiling = c.ceiling
               /\ \A key \in DOMAIN given : d[key] = given[key]
<1> DEFINE d == ApplyOverrides(c, given)
<1>0. IsConfig(given) /\ "ceiling" \notin DOMAIN given
  BY ConfigsAssumption
<1>1. /\ DOMAIN d = DOMAIN NoConf
      /\ \A key \in DOMAIN NoConf :
            d[key] = IF key \in DOMAIN given THEN given[key] ELSE c[key]
  BY DEF ApplyOverrides, Complete
<1>2. d.ceiling = c.ceiling
  BY <1>0, <1>1, Keys
<1>3. \A key \in DOMAIN given : d[key] = given[key]
  BY <1>0, <1>1 DEF IsConfig
<1>4. IsConfig(d)
  BY <1>0, <1>1, Keys DEF Complete, IsConfig
<1> QED
  BY <1>1, <1>2, <1>3, <1>4 DEF Complete

-----------------------------------------------------------------------------
(* The backends have a card and a port each.                                *)
LEMMA OneEach ==
    ASSUME NEW c, Complete(c), IsInjective(c.devices)
    PROVE  /\ IsFiniteSet(EnginePorts(c)) /\ Cardinality(EnginePorts(c)) = Len(c.devices)
           /\ Cardinality(Cards(c)) = Len(c.devices)
<1> DEFINE n == Len(c.devices)
           port == [i \in 1 .. n |-> c.base + i - 1]
<1>1. c.devices \in Seq(Int) /\ c.base \in Int
  BY Fields
<1>2. n \in Nat /\ DOMAIN c.devices = 1 .. n
  BY <1>1
<1>3. IsFiniteSet(1 .. n) /\ Cardinality(1 .. n) = n
  BY <1>2, FS_Interval
<1>4. port \in Bijection(1 .. n, EnginePorts(c))
  <2>1. port \in [1 .. n -> EnginePorts(c)]
    BY <1>2 DEF EnginePorts
  <2>2. \A a, b \in 1 .. n : port[a] = port[b] => a = b
    BY <1>1, <1>2
  <2>3. \A t \in EnginePorts(c) : \E i \in 1 .. n : port[i] = t
    BY <1>2 DEF EnginePorts
  <2> HIDE DEF port
  <2> QED
    BY <2>1, <2>2, <2>3 DEF Bijection, Injection, Surjection, IsInjective
<1>5. c.devices \in Bijection(1 .. n, Cards(c))
  <2>1. c.devices \in [1 .. n -> Cards(c)]
    BY <1>1, <1>2 DEF Cards, Range
  <2>2. \A t \in Cards(c) : \E i \in 1 .. n : c.devices[i] = t
    BY <1>2 DEF Cards, Range
  <2> QED
    BY <2>1, <2>2, <1>2 DEF Bijection, Injection, Surjection, IsInjective
<1> HIDE DEF port
<1>6. ExistsBijection(1 .. n, EnginePorts(c)) /\ ExistsBijection(1 .. n, Cards(c))
  BY <1>4, <1>5 DEF ExistsBijection
<1> QED
  BY <1>3, <1>6, FS_Bijection

(* What Validate lets through does not collide with itself.                 *)
LEMMA ValidIsFree ==
    ASSUME NEW c, Complete(c), Validate(c)
    PROVE  NoSelfConflict(c)
<1> DEFINE n == Len(c.devices)
           mesh == IF c.mesh > 0 THEN {c.mesh} ELSE {}
<1>1. /\ IsFiniteSet(EnginePorts(c)) /\ Cardinality(EnginePorts(c)) = n
      /\ Cardinality(Cards(c)) = n
  BY OneEach DEF Validate
<1>2. c.mesh \in Int /\ c.port \in Int /\ n \in Nat
  BY Fields
<1>3. /\ IsFiniteSet(EnginePorts(c) \cup mesh)
      /\ Cardinality(EnginePorts(c) \cup mesh) = (IF c.mesh > 0 THEN n + 1 ELSE n)
  <2>1. CASE c.mesh > 0
    <3>1. c.mesh \notin EnginePorts(c)
      BY <2>1, <1>2 DEF Validate
    <3> QED
      BY <2>1, <3>1, <1>1, <1>2, FS_AddElement
  <2>2. CASE ~(c.mesh > 0)
    BY <2>2, <1>1
  <2> QED
    BY <2>1, <2>2
<1>4. c.port \notin EnginePorts(c) \cup mesh
  BY <1>2 DEF Validate
<1>5. Sockets(c) = (EnginePorts(c) \cup mesh) \cup {c.port}
  BY DEF Sockets
<1>6. Cardinality(Sockets(c)) = (IF c.mesh > 0 THEN n + 1 ELSE n) + 1
  BY <1>2, <1>3, <1>4, <1>5, FS_AddElement
<1> HIDE DEF n, mesh
<1>7. Cardinality(Sockets(c)) = (IF c.mesh > 0 THEN 2 ELSE 1) + n
  BY <1>2, <1>6
<1> QED
  BY <1>1, <1>7 DEF NoSelfConflict, n
-----------------------------------------------------------------------------
HeardInv == \A p \in Others \cap Instances : heard[p] = Unheard \/ heard[p].model \in Models

HasModel == \A i \in Instances : proc[i] # "down" => conf[i].model \in Models

HostInv ==
    /\ HasModel
    /\ TypeOK /\ ConfigIsSound /\ ChargedToThisHost
    /\ DOMAIN proc = Instances /\ DOMAIN conf = Instances /\ DOMAIN asked = Instances

LEMMA InitHost == Init => HostInv
<1> SUFFICES ASSUME Init PROVE HostInv
  OBVIOUS
<1>1. TypeOK
  BY NothingIsComplete DEF Init, TypeOK, Complete
<1>2. DOMAIN labels = {}
  BY DEF Init
<1> QED
  BY <1>1, <1>2 DEF Init, HostInv, HasModel, ConfigIsSound, ChargedToThisHost

(* A node is started on what both validations let through.                  *)
LEMMA BootKeepsHost ==
    ASSUME HostInv, NEW i \in Instances, Boot(i)
    PROVE  HostInv'
<1> PICK file \in Files, given \in Overrides :
        LET result == ApplyOverrides(Load(file), given)
        IN  Validate(result) /\ Start(i, given, result)
  BY DEF Boot
<1> DEFINE result == ApplyOverrides(Load(file), given)
<1>1. Complete(Load(file)) /\ Load(file).ceiling # 0
  BY ConfigsAssumption, DefaultsComplete DEF Complete, Load
<1>2. /\ Complete(result) /\ result.ceiling # 0
      /\ \A key \in DOMAIN given : result[key] = given[key]
  BY <1>1, OverriddenComplete
<1>3. NoSelfConflict(result) /\ result.model \in Models
  BY <1>2, ValidIsFree, Fields DEF Validate
<1>4. Start(i, given, result)
  OBVIOUS
<1> HIDE DEF result
<1>5. /\ proc' = [proc EXCEPT ![i] = "up"]
      /\ conf' = [conf EXCEPT ![i] = result] /\ asked' = [asked EXCEPT ![i] = given]
      /\ cancelled' = [cancelled EXCEPT ![i] = FALSE]
      /\ page' = [page EXCEPT ![i] = IF result.mesh > 0 THEN "asking" ELSE "off"]
      /\ heard' = (IF i = Recorder THEN [p \in Others |-> Unheard] ELSE heard)
      /\ labels' = (IF i = Recorder THEN <<>> ELSE labels)
      /\ listens' = listens /\ foreign' = foreign /\ proc[i] = "down"
  BY <1>4 DEF Start
<1>6. TypeOK'
  <2>1. \A j \in Instances : /\ Complete(conf[j])'
                             /\ (proc[j] = "down" => conf[j] = NoConf)'
                             /\ (listens[j] => proc[j] = "up")'
                             /\ (page[j] # "off" => conf[j].mesh > 0)'
    BY <1>2, <1>5 DEF HostInv, TypeOK, Complete
  <2>2. HeardInv'
    BY <1>5 DEF HostInv, TypeOK, HeardInv
  <2> QED
    BY <2>1, <2>2, <1>5 DEF HostInv, TypeOK, Complete, HeardInv
<1>7. ConfigIsSound'
  BY <1>2, <1>3, <1>5 DEF HostInv, ConfigIsSound, OverridesWin
<1>8. ChargedToThisHost'
  <2>1. CASE i = Recorder
    BY <2>1, <1>5 DEF ChargedToThisHost
  <2>2. CASE i # Recorder
    BY <2>2, <1>5, RecorderAssumption DEF HostInv, ChargedToThisHost
  <2> QED
    BY <2>1, <2>2
<1>9. HasModel'
  BY <1>3, <1>5 DEF HostInv, HasModel
<1> QED
  BY <1>5, <1>6, <1>7, <1>8, <1>9 DEF HostInv

(* Nothing is left of a process that has ended but the recorder's labels.   *)
LEMMA GoneKeepsHost ==
    ASSUME HostInv, NEW i \in Instances, Gone(i)
    PROVE  HostInv'
<1>1. TypeOK'
  <2>1. \A j \in Instances : /\ Complete(conf[j])'
                             /\ (proc[j] = "down" => conf[j] = NoConf)'
                             /\ (listens[j] => proc[j] = "up")'
                             /\ (page[j] # "off" => conf[j].mesh > 0)'
    BY NothingIsComplete DEF HostInv, TypeOK, Complete, Gone
  <2> QED
    BY <2>1 DEF HostInv, TypeOK, Complete, Gone, viewVars
<1>2. ConfigIsSound'
  BY DEF HostInv, ConfigIsSound, OverridesWin, Gone
<1>3. ChargedToThisHost'
  BY RecorderAssumption DEF HostInv, ChargedToThisHost, Gone, viewVars
<1>4. HasModel'
  BY DEF HostInv, HasModel, Gone
<1> QED
  BY <1>1, <1>2, <1>3, <1>4 DEF HostInv, Gone

(* What a node does with its configuration leaves it as it is.              *)
LEMMA SocketsKeepHost ==
    ASSUME HostInv, NEW i \in Instances,
           Listen(i) \/ ListenFails(i) \/ Signal(i) \/ Drain(i) \/ PageStep(i) \/ ServeFails(i)
    PROVE  HostInv'
<1>1. /\ conf' = conf /\ asked' = asked /\ heard' = heard /\ labels' = labels
      /\ foreign' = foreign /\ DOMAIN proc' = Instances
      /\ \A j \in Instances : proc'[j] = "down" <=> proc[j] = "down"
  BY DEF HostInv, TypeOK, Listen, ListenFails, Signal, Drain, PageStep, Win, Lose, Retry,
         StopServing, ServeFails, SetPage, procVars, viewVars
<1>2. TypeOK'
  <2>1. CASE Listen(i)
    BY <2>1 DEF HostInv, TypeOK, Listen, procVars, viewVars
  <2>2. CASE ListenFails(i)
    BY <2>2 DEF HostInv, TypeOK, ListenFails, viewVars
  <2>3. CASE Signal(i)
    BY <2>3 DEF HostInv, TypeOK, Signal, viewVars
  <2>4. CASE Drain(i)
    BY <2>4 DEF HostInv, TypeOK, Drain, viewVars
  <2>5. CASE PageStep(i) \/ ServeFails(i)
    <3>1. PICK where \in {"off", "asking", "waiting", "serving"} :
            SetPage(i, where) /\ page[i] # "off"
      BY <2>5 DEF PageStep, Win, Lose, Retry, StopServing, ServeFails
    <3> QED
      BY <3>1 DEF HostInv, TypeOK, SetPage, procVars, viewVars
  <2> QED
    BY <2>1, <2>2, <2>3, <2>4, <2>5
<1>3. ConfigIsSound'
  BY <1>1 DEF HostInv, ConfigIsSound, OverridesWin
<1>4. ChargedToThisHost'
  BY <1>1, RecorderAssumption DEF HostInv, ChargedToThisHost
<1>5. HasModel'
  BY <1>1 DEF HostInv, HasModel
<1> QED
  BY <1>1, <1>2, <1>3, <1>4, <1>5 DEF HostInv

(* A neighbour is heard of with its own model, or with nothing.             *)
LEMMA PollKeepsHost ==
    ASSUME HostInv, NEW p \in Others, Poll(p)
    PROVE  HostInv'
<1>1. UNCHANGED <<procVars, listens, page, foreign, labels>>
  BY DEF Poll, Hear, MarkUnreachable
<1>2. HeardInv'
  <2>1. CASE Hear(p)
    <3>1. PICK report \in Reports(p) : heard' = [heard EXCEPT ![p] = report]
      BY <2>1 DEF Hear
    <3>2. p \in Instances => report.model \in Models
      <4>1. SUFFICES ASSUME p \in Instances PROVE report.model \in Models
        OBVIOUS
      <4>2. listens[p] /\ report = [model |-> conf[p].model, cards |-> Cards(conf[p])]
        BY <3>1, <4>1, RecorderAssumption DEF Reports
      <4> QED
        BY <4>1, <4>2 DEF HostInv, HasModel, TypeOK
    <3> QED
      BY <3>1, <3>2 DEF HostInv, TypeOK, HeardInv
  <2>2. CASE MarkUnreachable(p)
    BY <2>2 DEF MarkUnreachable, HostInv, TypeOK, HeardInv
  <2> QED
    BY <2>1, <2>2 DEF Poll
<1>3. TypeOK'
  BY <1>1, <1>2 DEF HostInv, TypeOK, HeardInv, procVars
<1>4. ConfigIsSound' /\ ChargedToThisHost'
  BY <1>1, RecorderAssumption DEF HostInv, ConfigIsSound, OverridesWin, ChargedToThisHost, procVars
<1> QED
  BY <1>1, <1>3, <1>4 DEF HostInv, HasModel, procVars

(* The recorder's labels are its own model on its own cards, and the model  *)
(* of a neighbour on this host on the cards that one claims.                *)
LEMMA RecordKeepsHost ==
    ASSUME HostInv, Record
    PROVE  HostInv'
<1>1. UNCHANGED <<procVars, listens, page, foreign, heard>> /\ labels' \in GPUModels
  BY DEF Record
<1>2. proc[Recorder] # "down"
  BY DEF Record
<1>3. ChargedToThisHost'
  <2> SUFFICES ASSUME NEW c \in DOMAIN labels'
               PROVE  /\ labels'[c] \in Models
                      /\ c \in Cards(conf[Recorder]) => labels'[c] = conf[Recorder].model
    BY <1>1 DEF ChargedToThisHost, procVars
  <2>1. IF c \in Cards(conf[Recorder]) THEN labels'[c] = conf[Recorder].model
        ELSE \E p \in Others \cap Instances :
                c \in heard[p].cards /\ labels'[c] = heard[p].model
    BY <1>1 DEF GPUModels, ModelsOf
  <2>2. conf[Recorder].model \in Models
    BY <1>2, RecorderAssumption DEF HostInv, HasModel
  <2>3. \A p \in Others \cap Instances : c \in heard[p].cards => heard[p].model \in Models
    BY DEF HostInv, TypeOK, Unheard
  <2> QED
    BY <2>1, <2>2, <2>3
<1>4. TypeOK' /\ ConfigIsSound' /\ HasModel'
  BY <1>1 DEF HostInv, TypeOK, ConfigIsSound, OverridesWin, HasModel, procVars
<1> QED
  BY <1>1, <1>3, <1>4 DEF HostInv, procVars

LEMMA HostStep == HostInv /\ [Next]_vars => HostInv'
<1> SUFFICES ASSUME HostInv, [Next]_vars PROVE HostInv'
  OBVIOUS
<1>1. ASSUME NEW i \in Instances, Boot(i) PROVE HostInv'
  BY <1>1, BootKeepsHost
<1>2. ASSUME NEW i \in Instances, Exit(i) \/ Crash(i) PROVE HostInv'
  BY <1>2, GoneKeepsHost DEF Exit, Crash
<1>3. ASSUME NEW i \in Instances,
             Listen(i) \/ ListenFails(i) \/ Signal(i) \/ Drain(i) \/ PageStep(i) \/ ServeFails(i)
      PROVE  HostInv'
  BY <1>3, SocketsKeepHost
<1>4. ASSUME NEW p \in Others, Poll(p) PROVE HostInv'
  BY <1>4, PollKeepsHost
<1>5. CASE Record
  BY <1>5, RecordKeepsHost
<1>6. CASE ForeignSocket
  BY <1>6 DEF ForeignSocket, HostInv, TypeOK, ConfigIsSound, OverridesWin, HasModel,
              ChargedToThisHost, procVars, viewVars
<1>7. CASE UNCHANGED vars
  BY <1>7 DEF vars, HostInv, TypeOK, ConfigIsSound, OverridesWin, HasModel,
              ChargedToThisHost, procVars, viewVars
<1> QED
  BY <1>1, <1>2, <1>3, <1>4, <1>5, <1>6, <1>7 DEF Next, MainStep

LEMMA HostInvariant == Spec => []HostInv
BY InitHost, HostStep, PTL DEF Spec

-----------------------------------------------------------------------------
(* Every variable of Host keeps its type; a node that is up has a complete  *)
(* configuration, and serves no page its configuration disables.            *)
THEOREM HostTyped == Spec => []TypeOK
<1>1. HostInv => TypeOK
  BY DEF HostInv
<1> QED
  BY <1>1, HostInvariant, PTL

(* For any files and command lines: a node that main starts (main.go:52-64) *)
(* runs without ports or cards in conflict, as its command line says, and   *)
(* with a ceiling.                                                          *)
THEOREM NodesRunSoundly == Spec => []ConfigIsSound
<1>1. HostInv => ConfigIsSound
  BY DEF HostInv
<1> QED
  BY <1>1, HostInvariant, PTL

(* For any neighbours, near and far, and however stale their statuses: what *)
(* Registry.GPUModels gives the recorder are models of this host.           *)
THEOREM EnergyStaysHere == Spec => []ChargedToThisHost
<1>1. HostInv => ChargedToThisHost
  BY DEF HostInv
<1> QED
  BY <1>1, HostInvariant, PTL
=============================================================================
