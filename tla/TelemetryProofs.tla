--------------------------- MODULE TelemetryProofs --------------------------
(***************************************************************************)
(* What the deadband of a published figure guarantees, for any memory size,  *)
(* any number of buckets and whatever was published before; and the safety   *)
(* of the sums, for any cards, viewers and number of samplings.              *)
(***************************************************************************)
EXTENDS Telemetry, TLAPS

LEMMA StepType == Step \in Nat
BY HostMemAssumption DEF Step

(* A boundary is a multiple of the step; one is at most a step below the    *)
(* reading it is taken of.                                                  *)
LEMMA Boundary ==
    ASSUME NEW s \in Nat \ {0}, NEW used \in Nat
    PROVE  /\ used \div s \in Nat
           /\ (used \div s) * s \in Nat
           /\ (used \div s) * s <= used
           /\ used < (used \div s) * s + s
<1>1. used \div s \in Nat
  OBVIOUS
<1>2. (used \div s) * s <= used
  OBVIOUS
<1>3. used < (used \div s) * s + s
  OBVIOUS
<1>4. (used \div s) * s \in Nat
  BY <1>1
<1> QED
  BY <1>1, <1>2, <1>3, <1>4

LEMMA NextBoundary ==
    ASSUME NEW s \in Nat \ {0}, NEW p \in Nat, NEW q \in Nat,
           p * s < q * s, q * s < p * s + 2 * s
    PROVE  q * s = p * s + s
<1>1. CASE q <= p
  BY <1>1
<1>2. CASE q >= p + 2
  BY <1>2
<1>3. CASE q = p + 1
  BY <1>3
<1> QED
  BY <1>1, <1>2, <1>3

-----------------------------------------------------------------------------
(* The published figure, by cases.                                          *)
LEMMA Coarse ==
    ASSUME NEW prev \in Int, NEW used \in Used, Step # 0
    PROVE  /\ CoarsenHostMem(prev, used) \in Int
           /\ Apart(CoarsenHostMem(prev, used), used) < Step
           /\ \/ /\ prev # 0 /\ Apart(used, prev) < Step
                 /\ CoarsenHostMem(prev, used) = prev
              \/ /\ prev = 0 \/ ~(Apart(used, prev) < Step)
                 /\ CoarsenHostMem(prev, used) = (used \div Step) * Step
<1>1. Step \in Nat \ {0} /\ used \in Nat
  BY StepType, HostMemAssumption DEF Used
<1>2. /\ (used \div Step) * Step \in Nat
      /\ (used \div Step) * Step <= used
      /\ used < (used \div Step) * Step + Step
  BY <1>1, Boundary
<1>3. CASE prev # 0 /\ Apart(used, prev) < Step
  BY <1>1, <1>3 DEF CoarsenHostMem, Apart
<1>4. CASE prev = 0 \/ ~(Apart(used, prev) < Step)
  <2>1. CoarsenHostMem(prev, used) = (used \div Step) * Step
    BY <1>1, <1>4 DEF CoarsenHostMem
  <2>2. Apart((used \div Step) * Step, used) < Step
    BY <1>1, <1>2 DEF Apart
  <2> QED
    BY <1>2, <1>4, <2>1, <2>2
<1> QED
  BY <1>3, <1>4

MemInt == lastMem \in Int

LEMMA MemType == SnapshotSpec => []MemInt
<1> USE DEF MemInt
<1>1. MemInit => MemInt
  BY DEF MemInit
<1>2. MemInt /\ [SnapshotNext]_lastMem => MemInt'
  <2> SUFFICES ASSUME lastMem \in Int, NEW used \in Used, PushSnapshot(used)
               PROVE  lastMem' \in Int
    BY DEF SnapshotNext
  <2>1. CASE Step # 0
    BY <2>1, Coarse DEF PushSnapshot
  <2>2. CASE Step = 0
    BY <2>2, HostMemAssumption DEF PushSnapshot, CoarsenHostMem, Used
  <2> QED
    BY <2>1, <2>2
<1> HIDE DEF MemInt
<1> QED
  BY <1>1, <1>2, PTL DEF SnapshotSpec

(* A published figure is less than a step from the reading.                 *)
THEOREM MemIsClose == SnapshotSpec => []HostMemIsClose
<1>1. MemInt => HostMemIsClose
  <2> SUFFICES ASSUME lastMem \in Int, NEW used \in Used
               PROVE  CoarsenHostMem(lastMem, used) = used
                      \/ Apart(CoarsenHostMem(lastMem, used), used) < Step
    BY DEF HostMemIsClose, MemInt
  <2>1. CASE Step # 0
    BY <2>1, Coarse
  <2>2. CASE Step = 0
    BY <2>2 DEF CoarsenHostMem
  <2> QED
    BY <2>1, <2>2
<1> QED
  BY <1>1, MemType, PTL

(* A second change can only be upwards, to the next boundary: for the       *)
(* figure to fall, the reading would have to lie a step below one that was  *)
(* above it.  Every other reading is then within a step of that boundary.   *)
THEOREM MemSettles == SnapshotSpec => []NoiseSettles
<1>1. MemInt => NoiseSettles
  <2> SUFFICES ASSUME lastMem \in Int,
                      NEW a \in Used, NEW b \in Near(a), NEW c \in Near(a) \cap Near(b),
                      NEW d \in Near(a) \cap Near(b) \cap Near(c)
               PROVE  LET first  == CoarsenHostMem(lastMem, a)
                          second == CoarsenHostMem(first, b)
                          third  == CoarsenHostMem(second, c)
                      IN  second # first /\ third # second =>
                            CoarsenHostMem(third, d) = third
    BY DEF NoiseSettles, MemInt
  <2> DEFINE first  == CoarsenHostMem(lastMem, a)
             second == CoarsenHostMem(first, b)
             third  == CoarsenHostMem(second, c)
  <2>1. /\ a \in Nat /\ b \in Used /\ b \in Nat /\ c \in Used /\ c \in Nat
        /\ d \in Used /\ d \in Nat
        /\ Apart(b, c) < Step /\ Apart(b, d) < Step /\ Apart(c, d) < Step
    BY HostMemAssumption DEF Near, Used
  <2>2. Step \in Nat \ {0}
    BY <2>1, StepType DEF Apart
  <2>3. first \in Int
    BY <2>2, Coarse
  <2>4. second \in Int /\ third \in Int
    BY <2>1, <2>2, <2>3, Coarse
  <2> SUFFICES ASSUME second # first, third # second
               PROVE  CoarsenHostMem(third, d) = third
    OBVIOUS
  <2>5. second = (b \div Step) * Step
    BY <2>1, <2>2, <2>3, Coarse
  <2>6. third = (c \div Step) * Step
        /\ (second = 0 \/ ~(Apart(c, second) < Step))
    BY <2>1, <2>2, <2>4, Coarse
  <2>7. /\ second \in Nat /\ second <= b /\ b < second + Step
        /\ third \in Nat /\ third <= c /\ c < third + Step
        /\ b \div Step \in Nat /\ c \div Step \in Nat
    BY <2>1, <2>2, <2>5, <2>6, Boundary
  <2> HIDE DEF first, second, third
  <2>8. second < third /\ third < second + 2 * Step
    BY <2>1, <2>2, <2>6, <2>7 DEF Apart
  <2>9. third = second + Step
    BY <2>2, <2>5, <2>6, <2>7, <2>8, NextBoundary
  <2>10. third # 0 /\ Apart(d, third) < Step
    BY <2>1, <2>2, <2>7, <2>9 DEF Apart
  <2> QED
    BY <2>1, <2>2, <2>4, <2>10, Coarse
<1> QED
  BY <1>1, MemType, PTL

-----------------------------------------------------------------------------
(* Telemetry.  Between samplings every card is as new as the last sampling  *)
(* that reported it; while Add runs, all but those it has yet to write.     *)
Types ==
    /\ available \in BOOLEAN /\ powerAvailable \in BOOLEAN
    /\ sampler \in {"idle", "adding", "publishing"}
    /\ reported \in Seq(Samplings) /\ Len(reported) <= MaxSamples
    /\ series \in Latest /\ node \in Latest /\ shares \in Latest
    /\ adding \subseteq Cards /\ offering \subseteq Viewers /\ subs \subseteq Viewers
    /\ channel \in [Viewers -> Seq(Nat)]
    /\ \A v \in Viewers : Len(channel[v]) <= ChanCap
    /\ reader \in {"idle", "summed", "vouched", "recorded"} /\ vouched \in BOOLEAN

Locks ==
    /\ adding # {} => sampler = "adding"
    /\ offering # {} => sampler = "publishing"
    /\ offering \subseteq subs

Fresh ==
    /\ \A c \in Cards : /\ series[c] <= Len(reported)
                       /\ node[c] <= Len(reported) /\ shares[c] <= Len(reported)
    /\ \A k \in DOMAIN reported, c \in Cards :
        reported[k][c] # "absent" /\ (k < Len(reported) \/ c \notin adding)
            => series[c] >= k

TInv == Types /\ Locks /\ Fresh /\ NotTorn

LEMMA TelemetryInit == Init => TInv
<1> SUFFICES ASSUME Init PROVE TInv
  OBVIOUS
<1> USE DEF Init, Nothing
<1>1. reported = <<>> /\ Len(reported) = 0 /\ DOMAIN reported = {}
      /\ reported \in Seq(Samplings)
  OBVIOUS
<1>2. Nothing \in Latest
  BY LimitsAssumption DEF Latest
<1>3. Types
  <2>1. channel \in [Viewers -> Seq(Nat)] /\ \A v \in Viewers : Len(channel[v]) = 0
    OBVIOUS
  <2>2. Len(reported) <= MaxSamples /\ \A v \in Viewers : Len(channel[v]) <= ChanCap
    BY <1>1, <2>1, LimitsAssumption
  <2>3. node = Nothing /\ shares = Nothing /\ series = Nothing
    OBVIOUS
  <2> HIDE DEF Nothing
  <2> QED
    BY <1>1, <1>2, <2>1, <2>2, <2>3 DEF Types
<1>4. Locks
  BY DEF Locks
<1>5. Fresh /\ NotTorn
  BY <1>1 DEF Fresh, NotTorn
<1> QED
  BY <1>3, <1>4, <1>5 DEF TInv

LEMMA CollectStep == TInv /\ Collect => TInv'
<1> SUFFICES ASSUME TInv, Collect PROVE TInv'
  OBVIOUS
<1> USE DEF TInv, viewerVars, readerVars
<1>1. PICK out \in Samplings :
        reported' = Append(reported, out)
        /\ adding' = {c \in Cards : out[c] # "absent"}
  BY DEF Collect
<1>2. /\ Len(reported') = Len(reported) + 1 /\ reported' \in Seq(Samplings)
      /\ Len(reported) \in Nat /\ DOMAIN reported = 1 .. Len(reported)
      /\ DOMAIN reported' = 1 .. Len(reported) + 1
      /\ \A k \in DOMAIN reported : reported'[k] = reported[k]
      /\ reported'[Len(reported) + 1] = out
  BY <1>1 DEF Types
<1>3. Types'
  BY <1>1, <1>2, LimitsAssumption DEF Collect, Types
<1>4. Locks'
  BY <1>1 DEF Collect, Locks
<1>5. Fresh'
  <2>1. series' = series /\ node' = node /\ shares' = shares /\ adding = {}
    BY DEF Collect, Locks
  <2>2. \A c \in Cards : series[c] \in Nat /\ node[c] \in Nat /\ shares[c] \in Nat
    BY LimitsAssumption DEF Types, Latest
  <2> QED
    BY <1>1, <1>2, <2>1, <2>2 DEF Fresh
<1>6. NotTorn'
  <2>1. node' = node /\ shares' = shares
    BY DEF Collect
  <2>2. \A c \in Cards : node[c] \in Nat /\ shares[c] \in Nat
    BY LimitsAssumption DEF Types, Latest
  <2> QED
    BY <1>2, <2>1, <2>2 DEF NotTorn, Fresh
<1> QED
  BY <1>3, <1>4, <1>5, <1>6

LEMMA SamplerSteps == TInv /\ SamplerStep => TInv'
<1> SUFFICES ASSUME TInv, SamplerStep PROVE TInv'
  OBVIOUS
<1> USE DEF TInv, viewerVars, readerVars, samplerVars
<1>1. Len(reported) \in Nat /\ DOMAIN reported = 1 .. Len(reported)
  BY DEF Types
<1>2. ASSUME NEW c \in Cards, Add(c) PROVE TInv'
  <2>1. Types' /\ Locks' /\ NotTorn'
    BY <1>1, <1>2, LimitsAssumption
       DEF Add, Types, Locks, NotTorn, Latest
  <2>2. Fresh'
    BY <1>1, <1>2, LimitsAssumption DEF Add, Types, Latest, Fresh
  <2> QED
    BY <2>1, <2>2
<1>3. CASE Publish
  BY <1>3 DEF Publish, Types, Locks, Fresh, NotTorn
<1>4. CASE PublishReturns
  BY <1>4 DEF PublishReturns, Types, Locks, Fresh, NotTorn
<1>5. ASSUME NEW v \in Viewers, Offer(v) PROVE TInv'
  <2>1. Types'
    BY <1>1, <1>5, LimitsAssumption DEF Offer, Types
  <2>2. Locks' /\ Fresh' /\ NotTorn'
    BY <1>5 DEF Offer, Locks, Fresh, NotTorn
  <2> QED
    BY <2>1, <2>2
<1> QED
  BY <1>2, <1>3, <1>4, <1>5 DEF SamplerStep

LEMMA ViewerSteps ==
    ASSUME TInv, NEW v \in Viewers, ViewerStep(v)
    PROVE  TInv'
<1> USE DEF TInv, samplerVars, readerVars
<1>1. CASE Subscribe(v)
  BY <1>1 DEF Subscribe, Unlocked, Types, Locks, Fresh, NotTorn
<1>2. CASE Deliver(v)
  <2>1. Types'
    BY <1>2, LimitsAssumption DEF Deliver, Types
  <2> QED
    BY <1>2, <2>1 DEF Deliver, Locks, Fresh, NotTorn
<1>3. CASE Unsubscribe(v)
  <2>1. Types'
    BY <1>3, LimitsAssumption DEF Unsubscribe, Types
  <2> QED
    BY <1>3, <2>1 DEF Unsubscribe, Unlocked, Locks, Fresh, NotTorn
<1> QED
  BY <1>1, <1>2, <1>3 DEF ViewerStep

LEMMA ReaderSteps == TInv /\ ReaderStep => TInv'
<1> SUFFICES ASSUME TInv, ReaderStep PROVE TInv'
  OBVIOUS
<1> USE DEF TInv, samplerVars, viewerVars
<1>1. /\ Len(reported) \in Nat /\ DOMAIN reported = 1 .. Len(reported)
      /\ Nothing \in Latest /\ \A c \in Cards : Nothing[c] = 0
      /\ \A c \in Cards : series[c] \in Nat
  BY LimitsAssumption DEF Types, Latest, Nothing
<1>2. CASE ReadWatts
  <2>1. Types' /\ Locks'
    BY <1>1, <1>2 DEF ReadWatts, Types, Locks
  <2>2. Fresh' /\ NotTorn'
    BY <1>1, <1>2 DEF ReadWatts, Fresh, NotTorn
  <2> QED
    BY <2>1, <2>2
<1>3. CASE ReadAvailable
  BY <1>3 DEF ReadAvailable, Types, Locks, Fresh, NotTorn
<1>4. CASE StatusSent
  BY <1>4 DEF StatusSent, Types, Locks, Fresh, NotTorn
<1>5. CASE Readings
  <2>1. Types' /\ Locks'
    BY <1>5 DEF Readings, Types, Locks
  <2>2. Fresh' /\ NotTorn'
    BY <1>1, <1>5 DEF Readings, Fresh, NotTorn
  <2> QED
    BY <2>1, <2>2
<1> QED
  BY <1>2, <1>3, <1>4, <1>5 DEF ReaderStep

LEMMA TelemetryStep == TInv /\ [Next]_vars => TInv'
<1> SUFFICES ASSUME TInv, [Next]_vars PROVE TInv'
  OBVIOUS
<1>1. ASSUME UNCHANGED <<samplerVars, viewerVars, readerVars>> PROVE TInv'
  BY <1>1 DEF TInv, samplerVars, viewerVars, readerVars, Types, Locks, Fresh,
     NotTorn
<1> QED
  BY <1>1, CollectStep, SamplerSteps, ViewerSteps, ReaderSteps DEF Next, Snap, vars

LEMMA TelemetrySafe == Spec => []TInv
<1>1. Init /\ [][Next]_vars => []TInv
  BY TelemetryInit, TelemetryStep, PTL
<1> QED
  BY <1>1, PTL DEF Spec

(* Every variable has its type.                                             *)
THEOREM TelemetryTyped == Spec => []TypeOK
<1>1. TInv => TypeOK
  BY DEF TInv, Types, TypeOK
<1> QED
  BY <1>1, TelemetrySafe, PTL

(* No viewer that leaves is sent to.                                        *)
THEOREM NeverOnClosed == Spec => []NoSendOnClosed
<1>1. TInv => NoSendOnClosed
  BY DEF TInv, Locks, NoSendOnClosed
<1> QED
  BY <1>1, TelemetrySafe, PTL

(* What is summed is of one instant.                                        *)
THEOREM SumsAreOfOneInstant == Spec => []NotTorn
<1>1. TInv => NotTorn
  BY DEF TInv
<1> QED
  BY <1>1, TelemetrySafe, PTL
=============================================================================
