------------------------------ MODULE Telemetry -----------------------------
(***************************************************************************)
(* The figures of the cards: StatCollector samples nvidia-smi into History   *)
(* and through Broadcaster to the viewers, while status documents and the    *)
(* energy recorder read the sums.  Snapshot's host memory rides along.       *)
(*                                                                          *)
(* A sample is named by the number of the sampling it is of.  History is     *)
(* written card by card under its lock, and the broadcaster sends to one     *)
(* viewer after the other under its read lock, so both are split here, with  *)
(* the lock in the guards of those who would wait for it.                    *)
(***************************************************************************)
EXTENDS Snapshot, Sequences, FiniteSets

CONSTANTS
    Cards,
    Viewers,    \* connections to the GPU stream
    ChanCap,    \* of a viewer's channel, 8 in the code
    MaxSamples  \* bound of the model: samplings that report something

ASSUME LimitsAssumption == ChanCap \in Nat /\ MaxSamples \in Nat

VARIABLES
    available,      \* StatCollector.available: nvidia-smi answered at the start
    powerAvailable, \* StatCollector.powerAvailable
    sampler,        \* where the collector's goroutine is: idle, adding, publishing
    reported,       \* what each sampling said of each card so far
    series,         \* the last sampling in History of each card, 0 for none
    adding,         \* the cards Add has still to write, under History's lock
    offering,       \* the viewers Publish has still to send to, under its read lock
    subs,           \* Broadcaster.subs
    channel,        \* of each viewer
    reader,         \* where a reader of the sums is
    node,           \* the samplings that NodeWatts summed
    vouched,        \* the Available it read after them
    shares          \* the samplings in the readings of the recorder

samplerVars == <<available, powerAvailable, sampler, reported, series, adding>>
viewerVars == <<offering, subs, channel>>
readerVars == <<reader, node, vouched, shares>>
vars == <<samplerVars, viewerVars, readerVars, lastMem>>

(* A card missing from the output, one whose power is [N/A], and one with a *)
(* wattage.                                                                  *)
Outcomes == {"absent", "silent", "measured"}
Nothing == [c \in Cards |-> 0]
Samplings == {out \in [Cards -> Outcomes] : \E c \in Cards : out[c] # "absent"}

(* newStatCollector: the first set of arguments may fail on a driver that   *)
(* does not know power.draw, the second leaves it out.                      *)
Init ==
    /\ available \in BOOLEAN /\ powerAvailable \in BOOLEAN
    /\ powerAvailable => available
    /\ sampler = "idle" /\ reported = <<>> /\ adding = {} /\ series = Nothing
    /\ offering = {} /\ subs = {} /\ channel = [v \in Viewers |-> <<>>]
    /\ reader = "idle" /\ vouched = FALSE /\ node = Nothing /\ shares = Nothing
    /\ MemInit

-----------------------------------------------------------------------------
(* Collect.  A call that fails, or prints nothing that can be parsed,       *)
(* changes nothing.                                                         *)
Collect ==
    /\ available /\ sampler = "idle" /\ Len(reported) < MaxSamples
    /\ \E out \in Samplings :
        /\ reported' = Append(reported, out)
        /\ adding' = {c \in Cards : out[c] # "absent"}
    /\ sampler' = "adding"
    /\ UNCHANGED <<available, powerAvailable, series, viewerVars, readerVars,
                   lastMem>>

(* History.Add *)
Add(c) ==
    /\ c \in adding
    /\ series' = [series EXCEPT ![c] = Len(reported)]
    /\ adding' = adding \ {c}
    /\ UNCHANGED <<available, powerAvailable, sampler, reported, viewerVars,
                   readerVars, lastMem>>

(* Broadcaster.Publish, to its unlock                                       *)
Publish ==
    /\ sampler = "adding" /\ adding = {}
    /\ sampler' = "publishing" /\ offering' = subs
    /\ UNCHANGED <<available, powerAvailable, reported, series, adding, subs,
                   channel, readerVars, lastMem>>

Offer_Blocks(v) ==
    /\ v \in offering /\ Len(channel[v]) < ChanCap
    /\ channel' = [channel EXCEPT ![v] = Append(@, Len(reported))]
    /\ offering' = offering \ {v}
    /\ UNCHANGED <<samplerVars, subs, readerVars, lastMem>>

Offer(v) ==
    /\ v \in offering
    /\ channel' = IF Len(channel[v]) < ChanCap
                  THEN [channel EXCEPT ![v] = Append(@, Len(reported))]
                  ELSE channel
    /\ offering' = offering \ {v}
    /\ UNCHANGED <<samplerVars, subs, readerVars, lastMem>>

PublishReturns ==
    /\ sampler = "publishing" /\ offering = {}
    /\ sampler' = "idle"
    /\ UNCHANGED <<available, powerAvailable, reported, series, adding,
                   viewerVars, readerVars, lastMem>>

SamplerStep ==
    Publish \/ PublishReturns \/ (\E c \in Cards : Add(c)) \/ \E v \in Viewers : Offer(v)

-----------------------------------------------------------------------------
(* handleMetricsStream.  A viewer may leave at any time and may never read. *)
Unlocked == sampler # "publishing"  \* Publish holds no read lock

Subscribe(v) ==
    /\ Unlocked /\ v \notin subs
    /\ subs' = subs \cup {v}
    /\ UNCHANGED <<samplerVars, offering, channel, readerVars, lastMem>>

Deliver(v) ==
    /\ v \in subs /\ channel[v] # <<>>
    /\ channel' = [channel EXCEPT ![v] = Tail(@)]
    /\ UNCHANGED <<samplerVars, offering, subs, readerVars, lastMem>>

(* A viewer that comes back has a channel of its own.                       *)
Unsubscribe_NoLock(v) ==
    /\ v \in subs
    /\ subs' = subs \ {v}
    /\ channel' = [channel EXCEPT ![v] = <<>>]
    /\ UNCHANGED <<samplerVars, offering, readerVars, lastMem>>

Unsubscribe(v) ==
    /\ Unlocked /\ v \in subs
    /\ subs' = subs \ {v}
    /\ channel' = [channel EXCEPT ![v] = <<>>]
    /\ UNCHANGED <<samplerVars, offering, readerVars, lastMem>>

ViewerStep(v) == Subscribe(v) \/ Deliver(v) \/ Unsubscribe(v)

-----------------------------------------------------------------------------
(* Sum.Watts through History.Latest, which waits for a writer.  Both a      *)
(* status document and the recorder's NodeWatts read it and then Available. *)
ReadWatts_NoLock ==
    /\ reader = "idle"
    /\ reader' = "summed" /\ vouched' = FALSE /\ shares' = Nothing
    /\ node' = IF powerAvailable THEN series ELSE Nothing
    /\ UNCHANGED <<samplerVars, viewerVars, lastMem>>

ReadWatts ==
    /\ reader = "idle" /\ adding = {}
    /\ reader' = "summed" /\ vouched' = FALSE /\ shares' = Nothing
    /\ node' = IF powerAvailable THEN series ELSE Nothing
    /\ UNCHANGED <<samplerVars, viewerVars, lastMem>>

ReadAvailable ==
    /\ reader = "summed"
    /\ reader' = "vouched" /\ vouched' = powerAvailable
    /\ UNCHANGED <<samplerVars, viewerVars, node, shares, lastMem>>

(* The status document is complete; the recorder goes on to power.Readings. *)
StatusSent ==
    /\ reader \in {"vouched", "recorded"}
    /\ reader' = "idle"
    /\ UNCHANGED <<samplerVars, viewerVars, node, vouched, shares, lastMem>>

Readings ==
    /\ reader = "vouched" /\ adding = {}
    /\ reader' = "recorded" /\ shares' = series
    /\ UNCHANGED <<samplerVars, viewerVars, node, vouched, lastMem>>

ReaderStep == ReadWatts \/ ReadAvailable \/ StatusSent \/ Readings

-----------------------------------------------------------------------------
Snap == SnapshotNext /\ UNCHANGED <<samplerVars, viewerVars, readerVars>>

Next ==
    Collect \/ SamplerStep \/ (\E v \in Viewers : ViewerStep(v)) \/ ReaderStep \/ Snap

(* The collector's goroutine goes on once it has a sample.  Nothing is      *)
(* assumed of viewers, of readers or of nvidia-smi.                         *)
Spec == Init /\ [][Next]_vars /\ WF_vars(SamplerStep)

-----------------------------------------------------------------------------
Latest == [Cards -> 0 .. MaxSamples]

TypeOK ==
    /\ available \in BOOLEAN /\ powerAvailable \in BOOLEAN
    /\ sampler \in {"idle", "adding", "publishing"}
    /\ \A k \in DOMAIN reported : reported[k] \in Samplings
    /\ Len(reported) <= MaxSamples
    /\ series \in Latest /\ node \in Latest /\ shares \in Latest
    /\ adding \subseteq Cards /\ offering \subseteq Viewers /\ subs \subseteq Viewers
    /\ \A v \in Viewers : Len(channel[v]) <= ChanCap
    /\ reader \in {"idle", "summed", "vouched", "recorded"} /\ vouched \in BOOLEAN

(* A channel that Unsubscribe has closed is never sent to: unlike in        *)
(* activity.Log, the sends are under the lock that closing needs.           *)
NoSendOnClosed == offering \subseteq subs

(* What is summed or divided is the state of all cards at one instant: of   *)
(* two cards that one sampling reports, not one alone is as new as that.    *)
NotTorn ==
    \A read \in {node, shares}, k \in DOMAIN reported, c, d \in Cards :
        reported[k][c] # "absent" /\ reported[k][d] # "absent" =>
            (read[c] >= k <=> read[d] >= k)

Measured(read) ==
    \E c \in Cards : read[c] > 0 /\ reported[read[c]][c] = "measured"

(* "Absent has to stay distinguishable from measured" (power.go:60-62): a   *)
(* sum that nothing was measured for is not published as one.  The code     *)
(* does not keep this, because powerAvailable never changes.                *)
NoConfidentNought ==
    reader = "vouched" /\ vouched /\ node # Nothing => Measured(node)

(* "The readings sum to Sum.Watts by construction" (power.go:98); the code  *)
(* does not keep that either.                                               *)
SharesReconcile == reader = "recorded" /\ vouched => node = shares

(* No viewer, asleep or leaving, holds up the sampling of the cards.        *)
SamplingGoesOn == sampler # "idle" ~> sampler = "idle"
=============================================================================
