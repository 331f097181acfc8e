----------------------------- MODULE ActivityLog -----------------------------
(***************************************************************************)
(* activity.Log and the SSE streams that read it.  Request handlers and     *)
(* health goroutines emit; a stream subscribes, replays the backlog, then   *)
(* forwards its channel until its viewer leaves.                            *)
(*                                                                          *)
(* emit is two parts: under the lock it appends to the ring and copies the  *)
(* set of subscribers; after unlocking it sends to the copy, one channel at *)
(* a time.  A stream can come or go in between.                             *)
(***************************************************************************)
EXTENDS SequencesExt

CONSTANTS
    Handlers,   \* requests: each emits its start and its end
    Monitors,   \* health goroutines: each emits one event
    Streams,    \* connections of dashboards and peers, each used once
    RingMax,    \* activity.event_history
    ChanCap     \* the buffer of a subscriber's channel, 256 in Subscribe

ASSUME RingMaxAssumption == RingMax \in Nat \ {0}
ASSUME ChanCapAssumption == ChanCap \in Nat \ {0}
ASSUME EmittersAssumption == Handlers \cap Monitors = {}

VARIABLES
    ring,       \* Log.ring
    subs,       \* Log.subs
    chan,       \* the buffered events of each stream's channel
    closed,     \* the streams whose channel is closed
    emitted,    \* how many events each emitter has put in the ring
    sending,    \* the event each emitter is sending, <<>> outside emit
    toSend,     \* the subscribers it has still to send to
    aborted,    \* the handlers whose goroutine panicked
    crashed,    \* a panic outside a handler ended the process
    phase,      \* of a stream: off, subscribed, live, gone
    shown,      \* what a viewer saw last of each request
    missed      \* streams that had an event dropped on a full channel

vars == <<ring, subs, chan, closed, emitted, sending, toSend, aborted, crashed,
          phase, shown, missed>>
logVars == <<ring, subs, chan, closed>>
emitVars == <<emitted, sending, toSend, aborted, crashed>>
streamVars == <<phase, shown, missed>>

Emitters == Handlers \cup Monitors

(* A handler's events: meshapi.RequestStarted, then RequestDone or -Aborted.*)
Script(e) == IF e \in Handlers
             THEN <<[src |-> e, kind |-> "started"], [src |-> e, kind |-> "done"]>>
             ELSE <<[src |-> e, kind |-> "note"]>>

Events ==
    [src : Handlers, kind : {"started", "done"}] \cup [src : Monitors, kind : {"note"}]

Init ==
    /\ ring = <<>> /\ subs = {} /\ closed = {}
    /\ chan = [s \in Streams |-> <<>>]
    /\ emitted = [e \in Emitters |-> 0]
    /\ sending = [e \in Emitters |-> <<>>]
    /\ toSend = [e \in Emitters |-> {}]
    /\ aborted = {} /\ crashed = FALSE
    /\ phase = [s \in Streams |-> "off"]
    /\ shown = [s \in Streams |-> [r \in Handlers |-> "nothing"]]
    /\ missed = {}

-----------------------------------------------------------------------------
(* Log.emit, with the lock held *)
Newest_Unbounded(log) == log

Newest(log) ==
    IF Len(log) > RingMax THEN SubSeq(log, Len(log) - RingMax + 1, Len(log))
                          ELSE log

Record(e) ==
    /\ ~crashed /\ e \notin aborted
    /\ sending[e] = <<>> /\ emitted[e] < Len(Script(e))
    /\ LET event == Script(e)[emitted[e] + 1] IN
        /\ ring' = Newest(Append(ring, event))
        /\ sending' = [sending EXCEPT ![e] = <<event>>]
    /\ emitted' = [emitted EXCEPT ![e] = @ + 1]
    /\ toSend' = [toSend EXCEPT ![e] = subs]
    /\ UNCHANGED <<subs, chan, closed, aborted, crashed, streamVars>>

Send_Blocks(e, s) ==
    /\ ~crashed /\ s \in toSend[e] /\ s \notin closed
    /\ Len(chan[s]) < ChanCap
    /\ chan' = [chan EXCEPT ![s] = @ \o sending[e]]
    /\ toSend' = [toSend EXCEPT ![e] = @ \ {s}]
    /\ UNCHANGED <<ring, subs, closed, emitted, sending, aborted, crashed,
                   phase, shown, missed>>

(* and after it: send to a subscriber, or drop the event.                   *)
Send(e, s) ==
    /\ ~crashed /\ s \in toSend[e] /\ s \notin closed
    /\ IF Len(chan[s]) < ChanCap
       THEN /\ chan' = [chan EXCEPT ![s] = @ \o sending[e]]
            /\ missed' = missed
       ELSE /\ chan' = chan
            /\ missed' = missed \cup {s}
    /\ toSend' = [toSend EXCEPT ![e] = @ \ {s}]
    /\ UNCHANGED <<ring, subs, closed, emitted, sending, aborted, crashed,
                   phase, shown>>

(* A send on a closed channel panics.  ServeHTTP recovers it in a handler,  *)
(* whose request ends there; nothing recovers it in a health goroutine.     *)
SendPanics(e, s) ==
    /\ ~crashed /\ s \in toSend[e] /\ s \in closed
    /\ toSend' = [toSend EXCEPT ![e] = {}]
    /\ sending' = [sending EXCEPT ![e] = <<>>]
    /\ IF e \in Handlers
       THEN aborted' = aborted \cup {e} /\ crashed' = crashed
       ELSE aborted' = aborted /\ crashed' = TRUE
    /\ UNCHANGED <<logVars, emitted, streamVars>>

EmitReturns(e) ==
    /\ ~crashed /\ sending[e] # <<>> /\ toSend[e] = {}
    /\ sending' = [sending EXCEPT ![e] = <<>>]
    /\ UNCHANGED <<logVars, emitted, toSend, aborted, crashed, streamVars>>

EmitStep(e) ==
    EmitReturns(e) \/ \E s \in Streams : Send(e, s) \/ SendPanics(e, s)

-----------------------------------------------------------------------------
(* handleActivityStream *)
Subscribe(s) ==
    /\ ~crashed /\ phase[s] = "off"
    /\ subs' = subs \cup {s}
    /\ phase' = [phase EXCEPT ![s] = "subscribed"]
    /\ UNCHANGED <<ring, chan, closed, emitVars, shown, missed>>

(* A viewer opens a row for a request on its start and clears it on its end.*)
Watch(view, event) ==
    IF event.src \in Handlers THEN [view EXCEPT ![event.src] = event.kind] ELSE view

ReplayBacklog(s) ==
    /\ ~crashed /\ phase[s] = "subscribed"
    /\ shown' = [shown EXCEPT ![s] = FoldLeft(Watch, @, ring)]
    /\ phase' = [phase EXCEPT ![s] = "live"]
    /\ UNCHANGED <<logVars, emitVars, missed>>

Forward(s) ==
    /\ ~crashed /\ phase[s] = "live" /\ chan[s] # <<>>
    /\ shown' = [shown EXCEPT ![s] = Watch(@, Head(chan[s]))]
    /\ chan' = [chan EXCEPT ![s] = Tail(@)]
    /\ UNCHANGED <<ring, subs, closed, emitVars, phase, missed>>

(* The viewer is gone: the deferred Unsubscribe closes the channel.         *)
Unsubscribe(s) ==
    /\ ~crashed /\ phase[s] \in {"subscribed", "live"}
    /\ subs' = subs \ {s}
    /\ closed' = closed \cup {s}
    /\ phase' = [phase EXCEPT ![s] = "gone"]
    /\ UNCHANGED <<ring, chan, emitVars, shown, missed>>

SubscribeLate(s) ==
    \/ /\ phase[s] = "off"
       /\ shown' = [shown EXCEPT ![s] = FoldLeft(Watch, @, ring)]
       /\ phase' = [phase EXCEPT ![s] = "subscribed"]
       /\ UNCHANGED <<logVars, emitVars, missed>>
    \/ /\ phase[s] = "subscribed"
       /\ subs' = subs \cup {s}
       /\ phase' = [phase EXCEPT ![s] = "live"]
       /\ UNCHANGED <<ring, chan, closed, emitVars, shown, missed>>

StreamStep_BacklogFirst(s) ==
    (~crashed /\ SubscribeLate(s)) \/ Forward(s) \/ Unsubscribe(s)

StreamStep(s) ==
    Subscribe(s) \/ ReplayBacklog(s) \/ Forward(s) \/ Unsubscribe(s)

Next ==
    \/ \E e \in Emitters : Record(e) \/ EmitStep(e)
    \/ \E s \in Streams : StreamStep(s)

Spec == Init /\ [][Next]_vars

(* A goroutine inside emit keeps running; no viewer need ever read.         *)
FairSpec == Spec /\ \A e \in Emitters : WF_vars(EmitStep(e))

-----------------------------------------------------------------------------
(* Every variable has its type; the ring and the channels keep their bounds.*)
TypeOK ==
    /\ ring \in Seq(Events) /\ Len(ring) <= RingMax
    /\ subs \subseteq Streams /\ closed \subseteq Streams /\ missed \subseteq Streams
    /\ chan \in [Streams -> Seq(Events)] /\ \A s \in Streams : Len(chan[s]) <= ChanCap
    /\ emitted \in [Emitters -> 0 .. 2]
    /\ sending \in [Emitters -> {<<>>} \cup {<<event>> : event \in Events}]
    /\ toSend \in [Emitters -> SUBSET Streams]
    /\ aborted \subseteq Handlers /\ crashed \in BOOLEAN
    /\ phase \in [Streams -> {"off", "subscribed", "live", "gone"}]
    /\ shown \in [Streams -> [Handlers -> {"nothing", "started", "done"}]]

Delivered(e) ==
    emitted[e] = Len(Script(e)) /\ sending[e] = <<>> /\ e \notin aborted

(* A viewer that has caught up and had nothing dropped shows no row of a    *)
(* request that is over, however the replay of the backlog, the live        *)
(* events, the ring's evictions and the emitter's late sends interleave     *)
(* (activity.go:49-51, meshactivity.go:69-70), unless an emitter panicked.  *)
NoStrandedRow ==
    \A s \in Streams, r \in Handlers :
        phase[s] = "live" /\ chan[s] = <<>> /\ s \notin missed /\ Delivered(r)
            => shown[s][r] # "started"

(* A viewer that stopped reading never stalls an emitter                    *)
(* (activity.go:118-119).                                                   *)
EmitNeverStalls ==
    \A e \in Emitters : sending[e] # <<>> ~> (sending[e] = <<>> \/ crashed)

(* A subscriber that stops listening does not harm the request, or the      *)
(* node, that emits an event to it.                                         *)
LeavingIsHarmless == aborted = {} /\ ~crashed
=============================================================================
