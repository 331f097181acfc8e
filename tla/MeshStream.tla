------------------------------ MODULE MeshStream ------------------------------
(***************************************************************************)
(* handleMeshStream: one viewer of the mesh dashboard, whose page merges    *)
(* this node's own events with those of a peer.  The peer's log is the      *)
(* ActivityLog, and each connection of followPeer to it one of its Streams. *)
(*                                                                          *)
(* Three goroutines share the merged channel: the pump of local events, the *)
(* follower of the peer, and the handler, which is its only reader and the  *)
(* only writer of the response.  A viewer that stalls stalls the handler;   *)
(* one that leaves cancels the request's context.                           *)
(***************************************************************************)
EXTENDS ActivityLog

CONSTANTS
    MergedCap,  \* the buffer of the merged channel, 512 in handleMeshStream
    Local,      \* stands for any event of this node
    NoStream

ASSUME MergedCapAssumption == MergedCap \in Nat \ {0}
ASSUME LocalAssumption == Local \notin Emitters /\ NoStream \notin Streams

VARIABLES
    wire,       \* the frames on the follower's connection, not read yet
    conn,       \* the follower's connection
    follower,   \* dialing, reading, holding, resting, ended
    hand,       \* the event it read and has not yet merged
    pump,       \* the pump: waiting, holding, ended
    merged,     \* the merged channel
    page,       \* what the viewer's page shows of each request of the peer
    cancelled,  \* the context of the viewer's request is done
    returned    \* handleMeshStream has returned

followerVars == <<conn, follower, hand>>
viewerVars == <<page, cancelled, returned>>
ownVars == <<wire, followerVars, pump, merged, viewerVars>>
meshVars == <<vars, ownVars>>

LocalEvent == [src |-> Local, kind |-> "note"]

MeshInit ==
    /\ Init
    /\ wire = <<>>
    /\ conn = NoStream /\ follower = "dialing" /\ hand = <<>>
    /\ pump = "waiting"
    /\ merged = <<>>
    /\ page = [r \in Handlers |-> "nothing"]
    /\ cancelled = FALSE /\ returned = FALSE

-----------------------------------------------------------------------------
(* The peer's end of a connection: handleActivityStream writes the backlog, *)
(* then events, as the connection takes them.  What it writes to one that    *)
(* the follower has left is lost.                                           *)
Write(s, frames) == wire' = IF s = conn THEN wire \o frames ELSE wire

Replay_LiveOnly(s) == ReplayBacklog(s) /\ wire' = wire

Replay(s) == ReplayBacklog(s) /\ Write(s, ring)

Feed(s) ==
    /\ s = conn => wire = <<>>
    /\ Forward(s) /\ Write(s, <<Head(chan[s])>>)

(* It notices that the follower has hung up, or the peer is going down.     *)
HangUp(s) == Unsubscribe(s) /\ wire' = wire

PeerStep ==
    /\ \/ wire' = wire /\ \E e \in Emitters : Record(e) \/ EmitStep(e)
       \/ \E s \in Streams : Replay(s) \/ Feed(s) \/ HangUp(s)
    /\ UNCHANGED <<followerVars, pump, merged, viewerVars>>

-----------------------------------------------------------------------------
(* followPeer and streamPeerOnce *)
Follow(from, to) == follower = from /\ follower' = to

(* The peer answers on a connection not used before.                        *)
Dial ==
    /\ ~cancelled /\ Follow("dialing", "reading")
    /\ \E s \in Streams : phase[s] = "off"
    /\ conn' = CHOOSE s \in Streams : phase[s] = "off"
    /\ Subscribe(conn')
    /\ UNCHANGED <<wire, hand, pump, merged, viewerVars>>

DialFails ==
    /\ ~cancelled /\ Follow("dialing", "resting")
    /\ UNCHANGED <<vars, wire, conn, hand, pump, merged, viewerVars>>

Read ==
    /\ Follow("reading", "holding") /\ wire # <<>>
    /\ hand' = <<Head(wire)>>
    /\ wire' = Tail(wire)
    /\ UNCHANGED <<vars, conn, pump, merged, viewerVars>>

(* The connection breaks, or the peer has ended it.                         *)
ConnectionEnds ==
    /\ ~cancelled /\ Follow("reading", "resting")
    /\ conn' = NoStream
    /\ wire' = <<>>
    /\ UNCHANGED <<vars, hand, pump, merged, viewerVars>>

Merge_Unbuffered ==
    /\ Follow("holding", "reading")
    /\ merged' = merged \o hand
    /\ hand' = <<>>
    /\ UNCHANGED <<vars, wire, conn, pump, viewerVars>>

Merge ==
    /\ Len(merged) < MergedCap /\ Follow("holding", "reading")
    /\ merged' = merged \o hand
    /\ hand' = <<>>
    /\ UNCHANGED <<vars, wire, conn, pump, viewerVars>>

Redial ==
    /\ ~cancelled /\ Follow("resting", "dialing")
    /\ UNCHANGED <<vars, wire, conn, hand, pump, merged, viewerVars>>

FollowerEnds_UnlessBlocked ==
    /\ cancelled /\ follower \notin {"holding", "ended"} /\ follower' = "ended"
    /\ conn' = NoStream /\ hand' = <<>> /\ wire' = <<>>
    /\ UNCHANGED <<vars, pump, merged, viewerVars>>

(* Its dial, its read, its send or its rest ends with the viewer's context. *)
FollowerEnds ==
    /\ cancelled /\ follower # "ended" /\ follower' = "ended"
    /\ conn' = NoStream /\ hand' = <<>> /\ wire' = <<>>
    /\ UNCHANGED <<vars, pump, merged, viewerVars>>

(* It goes on with what it has, but the peer need not let it in.            *)
FollowerStep == Read \/ Merge \/ Redial \/ FollowerEnds

-----------------------------------------------------------------------------
(* The pump of local events.  The handler's deferred Unsubscribe closes its *)
(* channel, which may have events left in it.                               *)
PumpTakes ==
    /\ pump = "waiting" /\ pump' = "holding"
    /\ UNCHANGED <<vars, wire, followerVars, merged, viewerVars>>

PumpMerges ==
    /\ pump = "holding" /\ Len(merged) < MergedCap /\ pump' = "waiting"
    /\ merged' = Append(merged, LocalEvent)
    /\ UNCHANGED <<vars, wire, followerVars, viewerVars>>

PumpEnds ==
    /\ \/ pump = "waiting" /\ returned
       \/ pump = "holding" /\ cancelled
    /\ pump' = "ended"
    /\ UNCHANGED <<vars, wire, followerVars, merged, viewerVars>>

-----------------------------------------------------------------------------
(* The handler shows an event, as long as its viewer takes it.              *)
Show ==
    /\ ~returned /\ merged # <<>>
    /\ page' = Watch(page, Head(merged))
    /\ merged' = Tail(merged)
    /\ UNCHANGED <<vars, wire, followerVars, pump, cancelled, returned>>

(* The viewer leaves.  The server cancels the context when it notices, or   *)
(* when the handler has returned because a write failed.                    *)
Cancel ==
    /\ ~cancelled /\ cancelled' = TRUE
    /\ UNCHANGED <<vars, wire, followerVars, pump, merged, page, returned>>

WriteFails ==
    /\ ~returned /\ returned' = TRUE
    /\ UNCHANGED <<vars, wire, followerVars, pump, merged, page, cancelled>>

HandlerReturns == cancelled /\ WriteFails
ServerCancels == returned /\ Cancel

-----------------------------------------------------------------------------
MeshNext ==
    \/ PeerStep
    \/ Dial \/ DialFails \/ ConnectionEnds \/ FollowerStep
    \/ PumpTakes \/ PumpMerges \/ PumpEnds
    \/ Show \/ Cancel \/ WriteFails

MeshSpec == MeshInit /\ [][MeshNext]_meshVars

(* The goroutines of this node go on when they can.  No peer is assumed to  *)
(* answer and no viewer to read or to leave.                                *)
FairMeshSpec ==
    /\ MeshSpec
    /\ WF_meshVars(FollowerStep)
    /\ WF_meshVars(PumpMerges) /\ WF_meshVars(PumpEnds)
    /\ WF_meshVars(HandlerReturns) /\ WF_meshVars(ServerCancels)

-----------------------------------------------------------------------------
(* Every variable has its type; the merged channel keeps its bound.         *)
MeshTypeOK ==
    /\ TypeOK
    /\ wire \in Seq(Events)
    /\ conn \in Streams \cup {NoStream}
    /\ follower \in {"dialing", "reading", "holding", "resting", "ended"}
    /\ follower \in {"reading", "holding"} <=> conn # NoStream
    /\ hand \in {<<>>} \cup {<<event>> : event \in Events}
    /\ follower = "holding" <=> hand # <<>>
    /\ pump \in {"waiting", "holding", "ended"}
    /\ merged \in Seq(Events \cup {LocalEvent}) /\ Len(merged) <= MergedCap
    /\ page \in [Handlers -> {"nothing", "started", "done"}]
    /\ cancelled \in BOOLEAN /\ returned \in BOOLEAN

(* The page has seen all that its connection to the peer has to say.        *)
CaughtUp ==
    /\ follower = "reading" /\ phase[conn] = "live" /\ conn \notin missed
    /\ wire = <<>> /\ chan[conn] = <<>>
    /\ ~\E i \in DOMAIN merged : merged[i].src # Local

Kept(event) == \E i \in DOMAIN ring : ring[i] = event

(* A request that ended while the page was not connected, or whose end was  *)
(* dropped on the way, does not stay on the page as running: the replay of  *)
(* a later connection clears it, as long as the peer's ring still has its   *)
(* end (activity.go:71-76, meshactivity.go:216-219).                        *)
ReconnectClearsRows ==
    CaughtUp => \A r \in Handlers :
        Delivered(r) /\ Kept([src |-> r, kind |-> "done"])
            => page[r] # "started"

(* Nothing of a viewer's stream outlives it, however full its channel was   *)
(* when it left and whatever the peer does.                                 *)
NothingLeftBehind ==
    (cancelled \/ returned)
        ~> (follower = "ended" /\ pump = "ended" /\ cancelled /\ returned)
=============================================================================
