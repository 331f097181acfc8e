------------------------------- MODULE Prompts -------------------------------
(***************************************************************************)
(* The PromptStore of each node, and the requests that write to it: each    *)
(* mints an id, stores its prompt, announces its row, tees its response      *)
(* into a captureWriter, and in a deferred call attaches what was captured,  *)
(* long after its prompt may have been evicted.  Dashboards open the rows    *)
(* from any node; ids are a node's own, and begin again when it restarts.   *)
(*                                                                          *)
(* A text is named by its request and has a length, and a response is the   *)
(* sizes of the chunks written to the client, so that text can be told from *)
(* its loss.  Two caps apply to it: what is captured is bounded in raw      *)
(* bytes, and what is stored of the text found in there in characters.      *)
(***************************************************************************)
EXTENDS SequencesExt

CONSTANTS
    Requests,
    Nodes, NoNode,
    Peers,          \* the nodes whose addresses a node is configured with
    PromptMax,      \* PromptStore.max, activity.prompt_history
    CaptureRawCap,  \* captureRawCap, in the unit of the chunks
    MaxPromptChars, \* maxPromptChars, in the unit of the texts
    PromptLengths,  \* the lengths of the prompts, in that unit,
    OutputLengths,  \* and of the texts of responses
    Sizes,          \* the sizes of a chunk
    MaxChunks,      \* bounds the chunks of a response
    MaxRestarts,    \* bounds the restarts of each node
    Nothing         \* an empty prompt or output

ASSUME PromptMaxAssumption == PromptMax \in Nat \ {0}
ASSUME CaptureAssumption == CaptureRawCap \in Nat /\ Sizes \subseteq Nat \ {0}
ASSUME LengthsAssumption ==
    MaxPromptChars \in Nat \ {0} /\ PromptLengths \cup OutputLengths \subseteq Nat \ {0}
ASSUME PeersAssumption == NoNode \notin Nodes /\ Peers \in [Nodes -> SUBSET Nodes]

(* Prompts and the texts of responses, and the entries of a store, numbered *)
(* in the order they were made.                                             *)
Asked == {Nothing} \cup [of : Requests, length : Nat]
Texts == {Nothing} \cup [of : Requests, chunks : Seq(Nat), length : Nat]
PromptEntry == [requestID : Nat, prompt : Asked, output : Texts, n : Nat]

ASSUME NothingAssumption ==
    Nothing \notin PromptEntry \cup [of : Requests, length : Nat]
                   \cup [of : Requests, chunks : Seq(Nat), length : Nat]

VARIABLES
    nextRequestID,  \* of each node, the counter of activity.NewRequestID
    entries,        \* its PromptStore.entries
    epoch,          \* how often it was restarted
    at,             \* where each request's handler is
    home, born,     \* its node, and in which epoch
    rid,            \* the id it minted
    asked,          \* the prompt extracted from its body
    sent,           \* the chunks its client was sent
    captured,       \* which of them are in captureWriter.buf
    output,         \* the text extracted from those
    appends,        \* how many entries the node ever appended
    appendedAs      \* which of them was the request's last

nodeVars == <<nextRequestID, entries, epoch, appends>>
idVars == <<home, born, rid, asked>>
captureVars == <<sent, captured, output>>
vars == <<nodeVars, idVars, at, captureVars, appendedAs>>

Stages == {"new", "minted", "stored", "running", "over", "lost"}

Init ==
    /\ nextRequestID = [n \in Nodes |-> 0] /\ entries = [n \in Nodes |-> <<>>]
    /\ epoch = [n \in Nodes |-> 0] /\ appends = [n \in Nodes |-> 0]
    /\ at = [r \in Requests |-> "new"] /\ home = [r \in Requests |-> NoNode]
    /\ born = [r \in Requests |-> 0] /\ rid = [r \in Requests |-> 0]
    /\ asked = [r \in Requests |-> Nothing]
    /\ sent = [r \in Requests |-> <<>>]
    /\ captured = [r \in Requests |-> <<>>]
    /\ output = [r \in Requests |-> Nothing]
    /\ appendedAs = [r \in Requests |-> 0]

Step(r, from, to) == at[r] = from /\ at' = [at EXCEPT ![r] = to]

-----------------------------------------------------------------------------
(* extractPromptText: a body that is not understood has no text.            *)
PromptText(r) == {Nothing} \cup [of : {r}, length : PromptLengths]

(* activity.NewRequestID, and the prompt of the request.                    *)
Mint(r, n) ==
    /\ Step(r, "new", "minted")
    /\ nextRequestID' = [nextRequestID EXCEPT ![n] = @ + 1]
    /\ rid' = [rid EXCEPT ![r] = nextRequestID[n] + 1]
    /\ home' = [home EXCEPT ![r] = n] /\ born' = [born EXCEPT ![r] = epoch[n]]
    /\ \E text \in PromptText(r) : asked' = [asked EXCEPT ![r] = text]
    /\ UNCHANGED <<entries, epoch, appends, captureVars, appendedAs>>

(* PromptStore.append, with the lock held: evict oldest first.              *)
Evict_Newest(log) == IF Len(log) > PromptMax THEN SubSeq(log, 1, PromptMax) ELSE log

Evict(log) ==
    IF Len(log) > PromptMax THEN SubSeq(log, Len(log) - PromptMax + 1, Len(log))
                            ELSE log

AppendEntry(r, prompt, text) ==
    LET n == home[r]
        entry == [requestID |-> rid[r], prompt |-> prompt, output |-> text,
                  n |-> appends[n] + 1]
    IN  /\ entries' = [entries EXCEPT ![n] = Evict(Append(@, entry))]
        /\ appends' = [appends EXCEPT ![n] = @ + 1]
        /\ appendedAs' = [appendedAs EXCEPT ![r] = appends[n] + 1]

storeVars == <<entries, appends, appendedAs>>

(* truncate: every text is stored with its first maxPromptChars at most.    *)
Truncate_Never(text) == text

Truncate(text) ==
    IF text = Nothing \/ text.length <= MaxPromptChars
    THEN text
    ELSE [text EXCEPT !.length = MaxPromptChars]

(* PromptStore.Store *)
Store(r) ==
    /\ Step(r, "minted", "stored")
    /\ IF asked[r] = Nothing THEN UNCHANGED storeVars
                             ELSE AppendEntry(r, Truncate(asked[r]), Nothing)
    /\ UNCHANGED <<nextRequestID, epoch, idVars, captureVars>>

(* The start of the request is announced: viewers have a row for it.        *)
EmitStart(r) ==
    /\ Step(r, "stored", "running")
    /\ UNCHANGED <<nodeVars, idVars, captureVars, appendedAs>>

Total(chunks) == FoldLeft(LAMBDA m, size : m + size, 0, chunks)

(* captureWriter.Write: the client gets every chunk.                        *)
Fits_Exclusive(total) == total < CaptureRawCap

Fits(total) == total <= CaptureRawCap

Buffered(r) == Total([i \in DOMAIN captured[r] |-> sent[r][captured[r][i]]])

Write(r, size) ==
    /\ at[r] = "running" /\ Len(sent[r]) < MaxChunks
    /\ sent' = [sent EXCEPT ![r] = Append(@, size)]
    /\ captured' = IF Fits(Buffered(r) + size)
                   THEN [captured EXCEPT ![r] = Append(@, Len(sent[r]) + 1)]
                   ELSE captured
    /\ UNCHANGED <<nodeVars, idVars, at, output, appendedAs>>

(* captureWriter.Output: a document or an error is kept as its body when it *)
(* has no better text, but a stream of chunks without text has none.        *)
Output(r) ==
    {Nothing} \cup [of : {r}, chunks : {captured[r]} \ {<<>>}, length : OutputLengths]

Entries(n, id) == {i \in DOMAIN entries[n] : entries[n][i].requestID = id}

(* PromptStore.Get *)
Get(n, id) == IF Entries(n, id) = {} THEN Nothing ELSE entries[n][Max(Entries(n, id))]

(* The response ends, breaks off, or the handler panics after it minted its *)
(* id and wrapped the writer; the deferred call runs in every case.         *)
Ends(r) == Step(r, "running", "over") \/ Step(r, "stored", "over")

(* Its PromptStore.StoreOutput: attach the output to the entry of the id,   *)
(* or create one.                                                           *)
StoreOutput_Appends(r) ==
    /\ Ends(r)
    /\ \E text \in Output(r) :
        /\ output' = [output EXCEPT ![r] = text]
        /\ IF text = Nothing THEN UNCHANGED storeVars ELSE AppendEntry(r, Nothing, Truncate(text))
    /\ UNCHANGED <<nextRequestID, epoch, idVars, sent, captured>>

StoreOutput(r) ==
    LET n == home[r]
        mine == Entries(n, rid[r])
    IN  /\ Ends(r)
        /\ \E text \in Output(r) :
            /\ output' = [output EXCEPT ![r] = text]
            /\ \/ text = Nothing /\ UNCHANGED storeVars
               \/ /\ text # Nothing /\ mine # {}
                  /\ entries' = [entries EXCEPT ![n][Max(mine)].output = Truncate(text)]
                  /\ UNCHANGED <<appends, appendedAs>>
               \/ /\ text # Nothing /\ mine = {}
                  /\ AppendEntry(r, Nothing, Truncate(text))
        /\ UNCHANGED <<nextRequestID, epoch, idVars, sent, captured>>

Handle(r) ==
    \/ Store(r) \/ EmitStart(r) \/ StoreOutput(r)
    \/ (\E n \in Nodes : Mint(r, n)) \/ \E size \in Sizes : Write(r, size)

(* The process ends, with its handlers and its store, and a new one counts  *)
(* from one again.  Rows on the dashboards stay.                            *)
Restart(n) ==
    /\ epoch[n] < MaxRestarts[n]
    /\ epoch' = [epoch EXCEPT ![n] = @ + 1]
    /\ nextRequestID' = [nextRequestID EXCEPT ![n] = 0]
    /\ entries' = [entries EXCEPT ![n] = <<>>] /\ appends' = [appends EXCEPT ![n] = 0]
    /\ at' = [r \in Requests |-> IF home[r] = n /\ at[r] # "over" THEN "lost" ELSE at[r]]
    /\ UNCHANGED <<idVars, captureVars, appendedAs>>

Next == (\E r \in Requests : Handle(r)) \/ \E n \in Nodes : Restart(n)

Spec == Init /\ [][Next]_vars

-----------------------------------------------------------------------------
(* handleMeshPrompt on node v, asked for a row of the node at addr.  An      *)
(* address it is not configured with is refused.                            *)
HandleMeshPrompt_Here(v, addr, id) == Get(v, id)

HandleMeshPrompt(v, addr, id) ==
    IF addr = v \/ addr \in Peers[v] THEN Get(addr, id) ELSE Nothing

(* The row of a request is one that its node has announced and not been     *)
(* restarted since: of older rows the code promises nothing.                *)
HasRow(r) ==
    at[r] \in {"running", "over"} /\ born[r] = epoch[home[r]]

Opened(v, r) == HandleMeshPrompt(v, home[r], rid[r])
-----------------------------------------------------------------------------
(* Every variable has its type; the stores and the captures keep their      *)
(* bounds, however late the outputs come.                                   *)
TypeOK ==
    /\ nextRequestID \in [Nodes -> Nat] /\ appends \in [Nodes -> Nat]
    /\ epoch \in [Nodes -> Nat] /\ entries \in [Nodes -> Seq(PromptEntry)]
    /\ \A n \in Nodes : Len(entries[n]) <= PromptMax
    /\ at \in [Requests -> Stages] /\ rid \in [Requests -> Nat]
    /\ home \in [Requests -> Nodes \cup {NoNode}] /\ born \in [Requests -> Nat]
    /\ asked \in [Requests -> Asked] /\ output \in [Requests -> Texts]
    /\ sent \in [Requests -> Seq(Sizes)] /\ captured \in [Requests -> Seq(Nat)]
    /\ appendedAs \in [Requests -> Nat]

(* A request has one entry, which no other writes to, and its row opens     *)
(* that one from every node: an output finds its prompt among the entries   *)
(* of the requests that ran meanwhile, makes no second one when the prompt  *)
(* was evicted (prompts.go:55-58), and a lookup goes to the node that       *)
(* minted the id, not to an equal id of another (activity.go:22-30).  What  *)
(* it shows of a prompt or an output is all of it, or as much of its start  *)
(* as a store keeps of a long one (prompts.go:12-16).                       *)
StartOf(kept, text) ==
    /\ kept # Nothing /\ text # Nothing
    /\ kept = [text EXCEPT !.length = kept.length]
    /\ IF text.length > MaxPromptChars THEN kept.length = MaxPromptChars
                                       ELSE kept.length = text.length

OneEntryEach ==
    /\ \A n \in Nodes : \A i, j \in DOMAIN entries[n] :
        entries[n][i].requestID = entries[n][j].requestID => i = j
    /\ \A v \in Nodes, r \in Requests : HasRow(r) /\ Opened(v, r) # Nothing =>
        /\ Opened(v, r).prompt # Nothing => StartOf(Opened(v, r).prompt, asked[r])
        /\ Opened(v, r).output # Nothing => StartOf(Opened(v, r).output, output[r])

(* The row of a request that has a prompt opens as soon as it is announced, *)
(* on its node and from every node that knows it, until newer entries have  *)
(* filled the store.                                                        *)
RowOpens ==
    \A v \in Nodes, r \in Requests :
        LET log == entries[home[r]]
        IN  HasRow(r) /\ asked[r] # Nothing /\ home[r] \in {v} \cup Peers[v] =>
                \/ Opened(v, r) # Nothing
                \/ Len(log) = PromptMax /\ \A i \in DOMAIN log : log[i].n > appendedAs[r]

(* What the store says a client received is what it received, as far as its *)
(* two caps reach (capture.go:11-16,19-20; prompts.go:12-16): of a response  *)
(* within captureRawCap everything that was sent was captured, and its entry *)
(* holds the text found in that, up to its first maxPromptChars characters.  *)
(* One over captureRawCap may have holes.                                   *)
OutputIsAsSent ==
    \A r \in Requests :
        at[r] = "over" /\ output[r] # Nothing /\ Total(sent[r]) <= CaptureRawCap
            => /\ output[r].chunks = captured[r]
               /\ captured[r] = [c \in DOMAIN sent[r] |-> c]
               /\ HasRow(r) => \/ Get(home[r], rid[r]) = Nothing
                               \/ StartOf(Get(home[r], rid[r]).output, output[r])
=============================================================================
