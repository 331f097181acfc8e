---------------------------- MODULE PromptsProofs ---------------------------
(***************************************************************************)
(* A request's row opens the request's own entry, from every node, for any  *)
(* number of requests, nodes and restarts and any capacity of the stores.   *)
(*                                                                          *)
(* OneEntryEach is not inductive: that two requests never meet in one entry  *)
(* rests on ids that are not given twice while a node runs (Ids), on every   *)
(* entry being the work of a request of this run of its node (Owned), and on *)
(* a store that restarts with its counter.  RowOpens rests on the order of   *)
(* the entries (Numbered, Appended).                                        *)
(*                                                                          *)
(* OutputIsAsSent rests on three invariants more: what is captured is all    *)
(* that was sent, or more was sent than fits (Gapless), an output is of what *)
(* is captured (OfCaptured), and an entry of a request that is over has its  *)
(* output, truncated (Attached).                                            *)
(***************************************************************************)
EXTENDS Prompts, WellFoundedInduction, TLAPS

(* A request that its node has not been restarted since, and one that may    *)
(* have an entry.                                                           *)
Live(r) == at[r] # "new" /\ born[r] = epoch[home[r]]
Kept(r) == Live(r) /\ at[r] # "minted"

Ids ==
    \A r \in Requests :
        /\ at[r] = "new" => home[r] = NoNode
        /\ at[r] # "new" => home[r] \in Nodes /\ born[r] <= epoch[home[r]]
        /\ Live(r) => rid[r] <= nextRequestID[home[r]]
        /\ at[r] \in {"minted", "stored", "running"} => Live(r)

IdsDiffer ==
    \A q, r \in Requests :
        Live(q) /\ Live(r) /\ home[q] = home[r] /\ rid[q] = rid[r] => q = r

Owns(r, n, entry) ==
    /\ Kept(r) /\ home[r] = n /\ rid[r] = entry.requestID
    /\ entry.prompt \in {Truncate(asked[r]), Nothing}
    /\ entry.output \in {Truncate(output[r]), Nothing}

Owned ==
    \A n \in Nodes : \A i \in DOMAIN entries[n] :
        \E r \in Requests : Owns(r, n, entries[n][i])

EntriesDiffer ==
    \A n \in Nodes : \A i, j \in DOMAIN entries[n] :
        entries[n][i].requestID = entries[n][j].requestID => i = j

Unanswered == \A r \in Requests : at[r] # "over" => output[r] = Nothing

Numbered ==
    \A n \in Nodes :
        /\ Len(entries[n]) <= appends[n]
        /\ Len(entries[n]) < PromptMax => appends[n] = Len(entries[n])
        /\ \A i \in DOMAIN entries[n] :
            entries[n][i].n = appends[n] - Len(entries[n]) + i

Appended ==
    \A r \in Requests : Kept(r) /\ asked[r] # Nothing =>
        /\ appendedAs[r] \in 1..appends[home[r]]
        /\ \A i \in DOMAIN entries[home[r]] :
            entries[home[r]][i].n = appendedAs[r] =>
                entries[home[r]][i].requestID = rid[r]

Gapless ==
    \A r \in Requests :
        captured[r] = [c \in DOMAIN sent[r] |-> c] \/ Total(sent[r]) > CaptureRawCap

Attached ==
    \A r \in Requests : at[r] = "over" /\ output[r] # Nothing /\ Live(r) =>
        \A i \in DOMAIN entries[home[r]] :
            entries[home[r]][i].requestID = rid[r]
                => entries[home[r]][i].output = Truncate(output[r])

OfCaptured == \A r \in Requests : output[r] # Nothing => output[r].chunks = captured[r]

PromptsInv ==
    /\ TypeOK /\ Ids /\ IdsDiffer /\ Owned /\ EntriesDiffer /\ Unanswered
    /\ Numbered /\ Appended

-----------------------------------------------------------------------------
(* A truncated text is a text still, none only when there was none, and the  *)
(* start of what it was.                                                    *)
LEMMA TruncateIs ==
    /\ Truncate(Nothing) = Nothing
    /\ \A text \in Asked : Truncate(text) \in Asked
    /\ \A text \in Texts : Truncate(text) \in Texts
    /\ \A text \in (Asked \cup Texts) \ {Nothing} :
        Truncate(text) # Nothing /\ StartOf(Truncate(text), text)
<1> USE LengthsAssumption, NothingAssumption DEF Truncate
<1>1. Truncate(Nothing) = Nothing
  OBVIOUS
<1>2. ASSUME NEW text \in [of : Requests, length : Nat]
      PROVE  /\ Truncate(text) \in [of : Requests, length : Nat]
             /\ StartOf(Truncate(text), text)
  BY <1>2 DEF StartOf
<1>3. ASSUME NEW text \in [of : Requests, chunks : Seq(Nat), length : Nat]
      PROVE  /\ Truncate(text) \in [of : Requests, chunks : Seq(Nat), length : Nat]
             /\ StartOf(Truncate(text), text)
  BY <1>3 DEF StartOf
<1> HIDE DEF Truncate
<1> QED
  BY <1>1, <1>2, <1>3 DEF Asked, Texts

-----------------------------------------------------------------------------
(* What PromptStore.append leaves: the old entries and the new one, without  *)
(* the oldest when they were too many.                                      *)
LEMMA AppendedLog ==
    ASSUME NEW log \in Seq(PromptEntry), NEW entry \in PromptEntry,
           Len(log) <= PromptMax
    PROVE  LET kept == Evict(Append(log, entry))
           IN  /\ kept \in Seq(PromptEntry) /\ Len(kept) <= PromptMax
               /\ \E k \in {0, 1} :
                    /\ Len(kept) = Len(log) + 1 - k
                    /\ k = 1 => Len(log) = PromptMax
                    /\ k = 0 => Len(log) < PromptMax
                    /\ \A i \in DOMAIN kept :
                        IF i + k = Len(log) + 1 THEN kept[i] = entry
                        ELSE i + k \in DOMAIN log /\ kept[i] = log[i + k]
<1> DEFINE all == Append(log, entry)
<1>1. /\ all \in Seq(PromptEntry) /\ Len(all) = Len(log) + 1
      /\ \A i \in 1..Len(log) : all[i] = log[i]
      /\ all[Len(log) + 1] = entry
  OBVIOUS
<1>2. PromptMax \in Nat /\ PromptMax > 0 /\ Len(log) \in Nat
  BY PromptMaxAssumption
<1>3. CASE Len(log) < PromptMax
  <2>1. Evict(all) = all
    BY <1>1, <1>2, <1>3 DEF Evict
  <2>2. \A i \in DOMAIN all :
          IF i + 0 = Len(log) + 1 THEN all[i] = entry
          ELSE i + 0 \in DOMAIN log /\ all[i] = log[i + 0]
    BY <1>1, <1>2
  <2> QED
    BY <1>1, <1>2, <1>3, <2>1, <2>2
<1>4. CASE Len(log) = PromptMax
  <2> DEFINE kept == SubSeq(all, 2, PromptMax + 1)
  <2>1. Evict(all) = kept
    BY <1>1, <1>2, <1>4 DEF Evict
  <2>2. kept \in Seq(PromptEntry) /\ Len(kept) = PromptMax
        /\ \A i \in 1..PromptMax : kept[i] = all[i + 1]
    BY <1>1, <1>2, <1>4
  <2>3. \A i \in DOMAIN kept :
          IF i + 1 = Len(log) + 1 THEN kept[i] = entry
          ELSE i + 1 \in DOMAIN log /\ kept[i] = log[i + 1]
    BY <1>1, <1>2, <1>4, <2>2
  <2> HIDE DEF kept, all
  <2> QED
    BY <1>2, <1>4, <2>1, <2>2, <2>3 DEF all
<1> QED
  BY <1>2, <1>3, <1>4

-----------------------------------------------------------------------------
(* A request is live from the id it mints to its node's restart, whatever    *)
(* its handler does.                                                        *)
LEMMA HandlersStayLive ==
    ASSUME PromptsInv, NEW r \in Requests,
           at[r] \in {"minted", "stored", "running"},
           NEW to \in {"stored", "running", "over"},
           at' = [at EXCEPT ![r] = to],
           UNCHANGED <<nextRequestID, epoch, idVars>>
    PROVE  /\ Live(r) /\ home[r] \in Nodes
           /\ Kept(r)' /\ \A q \in Requests \ {r} : Kept(q)' = Kept(q)
           /\ at' \in [Requests -> Stages] /\ Ids' /\ IdsDiffer'
<1>1. /\ at \in [Requests -> Stages] /\ at[r] # "new" /\ Live(r)
      /\ home[r] \in Nodes /\ at'[r] = to /\ to # "new" /\ to # "minted"
      /\ to \in Stages
      /\ \A q \in Requests \ {r} : at'[q] = at[q]
  BY DEF PromptsInv, TypeOK, Ids, Stages
<1>2. /\ home' = home /\ born' = born /\ rid' = rid /\ epoch' = epoch
      /\ nextRequestID' = nextRequestID
  BY DEF idVars
<1>3. \A q \in Requests : Live(q)' = Live(q)
  BY <1>1, <1>2 DEF Live
<1>4. Ids'
  BY <1>1, <1>2, <1>3 DEF PromptsInv, Ids
<1>5. IdsDiffer'
  BY <1>2, <1>3 DEF PromptsInv, IdsDiffer
<1>6. Kept(r)' /\ \A q \in Requests \ {r} : Kept(q)' = Kept(q)
  BY <1>1, <1>3 DEF Kept
<1> QED
  BY <1>1, <1>4, <1>5, <1>6

(* What leaves the stores alone.                                            *)
LEMMA QuietKeeps ==
    ASSUME PromptsInv, NEW r \in Requests,
           at[r] \in {"minted", "stored", "running"},
           NEW to \in {"stored", "running", "over"},
           at[r] = "minted" => asked[r] = Nothing,
           at' = [at EXCEPT ![r] = to],
           UNCHANGED <<nodeVars, idVars, output, appendedAs>>,
           sent' \in [Requests -> Seq(Sizes)], captured' \in [Requests -> Seq(Nat)]
    PROVE  PromptsInv'
<1>1. /\ UNCHANGED <<nextRequestID, epoch, idVars>>
      /\ home' = home /\ rid' = rid /\ asked' = asked /\ born' = born
      /\ entries' = entries /\ appends' = appends /\ epoch' = epoch
      /\ nextRequestID' = nextRequestID
  BY DEF nodeVars, idVars
<1>2. /\ Live(r) /\ home[r] \in Nodes
      /\ Kept(r)' /\ \A q \in Requests \ {r} : Kept(q)' = Kept(q)
      /\ at' \in [Requests -> Stages] /\ Ids' /\ IdsDiffer'
  BY <1>1, HandlersStayLive
<1>3. TypeOK'
  BY <1>1, <1>2 DEF PromptsInv, TypeOK
<1>4. Owned'
  <2>1. \A q \in Requests, m \in Nodes : \A e : Owns(q, m, e) =>
          /\ Kept(q)' /\ home'[q] = m /\ rid'[q] = e.requestID
          /\ e.prompt \in {Truncate(asked'[q]), Nothing}
          /\ e.output \in {Truncate(output'[q]), Nothing}
    BY <1>1, <1>2 DEF Owns
  <2> QED
    BY <1>1, <2>1 DEF PromptsInv, Owned, Owns
<1>5. EntriesDiffer' /\ Numbered'
  BY <1>1 DEF PromptsInv, EntriesDiffer, Numbered
<1>6. Unanswered'
  <2>1. output[r] = Nothing
    BY DEF PromptsInv, Unanswered
  <2> QED
    BY <2>1 DEF PromptsInv, Unanswered, TypeOK
<1>7. Appended'
  <2>1. at[r] # "minted" => Kept(r)
    BY <1>2 DEF Kept
  <2> QED
    BY <1>1, <1>2, <2>1 DEF PromptsInv, Appended
<1> QED
  BY <1>2, <1>3, <1>4, <1>5, <1>6, <1>7 DEF PromptsInv

(* An entry made for a request that has none.                               *)
LEMMA AppendKeeps ==
    ASSUME PromptsInv, NEW r \in Requests,
           at[r] \in {"minted", "stored", "running"},
           NEW to \in {"stored", "over"},
           NEW prompt \in {Truncate(asked[r]), Nothing},
           NEW text \in Texts, NEW shown \in Texts, shown = Truncate(text),
           Entries(home[r], rid[r]) = {},
           at' = [at EXCEPT ![r] = to],
           output' = [output EXCEPT ![r] = text], to # "over" => text = Nothing,
           AppendEntry(r, prompt, shown),
           UNCHANGED <<nextRequestID, epoch, idVars, sent, captured>>
    PROVE  PromptsInv'
<1> DEFINE n == home[r]
           entry == [requestID |-> rid[r], prompt |-> prompt, output |-> shown,
                     n |-> appends[n] + 1]
           old == entries[n]
           new == entries'[n]
<1>1. /\ home' = home /\ rid' = rid /\ asked' = asked /\ born' = born
      /\ epoch' = epoch /\ nextRequestID' = nextRequestID
  BY DEF idVars
<1>2. /\ Live(r) /\ n \in Nodes
      /\ Kept(r)' /\ \A q \in Requests \ {r} : Kept(q)' = Kept(q)
      /\ at' \in [Requests -> Stages] /\ Ids' /\ IdsDiffer'
  BY HandlersStayLive
<1>3. /\ entries \in [Nodes -> Seq(PromptEntry)] /\ appends \in [Nodes -> Nat]
      /\ appendedAs \in [Requests -> Nat] /\ output \in [Requests -> Texts]
      /\ Len(old) <= PromptMax /\ rid[r] \in Nat
      /\ asked[r] \in Asked
  BY <1>2 DEF PromptsInv, TypeOK
<1>4. /\ new = Evict(Append(old, entry))
      /\ entries' = [entries EXCEPT ![n] = new]
      /\ \A m \in Nodes \ {n} : entries'[m] = entries[m]
      /\ appends' = [appends EXCEPT ![n] = @ + 1]
      /\ appendedAs' = [appendedAs EXCEPT ![r] = appends[n] + 1]
  BY <1>2, <1>3 DEF AppendEntry
<1>5. entry \in PromptEntry /\ old \in Seq(PromptEntry)
  <2>1. prompt \in Asked /\ appends[n] + 1 \in Nat
    BY <1>2, <1>3, TruncateIs DEF Asked
  <2>2. entry \in PromptEntry
    BY <1>3, <2>1 DEF PromptEntry
  <2>3. old \in Seq(PromptEntry)
    BY <1>2, <1>3
  <2> QED
    BY <2>2, <2>3
<1>6. /\ new \in Seq(PromptEntry) /\ Len(new) <= PromptMax
      /\ \E k \in {0, 1} :
            /\ Len(new) = Len(old) + 1 - k
            /\ k = 1 => Len(old) = PromptMax
            /\ k = 0 => Len(old) < PromptMax
            /\ \A i \in DOMAIN new :
                IF i + k = Len(old) + 1 THEN new[i] = entry
                ELSE i + k \in DOMAIN old /\ new[i] = old[i + k]
  <2> HIDE DEF entry, old, new
  <2> QED
    <3> DEFINE kept == Evict(Append(old, entry))
    <3>1. /\ kept \in Seq(PromptEntry) /\ Len(kept) <= PromptMax
          /\ \E k \in {0, 1} :
                /\ Len(kept) = Len(old) + 1 - k
                /\ k = 1 => Len(old) = PromptMax
                /\ k = 0 => Len(old) < PromptMax
                /\ \A i \in DOMAIN kept :
                    IF i + k = Len(old) + 1 THEN kept[i] = entry
                    ELSE i + k \in DOMAIN old /\ kept[i] = old[i + k]
      BY <1>3, <1>5, AppendedLog
    <3>2. kept = new
      BY <1>4
    <3> HIDE DEF kept
    <3> QED
      BY <3>1, <3>2
<1>7. PICK k \in {0, 1} :
        /\ Len(new) = Len(old) + 1 - k
        /\ k = 1 => Len(old) = PromptMax
        /\ k = 0 => Len(old) < PromptMax
        /\ \A i \in DOMAIN new :
            IF i + k = Len(old) + 1 THEN new[i] = entry
            ELSE i + k \in DOMAIN old /\ new[i] = old[i + k]
  BY <1>6
<1>8. \A i \in DOMAIN old : old[i].requestID # rid[r]
  BY DEF Entries
<1>9. entry.requestID = rid[r] /\ entry.prompt = prompt /\ entry.output = shown
      /\ entry.n = appends[n] + 1
  OBVIOUS
<1>10. appends[n] \in Nat /\ appends'[n] = appends[n] + 1
       /\ \A m \in Nodes \ {n} : appends'[m] = appends[m]
  BY <1>2, <1>3, <1>4
<1>11. output'[r] = text /\ \A q \in Requests \ {r} : output'[q] = output[q]
  BY <1>3
<1>12. DOMAIN new = 1..Len(new) /\ DOMAIN old = 1..Len(old)
       /\ Len(old) \in Nat /\ Len(new) \in Nat
  BY <1>5, <1>6
<1> HIDE DEF entry, old, new
<1>13. TypeOK'
  <2>1. entries' \in [Nodes -> Seq(PromptEntry)]
    BY <1>3, <1>4, <1>6, Zenon
  <2>2. \A m \in Nodes : Len(entries'[m]) <= PromptMax
    BY <1>4, <1>6 DEF PromptsInv, TypeOK, new
  <2>3. appends' \in [Nodes -> Nat] /\ appendedAs' \in [Requests -> Nat]
        /\ output' \in [Requests -> Texts]
    BY <1>2, <1>3, <1>4
  <2> QED
    BY <1>1, <1>2, <2>1, <2>2, <2>3 DEF PromptsInv, TypeOK
<1>14. Owned'
  <2> SUFFICES ASSUME NEW m \in Nodes, NEW i \in DOMAIN entries'[m]
               PROVE  \E q \in Requests : Owns(q, m, entries[m][i])'
    BY DEF Owned
  <2>1. \A q \in Requests : \A e : q # r /\ Owns(q, m, e) =>
           /\ Kept(q)' /\ home'[q] = m /\ rid'[q] = e.requestID
           /\ e.prompt \in {Truncate(asked'[q]), Nothing}
          /\ e.output \in {Truncate(output'[q]), Nothing}
    BY <1>1, <1>2, <1>11 DEF Owns
  <2>2. CASE m # n
    <3>1. i \in DOMAIN entries[m] /\ entries'[m][i] = entries[m][i]
      BY <1>4, <2>2
    <3>2. PICK q \in Requests : Owns(q, m, entries[m][i])
      BY <3>1 DEF PromptsInv, Owned
    <3>3. q # r
      BY <2>2, <3>2 DEF Owns
    <3> QED
      BY <2>1, <3>1, <3>2, <3>3 DEF Owns
  <2>3. CASE m = n /\ i + k = Len(old) + 1
    <3>1. entries'[m][i] = entry
      BY <1>7, <2>3 DEF new
    <3> QED
      BY <1>1, <1>2, <1>9, <1>11, <2>3, <3>1 DEF Owns
  <2>4. CASE m = n /\ i + k # Len(old) + 1
    <3>1. i + k \in DOMAIN entries[n] /\ entries'[m][i] = entries[n][i + k]
      BY <1>7, <2>4 DEF new, old
    <3>2. PICK q \in Requests : Owns(q, n, entries[n][i + k])
      BY <1>2, <3>1 DEF PromptsInv, Owned
    <3>3. q # r
      BY <1>8, <3>1, <3>2 DEF Owns, old
    <3> QED
      BY <2>1, <2>4, <3>1, <3>2, <3>3 DEF Owns
  <2> QED
    BY <2>2, <2>3, <2>4
<1>15. EntriesDiffer'
  <2> SUFFICES ASSUME NEW m \in Nodes, NEW i \in DOMAIN entries'[m],
                      NEW j \in DOMAIN entries'[m],
                      entries'[m][i].requestID = entries'[m][j].requestID
               PROVE  i = j
    BY DEF EntriesDiffer
  <2>1. CASE m # n
    BY <1>4, <2>1 DEF PromptsInv, EntriesDiffer
  <2>2. CASE m = n
    <3>1. i \in DOMAIN new /\ j \in DOMAIN new /\ i \in Nat /\ j \in Nat
          /\ new[i].requestID = new[j].requestID
      BY <1>12, <2>2 DEF new
    <3>2. \A a \in DOMAIN new : a + k # Len(old) + 1 =>
             a + k \in DOMAIN old /\ new[a] = old[a + k] /\ new[a].requestID # rid[r]
      BY <1>7, <1>8
    <3>3. \A a \in DOMAIN new : a + k = Len(old) + 1 => new[a].requestID = rid[r]
      BY <1>7, <1>9
    <3>4. \A a, b \in DOMAIN old : old[a].requestID = old[b].requestID => a = b
      BY <1>2 DEF PromptsInv, EntriesDiffer, old
    <3>5. k \in Nat /\ Len(old) \in Nat
      BY <1>12
    <3>6. CASE i + k = Len(old) + 1
      <4>1. j + k = Len(old) + 1
        BY <3>1, <3>2, <3>3, <3>6
      <4> QED
        BY <3>1, <3>5, <3>6, <4>1
    <3>7. CASE i + k # Len(old) + 1
      <4>1. j + k # Len(old) + 1
        BY <3>1, <3>2, <3>3, <3>7
      <4>2. i + k = j + k
        BY <3>1, <3>2, <3>4, <3>7, <4>1
      <4> QED
        BY <3>1, <3>5, <4>2
    <3> QED
      BY <3>6, <3>7
  <2> QED
    BY <2>1, <2>2
<1>16. Unanswered'
  <2>1. output[r] = Nothing
    BY DEF PromptsInv, Unanswered
  <2>2. \A q \in Requests \ {r} : at'[q] = at[q]
    BY DEF PromptsInv, TypeOK
  <2>3. at'[r] = to
    BY DEF PromptsInv, TypeOK
  <2> QED
    BY <1>11, <2>1, <2>2, <2>3 DEF PromptsInv, Unanswered
<1>17. Numbered'
  <2> SUFFICES ASSUME NEW m \in Nodes
               PROVE  /\ Len(entries'[m]) <= appends'[m]
                      /\ Len(entries'[m]) < PromptMax => appends'[m] = Len(entries'[m])
                      /\ \A i \in DOMAIN entries'[m] :
                          entries'[m][i].n = appends'[m] - Len(entries'[m]) + i
    BY DEF Numbered
  <2>1. CASE m # n
    BY <1>4, <1>10, <2>1 DEF PromptsInv, Numbered
  <2>2. CASE m = n
    <3>1. /\ Len(old) <= appends[n]
          /\ Len(old) < PromptMax => appends[n] = Len(old)
          /\ \A i \in DOMAIN old : old[i].n = appends[n] - Len(old) + i
      BY <1>2 DEF PromptsInv, Numbered, old
    <3>2. Len(new) <= appends'[n] /\ (Len(new) < PromptMax => appends'[n] = Len(new))
      <4> Len(new) = Len(old) + 1 - k /\ (k = 1 => Len(old) = PromptMax)
                /\ (k = 0 => Len(old) < PromptMax)
        BY <1>7
      <4> Len(old) \in Nat /\ appends[n] \in Nat /\ appends'[n] = appends[n] + 1
                /\ Len(old) <= appends[n] /\ (Len(old) < PromptMax => appends[n] = Len(old))
        BY <1>10, <1>12, <3>1
      <4>1. CASE k = 0
        BY <4>1
      <4>2. CASE k = 1
        BY <4>2, PromptMaxAssumption
      <4> QED
        BY <4>1, <4>2
    <3>3. ASSUME NEW i \in DOMAIN new
          PROVE  new[i].n = appends'[n] - Len(new) + i
      <4>1. i \in Nat
        BY <1>12
      <4>2. CASE i + k = Len(old) + 1
        BY <1>7, <1>9, <1>10, <1>12, <4>1, <4>2
      <4>3. CASE i + k # Len(old) + 1
        <5>1. new[i] = old[i + k] /\ i + k \in DOMAIN old
          BY <1>7, <4>3
        <5>2. new[i].n = appends[n] - Len(old) + (i + k)
          BY <3>1, <5>1
        <5> QED
          BY <1>7, <1>10, <1>12, <4>1, <5>2
      <4> QED
        BY <4>2, <4>3
    <3> QED
      BY <2>2, <3>2, <3>3 DEF new
  <2> QED
    BY <2>1, <2>2
<1>18. Appended'
  <2> SUFFICES ASSUME NEW q \in Requests, Kept(q)', asked'[q] # Nothing
               PROVE  /\ appendedAs'[q] \in 1..appends'[home[q]]
                      /\ \A i \in DOMAIN entries'[home[q]] :
                          entries'[home[q]][i].n = appendedAs'[q] =>
                              entries'[home[q]][i].requestID = rid[q]
    BY <1>1 DEF Appended
  <2>1. CASE q = r
    <3>1. appendedAs'[r] = appends[n] + 1
      BY <1>3, <1>4
    <3>2. ASSUME NEW i \in DOMAIN new, new[i].n = appends[n] + 1
          PROVE  new[i].requestID = rid[r]
      <4>1. CASE i + k = Len(old) + 1
        BY <1>7, <1>9, <4>1
      <4>2. CASE i + k # Len(old) + 1
        <5>1. new[i] = old[i + k] /\ i + k \in 1..Len(old)
          BY <1>7, <1>12, <4>2
        <5>2. old[i + k].n = appends[n] - Len(old) + (i + k)
          BY <1>2, <1>12, <5>1 DEF PromptsInv, Numbered, old
        <5> QED
          BY <1>10, <1>12, <3>2, <5>1, <5>2
      <4> QED
        BY <4>1, <4>2
    <3> QED
      BY <1>10, <2>1, <3>1, <3>2 DEF new
  <2>2. CASE q # r
    <3>1. Kept(q) /\ asked[q] # Nothing /\ appendedAs'[q] = appendedAs[q]
      BY <1>1, <1>2, <1>3, <1>4, <2>2
    <3>2. /\ appendedAs[q] \in 1..appends[home[q]]
          /\ \A i \in DOMAIN entries[home[q]] :
              entries[home[q]][i].n = appendedAs[q] =>
                  entries[home[q]][i].requestID = rid[q]
      BY <3>1 DEF PromptsInv, Appended
    <3>3. home[q] \in Nodes
      BY <3>1 DEF PromptsInv, Ids, Kept, Live
    <3>4. CASE home[q] # n
      BY <1>4, <1>10, <3>1, <3>2, <3>3, <3>4
    <3>5. CASE home[q] = n
      <4>1. ASSUME NEW i \in DOMAIN new, new[i].n = appendedAs[q]
            PROVE  new[i].requestID = rid[q]
        <5>1. CASE i + k = Len(old) + 1
          <6>1. new[i].n = appends[n] + 1
            BY <1>7, <1>9, <5>1
          <6> QED
            BY <1>10, <3>2, <3>5, <4>1, <6>1
        <5>2. CASE i + k # Len(old) + 1
          BY <1>7, <3>2, <3>5, <4>1, <5>2 DEF old
        <5> QED
          BY <5>1, <5>2
      <4>2. appendedAs[q] \in 1..appends'[n]
        BY <1>10, <3>2, <3>5
      <4> QED
        BY <3>1, <3>5, <4>1, <4>2 DEF new
    <3> QED
      BY <3>4, <3>5
  <2> QED
    BY <2>1, <2>2
<1> QED
  BY <1>2, <1>13, <1>14, <1>15, <1>16, <1>17, <1>18 DEF PromptsInv

(* An output for an entry that is there, the only one of its request.       *)
LEMMA AttachKeeps ==
    ASSUME PromptsInv, NEW r \in Requests, at[r] \in {"stored", "running"},
           NEW text \in Texts, NEW shown \in Texts, shown = Truncate(text),
           Entries(home[r], rid[r]) # {},
           at' = [at EXCEPT ![r] = "over"],
           output' = [output EXCEPT ![r] = text],
           entries' = [entries EXCEPT
               ![home[r]][Max(Entries(home[r], rid[r]))].output = shown],
           UNCHANGED <<nextRequestID, epoch, appends, appendedAs, idVars, sent, captured>>
    PROVE  PromptsInv'
<1> DEFINE n == home[r]
<1>1. /\ home' = home /\ rid' = rid /\ asked' = asked /\ born' = born
      /\ epoch' = epoch /\ nextRequestID' = nextRequestID
  BY DEF idVars
<1>2. /\ Live(r) /\ n \in Nodes
      /\ Kept(r)' /\ \A q \in Requests \ {r} : Kept(q)' = Kept(q)
      /\ at' \in [Requests -> Stages] /\ Ids' /\ IdsDiffer'
  BY HandlersStayLive
<1>3. /\ entries \in [Nodes -> Seq(PromptEntry)] /\ output \in [Requests -> Texts]
      /\ rid[r] \in Nat /\ at \in [Requests -> Stages]
  BY DEF PromptsInv, TypeOK
<1>4. PICK e \in DOMAIN entries[n] : entries[n][e].requestID = rid[r]
  BY DEF Entries
<1>5. Max(Entries(n, rid[r])) = e
  <2>1. Entries(n, rid[r]) = {e}
    BY <1>2, <1>4 DEF Entries, PromptsInv, EntriesDiffer
  <2>2. e \in Nat
    BY <1>2, <1>3, <1>4
  <2> QED
    BY <2>1, <2>2 DEF Max
<1>6. /\ entries' = [entries EXCEPT ![n][e].output = shown]
      /\ entries[n] \in Seq(PromptEntry) /\ entries[n][e] \in PromptEntry
  BY <1>2, <1>3, <1>4, <1>5
<1>7. [entries[n][e] EXCEPT !.output = shown] \in PromptEntry
  BY <1>6 DEF PromptEntry
<1>8. /\ entries'[n] = [entries[n] EXCEPT ![e] = [@ EXCEPT !.output = shown]]
      /\ \A m \in Nodes \ {n} : entries'[m] = entries[m]
      /\ DOMAIN entries' = Nodes
  BY <1>2, <1>3, <1>6
<1>9. /\ entries'[n] \in Seq(PromptEntry) /\ Len(entries'[n]) = Len(entries[n])
      /\ DOMAIN entries'[n] = DOMAIN entries[n]
      /\ \A i \in DOMAIN entries[n] : i # e => entries'[n][i] = entries[n][i]
      /\ entries'[n][e] = [entries[n][e] EXCEPT !.output = shown]
  <2> DEFINE log == entries[n]
             attached == [entries[n][e] EXCEPT !.output = shown]
  <2>1. entries'[n] = [log EXCEPT ![e] = attached]
    BY <1>8
  <2>2. log \in Seq(PromptEntry) /\ attached \in PromptEntry /\ e \in DOMAIN log
    BY <1>4, <1>6, <1>7
  <2> HIDE DEF log, attached
  <2>3. /\ entries'[n] \in Seq(PromptEntry) /\ Len(entries'[n]) = Len(log)
        /\ DOMAIN entries'[n] = DOMAIN log /\ entries'[n][e] = attached
        /\ \A i \in DOMAIN log : i # e => entries'[n][i] = log[i]
    <3> DEFINE updated == entries'[n]
    <3>1. updated = [log EXCEPT ![e] = attached]
      BY <2>1
    <3> HIDE DEF updated
    <3>2. DOMAIN updated = DOMAIN log /\ updated[e] = attached
          /\ \A i \in DOMAIN log : i # e => updated[i] = log[i]
      BY <2>2, <3>1, Zenon
    <3>3. DOMAIN log = 1..Len(log) /\ Len(log) \in Nat
          /\ \A i \in DOMAIN log : log[i] \in PromptEntry
      BY <2>2
    <3>4. updated = [i \in 1..Len(log) |-> updated[i]]
      BY <3>1, <3>3
    <3>5. \A i \in 1..Len(log) : updated[i] \in PromptEntry
      BY <2>2, <3>2, <3>3
    <3>6. updated \in Seq(PromptEntry) /\ Len(updated) = Len(log)
      BY <3>3, <3>4, <3>5
    <3> QED
      BY <3>2, <3>6 DEF updated
  <2> QED
    BY <2>3 DEF log, attached
<1>10. /\ entries'[n][e].requestID = entries[n][e].requestID
       /\ entries'[n][e].prompt = entries[n][e].prompt
       /\ entries'[n][e].n = entries[n][e].n
       /\ entries'[n][e].output = shown
  BY <1>6, <1>9 DEF PromptEntry
<1>11. \A m \in Nodes :
         /\ DOMAIN entries'[m] = DOMAIN entries[m] /\ Len(entries'[m]) = Len(entries[m])
         /\ \A i \in DOMAIN entries[m] :
             /\ entries'[m][i].requestID = entries[m][i].requestID
             /\ entries'[m][i].n = entries[m][i].n
  <2> SUFFICES ASSUME NEW m \in Nodes
               PROVE  /\ DOMAIN entries'[m] = DOMAIN entries[m] /\ Len(entries'[m]) = Len(entries[m])
                      /\ \A i \in DOMAIN entries[m] :
                          /\ entries'[m][i].requestID = entries[m][i].requestID
                          /\ entries'[m][i].n = entries[m][i].n
    OBVIOUS
  <2>1. CASE m # n
    <3>1. entries'[m] = entries[m]
      BY <1>8, <2>1
    <3> QED
      BY <3>1
  <2>2. CASE m = n
    <3> SUFFICES ASSUME NEW i \in DOMAIN entries[n]
                 PROVE  /\ entries'[n][i].requestID = entries[n][i].requestID
                        /\ entries'[n][i].n = entries[n][i].n
      BY <1>9, <2>2, Zenon
    <3>1. CASE i = e
      BY <1>10, <3>1, Zenon
    <3>2. CASE i # e
      BY <1>9, <3>2, Zenon
    <3> QED
      BY <3>1, <3>2
  <2> QED
    BY <2>1, <2>2
<1>12. output'[r] = text /\ \A q \in Requests \ {r} : output'[q] = output[q]
  BY <1>3
<1>13. TypeOK'
  <2>1. entries' \in [Nodes -> Seq(PromptEntry)]
    <3>1. \A m \in Nodes : entries'[m] \in Seq(PromptEntry)
      BY <1>3, <1>8, <1>9
    <3> QED
      BY <1>6, <1>3, <3>1
  <2>2. output' \in [Requests -> Texts]
    BY <1>3
  <2> QED
    BY <1>1, <1>2, <1>11, <2>1, <2>2 DEF PromptsInv, TypeOK
<1>14. Owned'
  <2> SUFFICES ASSUME NEW m \in Nodes, NEW i \in DOMAIN entries'[m]
               PROVE  \E q \in Requests : Owns(q, m, entries[m][i])'
    BY DEF Owned
  <2>1. PICK q \in Requests : Owns(q, m, entries[m][i])
    BY <1>11 DEF PromptsInv, Owned
  <2>2. CASE q = r
    <3>1. m = n /\ entries[n][i].requestID = entries[n][e].requestID
      BY <1>4, <2>1, <2>2 DEF Owns
    <3>2. i = e
      BY <1>2, <1>4, <1>11, <3>1 DEF PromptsInv, EntriesDiffer
    <3>3. entries'[m][i].prompt \in {Truncate(asked[r]), Nothing}
      BY <1>10, <2>1, <2>2, <3>1, <3>2 DEF Owns
    <3> QED
      BY <1>1, <1>2, <1>4, <1>10, <1>12, <3>1, <3>2, <3>3 DEF Owns
  <2>3. CASE q # r
    <3>1. Live(q)
      BY <2>1 DEF Owns, Kept
    <3>2. ~(m = n /\ i = e)
      BY <1>2, <1>4, <2>1, <2>3, <3>1 DEF PromptsInv, IdsDiffer, Owns
    <3>3. entries'[m][i] = entries[m][i]
      <4>1. CASE m # n
        BY <1>8, <4>1, Zenon
      <4>2. CASE m = n
        BY <1>9, <3>2, <4>2, Zenon
      <4> QED
        BY <4>1, <4>2
    <3> QED
      BY <1>1, <1>2, <1>12, <2>1, <2>3, <3>3 DEF Owns
  <2> QED
    BY <2>2, <2>3
<1>15. EntriesDiffer'
  BY <1>11 DEF PromptsInv, EntriesDiffer
<1>16. Unanswered'
  BY <1>3, <1>12 DEF PromptsInv, Unanswered
<1>17. Numbered'
  BY <1>11 DEF PromptsInv, Numbered
<1>18. Appended'
  <2> SUFFICES ASSUME NEW q \in Requests, Kept(q)', asked[q] # Nothing
               PROVE  /\ appendedAs[q] \in 1..appends[home[q]]
                      /\ \A i \in DOMAIN entries'[home[q]] :
                          entries'[home[q]][i].n = appendedAs[q] =>
                              entries'[home[q]][i].requestID = rid[q]
    BY <1>1 DEF Appended
  <2>1. Kept(q)
    BY <1>2 DEF Kept
  <2>2. home[q] \in Nodes
    BY <2>1 DEF PromptsInv, Ids, Kept, Live
  <2>3. /\ appendedAs[q] \in 1..appends[home[q]]
        /\ \A i \in DOMAIN entries[home[q]] :
            entries[home[q]][i].n = appendedAs[q] =>
                entries[home[q]][i].requestID = rid[q]
    BY <2>1 DEF PromptsInv, Appended
  <2> QED
    BY <1>11, <2>2, <2>3
<1> QED
  BY <1>2, <1>13, <1>14, <1>15, <1>16, <1>17, <1>18 DEF PromptsInv

-----------------------------------------------------------------------------
(* A new id is above all that live requests of the node hold.               *)
LEMMA MintKeeps ==
    ASSUME PromptsInv, NEW r \in Requests, NEW n \in Nodes, Mint(r, n)
    PROVE  PromptsInv'
<1>1. /\ at \in [Requests -> Stages] /\ at[r] = "new"
      /\ at' = [at EXCEPT ![r] = "minted"]
      /\ nextRequestID' = [nextRequestID EXCEPT ![n] = @ + 1]
      /\ nextRequestID[n] \in Nat
      /\ rid' = [rid EXCEPT ![r] = nextRequestID[n] + 1]
      /\ home' = [home EXCEPT ![r] = n] /\ born' = [born EXCEPT ![r] = epoch[n]]
      /\ \E text \in PromptText(r) : asked' = [asked EXCEPT ![r] = text]
      /\ \A q \in Requests \ {r} : asked'[q] = asked[q]
  BY DEF Mint, Step, PromptsInv, TypeOK
<1>0. asked' \in [Requests -> Asked]
  <2>1. PromptText(r) \subseteq Asked
    BY LengthsAssumption DEF PromptText, Asked
  <2> QED
    BY <1>1, <2>1 DEF PromptsInv, TypeOK
<1>2. /\ entries' = entries /\ epoch' = epoch /\ appends' = appends
      /\ output' = output /\ sent' = sent /\ captured' = captured
      /\ appendedAs' = appendedAs
  BY DEF Mint, captureVars
<1>3. /\ home'[r] = n /\ born'[r] = epoch[n] /\ rid'[r] = nextRequestID[n] + 1
      /\ at'[r] = "minted" /\ nextRequestID'[n] = nextRequestID[n] + 1
      /\ \A m \in Nodes \ {n} : nextRequestID'[m] = nextRequestID[m]
      /\ \A q \in Requests \ {r} :
          home'[q] = home[q] /\ born'[q] = born[q] /\ rid'[q] = rid[q] /\ at'[q] = at[q]
      /\ epoch[n] \in Nat
  BY <1>1 DEF PromptsInv, TypeOK
<1>4. /\ Live(r)' /\ ~Kept(r)' /\ ~Kept(r)
      /\ \A q \in Requests \ {r} : Live(q)' = Live(q) /\ Kept(q)' = Kept(q)
  BY <1>1, <1>2, <1>3 DEF Live, Kept
<1>5. TypeOK'
  <2>1. nextRequestID' \in [Nodes -> Nat] /\ rid' \in [Requests -> Nat]
        /\ home' \in [Requests -> Nodes \cup {NoNode}] /\ born' \in [Requests -> Nat]
        /\ at' \in [Requests -> Stages]
    BY <1>1, <1>3 DEF PromptsInv, TypeOK, Stages
  <2> QED
    BY <1>0, <1>2, <2>1 DEF PromptsInv, TypeOK
<1>6. Ids'
  <2> SUFFICES ASSUME NEW q \in Requests
               PROVE  /\ at'[q] = "new" => home'[q] = NoNode
                      /\ at'[q] # "new" =>
                            home'[q] \in Nodes /\ born'[q] <= epoch'[home'[q]]
                      /\ Live(q)' => rid'[q] <= nextRequestID'[home'[q]]
                      /\ at'[q] \in {"minted", "stored", "running"} => Live(q)'
    BY DEF Ids
  <2>1. CASE q = r
    BY <1>1, <1>2, <1>3, <1>4, <2>1
  <2>2. CASE q # r
    <3>1. /\ at[q] = "new" => home[q] = NoNode
          /\ at[q] # "new" => home[q] \in Nodes /\ born[q] <= epoch[home[q]]
          /\ Live(q) => rid[q] <= nextRequestID[home[q]] /\ home[q] \in Nodes
          /\ at[q] \in {"minted", "stored", "running"} => Live(q)
      BY DEF PromptsInv, Ids, Live
    <3>2. home[q] \in Nodes =>
            /\ nextRequestID[home[q]] <= nextRequestID'[home[q]]
            /\ nextRequestID[home[q]] \in Nat /\ nextRequestID'[home[q]] \in Nat
            /\ rid[q] \in Nat
      <4>1. rid[q] \in Nat /\ nextRequestID \in [Nodes -> Nat]
        BY DEF PromptsInv, TypeOK
      <4> QED
        BY <1>3, <4>1
    <3> QED
      BY <1>2, <1>3, <1>4, <2>2, <3>1, <3>2
  <2> QED
    BY <2>1, <2>2
<1>7. IdsDiffer'
  <2>1. \A q \in Requests \ {r} : Live(q) /\ home[q] = n => rid[q] # nextRequestID[n] + 1
    <3> SUFFICES ASSUME NEW q \in Requests \ {r}, Live(q), home[q] = n
                 PROVE  rid[q] # nextRequestID[n] + 1
      OBVIOUS
    <3>1. rid[q] <= nextRequestID[n] /\ rid[q] \in Nat
      BY DEF PromptsInv, Ids, Live, TypeOK
    <3> QED
      BY <1>1, <3>1
  <2> QED
    BY <1>3, <1>4, <2>1 DEF PromptsInv, IdsDiffer
<1>8. Owned'
  <2>1. \A q \in Requests, m \in Nodes : \A e : Owns(q, m, e) =>
          /\ Kept(q)' /\ home'[q] = m /\ rid'[q] = e.requestID
          /\ e.prompt \in {Truncate(asked'[q]), Nothing}
          /\ e.output \in {Truncate(output'[q]), Nothing}
    BY <1>1, <1>2, <1>3, <1>4 DEF Owns
  <2> QED
    BY <1>2, <2>1 DEF PromptsInv, Owned, Owns
<1>9. EntriesDiffer' /\ Numbered'
  BY <1>2 DEF PromptsInv, EntriesDiffer, Numbered
<1>10. Unanswered'
  BY <1>1, <1>2, <1>3 DEF PromptsInv, Unanswered
<1>11. Appended'
  <2>1. \A q \in Requests : Kept(q)' => q # r /\ Kept(q) /\ asked'[q] = asked[q]
                               /\ home'[q] = home[q] /\ rid'[q] = rid[q]
    BY <1>1, <1>3, <1>4
  <2> QED
    BY <1>2, <2>1 DEF PromptsInv, Appended
<1> QED
  BY <1>5, <1>6, <1>7, <1>8, <1>9, <1>10, <1>11 DEF PromptsInv

(* A node that restarts leaves no request live, and its store is empty.     *)
LEMMA RestartKeeps ==
    ASSUME PromptsInv, NEW n \in Nodes, Restart(n)
    PROVE  PromptsInv'
<1>1. /\ epoch' = [epoch EXCEPT ![n] = @ + 1]
      /\ nextRequestID' = [nextRequestID EXCEPT ![n] = 0]
      /\ entries' = [entries EXCEPT ![n] = <<>>] /\ appends' = [appends EXCEPT ![n] = 0]
      /\ at' = [r \in Requests |-> IF home[r] = n /\ at[r] # "over" THEN "lost" ELSE at[r]]
      /\ home' = home /\ born' = born /\ rid' = rid /\ asked' = asked
      /\ sent' = sent /\ captured' = captured /\ output' = output
      /\ appendedAs' = appendedAs
  BY DEF Restart, idVars, captureVars
<1>2. /\ epoch \in [Nodes -> Nat] /\ nextRequestID \in [Nodes -> Nat]
      /\ entries \in [Nodes -> Seq(PromptEntry)] /\ appends \in [Nodes -> Nat]
      /\ at \in [Requests -> Stages] /\ born \in [Requests -> Nat]
  BY DEF PromptsInv, TypeOK
<1>3. /\ entries'[n] = <<>> /\ appends'[n] = 0 /\ epoch'[n] = epoch[n] + 1
      /\ \A m \in Nodes \ {n} :
          /\ entries'[m] = entries[m] /\ appends'[m] = appends[m]
          /\ epoch'[m] = epoch[m] /\ nextRequestID'[m] = nextRequestID[m]
      /\ \A r \in Requests : home[r] # n => at'[r] = at[r]
      /\ \A r \in Requests : at'[r] \in {at[r], "lost"}
  BY <1>1, <1>2
<1>4. \A r \in Requests :
        IF at[r] = "new" THEN home[r] = NoNode
        ELSE home[r] \in Nodes /\ born[r] <= epoch[home[r]]
  BY DEF PromptsInv, Ids
<1>5. TypeOK'
  <2>1. at' \in [Requests -> Stages]
    BY <1>1, <1>2 DEF Stages
  <2>2. entries' \in [Nodes -> Seq(PromptEntry)]
    BY <1>1, <1>2
  <2>3. \A m \in Nodes : Len(entries'[m]) <= PromptMax
    <3>1. Len(entries'[n]) <= PromptMax
      BY <1>3, PromptMaxAssumption
    <3>2. \A m \in Nodes \ {n} : Len(entries'[m]) <= PromptMax
      BY <1>3 DEF PromptsInv, TypeOK
    <3> QED
      BY <3>1, <3>2
  <2>4. epoch' \in [Nodes -> Nat] /\ nextRequestID' \in [Nodes -> Nat]
        /\ appends' \in [Nodes -> Nat]
    BY <1>1, <1>2
  <2> QED
    BY <1>1, <2>1, <2>2, <2>3, <2>4 DEF PromptsInv, TypeOK
<1>6. \A r \in Requests : home[r] = n => ~Live(r)' /\ at'[r] \in {"over", "lost"}
  <2> SUFFICES ASSUME NEW r \in Requests, home[r] = n
               PROVE  ~Live(r)' /\ at'[r] \in {"over", "lost"}
    OBVIOUS
  <2>1. born[r] <= epoch[n] /\ born[r] \in Nat /\ epoch[n] \in Nat
    BY <1>2, <1>4, PeersAssumption
  <2> QED
    BY <1>1, <1>3, <2>1 DEF Live
<1>7. \A r \in Requests : home[r] # n => Live(r)' = Live(r) /\ Kept(r)' = Kept(r)
  <2> SUFFICES ASSUME NEW r \in Requests, home[r] # n
               PROVE  Live(r)' = Live(r) /\ Kept(r)' = Kept(r)
    OBVIOUS
  <2>1. at'[r] = at[r] /\ (at[r] # "new" => epoch'[home[r]] = epoch[home[r]])
    BY <1>3, <1>4
  <2> QED
    BY <1>1, <2>1 DEF Live, Kept
<1>8. \A r \in Requests : Live(r)' => Live(r) /\ home[r] \in Nodes \ {n}
  BY <1>3, <1>4, <1>6, <1>7 DEF Live
<1>9. Ids'
  <2> SUFFICES ASSUME NEW r \in Requests
               PROVE  /\ at'[r] = "new" => home[r] = NoNode
                      /\ at'[r] # "new" =>
                            home[r] \in Nodes /\ born[r] <= epoch'[home[r]]
                      /\ Live(r)' => rid[r] <= nextRequestID'[home[r]]
                      /\ at'[r] \in {"minted", "stored", "running"} => Live(r)'
    BY <1>1 DEF Ids
  <2>1. CASE home[r] = n
    <3>1. at'[r] \in {"over", "lost"} /\ ~Live(r)'
      BY <1>6, <2>1
    <3>2. born[r] <= epoch[n] /\ born[r] \in Nat /\ epoch[n] \in Nat
      BY <1>2, <1>4, <2>1, PeersAssumption
    <3> QED
      BY <1>3, <2>1, <3>1, <3>2
  <2>2. CASE home[r] # n
    BY <1>3, <1>4, <1>7, <1>8, <2>2 DEF PromptsInv, Ids
  <2> QED
    BY <2>1, <2>2
<1>10. IdsDiffer'
  BY <1>1, <1>8 DEF PromptsInv, IdsDiffer
<1>11. Owned'
  <2>1. \A q \in Requests, m \in Nodes \ {n} : \A e : Owns(q, m, e) =>
          /\ Kept(q)' /\ home'[q] = m /\ rid'[q] = e.requestID
          /\ e.prompt \in {Truncate(asked'[q]), Nothing}
          /\ e.output \in {Truncate(output'[q]), Nothing}
    BY <1>1, <1>7 DEF Owns
  <2> QED
    BY <1>3, <2>1 DEF PromptsInv, Owned, Owns
<1>12. EntriesDiffer'
  BY <1>3 DEF PromptsInv, EntriesDiffer
<1>13. Unanswered'
  BY <1>1, <1>3 DEF PromptsInv, Unanswered
<1>14. Numbered'
  <2>1. /\ Len(entries'[n]) <= appends'[n]
        /\ Len(entries'[n]) < PromptMax => appends'[n] = Len(entries'[n])
        /\ DOMAIN entries'[n] = {}
    BY <1>3
  <2> QED
    BY <1>3, <2>1 DEF PromptsInv, Numbered
<1>15. Appended'
  <2>1. \A r \in Requests : Kept(r)' => Kept(r) /\ home[r] \in Nodes \ {n}
    BY <1>7, <1>8 DEF Kept
  <2> QED
    BY <1>1, <1>3, <2>1 DEF PromptsInv, Appended
<1> QED
  BY <1>5, <1>9, <1>10, <1>11, <1>12, <1>13, <1>14, <1>15 DEF PromptsInv

-----------------------------------------------------------------------------
LEMMA PromptsInvInit == Init => PromptsInv
<1> SUFFICES ASSUME Init PROVE PromptsInv
  OBVIOUS
<1>1. /\ \A n \in Nodes : entries[n] = <<>> /\ appends[n] = 0
      /\ \A r \in Requests :
          at[r] = "new" /\ home[r] = NoNode /\ output[r] = Nothing
  BY DEF Init
<1>2. \A n \in Nodes : Len(entries[n]) = 0 /\ DOMAIN entries[n] = {}
  BY <1>1
<1>3. TypeOK
  BY <1>2, PromptMaxAssumption DEF Init, TypeOK, Stages, Texts, Asked
<1>4. Ids /\ IdsDiffer /\ Unanswered /\ Appended
  BY <1>1 DEF Ids, IdsDiffer, Unanswered, Appended, Kept, Live
<1>5. Owned /\ EntriesDiffer
  BY <1>2 DEF Owned, EntriesDiffer
<1>6. Numbered
  BY <1>1, <1>2 DEF Numbered
<1> QED
  BY <1>3, <1>4, <1>5, <1>6 DEF PromptsInv

(* Before its prompt is stored, no entry has a request's id.                *)
LEMMA NoneYet ==
    ASSUME PromptsInv, NEW r \in Requests, at[r] = "minted"
    PROVE  Entries(home[r], rid[r]) = {}
<1> SUFFICES ASSUME NEW i \in Entries(home[r], rid[r]) PROVE FALSE
  OBVIOUS
<1>1. Live(r) /\ home[r] \in Nodes
  BY DEF PromptsInv, Ids
<1>2. i \in DOMAIN entries[home[r]] /\ entries[home[r]][i].requestID = rid[r]
  BY DEF Entries
<1>3. PICK q \in Requests : Owns(q, home[r], entries[home[r]][i])
  BY <1>1, <1>2 DEF PromptsInv, Owned
<1>4. q = r
  BY <1>1, <1>2, <1>3 DEF PromptsInv, IdsDiffer, Owns, Kept
<1> QED
  BY <1>3, <1>4 DEF Owns, Kept

LEMMA StoreKeeps ==
    ASSUME PromptsInv, NEW r \in Requests, Store(r)
    PROVE  PromptsInv'
<1>1. /\ at[r] = "minted" /\ at' = [at EXCEPT ![r] = "stored"]
      /\ UNCHANGED <<nextRequestID, epoch, idVars, sent, captured>> /\ output' = output
      /\ UNCHANGED <<nextRequestID, epoch, idVars, captureVars>>
  BY DEF Store, Step, captureVars
<1>2. CASE asked[r] = Nothing
  <2>1. UNCHANGED <<nodeVars, idVars, output, appendedAs>>
    BY <1>1, <1>2 DEF Store, storeVars, nodeVars
  <2>2. sent' \in [Requests -> Seq(Sizes)] /\ captured' \in [Requests -> Seq(Nat)]
    BY <1>1 DEF PromptsInv, TypeOK
  <2> QED
    BY <1>1, <1>2, <2>1, <2>2, QuietKeeps
<1>3. CASE asked[r] # Nothing
  <2>1. AppendEntry(r, Truncate(asked[r]), Nothing) /\ Nothing \in Texts
    BY <1>3 DEF Store, Texts
  <2>2. output' = [output EXCEPT ![r] = Nothing]
    BY <1>1 DEF PromptsInv, Unanswered, TypeOK
  <2> QED
    BY <1>1, <2>1, <2>2, NoneYet, TruncateIs, AppendKeeps
<1> QED
  BY <1>2, <1>3

LEMMA WriteKeeps ==
    ASSUME PromptsInv, NEW r \in Requests, NEW size \in Sizes, Write(r, size)
    PROVE  PromptsInv'
<1>1. /\ at[r] = "running" /\ UNCHANGED <<nodeVars, idVars, at, output, appendedAs>>
      /\ sent' = [sent EXCEPT ![r] = Append(@, size)]
      /\ captured' \in {captured, [captured EXCEPT ![r] = Append(@, Len(sent[r]) + 1)]}
  BY DEF Write
<1>2. at' = [at EXCEPT ![r] = "running"]
  BY <1>1 DEF PromptsInv, TypeOK
<1>3. sent \in [Requests -> Seq(Sizes)] /\ captured \in [Requests -> Seq(Nat)]
  BY DEF PromptsInv, TypeOK
<1>4. Append(sent[r], size) \in Seq(Sizes) /\ Append(captured[r], Len(sent[r]) + 1) \in Seq(Nat)
  BY <1>3
<1>5. sent' \in [Requests -> Seq(Sizes)] /\ captured' \in [Requests -> Seq(Nat)]
  BY <1>1, <1>3, <1>4
<1> QED
  BY <1>1, <1>2, <1>5, QuietKeeps

LEMMA StoreOutputKeeps ==
    ASSUME PromptsInv, NEW r \in Requests, StoreOutput(r)
    PROVE  PromptsInv'
<1>1. /\ at[r] \in {"stored", "running"} /\ at' = [at EXCEPT ![r] = "over"]
      /\ UNCHANGED <<nextRequestID, epoch, idVars, sent, captured>>
  BY DEF StoreOutput, Ends, Step
<1>2. sent' \in [Requests -> Seq(Sizes)] /\ captured' \in [Requests -> Seq(Nat)]
      /\ captured[r] \in Seq(Nat)
  BY <1>1 DEF PromptsInv, TypeOK
<1>3. PICK text \in Output(r) :
        /\ output' = [output EXCEPT ![r] = text]
        /\ \/ text = Nothing /\ UNCHANGED storeVars
           \/ /\ text # Nothing /\ Entries(home[r], rid[r]) # {}
              /\ entries' = [entries EXCEPT
                    ![home[r]][Max(Entries(home[r], rid[r]))].output = Truncate(text)]
              /\ UNCHANGED <<appends, appendedAs>>
           \/ /\ text # Nothing /\ Entries(home[r], rid[r]) = {}
              /\ AppendEntry(r, Nothing, Truncate(text))
  BY DEF StoreOutput
<1>4. text \in Texts /\ Truncate(text) \in Texts
  <2>1. text \in Texts
    BY <1>2, LengthsAssumption DEF Output, Texts
  <2> QED
    BY <2>1, TruncateIs
<1>5. CASE text = Nothing /\ UNCHANGED storeVars
  <2>1. output' = output
    BY <1>1, <1>3, <1>5 DEF PromptsInv, Unanswered, TypeOK
  <2>2. UNCHANGED <<nodeVars, idVars, output, appendedAs>>
    BY <1>1, <1>5, <2>1 DEF storeVars, nodeVars
  <2> QED
    BY <1>1, <1>2, <2>2, QuietKeeps
<1>6. CASE /\ Entries(home[r], rid[r]) # {}
           /\ entries' = [entries EXCEPT
                 ![home[r]][Max(Entries(home[r], rid[r]))].output = Truncate(text)]
           /\ UNCHANGED <<appends, appendedAs>>
  BY <1>1, <1>3, <1>4, <1>6, AttachKeeps
<1>7. CASE Entries(home[r], rid[r]) = {} /\ AppendEntry(r, Nothing, Truncate(text))
  BY <1>1, <1>3, <1>4, <1>7, AppendKeeps
<1> QED
  BY <1>3, <1>5, <1>6, <1>7

LEMMA PromptsInvNext == PromptsInv /\ [Next]_vars => PromptsInv'
<1> SUFFICES ASSUME PromptsInv, [Next]_vars PROVE PromptsInv'
  OBVIOUS
<1>1. ASSUME NEW r \in Requests, Store(r) PROVE PromptsInv'
  BY <1>1, StoreKeeps
<1>2. ASSUME NEW r \in Requests, EmitStart(r) PROVE PromptsInv'
  <2>1. /\ at[r] = "stored" /\ at' = [at EXCEPT ![r] = "running"]
        /\ UNCHANGED <<nodeVars, idVars, output, appendedAs>>
        /\ sent' = sent /\ captured' = captured
    BY <1>2 DEF EmitStart, Step, captureVars
  <2>2. sent' \in [Requests -> Seq(Sizes)] /\ captured' \in [Requests -> Seq(Nat)]
    BY <2>1 DEF PromptsInv, TypeOK
  <2> QED
    BY <2>1, <2>2, QuietKeeps
<1>3. ASSUME NEW r \in Requests, StoreOutput(r) PROVE PromptsInv'
  BY <1>3, StoreOutputKeeps
<1>4. ASSUME NEW r \in Requests, NEW n \in Nodes, Mint(r, n) PROVE PromptsInv'
  BY <1>4, MintKeeps
<1>5. ASSUME NEW r \in Requests, NEW size \in Sizes, Write(r, size) PROVE PromptsInv'
  BY <1>5, WriteKeeps
<1>6. ASSUME NEW n \in Nodes, Restart(n) PROVE PromptsInv'
  BY <1>6, RestartKeeps
<1>7. CASE UNCHANGED vars
  BY <1>7 DEF vars, nodeVars, idVars, captureVars, PromptsInv, TypeOK, Ids, IdsDiffer,
              Owned, Owns, EntriesDiffer, Unanswered, Numbered, Appended, Live, Kept
<1> QED
  BY <1>1, <1>2, <1>3, <1>4, <1>5, <1>6, <1>7 DEF Next, Handle

LEMMA PromptsSafety == Spec => []PromptsInv
BY PromptsInvInit, PromptsInvNext, PTL DEF Spec

-----------------------------------------------------------------------------
(* Every variable of Prompts has its type, and no store outgrows PromptMax.  *)
THEOREM PromptsTyped == Spec => []TypeOK
<1>1. PromptsInv => TypeOK
  BY DEF PromptsInv
<1> QED
  BY <1>1, PromptsSafety, PTL

(* What a lookup of a row finds is an entry of the node that announced it.   *)
LEMMA Found ==
    ASSUME PromptsInv, NEW n \in Nodes, NEW id, Entries(n, id) # {}
    PROVE  \E i \in DOMAIN entries[n] :
              /\ Get(n, id) = entries[n][i] /\ entries[n][i].requestID = id
              /\ entries[n][i] \in PromptEntry
<1>1. PICK i \in DOMAIN entries[n] : entries[n][i].requestID = id
  BY DEF Entries
<1>2. Entries(n, id) = {i}
  BY <1>1 DEF Entries, PromptsInv, EntriesDiffer
<1>3. entries[n] \in Seq(PromptEntry)
  BY DEF PromptsInv, TypeOK
<1>4. i \in Nat /\ entries[n][i] \in PromptEntry
  BY <1>1, <1>3
<1>5. Max({i}) = i
  BY <1>4 DEF Max
<1> QED
  BY <1>1, <1>2, <1>4, <1>5 DEF Get

(* A request has one entry, which no other writes to, and its row opens      *)
(* that one wherever it is opened (prompts.go:55-71, activity.go:22-30).    *)
THEOREM RowsOpenTheirOwn == Spec => []OneEntryEach
<1>1. ASSUME PromptsInv PROVE OneEntryEach
  <2>1. ASSUME NEW v \in Nodes, NEW r \in Requests, HasRow(r), Opened(v, r) # Nothing
        PROVE  /\ Opened(v, r).prompt # Nothing => StartOf(Opened(v, r).prompt, asked[r])
               /\ Opened(v, r).output # Nothing => StartOf(Opened(v, r).output, output[r])
    <3>1. Live(r) /\ home[r] \in Nodes
      BY <1>1, <2>1 DEF HasRow, Live, PromptsInv, Ids
    <3>2. Opened(v, r) = Get(home[r], rid[r]) /\ Entries(home[r], rid[r]) # {}
      BY <2>1 DEF Opened, HandleMeshPrompt, Get
    <3>3. PICK i \in DOMAIN entries[home[r]] :
            Opened(v, r) = entries[home[r]][i] /\ entries[home[r]][i].requestID = rid[r]
      BY <1>1, <3>1, <3>2, Found
    <3>4. PICK q \in Requests : Owns(q, home[r], entries[home[r]][i])
      BY <1>1, <3>1 DEF PromptsInv, Owned
    <3>5. q = r
      BY <1>1, <3>1, <3>3, <3>4 DEF PromptsInv, IdsDiffer, Owns, Kept
    <3>6. /\ Opened(v, r).prompt \in {Truncate(asked[r]), Nothing}
          /\ Opened(v, r).output \in {Truncate(output[r]), Nothing}
      BY <3>3, <3>4, <3>5 DEF Owns
    <3>7. asked[r] \in Asked /\ output[r] \in Texts
      BY <1>1 DEF PromptsInv, TypeOK
    <3> QED
      BY <3>6, <3>7, TruncateIs
  <2> QED
    BY <1>1, <2>1 DEF OneEntryEach, PromptsInv, EntriesDiffer
<1> QED
  BY <1>1, PromptsSafety, PTL

(* A row whose request has a prompt opens, at its node and at every node     *)
(* that knows it, until newer entries have filled the store.                *)
THEOREM RowsOpen == Spec => []RowOpens
<1>1. ASSUME PromptsInv PROVE RowOpens
  <2> SUFFICES ASSUME NEW v \in Nodes, NEW r \in Requests, HasRow(r), asked[r] # Nothing,
                      home[r] \in {v} \cup Peers[v], Opened(v, r) = Nothing
               PROVE  /\ Len(entries[home[r]]) = PromptMax
                      /\ \A i \in DOMAIN entries[home[r]] :
                          entries[home[r]][i].n > appendedAs[r]
    BY DEF RowOpens
  <2> DEFINE n == home[r]
             log == entries[n]
  <2>1. Kept(r) /\ n \in Nodes
    BY <1>1 DEF HasRow, Kept, Live, PromptsInv, Ids
  <2>2. Opened(v, r) = Get(n, rid[r])
    BY DEF Opened, HandleMeshPrompt
  <2>3. Entries(n, rid[r]) = {}
    BY <1>1, <2>1, <2>2, Found, NothingAssumption
  <2>4. \A i \in DOMAIN log : log[i].requestID # rid[r]
    BY <2>3 DEF Entries
  <2>5. /\ appendedAs[r] \in 1..appends[n]
        /\ \A i \in DOMAIN log : log[i].n # appendedAs[r]
    BY <1>1, <2>1, <2>4 DEF PromptsInv, Appended
  <2>6. /\ Len(log) <= appends[n] /\ Len(log) <= PromptMax
        /\ Len(log) < PromptMax => appends[n] = Len(log)
        /\ \A i \in DOMAIN log : log[i].n = appends[n] - Len(log) + i
    BY <1>1, <2>1 DEF PromptsInv, Numbered, TypeOK
  <2>7. appends[n] \in Nat /\ Len(log) \in Nat /\ DOMAIN log = 1..Len(log)
    BY <1>1, <2>1 DEF PromptsInv, TypeOK
  <2> HIDE DEF log, n
  <2>8. appendedAs[r] <= appends[n] - Len(log)
    <3>1. SUFFICES ASSUME appendedAs[r] > appends[n] - Len(log) PROVE FALSE
      BY <2>5, <2>7
    <3> DEFINE i == appendedAs[r] - (appends[n] - Len(log))
    <3>2. i \in 1..Len(log) /\ appends[n] - Len(log) + i = appendedAs[r]
      BY <2>5, <2>6, <2>7, <3>1
    <3> QED
      BY <2>5, <2>6, <2>7, <3>2
  <2>9. Len(log) = PromptMax
    BY <2>5, <2>6, <2>7, <2>8, PromptMaxAssumption
  <2>10. \A i \in DOMAIN log : log[i].n > appendedAs[r]
    BY <2>5, <2>6, <2>7, <2>8
  <2> QED
    BY <2>9, <2>10 DEF log, n
<1> QED
  BY <1>1, PromptsSafety, PTL
-----------------------------------------------------------------------------
(* The least-number principle, and induction as a fact about sets.          *)
LEMMA Least ==
    ASSUME NEW T \in SUBSET Nat, T # {}
    PROVE  \E n \in T : \A m \in T : n <= m
<1> DEFINE Below == {p \in Nat \X Nat : p[1] < p[2]}
<1>1. IsWellFoundedOn(Below, Nat)
  BY NatLessThanWellFounded DEF OpToRel
<1>2. \A m, n \in Nat : <<m, n>> \in Below <=> m < n
  OBVIOUS
<1> HIDE DEF Below
<1>3. PICK n \in T : \A m \in T : ~(<<m, n>> \in Below)
  BY <1>1, WFMin
<1>4. \A m \in T : ~(m < n)
  BY <1>2, <1>3
<1> QED
  BY <1>4

LEMMA Induction ==
    ASSUME NEW T, 0 \in T, \A n \in Nat : n \in T => n + 1 \in T
    PROVE  Nat \subseteq T
<1> SUFFICES ASSUME Nat \ T # {} PROVE FALSE
  OBVIOUS
<1>1. PICK n \in Nat \ T : \A m \in Nat \ T : n <= m
  BY Least
<1>2. n - 1 \in Nat /\ n - 1 \in T
  BY <1>1
<1> QED
  BY <1>1, <1>2

(* A total is a fold, which the library defines over sets of indices.       *)
Sums(f, T, q) ==
    f = [s \in SUBSET T |-> IF s = {} THEN 0 ELSE f[s \ {Max(s)}] + q[Max(s)]]

LEMMA TotalIs ==
    ASSUME NEW q
    PROVE  Total(q) = (CHOOSE f : Sums(f, DOMAIN q, q))[DOMAIN q]
BY DEF Total, FoldLeft, MapThenFoldSet, Sums

LEMMA MaxIs ==
    ASSUME NEW n \in Nat, NEW s \in SUBSET (1 .. n), n \in s
    PROVE  Max(s) = n
<1>1. \A x \in s : (\A y \in s : x >= y) => x = n
  OBVIOUS
<1>2. \A y \in s : n >= y
  OBVIOUS
<1> QED
  BY <1>1, <1>2 DEF Max

LEMMA SumsExist ==
    ASSUME NEW n \in Nat, NEW q
    PROVE  \E f : Sums(f, 1 .. n, q)
<1> DEFINE T == {m \in Nat : \E f : Sums(f, 1 .. m, q)}
<1>1. 0 \in T
  <2> DEFINE f == [s \in SUBSET (1 .. 0) |-> 0]
  <2>1. \A s \in SUBSET (1 .. 0) : s = {}
    OBVIOUS
  <2>2. Sums(f, 1 .. 0, q)
    BY <2>1 DEF Sums
  <2> QED
    BY <2>2
<1>2. ASSUME NEW m \in Nat, m \in T PROVE m + 1 \in T
  <2>1. PICK f : Sums(f, 1 .. m, q)
    BY <1>2
  <2> DEFINE g == [s \in SUBSET (1 .. m + 1) |->
                      IF m + 1 \in s THEN f[s \ {m + 1}] + q[m + 1] ELSE f[s]]
  <2>2. \A s \in SUBSET (1 .. m) : s \in SUBSET (1 .. m + 1) /\ m + 1 \notin s
    OBVIOUS
  <2>3. \A s \in SUBSET (1 .. m) : g[s] = f[s]
    BY <2>2
  <2>4. ASSUME NEW s \in SUBSET (1 .. m + 1)
        PROVE  g[s] = IF s = {} THEN 0 ELSE g[s \ {Max(s)}] + q[Max(s)]
    <3>1. CASE m + 1 \in s
      <4>1. Max(s) = m + 1 /\ s # {} /\ s \ {m + 1} \in SUBSET (1 .. m)
        BY <3>1, MaxIs
      <4>2. g[s] = f[s \ {m + 1}] + q[m + 1]
        BY <3>1
      <4> HIDE DEF g
      <4> QED
        BY <4>1, <4>2, <2>3
    <3>2. CASE m + 1 \notin s
      <4>0. \A x \in s : x \in 1 .. m
        BY <3>2
      <4>1. s \in SUBSET (1 .. m) /\ s \ {Max(s)} \in SUBSET (1 .. m)
        BY <4>0
      <4>2. f[s] = IF s = {} THEN 0 ELSE f[s \ {Max(s)}] + q[Max(s)]
        BY <4>1, <2>1 DEF Sums
      <4> HIDE DEF g
      <4> QED
        BY <4>1, <4>2, <2>3
    <3> QED
      BY <3>1, <3>2
  <2>5. g = [s \in SUBSET (1 .. m + 1) |->
              IF s = {} THEN 0 ELSE g[s \ {Max(s)}] + q[Max(s)]]
    <3>1. g = [s \in SUBSET (1 .. m + 1) |-> g[s]]
      OBVIOUS
    <3> HIDE DEF g
    <3> QED
      BY <3>1, <2>4
  <2>6. Sums(g, 1 .. m + 1, q)
    BY <2>5 DEF Sums
  <2> QED
    BY <2>6
<1> HIDE DEF T
<1>3. Nat \subseteq T
  BY <1>1, <1>2, Induction
<1> QED
  BY <1>3 DEF T

(* So a total is the last of the totals of the sequence's beginnings.       *)
RunsTo(h, q) ==
    /\ h[0] = 0
    /\ \A m \in Nat : m < Len(q) => h[m + 1] = h[m] + q[m + 1]

LEMMA TotalRuns ==
    ASSUME NEW q \in Seq(Nat)
    PROVE  \E h : RunsTo(h, q) /\ Total(q) = h[Len(q)]
<1> DEFINE f == CHOOSE f : Sums(f, 1 .. Len(q), q)
           h == [m \in Nat |-> f[1 .. m]]
<1>1. Len(q) \in Nat /\ DOMAIN q = 1 .. Len(q)
  OBVIOUS
<1>2. Sums(f, 1 .. Len(q), q)
  BY <1>1, SumsExist
<1>3. Total(q) = f[1 .. Len(q)]
  BY <1>1, TotalIs
<1> HIDE DEF f
<1>4. f[1 .. 0] = 0
  BY <1>1, <1>2 DEF Sums
<1>5. ASSUME NEW m \in Nat, m < Len(q) PROVE f[1 .. m + 1] = f[1 .. m] + q[m + 1]
  <2>0. /\ \A x \in 1 .. m + 1 : x \in 1 .. Len(q) /\ (x # m + 1 => x \in 1 .. m)
        /\ \A x \in 1 .. m : x \in 1 .. m + 1 /\ x # m + 1
        /\ m + 1 \in 1 .. m + 1
    BY <1>1, <1>5
  <2>1. /\ 1 .. m + 1 \in SUBSET (1 .. Len(q)) /\ 1 .. m + 1 # {}
        /\ (1 .. m + 1) \ {m + 1} = 1 .. m
    BY <2>0
  <2>2. Max(1 .. m + 1) = m + 1
    BY MaxIs
  <2>3. f[1 .. m + 1] = IF 1 .. m + 1 = {} THEN 0
            ELSE f[(1 .. m + 1) \ {Max(1 .. m + 1)}] + q[Max(1 .. m + 1)]
    BY <1>2, <2>1 DEF Sums
  <2> QED
    BY <2>1, <2>2, <2>3
<1>6. RunsTo(h, q) /\ h[Len(q)] = f[1 .. Len(q)]
  BY <1>1, <1>4, <1>5 DEF RunsTo
<1> QED
  BY <1>3, <1>6

(* A total is a number, and each chunk adds its size to it.                 *)
LEMMA TotalAppend ==
    ASSUME NEW q \in Seq(Nat), NEW size \in Nat
    PROVE  Total(q) \in Nat /\ Total(Append(q, size)) = Total(q) + size
<1> DEFINE p == Append(q, size)
<1>1. /\ p \in Seq(Nat) /\ Len(p) = Len(q) + 1 /\ Len(q) \in Nat /\ p[Len(q) + 1] = size
      /\ \A i \in 1 .. Len(q) : p[i] = q[i] /\ q[i] \in Nat
  OBVIOUS
<1> HIDE DEF p
<1>2. PICK h : RunsTo(h, q) /\ Total(q) = h[Len(q)]
  BY TotalRuns
<1>3. PICK k : RunsTo(k, p) /\ Total(p) = k[Len(p)]
  BY <1>1, TotalRuns
<1> DEFINE T == {m \in Nat : m <= Len(q) => h[m] \in Nat /\ k[m] = h[m]}
<1>4. 0 \in T
  BY <1>2, <1>3 DEF RunsTo
<1>5. ASSUME NEW m \in Nat, m \in T PROVE m + 1 \in T
  <2> SUFFICES ASSUME m + 1 <= Len(q) PROVE h[m + 1] \in Nat /\ k[m + 1] = h[m + 1]
    OBVIOUS
  <2>1. m < Len(q) /\ m < Len(p) /\ m + 1 \in 1 .. Len(q) /\ h[m] \in Nat /\ k[m] = h[m]
    BY <1>1, <1>5
  <2>2. h[m + 1] = h[m] + q[m + 1] /\ k[m + 1] = k[m] + p[m + 1]
    BY <1>2, <1>3, <2>1 DEF RunsTo
  <2> QED
    BY <1>1, <2>1, <2>2
<1> HIDE DEF T
<1>6. Len(q) \in T
  BY <1>1, <1>4, <1>5, Induction
<1>7. h[Len(q)] \in Nat /\ k[Len(q)] = h[Len(q)]
  <2>1. Len(q) \in Nat /\ Len(q) <= Len(q)
    BY <1>1
  <2> QED
    BY <1>6, <2>1, Zenon DEF T
<1>8. k[Len(q) + 1] = k[Len(q)] + p[Len(q) + 1]
  <2>1. Len(q) \in Nat /\ Len(q) < Len(p)
    BY <1>1
  <2> QED
    BY <1>3, <2>1, Zenon DEF RunsTo
<1> QED
  BY <1>1, <1>2, <1>3, <1>7, <1>8 DEF p
-----------------------------------------------------------------------------
LEMMA SizesAreNumbers ==
    ASSUME NEW q \in Seq(Sizes)
    PROVE  q \in Seq(Nat)
<1>0. Len(q) \in Nat /\ \A i \in 1 .. Len(q) : q[i] \in Sizes
  OBVIOUS
<1>1. \A i \in 1 .. Len(q) : q[i] \in Nat
  BY <1>0, CaptureAssumption
<1>2. q = [i \in 1 .. Len(q) |-> q[i]]
  OBVIOUS
<1> QED
  BY <1>0, <1>1, <1>2

(* A chunk that is captured comes after all that were sent; once one was    *)
(* left out, more was sent than fits.                                       *)
LEMMA WriteIsGapless ==
    ASSUME PromptsInv, Gapless, NEW r \in Requests, NEW size \in Sizes, Write(r, size)
    PROVE  Gapless'
<1> DEFINE old == sent[r]
           new == Append(sent[r], size)
<1>1. /\ sent \in [Requests -> Seq(Sizes)] /\ captured \in [Requests -> Seq(Nat)]
      /\ Sizes \subseteq Nat \ {0} /\ CaptureRawCap \in Nat
  BY CaptureAssumption DEF PromptsInv, TypeOK
<1>2. /\ sent' = [sent EXCEPT ![r] = new]
      /\ captured' = IF Fits(Buffered(r) + size)
                     THEN [captured EXCEPT ![r] = Append(captured[r], Len(old) + 1)]
                     ELSE captured
  BY DEF Write
<1>3. old \in Seq(Sizes) /\ size \in Nat /\ size > 0
  BY <1>1
<1>4. old \in Seq(Nat)
  BY <1>1, SizesAreNumbers
<1>5. Total(old) \in Nat /\ Total(new) = Total(old) + size
  <2> HIDE DEF old
  <2> QED
    BY <1>3, <1>4, TotalAppend DEF old
<1>6. \A q \in Requests \ {r} : sent'[q] = sent[q] /\ captured'[q] = captured[q]
  BY <1>1, <1>2
<1>7. sent'[r] = new
  BY <1>1, <1>2
<1>8. captured'[r] = [c \in DOMAIN new |-> c] \/ Total(new) > CaptureRawCap
  <2>1. CASE Total(old) > CaptureRawCap
    BY <1>1, <1>3, <1>5, <2>1
  <2>2. CASE captured[r] = [c \in DOMAIN old |-> c]
    <3>1. [i \in DOMAIN captured[r] |-> old[captured[r][i]]] = old
      <4>1. old = [i \in DOMAIN old |-> old[i]]
        BY <1>4
      <4> HIDE DEF old
      <4> QED
        BY <2>2, <4>1
    <3>2. Buffered(r) = Total(old)
      BY <3>1 DEF Buffered
    <3>3. CASE Fits(Buffered(r) + size)
      <4>1. captured'[r] = Append(captured[r], Len(old) + 1)
        BY <1>1, <1>2, <3>3
      <4>2. Append([c \in DOMAIN old |-> c], Len(old) + 1) = [c \in DOMAIN new |-> c]
        <5>1. Len(old) \in Nat /\ DOMAIN old = 1 .. Len(old) /\ DOMAIN new = 1 .. Len(old) + 1
          BY <1>4
        <5> HIDE DEF old, new
        <5> QED
          BY <5>1
      <4> QED
        BY <2>2, <4>1, <4>2
    <3>4. CASE ~Fits(Buffered(r) + size)
      <4> HIDE DEF old, new
      <4> QED
        BY <1>1, <1>3, <1>5, <3>2, <3>4 DEF Fits
    <3> QED
      BY <3>3, <3>4
  <2> QED
    BY <2>1, <2>2 DEF Gapless
<1> QED
  <2> HIDE DEF old, new
  <2> QED
    BY <1>6, <1>7, <1>8 DEF Gapless

(* The stores' operations capture nothing.                                  *)
LEMMA GaplessKeeps == PromptsInv /\ Gapless /\ [Next]_vars => Gapless'
<1> SUFFICES ASSUME PromptsInv, Gapless, [Next]_vars PROVE Gapless'
  OBVIOUS
<1>1. CASE \E r \in Requests, size \in Sizes : Write(r, size)
  BY <1>1, WriteIsGapless
<1>2. CASE UNCHANGED <<sent, captured>>
  BY <1>2 DEF Gapless
<1>3. CASE \E r \in Requests :
            Store(r) \/ EmitStart(r) \/ StoreOutput(r) \/ \E n \in Nodes : Mint(r, n)
  BY <1>2, <1>3 DEF Store, EmitStart, StoreOutput, Mint, captureVars
<1>4. CASE \E n \in Nodes : Restart(n)
  BY <1>2, <1>4 DEF Restart, captureVars
<1>5. CASE UNCHANGED vars
  BY <1>2, <1>5 DEF vars, captureVars
<1> QED
  BY <1>1, <1>3, <1>4, <1>5 DEF Next, Handle

(* An entry that is made for a request has its output, if it has one by     *)
(* then, and takes nothing from another's.                                  *)
LEMMA AppendAttaches ==
    ASSUME PromptsInv, Attached, NEW r \in Requests,
           at[r] \in {"minted", "stored", "running"},
           NEW to \in {"stored", "over"},
           NEW prompt \in {Truncate(asked[r]), Nothing},
           NEW text \in Texts, NEW shown \in Texts, shown = Truncate(text),
           Entries(home[r], rid[r]) = {},
           at' = [at EXCEPT ![r] = to],
           output' = [output EXCEPT ![r] = text],
           AppendEntry(r, prompt, shown),
           UNCHANGED <<nextRequestID, epoch, idVars>>
    PROVE  Attached'
<1> DEFINE n == home[r]
           entry == [requestID |-> rid[r], prompt |-> prompt, output |-> shown,
                     n |-> appends[n] + 1]
           old == entries[n]
           kept == entries'[n]
<1>1. home' = home /\ rid' = rid /\ born' = born /\ epoch' = epoch
  BY DEF idVars
<1>2. Live(r) /\ n \in Nodes
  BY DEF PromptsInv, Ids
<1>3. /\ entries \in [Nodes -> Seq(PromptEntry)] /\ appends \in [Nodes -> Nat]
      /\ output \in [Requests -> Texts] /\ at \in [Requests -> Stages]
      /\ Len(old) <= PromptMax /\ rid[r] \in Nat
      /\ asked[r] \in Asked
  BY <1>2 DEF PromptsInv, TypeOK
<1>4. /\ kept = Evict(Append(old, entry))
      /\ \A m \in Nodes \ {n} : entries'[m] = entries[m]
  BY <1>2, <1>3 DEF AppendEntry
<1>5. entry \in PromptEntry /\ old \in Seq(PromptEntry)
  <2>1. prompt \in Asked /\ appends[n] + 1 \in Nat
    BY <1>2, <1>3, TruncateIs DEF Asked
  <2>2. entry \in PromptEntry
    BY <1>3, <2>1 DEF PromptEntry
  <2> QED
    BY <1>2, <1>3, <2>2
<1>6. \A i \in DOMAIN kept :
        kept[i] = entry \/ \E j \in DOMAIN old : kept[i] = old[j]
  <2> HIDE DEF entry, old, kept
  <2> QED
    <3> DEFINE log == Evict(Append(old, entry))
    <3>1. \E k \in {0, 1} : \A i \in DOMAIN log :
            IF i + k = Len(old) + 1 THEN log[i] = entry
            ELSE i + k \in DOMAIN old /\ log[i] = old[i + k]
      BY <1>3, <1>5, AppendedLog
    <3>2. log = kept
      BY <1>4
    <3> HIDE DEF log
    <3> QED
      BY <3>1, <3>2
<1>7. /\ entry.requestID = rid[r] /\ entry.output = shown
      /\ \A j \in DOMAIN old : old[j].requestID # rid[r]
  BY DEF Entries
<1> SUFFICES ASSUME NEW q \in Requests, at'[q] = "over", output'[q] # Nothing, Live(q)',
                    NEW i \in DOMAIN entries'[home[q]],
                    entries'[home[q]][i].requestID = rid[q]
             PROVE  entries'[home[q]][i].output = Truncate(output'[q])
  BY <1>1 DEF Attached
<1> HIDE DEF kept, entry, old
<1>9. CASE q = r
  BY <1>3, <1>6, <1>7, <1>9 DEF kept
<1>10. CASE q # r
  <2>1. /\ at[q] = "over" /\ output'[q] = output[q] /\ output[q] # Nothing
        /\ Live(q) /\ home[q] \in Nodes
    <3>1. at[q] = "over" /\ output'[q] = output[q]
      BY <1>3, <1>10
    <3> QED
      BY <1>1, <3>1 DEF Live, PromptsInv, Ids
  <2>2. CASE home[q] # n
    BY <1>4, <2>1, <2>2 DEF Attached
  <2>3. CASE home[q] = n
    <3>1. rid[q] # rid[r]
      BY <1>2, <1>10, <2>1, <2>3 DEF PromptsInv, IdsDiffer
    <3>2. PICK j \in DOMAIN old : entries'[home[q]][i] = old[j]
      BY <1>6, <1>7, <2>3, <3>1 DEF kept
    <3> QED
      BY <2>1, <2>3, <3>2 DEF Attached, old
  <2> QED
    BY <2>2, <2>3
<1> QED
  BY <1>9, <1>10

(* So has the one that was there.                                           *)
LEMMA AttachAttaches ==
    ASSUME PromptsInv, Attached, NEW r \in Requests, at[r] \in {"stored", "running"},
           NEW text \in Texts, NEW shown \in Texts, shown = Truncate(text),
           Entries(home[r], rid[r]) # {},
           at' = [at EXCEPT ![r] = "over"],
           output' = [output EXCEPT ![r] = text],
           entries' = [entries EXCEPT
               ![home[r]][Max(Entries(home[r], rid[r]))].output = shown],
           UNCHANGED <<nextRequestID, epoch, idVars>>
    PROVE  Attached'
<1> DEFINE n == home[r]
<1>1. home' = home /\ rid' = rid /\ born' = born /\ epoch' = epoch
  BY DEF idVars
<1>2. Live(r) /\ n \in Nodes
  BY DEF PromptsInv, Ids
<1>3. /\ entries \in [Nodes -> Seq(PromptEntry)] /\ output \in [Requests -> Texts]
      /\ at \in [Requests -> Stages]
  BY DEF PromptsInv, TypeOK
<1>4. PICK e \in DOMAIN entries[n] : entries[n][e].requestID = rid[r]
  BY DEF Entries
<1>5. Max(Entries(n, rid[r])) = e /\ \A i \in DOMAIN entries[n] :
        entries[n][i].requestID = rid[r] => i = e
  <2>1. Entries(n, rid[r]) = {e}
    BY <1>2, <1>4 DEF Entries, PromptsInv, EntriesDiffer
  <2>2. e \in Nat
    BY <1>2, <1>3, <1>4
  <2> QED
    BY <2>1, <2>2 DEF Max, Entries
<1>0. /\ entries' = [entries EXCEPT ![n][e].output = shown]
      /\ entries[n] \in Seq(PromptEntry) /\ entries[n][e] \in PromptEntry
  BY <1>2, <1>3, <1>4, <1>5
<1>6. /\ entries'[n] = [entries[n] EXCEPT ![e] = [@ EXCEPT !.output = shown]]
      /\ \A m \in Nodes \ {n} : entries'[m] = entries[m]
  BY <1>2, <1>3, <1>0
<1>7. /\ DOMAIN entries'[n] = DOMAIN entries[n]
      /\ \A i \in DOMAIN entries[n] : i # e => entries'[n][i] = entries[n][i]
      /\ entries'[n][e] = [entries[n][e] EXCEPT !.output = shown]
  BY <1>4, <1>6, Zenon
<1>8. entries'[n][e].output = shown /\ entries'[n][e].requestID = rid[r]
  BY <1>4, <1>0, <1>7 DEF PromptEntry
<1>9. ASSUME NEW q \in Requests, at'[q] = "over", output'[q] # Nothing, Live(q)',
              NEW i \in DOMAIN entries'[home[q]],
              entries'[home[q]][i].requestID = rid[q]
       PROVE  entries'[home[q]][i].output = Truncate(output'[q])
  <2>1. CASE q = r
    <3>1. i = e
      BY <1>5, <1>7, <1>8, <1>9, <2>1
    <3> QED
      BY <1>3, <1>8, <2>1, <3>1
  <2>2. CASE q # r
    <3>1. /\ at[q] = "over" /\ output'[q] = output[q] /\ output[q] # Nothing
          /\ Live(q) /\ home[q] \in Nodes
      <4>1. at[q] = "over" /\ output'[q] = output[q]
        BY <1>3, <1>9, <2>2
      <4> QED
        BY <1>1, <1>9, <4>1 DEF Live, PromptsInv, Ids
    <3>2. entries'[home[q]][i] = entries[home[q]][i] /\ i \in DOMAIN entries[home[q]]
      <4>1. CASE home[q] # n
        BY <1>6, <1>9, <3>1, <4>1
      <4>2. CASE home[q] = n
        <5>1. rid[q] # rid[r]
          BY <1>2, <2>2, <3>1, <4>2 DEF PromptsInv, IdsDiffer
        <5> QED
          BY <1>7, <1>8, <1>9, <4>2, <5>1
      <4> QED
        BY <4>1, <4>2
    <3>3. \A j \in DOMAIN entries[home[q]] :
            entries[home[q]][j].requestID = rid[q]
              => entries[home[q]][j].output = Truncate(output[q])
      BY <3>1 DEF Attached
    <3> QED
      BY <1>9, <3>1, <3>2, <3>3
  <2> QED
    BY <2>1, <2>2
<1> QED
  BY <1>1, <1>9 DEF Attached

LEMMA AttachedKeeps == PromptsInv /\ Attached /\ [Next]_vars => Attached'
<1> SUFFICES ASSUME PromptsInv, Attached, [Next]_vars PROVE Attached'
  OBVIOUS
<1>0. ASSUME UNCHANGED <<epoch, entries, home, born, rid, output>>,
             \A q \in Requests : at'[q] = "over" => at[q] = "over" \/ output[q] = Nothing
      PROVE  Attached'
  BY <1>0 DEF Attached, Live, PromptsInv
<1>1. ASSUME NEW r \in Requests, Store(r) PROVE Attached'
  <2>1. /\ at[r] = "minted" /\ at' = [at EXCEPT ![r] = "stored"]
        /\ UNCHANGED <<nextRequestID, epoch, idVars>> /\ output' = output
    BY <1>1 DEF Store, Step, captureVars
  <2>2. CASE asked[r] = Nothing
    <3>1. \A q \in Requests : at'[q] = "over" => at[q] = "over"
      BY <2>1 DEF PromptsInv, TypeOK
    <3> QED
      BY <1>0, <1>1, <2>1, <2>2, <3>1 DEF Store, storeVars, idVars
  <2>3. CASE asked[r] # Nothing
    <3>1. AppendEntry(r, Truncate(asked[r]), Nothing) /\ Nothing \in Texts
      BY <1>1, <2>3 DEF Store, Texts
    <3>2. output' = [output EXCEPT ![r] = Nothing]
      BY <2>1 DEF PromptsInv, Unanswered, TypeOK
    <3> QED
      BY <2>1, <3>1, <3>2, NoneYet, TruncateIs, AppendAttaches
  <2> QED
    BY <2>2, <2>3
<1>2. ASSUME NEW r \in Requests, EmitStart(r) PROVE Attached'
  <2>1. \A q \in Requests : at'[q] = "over" => at[q] = "over"
    BY <1>2 DEF EmitStart, Step, PromptsInv, TypeOK
  <2> QED
    BY <1>0, <1>2, <2>1 DEF EmitStart, nodeVars, idVars, captureVars
<1>3. ASSUME NEW r \in Requests, StoreOutput(r) PROVE Attached'
  <2>1. /\ at[r] \in {"stored", "running"} /\ at' = [at EXCEPT ![r] = "over"]
        /\ UNCHANGED <<nextRequestID, epoch, idVars>> /\ captured[r] \in Seq(Nat)
    BY <1>3 DEF StoreOutput, Ends, Step, PromptsInv, TypeOK
  <2>2. PICK text \in Output(r) :
        /\ output' = [output EXCEPT ![r] = text]
        /\ \/ text = Nothing /\ UNCHANGED storeVars
           \/ /\ text # Nothing /\ Entries(home[r], rid[r]) # {}
              /\ entries' = [entries EXCEPT
                    ![home[r]][Max(Entries(home[r], rid[r]))].output = Truncate(text)]
              /\ UNCHANGED <<appends, appendedAs>>
           \/ /\ text # Nothing /\ Entries(home[r], rid[r]) = {}
              /\ AppendEntry(r, Nothing, Truncate(text))
    BY <1>3 DEF StoreOutput
  <2>3. text \in Texts /\ Truncate(text) \in Texts
    <3>1. text \in Texts
      BY <2>1, LengthsAssumption DEF Output, Texts
    <3> QED
      BY <3>1, TruncateIs
  <2>4. CASE text = Nothing /\ UNCHANGED storeVars
    <3>1. output' = output /\ output[r] = Nothing
      BY <2>1, <2>2, <2>4 DEF PromptsInv, Unanswered, TypeOK
    <3>2. \A q \in Requests : at'[q] = "over" => at[q] = "over" \/ output[q] = Nothing
      BY <2>1, <3>1 DEF PromptsInv, TypeOK
    <3> QED
      BY <1>0, <2>1, <2>4, <3>1, <3>2 DEF storeVars, idVars
  <2>5. CASE /\ Entries(home[r], rid[r]) # {}
             /\ entries' = [entries EXCEPT
                   ![home[r]][Max(Entries(home[r], rid[r]))].output = Truncate(text)]
    BY <2>1, <2>2, <2>3, <2>5, AttachAttaches
  <2>6. CASE Entries(home[r], rid[r]) = {} /\ AppendEntry(r, Nothing, Truncate(text))
    BY <2>1, <2>2, <2>3, <2>6, AppendAttaches
  <2> QED
    BY <2>2, <2>4, <2>5, <2>6
<1>4. ASSUME NEW r \in Requests, NEW n \in Nodes, Mint(r, n) PROVE Attached'
  <2>1. /\ UNCHANGED <<epoch, entries, output>> /\ at'[r] = "minted"
        /\ \A q \in Requests \ {r} :
            at'[q] = at[q] /\ home'[q] = home[q] /\ born'[q] = born[q] /\ rid'[q] = rid[q]
    BY <1>4 DEF Mint, Step, captureVars, PromptsInv, TypeOK
  <2> QED
    BY <2>1 DEF Attached, Live
<1>5. ASSUME NEW r \in Requests, NEW size \in Sizes, Write(r, size) PROVE Attached'
  BY <1>0, <1>5 DEF Write, nodeVars, idVars
<1>6. ASSUME NEW n \in Nodes, Restart(n) PROVE Attached'
  <2>1. /\ UNCHANGED <<home, born, rid, output>>
        /\ entries' = [entries EXCEPT ![n] = <<>>] /\ epoch' = [epoch EXCEPT ![n] = @ + 1]
        /\ \A q \in Requests : at'[q] = "over" => at[q] = "over"
    BY <1>6 DEF Restart, idVars, captureVars
  <2> SUFFICES ASSUME NEW q \in Requests, at'[q] = "over", output[q] # Nothing, Live(q)',
                      NEW i \in DOMAIN entries'[home[q]],
                      entries'[home[q]][i].requestID = rid[q]
               PROVE  entries'[home[q]][i].output = Truncate(output[q])
    BY <2>1 DEF Attached
  <2>2. at[q] = "over" /\ home[q] \in Nodes
    BY <2>1 DEF PromptsInv, Ids
  <2>3. entries \in [Nodes -> Seq(PromptEntry)] /\ epoch \in [Nodes -> Nat]
    BY DEF PromptsInv, TypeOK
  <2>4. home[q] # n
    <3>1. ASSUME home[q] = n PROVE FALSE
      <4>1. entries'[home[q]] = <<>>
        BY <2>1, <2>3, <3>1
      <4>2. DOMAIN entries'[home[q]] = {}
        BY <4>1
      <4> QED
        BY <4>2
    <3> QED
      BY <3>1
  <2>5. entries'[home[q]] = entries[home[q]] /\ epoch'[home[q]] = epoch[home[q]]
    BY <2>1, <2>2, <2>3, <2>4
  <2>6. Live(q)
    BY <2>1, <2>2, <2>5 DEF Live
  <2> QED
    BY <2>2, <2>5, <2>6 DEF Attached
<1>7. CASE UNCHANGED vars
  BY <1>0, <1>7 DEF vars, nodeVars, idVars, captureVars
<1> QED
  BY <1>1, <1>2, <1>3, <1>4, <1>5, <1>6, <1>7 DEF Next, Handle

(* An output is what was found in the captured chunks: it is made once, when *)
(* no more are written.                                                     *)
LEMMA OfCapturedKeeps == PromptsInv /\ OfCaptured /\ [Next]_vars => OfCaptured'
<1> SUFFICES ASSUME PromptsInv, OfCaptured, [Next]_vars PROVE OfCaptured'
  OBVIOUS
<1>1. ASSUME NEW r \in Requests, NEW size \in Sizes, Write(r, size) PROVE OfCaptured'
  <2>1. output' = output /\ output[r] = Nothing
        /\ \A q \in Requests \ {r} : captured'[q] = captured[q]
    BY <1>1 DEF Write, PromptsInv, Unanswered, TypeOK
  <2> QED
    BY <2>1 DEF OfCaptured
<1>2. ASSUME NEW r \in Requests, StoreOutput(r) PROVE OfCaptured'
  <2>1. captured' = captured /\ \E text \in Output(r) : output' = [output EXCEPT ![r] = text]
    BY <1>2 DEF StoreOutput
  <2>2. \A text \in Output(r) : text # Nothing => text.chunks = captured[r]
    BY DEF Output
  <2> QED
    BY <2>1, <2>2 DEF OfCaptured, PromptsInv, TypeOK
<1>3. ASSUME NEW r \in Requests, Store(r) \/ EmitStart(r) \/ \E n \in Nodes : Mint(r, n)
      PROVE  OfCaptured'
  BY <1>3 DEF Store, EmitStart, Mint, captureVars, OfCaptured
<1>4. ASSUME NEW n \in Nodes, Restart(n) PROVE OfCaptured'
  BY <1>4 DEF Restart, captureVars, OfCaptured
<1>5. CASE UNCHANGED vars
  BY <1>5 DEF vars, captureVars, OfCaptured
<1> QED
  BY <1>1, <1>2, <1>3, <1>4, <1>5 DEF Next, Handle

(* What the store says a client received is what it received, of responses  *)
(* of any number of chunks of any sizes, and whatever the two caps are: of   *)
(* one within captureRawCap the entry of its own request holds what was      *)
(* found in all that was sent, up to its first maxPromptChars characters     *)
(* (capture.go:11-20, prompts.go:12-16).                                    *)
THEOREM OutputsAreAsSent == Spec => []OutputIsAsSent
<1>1. Init => Gapless /\ Attached /\ OfCaptured
  <2> SUFFICES ASSUME Init PROVE Gapless /\ Attached /\ OfCaptured
    OBVIOUS
  <2>1. [c \in DOMAIN <<>> |-> c] = <<>>
    OBVIOUS
  <2>2. \A r \in Requests : /\ sent[r] = <<>> /\ captured[r] = <<>>
                            /\ at[r] = "new" /\ output[r] = Nothing
    BY DEF Init
  <2> QED
    BY <2>1, <2>2 DEF Gapless, Attached, OfCaptured
<1>2. ASSUME PromptsInv, Gapless, Attached, OfCaptured PROVE OutputIsAsSent
  <2> SUFFICES ASSUME NEW r \in Requests, at[r] = "over", output[r] # Nothing,
                      Total(sent[r]) <= CaptureRawCap
               PROVE  /\ output[r].chunks = captured[r]
                      /\ captured[r] = [c \in DOMAIN sent[r] |-> c]
                      /\ HasRow(r) =>
                            \/ Get(home[r], rid[r]) = Nothing
                            \/ StartOf(Get(home[r], rid[r]).output, output[r])
    BY DEF OutputIsAsSent
  <2>1. captured[r] = [c \in DOMAIN sent[r] |-> c]
    <3>1. ~(Total(sent[r]) > CaptureRawCap)
      <4>1. Total(sent[r]) \in Nat
        <5>1. sent[r] \in Seq(Sizes)
          BY <1>2 DEF PromptsInv, TypeOK
        <5> QED
          BY <5>1, SizesAreNumbers, TotalAppend
      <4> QED
        BY <4>1, CaptureAssumption
    <3> QED
      BY <1>2, <3>1 DEF Gapless
  <2>2. ASSUME HasRow(r), Get(home[r], rid[r]) # Nothing
        PROVE  StartOf(Get(home[r], rid[r]).output, output[r])
    <3>1. Live(r) /\ home[r] \in Nodes
      BY <1>2, <2>2 DEF HasRow, Live, PromptsInv, Ids
    <3>2. Entries(home[r], rid[r]) # {}
      BY <2>2 DEF Get
    <3>3. PICK i \in DOMAIN entries[home[r]] :
            /\ Get(home[r], rid[r]) = entries[home[r]][i]
            /\ entries[home[r]][i].requestID = rid[r]
      BY <1>2, <3>1, <3>2, Found
    <3>4. Get(home[r], rid[r]).output = Truncate(output[r])
      BY <1>2, <3>1, <3>3 DEF Attached
    <3>5. output[r] \in Texts
      BY <1>2 DEF PromptsInv, TypeOK
    <3> QED
      BY <3>4, <3>5, TruncateIs
  <2>3. output[r].chunks = captured[r]
    BY <1>2 DEF OfCaptured
  <2> QED
    BY <2>1, <2>2, <2>3
<1> QED
  BY <1>1, <1>2, PromptsSafety, GaplessKeeps, AttachedKeeps, OfCapturedKeeps, PTL DEF Spec
=============================================================================
