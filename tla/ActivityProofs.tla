---------------------------- MODULE ActivityProofs ----------------------------
(***************************************************************************)
(* What viewers of the activity log see, for any requests, goroutines,      *)
(* streams and sizes of ring and channels: of a log that is read directly,  *)
(* and of one that a mesh dashboard follows from another node.              *)
(*                                                                          *)
(* Every place where events wait for a viewer is a sequence, and a page is   *)
(* what comes after them all.  Row says what a page will show of a request   *)
(* once the events of one place are through; the invariants chain it along   *)
(* the places, so that a step that moves an event to the next one changes    *)
(* nothing.                                                                  *)
(***************************************************************************)
EXTENDS MeshStream, WellFoundedInduction, TLAPS

(* The last event about r in q.                                             *)
IsLast(q, r, i) ==
    i \in DOMAIN q /\ q[i].src = r /\ \A j \in DOMAIN q : j > i => q[j].src # r

Silent(q, r) == \A i \in DOMAIN q : q[i].src # r

(* What a page that shows row of r shows of it once q is through.           *)
Row(q, r, row) ==
    IF Silent(q, r) THEN row ELSE q[CHOOSE i \in DOMAIN q : IsLast(q, r, i)].kind

After(event, r, row) == IF event.src = r THEN event.kind ELSE row

-----------------------------------------------------------------------------
(* An emitter sends the event that it recorded last.                        *)
SendsItsLast ==
    \A e \in Emitters :
        /\ toSend[e] # {} => sending[e] # <<>>
        /\ sending[e] # <<>> =>
            emitted[e] \in 1 .. Len(Script(e)) /\ sending[e] = <<Script(e)[emitted[e]]>>

(* A stream is a subscriber from its first to its last step, and shows      *)
(* nothing before the backlog.                                              *)
StreamStages ==
    \A s \in Streams :
        /\ s \in subs <=> phase[s] \in {"subscribed", "live"}
        /\ phase[s] = "off" => chan[s] = <<>> /\ \A e \in Emitters : s \notin toSend[e]
        /\ phase[s] \in {"off", "subscribed"} => shown[s] = [r \in Handlers |-> "nothing"]

(* The ring tells of a request that is over its end, or nothing any more.   *)
RingInOrder ==
    \A r \in Handlers : emitted[r] = 2 => Row(ring, r, "nothing") # "started"

(* A subscriber that missed nothing will not show a request that is over,   *)
(* once its events are through.                                             *)
WillSettle ==
    \A s \in Streams, r \in Handlers :
        s \in subs \ missed /\ emitted[r] = 2 /\ r \notin aborted
            => s \in toSend[r] \/ Row(chan[s], r, shown[s][r]) # "started"

LogInv == SendsItsLast /\ StreamStages /\ RingInOrder /\ WillSettle

(* What a page shows of r once the events on this side are through.         *)
PageRow(r) == Row(wire, r, Row(hand, r, Row(merged, r, page[r])))

(* The same of the page of a mesh dashboard and its connection to a peer.   *)
Followed(r) ==
    /\ conn # NoStream /\ phase[conn] = "live" /\ conn \notin missed
    /\ emitted[r] = 2 /\ r \notin aborted /\ Kept([src |-> r, kind |-> "done"])

PageWillSettle ==
    \A r \in Handlers :
        Followed(r) => conn \in toSend[r] \/ Row(chan[conn], r, PageRow(r)) # "started"

-----------------------------------------------------------------------------
(* The least-number principle, for sets.                                    *)
LEMMA Least ==
    ASSUME NEW T \in SUBSET Nat, T # {}
    PROVE  \E n \in T : \A m \in T : n <= m
<1> DEFINE Below == {p \in Nat \X Nat : p[1] < p[2]}
<1>1. IsWellFoundedOn(Below, Nat)
    BY NatLessThanWellFounded DEF OpToRel
<1>2. \A m, n \in Nat : <<m, n>> \in Below <=> m < n
    OBVIOUS
<1> HIDE DEF Below
<1>3. PICK n \in T : \A m \in T : ~(<<m, n>> \in Below)
    BY <1>1, WFMin
<1>4. ASSUME NEW m \in T PROVE n <= m
    <2>1. ~(m < n)
        BY <1>2, <1>3
    <2> QED
        BY <2>1
<1> QED
    BY <1>4

(* Induction, as a fact about sets of numbers.                              *)
LEMMA Induction ==
    ASSUME NEW T, 0 \in T, \A n \in Nat : n \in T => n + 1 \in T
    PROVE  Nat \subseteq T
<1> SUFFICES ASSUME Nat \ T # {} PROVE FALSE
    OBVIOUS
<1>1. PICK n \in Nat \ T : \A m \in Nat \ T : n <= m
    BY Least
<1>2. n # 0
    OBVIOUS
<1>3. n - 1 \in Nat /\ n - 1 \in T
    BY <1>1, <1>2
<1> QED
    BY <1>1, <1>3

(* What is last is what Row tells.                                          *)
LEMMA RowOfLast ==
    ASSUME NEW S, NEW q \in Seq(S), NEW r, NEW row, NEW i, IsLast(q, r, i)
    PROVE  Row(q, r, row) = q[i].kind
<1>1. \A j \in DOMAIN q : IsLast(q, r, j) => j = i
    <2> SUFFICES ASSUME NEW j \in DOMAIN q, IsLast(q, r, j) PROVE j = i
        OBVIOUS
    <2>1. i \in Nat /\ j \in Nat /\ ~(j > i) /\ ~(i > j)
        BY DEF IsLast
    <2> QED
        BY <2>1
<1>2. ~Silent(q, r)
    BY DEF IsLast, Silent
<1>3. (CHOOSE j \in DOMAIN q : IsLast(q, r, j)) = i
    BY <1>1 DEF IsLast
<1> QED
    BY <1>2, <1>3 DEF Row

(* What is silent about r tells nothing new.                                *)
LEMMA RowOfSilent == ASSUME NEW q, NEW r, NEW row, Silent(q, r) PROVE Row(q, r, row) = row
BY DEF Row

(* A sequence is silent about r, or says something last.                    *)
LEMMA SilentOrLast ==
    ASSUME NEW S, NEW q \in Seq(S), NEW r
    PROVE  Silent(q, r) \/ \E i \in DOMAIN q : IsLast(q, r, i)
<1> SUFFICES ASSUME ~Silent(q, r) PROVE \E i \in DOMAIN q : IsLast(q, r, i)
    OBVIOUS
<1> DEFINE T == {m \in Nat : \A j \in DOMAIN q : j > m => q[j].src # r}
<1>1. Len(q) \in T
    OBVIOUS
<1>2. PICK i \in T : \A m \in T : i <= m
    BY <1>1, Least
<1>3. CASE i = 0
    BY <1>2, <1>3 DEF Silent
<1>4. CASE i # 0
    <2>1. i \in Nat /\ i - 1 \in Nat /\ i - 1 \notin T
        BY <1>2, <1>4
    <2>2. PICK j \in DOMAIN q : j > i - 1 /\ q[j].src = r
        BY <2>1
    <2>3. j \in Nat /\ ~(j > i)
        BY <2>2, <1>2
    <2>4. j = i
        BY <2>1, <2>2, <2>3
    <2> QED
        BY <1>2, <2>2, <2>4 DEF IsLast
<1> QED
    BY <1>3, <1>4

(* Nothing is told where nothing waits.                                     *)
LEMMA RowEmpty == ASSUME NEW r, NEW row PROVE Row(<<>>, r, row) = row
BY DEF Row, Silent

(* An event that comes last is the last word, if it is about r.             *)
LEMMA RowAppend ==
    ASSUME NEW S, NEW q \in Seq(S), NEW e \in S, NEW r, NEW row
    PROVE  Row(Append(q, e), r, row) = After(e, r, Row(q, r, row))
<1> DEFINE p == Append(q, e)
<1>1. /\ p \in Seq(S) /\ Len(q) \in Nat
      /\ p[Len(q) + 1] = e /\ \A i \in 1 .. Len(q) : p[i] = q[i]
      /\ DOMAIN p = 1 .. Len(q) + 1 /\ DOMAIN q = 1 .. Len(q)
    OBVIOUS
<1> HIDE DEF p
<1>2. CASE e.src = r
    <2>1. IsLast(p, r, Len(q) + 1)
        BY <1>1, <1>2 DEF IsLast
    <2>2. Row(p, r, row) = e.kind
        BY <1>1, <2>1, RowOfLast
    <2> QED
        BY <1>2, <2>2 DEF After, p
<1>3. CASE e.src # r /\ Silent(q, r)
    <2>1. Silent(p, r)
        BY <1>1, <1>3 DEF Silent
    <2> QED
        BY <1>3, <2>1, RowOfSilent DEF After, p
<1>4. ASSUME e.src # r, NEW i \in DOMAIN q, IsLast(q, r, i)
      PROVE  Row(p, r, row) = After(e, r, Row(q, r, row))
    <2>1. IsLast(p, r, i) /\ p[i] = q[i]
        BY <1>1, <1>4 DEF IsLast
    <2> QED
        BY <1>1, <1>4, <2>1, RowOfLast DEF After
<1> QED
    BY <1>2, <1>3, <1>4, SilentOrLast DEF p

(* An event that goes first can be taken to be on the page already.         *)
LEMMA RowTail ==
    ASSUME NEW S, NEW q \in Seq(S), q # <<>>, NEW r, NEW row
    PROVE  Row(q, r, row) = Row(Tail(q), r, After(Head(q), r, row))
<1> DEFINE t == Tail(q)
<1>1. /\ t \in Seq(S) /\ Len(q) \in Nat \ {0} /\ DOMAIN q = 1 .. Len(q) /\ q[1] = Head(q)
      /\ DOMAIN t = 1 .. Len(q) - 1 /\ \A i \in 1 .. Len(q) - 1 : t[i] = q[i + 1]
    OBVIOUS
<1>2. \A i \in 2 .. Len(q) : q[i] = t[i - 1] /\ i - 1 \in 1 .. Len(q) - 1
    BY <1>1
<1> HIDE DEF t
<1>3. CASE Silent(t, r)
    <2>1. CASE Head(q).src = r
        <3>1. IsLast(q, r, 1)
            BY <1>1, <1>2, <1>3, <2>1 DEF IsLast, Silent
        <3> QED
            BY <1>1, <1>3, <2>1, <3>1, RowOfLast, RowOfSilent DEF After, t
    <2>2. CASE Head(q).src # r
        <3>1. Silent(q, r)
            BY <1>1, <1>2, <1>3, <2>2 DEF Silent
        <3> QED
            BY <1>3, <2>2, <3>1, RowOfSilent DEF After, t
    <2> QED
        BY <2>1, <2>2
<1>4. ASSUME NEW i \in DOMAIN t, IsLast(t, r, i)
      PROVE  Row(q, r, row) = Row(t, r, After(Head(q), r, row))
    <2>1. i + 1 \in DOMAIN q /\ q[i + 1] = t[i] /\ q[i + 1].src = r
        BY <1>1, <1>4 DEF IsLast
    <2>2. ASSUME NEW j \in DOMAIN q, j > i + 1 PROVE q[j].src # r
        <3>1. j - 1 \in DOMAIN t /\ j - 1 > i /\ q[j] = t[j - 1]
            BY <1>1, <1>2, <2>2
        <3> QED
            BY <1>4, <3>1 DEF IsLast
    <2>3. IsLast(q, r, i + 1)
        BY <2>1, <2>2 DEF IsLast
    <2> QED
        BY <1>1, <1>4, <2>1, <2>3, RowOfLast
<1> QED
    BY <1>1, <1>3, <1>4, SilentOrLast DEF t

(* A place from which old events were dropped tells the same, or nothing.   *)
LEMMA RowNewest ==
    ASSUME NEW S, NEW q \in Seq(S), NEW r, NEW row
    PROVE  Row(Newest(q), r, row) \in {Row(q, r, row), row}
<1> USE RingMaxAssumption
<1>1. CASE ~(Len(q) > RingMax)
    BY <1>1 DEF Newest
<1>2. CASE Len(q) > RingMax
    <2> DEFINE d == Len(q) - RingMax
               p == SubSeq(q, d + 1, Len(q))
    <2>1. /\ d \in Nat /\ Len(q) \in Nat /\ p \in Seq(S) /\ DOMAIN q = 1 .. Len(q)
          /\ DOMAIN p = 1 .. RingMax /\ \A i \in 1 .. RingMax : p[i] = q[i + d]
          /\ Len(q) = RingMax + d
        BY <1>2
    <2>2. Newest(q) = p
        BY <1>2 DEF Newest
    <2> HIDE DEF p, d
    <2>3. CASE Silent(p, r)
        BY <2>2, <2>3, RowOfSilent
    <2>4. ASSUME NEW i \in DOMAIN p, IsLast(p, r, i)
          PROVE  Row(p, r, row) = Row(q, r, row)
        <3>1. i + d \in DOMAIN q /\ q[i + d] = p[i] /\ q[i + d].src = r
            BY <2>1, <2>4 DEF IsLast
        <3>2. ASSUME NEW j \in DOMAIN q, j > i + d PROVE q[j].src # r
            <4>1. j - d \in DOMAIN p /\ j - d > i /\ p[j - d] = q[j]
                BY <2>1, <2>4, <3>2
            <4> QED
                BY <2>4, <4>1 DEF IsLast
        <3>3. IsLast(q, r, i + d)
            BY <3>1, <3>2 DEF IsLast
        <3> QED
            BY <2>1, <2>4, <3>1, <3>3, RowOfLast
    <2> QED
        BY <2>1, <2>2, <2>3, <2>4, SilentOrLast
<1> QED
    BY <1>1, <1>2

(* What waits overrides the page, or leaves it.                             *)
LEMMA RowOverrides ==
    ASSUME NEW q, NEW r, NEW row, NEW old
    PROVE  Row(q, r, row) \in {Row(q, r, old), row}
BY DEF Row

-----------------------------------------------------------------------------
(* The replay of a backlog is a fold, which the library defines over the    *)
(* sets of the sequence's indices.                                          *)
Folds(f, T, view, q) ==
    f = [s \in SUBSET T |->
            IF s = {} THEN view ELSE Watch(f[s \ {Max(s)}], q[Max(s)])]

LEMMA FoldIs ==
    ASSUME NEW q, NEW view
    PROVE  FoldLeft(Watch, view, q) = (CHOOSE f : Folds(f, DOMAIN q, view, q))[DOMAIN q]
BY DEF FoldLeft, MapThenFoldSet, Folds

(* The greatest of a set that goes up to n.                                 *)
LEMMA MaxIs ==
    ASSUME NEW n \in Nat, NEW s \in SUBSET (1 .. n), n \in s
    PROVE  Max(s) = n
<1>1. \A x \in s : (\A y \in s : x >= y) => x = n
    OBVIOUS
<1>2. \A y \in s : n >= y
    OBVIOUS
<1> QED
    BY <1>1, <1>2 DEF Max

(* There is such a fold of every sequence, one index after the other.       *)
LEMMA FoldExists ==
    ASSUME NEW n \in Nat, NEW view, NEW q
    PROVE  \E f : Folds(f, 1 .. n, view, q)
<1> DEFINE T == {m \in Nat : \E f : Folds(f, 1 .. m, view, q)}
<1>1. 0 \in T
    <2> DEFINE f == [s \in SUBSET (1 .. 0) |-> view]
    <2>1. \A s \in SUBSET (1 .. 0) : s = {}
        OBVIOUS
    <2>2. Folds(f, 1 .. 0, view, q)
        BY <2>1 DEF Folds
    <2> QED
        BY <2>2
<1>2. ASSUME NEW m \in Nat, m \in T PROVE m + 1 \in T
    <2>1. PICK f : Folds(f, 1 .. m, view, q)
        BY <1>2
    <2> DEFINE g == [s \in SUBSET (1 .. m + 1) |->
                        IF m + 1 \in s THEN Watch(f[s \ {m + 1}], q[m + 1]) ELSE f[s]]
    <2>2. \A s \in SUBSET (1 .. m) : s \in SUBSET (1 .. m + 1) /\ m + 1 \notin s
        OBVIOUS
    <2>3. \A s \in SUBSET (1 .. m) : g[s] = f[s]
        BY <2>2
    <2>4. ASSUME NEW s \in SUBSET (1 .. m + 1)
          PROVE  g[s] = IF s = {} THEN view ELSE Watch(g[s \ {Max(s)}], q[Max(s)])
        <3>1. CASE m + 1 \in s
            <4>1. Max(s) = m + 1 /\ s # {} /\ s \ {m + 1} \in SUBSET (1 .. m)
                BY <3>1, MaxIs
            <4>2. g[s] = Watch(f[s \ {m + 1}], q[m + 1])
                BY <3>1
            <4> HIDE DEF g
            <4> QED
                BY <4>1, <4>2, <2>3
        <3>2. CASE m + 1 \notin s
            <4>0. \A x \in s : x \in 1 .. m
                BY <3>2
            <4>1. s \in SUBSET (1 .. m) /\ s \ {Max(s)} \in SUBSET (1 .. m)
                BY <4>0
            <4>2. f[s] = IF s = {} THEN view ELSE Watch(f[s \ {Max(s)}], q[Max(s)])
                BY <4>1, <2>1 DEF Folds
            <4> HIDE DEF g
            <4> QED
                BY <4>1, <4>2, <2>3
        <3> QED
            BY <3>1, <3>2
    <2>5. g = [s \in SUBSET (1 .. m + 1) |->
                IF s = {} THEN view ELSE Watch(g[s \ {Max(s)}], q[Max(s)])]
        <3>1. g = [s \in SUBSET (1 .. m + 1) |-> g[s]]
            OBVIOUS
        <3> HIDE DEF g
        <3> QED
            BY <3>1, <2>4
    <2>6. Folds(g, 1 .. m + 1, view, q)
        BY <2>5 DEF Folds
    <2> QED
        BY <2>6
<1> HIDE DEF T
<1>3. Nat \subseteq T
    BY <1>1, <1>2, Induction
<1> QED
    BY <1>3 DEF T

(* A page is what its events make of it, row by row.                        *)
Pages == [Handlers -> {"nothing", "started", "done"}]

LEMMA WatchRow ==
    ASSUME NEW view \in Pages, NEW e \in Events
    PROVE  /\ Watch(view, e) \in Pages
           /\ \A r \in Handlers : Watch(view, e)[r] = After(e, r, view[r])
<1> USE EmittersAssumption
<1>1. CASE e \in [src : Handlers, kind : {"started", "done"}]
    BY <1>1 DEF Watch, Pages, After
<1>2. CASE e \in [src : Monitors, kind : {"note"}]
    BY <1>2 DEF Watch, Pages, After
<1> QED
    BY <1>1, <1>2 DEF Events

(* An event of the viewer's own node changes no row of a peer's request.    *)
LEMMA WatchLocal ==
    ASSUME NEW view PROVE Watch(view, LocalEvent) = view
BY LocalAssumption DEF Watch, LocalEvent, Emitters

(* A replayed backlog leaves each row as Row tells.                         *)
LEMMA ReplayedRow ==
    ASSUME NEW view \in Pages, NEW q \in Seq(Events)
    PROVE  /\ FoldLeft(Watch, view, q) \in Pages
           /\ \A r \in Handlers : FoldLeft(Watch, view, q)[r] = Row(q, r, view[r])
<1> DEFINE f == CHOOSE f : Folds(f, 1 .. Len(q), view, q)
<1>1. Len(q) \in Nat /\ DOMAIN q = 1 .. Len(q)
    OBVIOUS
<1>2. Folds(f, 1 .. Len(q), view, q)
    BY <1>1, FoldExists
<1>3. FoldLeft(Watch, view, q) = f[1 .. Len(q)]
    BY <1>1, FoldIs
<1> HIDE DEF f
<1>4. f[1 .. 0] = view
    BY <1>1, <1>2 DEF Folds
<1>5. ASSUME NEW n \in Nat, n + 1 \in 1 .. Len(q)
      PROVE  f[1 .. n + 1] = Watch(f[1 .. n], q[n + 1])
    <2>0. /\ \A x \in 1 .. n + 1 : x \in 1 .. Len(q) /\ (x # n + 1 => x \in 1 .. n)
          /\ \A x \in 1 .. n : x \in 1 .. n + 1 /\ x # n + 1
          /\ n + 1 \in 1 .. n + 1
        BY <1>1, <1>5
    <2>1. /\ 1 .. n + 1 \in SUBSET (1 .. Len(q)) /\ 1 .. n + 1 # {}
          /\ (1 .. n + 1) \ {n + 1} = 1 .. n
        BY <2>0
    <2>2. Max(1 .. n + 1) = n + 1
        BY MaxIs
    <2>3. f[1 .. n + 1] = IF 1 .. n + 1 = {} THEN view
            ELSE Watch(f[(1 .. n + 1) \ {Max(1 .. n + 1)}], q[Max(1 .. n + 1)])
        BY <1>2, <2>1 DEF Folds
    <2> QED
        BY <2>1, <2>2, <2>3
<1> DEFINE p(n) == SubSeq(q, 1, n)
           T == {n \in Nat : n <= Len(q) =>
                    /\ f[1 .. n] \in Pages
                    /\ \A r \in Handlers : f[1 .. n][r] = Row(p(n), r, view[r])}
<1>6. 0 \in T
    <2>1. p(0) = <<>>
        OBVIOUS
    <2> QED
        BY <2>1, <1>4, RowEmpty
<1>7. ASSUME NEW n \in Nat, n \in T PROVE n + 1 \in T
    <2> SUFFICES ASSUME n + 1 <= Len(q)
                 PROVE  /\ f[1 .. n + 1] \in Pages
                        /\ \A r \in Handlers : f[1 .. n + 1][r] = Row(p(n + 1), r, view[r])
        OBVIOUS
    <2>1. n + 1 \in 1 .. Len(q) /\ n <= Len(q)
        BY <1>1
    <2>2. /\ p(n) \in Seq(Events) /\ q[n + 1] \in Events
          /\ p(n + 1) = Append(p(n), q[n + 1])
        BY <2>1
    <2>3. /\ f[1 .. n] \in Pages
          /\ \A r \in Handlers : f[1 .. n][r] = Row(p(n), r, view[r])
        BY <1>7, <2>1
    <2>4. f[1 .. n + 1] = Watch(f[1 .. n], q[n + 1])
        BY <1>5, <2>1
    <2>5. \A r \in Handlers : Row(p(n + 1), r, view[r])
                            = After(q[n + 1], r, Row(p(n), r, view[r]))
        <3> HIDE DEF p
        <3> TAKE r \in Handlers
        <3>1. Row(Append(p(n), q[n + 1]), r, view[r])
                = After(q[n + 1], r, Row(p(n), r, view[r]))
            BY <2>2, RowAppend
        <3> QED
            BY <3>1, <2>2
    <2> HIDE DEF p
    <2> QED
        BY <2>2, <2>3, <2>4, <2>5, WatchRow
<1> HIDE DEF T
<1>8. Len(q) \in T
    BY <1>1, <1>6, <1>7, Induction
<1>9. p(Len(q)) = q
    OBVIOUS
<1>10. /\ f[1 .. Len(q)] \in Pages
       /\ \A r \in Handlers : f[1 .. Len(q)][r] = Row(p(Len(q)), r, view[r])
    <2> HIDE DEF p
    <2> QED
        BY <1>1, <1>8 DEF T
<1> HIDE DEF p
<1> QED
    BY <1>3, <1>9, <1>10

-----------------------------------------------------------------------------
(* An emitter's events are about itself, a request's last one its end.      *)
LEMMA ScriptSays ==
    ASSUME NEW e \in Emitters
    PROVE  /\ Len(Script(e)) \in 1 .. 2
           /\ \A i \in 1 .. Len(Script(e)) : Script(e)[i] \in Events /\ Script(e)[i].src = e
           /\ e \in Handlers => Len(Script(e)) = 2 /\ Script(e)[2].kind = "done"
BY EmittersAssumption DEF Script, Events, Emitters

(* To concatenate what is being sent is to append it.                       *)
LEMMA ConcatOne ==
    ASSUME NEW S, NEW q \in Seq(S), NEW e \in S
    PROVE  q \o <<e>> = Append(q, e)
OBVIOUS

(* The ring stays within its bound.                                         *)
LEMMA NewestType ==
    ASSUME NEW S, NEW q \in Seq(S)
    PROVE  Newest(q) \in Seq(S) /\ Len(Newest(q)) <= RingMax
<1> USE RingMaxAssumption
<1>1. CASE ~(Len(q) > RingMax)
    <2>1. Len(q) \in Nat /\ RingMax \in Nat
        OBVIOUS
    <2> QED
        BY <1>1, <2>1 DEF Newest
<1>2. CASE Len(q) > RingMax
    <2> DEFINE p == SubSeq(q, Len(q) - RingMax + 1, Len(q))
    <2>1. p \in Seq(S) /\ Len(p) = RingMax
        BY <1>2
    <2>2. Newest(q) = p
        BY <1>2 DEF Newest
    <2> HIDE DEF p
    <2> QED
        BY <2>1, <2>2
<1> QED
    BY <1>1, <1>2

(* Nothing is recorded, sent or shown at the start.                         *)
LEMMA InitTyped == Init => TypeOK
<1> SUFFICES ASSUME Init PROVE TypeOK
    OBVIOUS
<1>1. /\ <<>> \in Seq(Events) /\ Len(<<>>) = 0
      /\ RingMax \in Nat /\ ChanCap \in Nat
    BY RingMaxAssumption, ChanCapAssumption
<1>2. ring \in Seq(Events) /\ Len(ring) <= RingMax
    BY <1>1 DEF Init
<1>3. chan \in [Streams -> Seq(Events)] /\ \A s \in Streams : Len(chan[s]) <= ChanCap
    BY <1>1 DEF Init
<1>4. /\ emitted \in [Emitters -> 0 .. 2] /\ toSend \in [Emitters -> SUBSET Streams]
      /\ sending \in [Emitters -> {<<>>} \cup {<<event>> : event \in Events}]
    BY DEF Init
<1>5. /\ phase \in [Streams -> {"off", "subscribed", "live", "gone"}]
      /\ shown \in [Streams -> [Handlers -> {"nothing", "started", "done"}]]
    BY DEF Init
<1> QED
    BY <1>2, <1>3, <1>4, <1>5 DEF Init, TypeOK

(* Every step of an emitter keeps the type.                                 *)
LEMMA EmitterTyped ==
    ASSUME TypeOK, NEW e \in Emitters, Record(e) \/ EmitStep(e)
    PROVE  TypeOK'
<1> USE DEF TypeOK, logVars, emitVars, streamVars
<1>1. CASE Record(e)
    <2> DEFINE event == Script(e)[emitted[e] + 1]
    <2>1. /\ emitted[e] \in 0 .. 2 /\ emitted[e] + 1 \in 1 .. Len(Script(e))
          /\ emitted[e] + 1 \in 0 .. 2 /\ event \in Events
        BY <1>1, ScriptSays DEF Record
    <2>2. ring' = Newest(Append(ring, event)) /\ sending' = [sending EXCEPT ![e] = <<event>>]
        BY <1>1 DEF Record
    <2> HIDE DEF event
    <2>3. ring' \in Seq(Events) /\ Len(ring') <= RingMax
        <3>1. Append(ring, event) \in Seq(Events)
            BY <2>1
        <3> QED
            BY <3>1, <2>2, NewestType
    <2>4. sending' \in [Emitters -> {<<>>} \cup {<<ev>> : ev \in Events}]
        BY <2>1, <2>2
    <2> QED
        BY <1>1, <2>1, <2>3, <2>4 DEF Record
<1>2. ASSUME NEW s \in Streams, Send(e, s) PROVE TypeOK'
    <2>1. /\ chan[s] \in Seq(Events) /\ Len(chan[s]) \in Nat
          /\ sending[e] = <<>> \/ \E ev \in Events : sending[e] = <<ev>>
        OBVIOUS
    <2> DEFINE q == chan[s] \o sending[e]
    <2>2. q \in Seq(Events) /\ Len(q) <= Len(chan[s]) + 1
        <3>1. CASE sending[e] = <<>>
            BY <2>1, <3>1
        <3>2. ASSUME NEW ev \in Events, sending[e] = <<ev>>
              PROVE  q \in Seq(Events) /\ Len(q) <= Len(chan[s]) + 1
            <4>1. q = Append(chan[s], ev)
                BY <2>1, <3>2, ConcatOne
            <4> QED
                BY <2>1, <4>1
        <3> QED
            BY <2>1, <3>1, <3>2
    <2> HIDE DEF q
    <2>3. CASE Len(chan[s]) < ChanCap
        <3>1. chan' = [chan EXCEPT ![s] = q] /\ missed' = missed
            BY <1>2, <2>3 DEF Send, q
        <3>2. Len(q) <= ChanCap
            BY <2>1, <2>2, <2>3, ChanCapAssumption
        <3>3. chan' \in [Streams -> Seq(Events)] /\ \A x \in Streams : Len(chan'[x]) <= ChanCap
            BY <2>2, <3>1, <3>2
        <3> QED
            BY <1>2, <3>1, <3>3 DEF Send
    <2>4. CASE ~(Len(chan[s]) < ChanCap)
        <3>1. chan' = chan /\ missed' = missed \cup {s}
            BY <1>2, <2>4 DEF Send
        <3> QED
            BY <1>2, <3>1 DEF Send
    <2> QED
        BY <2>3, <2>4
<1>3. ASSUME NEW s \in Streams, SendPanics(e, s) PROVE TypeOK'
    BY <1>3 DEF SendPanics
<1>4. CASE EmitReturns(e)
    BY <1>4 DEF EmitReturns
<1> QED
    BY <1>1, <1>2, <1>3, <1>4 DEF EmitStep

(* So does every step of a stream.                                          *)
LEMMA StreamTyped ==
    ASSUME TypeOK, NEW s \in Streams, StreamStep(s)
    PROVE  TypeOK'
<1> USE DEF TypeOK, logVars, emitVars, streamVars
<1>1. CASE Subscribe(s)
    BY <1>1 DEF Subscribe
<1>2. CASE ReplayBacklog(s)
    <2>1. FoldLeft(Watch, shown[s], ring) \in Pages
        BY ReplayedRow DEF Pages
    <2>2. shown' \in [Streams -> Pages]
        BY <1>2, <2>1 DEF ReplayBacklog, Pages
    <2> QED
        BY <1>2, <2>2 DEF ReplayBacklog, Pages
<1>3. CASE Forward(s)
    <2>1. /\ Head(chan[s]) \in Events /\ Tail(chan[s]) \in Seq(Events)
          /\ Len(Tail(chan[s])) <= ChanCap
        BY <1>3, ChanCapAssumption DEF Forward
    <2>2. Watch(shown[s], Head(chan[s])) \in Pages
        BY <2>1, WatchRow DEF Pages
    <2>3. shown' \in [Streams -> Pages]
        BY <1>3, <2>2 DEF Forward, Pages
    <2>4. chan' = [chan EXCEPT ![s] = Tail(chan[s])]
        BY <1>3 DEF Forward
    <2>5. chan' \in [Streams -> Seq(Events)] /\ \A x \in Streams : Len(chan'[x]) <= ChanCap
        BY <2>1, <2>4
    <2> QED
        BY <1>3, <2>3, <2>5 DEF Forward, Pages
<1>4. CASE Unsubscribe(s)
    BY <1>4 DEF Unsubscribe
<1> QED
    BY <1>1, <1>2, <1>3, <1>4 DEF StreamStep

LEMMA StepTyped == TypeOK /\ [Next]_vars => TypeOK'
<1>1. TypeOK /\ UNCHANGED vars => TypeOK'
    BY DEF TypeOK, vars
<1> QED
    BY <1>1, EmitterTyped, StreamTyped DEF Next

(* Type correctness of the log: the ring and the channels keep their bounds *)
(* however many requests emit and however slowly viewers read.              *)
THEOREM LogTyped == Spec => []TypeOK
BY InitTyped, StepTyped, PTL DEF Spec

-----------------------------------------------------------------------------
(* Before anything is emitted nothing can be stranded.                      *)
LEMMA InitSettles == Init => LogInv
<1> SUFFICES ASSUME Init PROVE LogInv
    OBVIOUS
<1>1. SendsItsLast
    BY DEF Init, SendsItsLast
<1>2. StreamStages
    BY DEF Init, StreamStages
<1>3. RingInOrder /\ WillSettle
    BY DEF Init, RingInOrder, WillSettle, Emitters
<1> QED
    BY <1>1, <1>2, <1>3 DEF LogInv

(* An event that is recorded is what its emitter sends, and goes to all who *)
(* are subscribed now; a later one will find it in the ring.                *)
LEMMA RecordSettles ==
    ASSUME TypeOK, LogInv, NEW e \in Emitters, Record(e)
    PROVE  LogInv'
<1> DEFINE event == Script(e)[emitted[e] + 1]
<1>1. /\ emitted[e] \in 0 .. 2 /\ emitted[e] + 1 \in 1 .. Len(Script(e))
      /\ ring \in Seq(Events) /\ event \in Events /\ event.src = e
      /\ e \in Handlers /\ emitted[e] + 1 = 2 => event.kind = "done"
    BY ScriptSays DEF Record, TypeOK
<1>2. /\ ring' = Newest(Append(ring, event))
      /\ sending' = [sending EXCEPT ![e] = <<event>>]
      /\ emitted' = [emitted EXCEPT ![e] = emitted[e] + 1]
      /\ toSend' = [toSend EXCEPT ![e] = subs]
      /\ UNCHANGED <<subs, chan, closed, aborted, crashed, phase, shown, missed>>
    BY DEF Record, streamVars
<1>3. SendsItsLast'
    <2> SUFFICES ASSUME NEW x \in Emitters
                 PROVE  /\ toSend'[x] # {} => sending'[x] # <<>>
                        /\ sending'[x] # <<>> =>
                            /\ emitted'[x] \in 1 .. Len(Script(x))
                            /\ sending'[x] = <<Script(x)[emitted'[x]]>>
        BY DEF SendsItsLast
    <2>1. CASE x = e
        <3>1. sending'[x] = <<event>> /\ emitted'[x] = emitted[e] + 1
            BY <1>2, <2>1 DEF TypeOK
        <3> QED
            BY <1>1, <2>1, <3>1
    <2>2. CASE x # e
        <3>1. sending'[x] = sending[x] /\ emitted'[x] = emitted[x] /\ toSend'[x] = toSend[x]
            BY <1>2, <2>2 DEF TypeOK
        <3> QED
            BY <3>1 DEF LogInv, SendsItsLast
    <2> QED
        BY <2>1, <2>2
<1> HIDE DEF event
<1>4. StreamStages'
    BY <1>2 DEF LogInv, StreamStages, TypeOK
<1>5. ASSUME NEW r \in Handlers, emitted'[r] = 2
      PROVE  Row(ring', r, "nothing") # "started"
    <2>1. /\ Append(ring, event) \in Seq(Events)
          /\ Row(Append(ring, event), r, "nothing")
                = After(event, r, Row(ring, r, "nothing"))
        BY <1>1, RowAppend
    <2>2. After(event, r, Row(ring, r, "nothing")) # "started"
        <3>1. CASE r = e
            BY <1>1, <1>2, <1>5, <3>1 DEF After, TypeOK
        <3>2. CASE r # e
            <4>1. emitted[r] = 2
                BY <1>2, <1>5, <3>2 DEF TypeOK, Emitters
            <4> QED
                BY <1>1, <3>2, <4>1 DEF After, LogInv, RingInOrder
        <3> QED
            BY <3>1, <3>2
    <2>3. Row(ring', r, "nothing") \in {Row(Append(ring, event), r, "nothing"), "nothing"}
        BY <1>2, <2>1, RowNewest
    <2> QED
        BY <2>1, <2>2, <2>3
<1>6. ASSUME NEW s \in Streams, NEW r \in Handlers,
             s \in subs' \ missed', emitted'[r] = 2, r \notin aborted'
      PROVE  s \in toSend'[r] \/ Row(chan'[s], r, shown'[s][r]) # "started"
    <2>1. CASE r = e
        BY <1>2, <1>6, <2>1 DEF TypeOK
    <2>2. CASE r # e
        <3>1. emitted[r] = 2 /\ toSend'[r] = toSend[r]
            BY <1>2, <1>6, <2>2 DEF TypeOK, Emitters
        <3> QED
            BY <1>2, <1>6, <3>1 DEF LogInv, WillSettle
    <2> QED
        BY <2>1, <2>2
<1> QED
    BY <1>3, <1>4, <1>5, <1>6 DEF LogInv, RingInOrder, WillSettle

(* An event that arrives is the last word on its request, whatever its      *)
(* viewer shows by now; one that is dropped marks its stream.               *)
LEMMA SendTells ==
    ASSUME TypeOK, LogInv, NEW e \in Emitters, NEW s \in Streams, Send(e, s),
           NEW x \in Streams, NEW r \in Handlers, NEW row,
           x \notin missed', emitted[r] = 2,
           x \in toSend[r] \/ Row(chan[x], r, row) # "started"
    PROVE  x \in toSend'[r] \/ Row(chan'[x], r, row) # "started"
<1>1. s \in toSend[e] /\ toSend' = [toSend EXCEPT ![e] = toSend[e] \ {s}]
    BY DEF Send
<1>2. PICK ev \in Events : /\ sending[e] = <<ev>> /\ ev = Script(e)[emitted[e]] /\ ev.src = e
                           /\ e \in Handlers /\ emitted[e] = 2 => ev.kind = "done"
    <2>1. /\ emitted[e] \in 1 .. Len(Script(e)) /\ sending[e] = <<Script(e)[emitted[e]]>>
        BY <1>1 DEF LogInv, SendsItsLast
    <2> QED
        BY <2>1, ScriptSays
<1>3. \/ chan' = [chan EXCEPT ![s] = Append(chan[s], ev)]
      \/ chan' = chan /\ s \in missed'
    <2>1. chan[s] \o sending[e] = Append(chan[s], ev)
        BY <1>2, ConcatOne DEF TypeOK
    <2> QED
        BY <2>1 DEF Send
<1>4. CASE x # s
    <2>1. chan'[x] = chan[x] /\ (x \in toSend[r] => x \in toSend'[r])
        BY <1>1, <1>3, <1>4 DEF TypeOK, Emitters
    <2> QED
        BY <2>1
<1>5. CASE x = s
    <2>1. chan'[s] = Append(chan[s], ev)
        BY <1>3, <1>5 DEF TypeOK
    <2>2. Row(chan'[s], r, row) = After(ev, r, Row(chan[s], r, row))
        BY <2>1, RowAppend DEF TypeOK
    <2>3. CASE r = e
        BY <1>2, <1>5, <2>2, <2>3 DEF After
    <2>4. CASE r # e
        <3>1. toSend'[r] = toSend[r]
            BY <1>1, <2>4 DEF TypeOK, Emitters
        <3> QED
            BY <1>2, <1>5, <2>2, <2>4, <3>1 DEF After
    <2> QED
        BY <2>3, <2>4
<1> QED
    BY <1>4, <1>5

LEMMA SendSettles ==
    ASSUME TypeOK, LogInv, NEW e \in Emitters, NEW s \in Streams, Send(e, s)
    PROVE  LogInv'
<1>1. /\ s \in toSend[e] /\ toSend' = [toSend EXCEPT ![e] = toSend[e] \ {s}]
      /\ missed \subseteq missed'
      /\ UNCHANGED <<ring, subs, closed, emitted, sending, aborted, phase, shown>>
    BY DEF Send
<1>2. \A x \in Streams \ {s} : chan'[x] = chan[x]
    BY DEF Send, TypeOK
<1>3. \A x \in Emitters : toSend'[x] \subseteq toSend[x]
    BY <1>1 DEF TypeOK
<1>4. SendsItsLast' /\ RingInOrder'
    BY <1>1, <1>3 DEF LogInv, SendsItsLast, RingInOrder
<1>5. StreamStages'
    <2>1. phase[s] # "off"
        BY <1>1 DEF LogInv, StreamStages
    <2> QED
        BY <1>1, <1>2, <1>3, <2>1 DEF LogInv, StreamStages
<1>6. WillSettle'
    <2> SUFFICES ASSUME NEW x \in Streams, NEW r \in Handlers,
                        x \in subs \ missed', emitted[r] = 2, r \notin aborted
                 PROVE  x \in toSend'[r] \/ Row(chan'[x], r, shown[x][r]) # "started"
        BY <1>1 DEF WillSettle
    <2>1. x \in toSend[r] \/ Row(chan[x], r, shown[x][r]) # "started"
        BY <1>1 DEF LogInv, WillSettle
    <2> QED
        BY <2>1, SendTells
<1> QED
    BY <1>4, <1>5, <1>6 DEF LogInv

(* The end of an emit takes nothing from a stream, unless it ends a request *)
(* with it.                                                                 *)
LEMMA EndsSettle ==
    ASSUME TypeOK, LogInv, NEW e \in Emitters,
           EmitReturns(e) \/ \E s \in Streams : SendPanics(e, s)
    PROVE  LogInv'
<1>1. /\ UNCHANGED <<ring, subs, chan, emitted, phase, shown, missed>>
      /\ sending' = [sending EXCEPT ![e] = <<>>]
      /\ aborted \subseteq aborted'
    BY DEF EmitReturns, SendPanics, logVars, streamVars
<1>2. \/ toSend' = toSend
      \/ toSend' = [toSend EXCEPT ![e] = {}] /\ (e \in Handlers => e \in aborted')
    BY DEF EmitReturns, SendPanics
<1>3. toSend'[e] = {} /\ \A x \in Emitters \ {e} : toSend'[x] = toSend[x]
    BY <1>2 DEF EmitReturns, SendPanics, TypeOK
<1>4. SendsItsLast'
    BY <1>1, <1>3 DEF LogInv, SendsItsLast, TypeOK
<1>5. StreamStages' /\ RingInOrder'
    BY <1>1, <1>3 DEF LogInv, StreamStages, RingInOrder
<1>6. WillSettle'
    <2> SUFFICES ASSUME NEW s \in Streams, NEW r \in Handlers,
                        s \in subs \ missed, emitted[r] = 2, r \notin aborted'
                 PROVE  s \in toSend'[r] \/ Row(chan[s], r, shown[s][r]) # "started"
        BY <1>1 DEF WillSettle
    <2>1. toSend'[r] = toSend[r]
        BY <1>2, <1>3 DEF Emitters
    <2> QED
        BY <1>1, <2>1 DEF LogInv, WillSettle
<1> QED
    BY <1>4, <1>5, <1>6 DEF LogInv

(* A stream that comes has the ring to learn from; one that is shown an     *)
(* event has it on the page and no longer before it.                        *)
LEMMA StreamSettles ==
    ASSUME TypeOK, LogInv, NEW s \in Streams, StreamStep(s)
    PROVE  LogInv'
<1> USE DEF logVars, emitVars, streamVars
<1>1. CASE Subscribe(s)
    <2>1. /\ subs' = subs \cup {s} /\ phase' = [phase EXCEPT ![s] = "subscribed"]
          /\ UNCHANGED <<ring, chan, emitted, sending, toSend, aborted, shown, missed>>
          /\ phase[s] = "off"
        BY <1>1 DEF Subscribe
    <2>2. SendsItsLast' /\ RingInOrder'
        BY <2>1 DEF LogInv, SendsItsLast, RingInOrder
    <2>3. StreamStages'
        BY <2>1 DEF LogInv, StreamStages, TypeOK
    <2>4. \A r \in Handlers : Row(chan[s], r, shown[s][r]) = "nothing"
        <3>1. chan[s] = <<>> /\ shown[s] = [r \in Handlers |-> "nothing"]
            BY <2>1 DEF LogInv, StreamStages
        <3> QED
            BY <3>1, RowEmpty
    <2>5. ASSUME NEW x \in Streams, NEW r \in Handlers,
                 x \in subs' \ missed, emitted[r] = 2, r \notin aborted
          PROVE  x \in toSend[r] \/ Row(chan[x], r, shown[x][r]) # "started"
        <3>1. CASE x = s
            BY <2>4, <3>1
        <3>2. CASE x # s
            BY <2>1, <2>5, <3>2 DEF LogInv, WillSettle
        <3> QED
            BY <3>1, <3>2
    <2> QED
        BY <2>1, <2>2, <2>3, <2>5 DEF LogInv, WillSettle
<1>2. CASE ReplayBacklog(s)
    <2> DEFINE view == FoldLeft(Watch, shown[s], ring)
    <2>1. /\ shown' = [shown EXCEPT ![s] = view] /\ phase' = [phase EXCEPT ![s] = "live"]
          /\ UNCHANGED <<ring, subs, chan, emitted, sending, toSend, aborted, missed>>
          /\ phase[s] = "subscribed"
        BY <1>2 DEF ReplayBacklog
    <2>2. \A r \in Handlers : view[r] = Row(ring, r, "nothing")
        <3>1. shown[s] = [r \in Handlers |-> "nothing"]
            BY <2>1 DEF LogInv, StreamStages
        <3>2. shown[s] \in Pages /\ ring \in Seq(Events)
            BY DEF TypeOK, Pages
        <3> QED
            BY <3>1, <3>2, ReplayedRow
    <2> HIDE DEF view
    <2>3. SendsItsLast' /\ RingInOrder'
        BY <2>1 DEF LogInv, SendsItsLast, RingInOrder
    <2>4. StreamStages'
        BY <2>1 DEF LogInv, StreamStages, TypeOK
    <2>5. ASSUME NEW x \in Streams, NEW r \in Handlers,
                 x \in subs \ missed, emitted[r] = 2, r \notin aborted
          PROVE  x \in toSend[r] \/ Row(chan[x], r, shown'[x][r]) # "started"
        <3>1. x \in toSend[r] \/ Row(chan[x], r, shown[x][r]) # "started"
            BY <2>5 DEF LogInv, WillSettle
        <3>2. CASE x # s
            BY <2>1, <3>1, <3>2 DEF TypeOK
        <3>3. CASE x = s
            <4>1. shown'[x][r] # "started"
                BY <2>1, <2>2, <2>5, <3>3 DEF TypeOK, LogInv, RingInOrder
            <4>2. Row(chan[x], r, shown'[x][r])
                    \in {Row(chan[x], r, shown[x][r]), shown'[x][r]}
                BY RowOverrides
            <4> QED
                BY <3>1, <4>1, <4>2
        <3> QED
            BY <3>2, <3>3
    <2> QED
        BY <2>1, <2>3, <2>4, <2>5 DEF LogInv, WillSettle
<1>3. CASE Forward(s)
    <2> DEFINE q == chan[s]
    <2>1. /\ shown' = [shown EXCEPT ![s] = Watch(shown[s], Head(q))]
          /\ chan' = [chan EXCEPT ![s] = Tail(q)]
          /\ UNCHANGED <<ring, subs, emitted, sending, toSend, aborted, phase, missed>>
          /\ phase[s] = "live" /\ q # <<>>
        BY <1>3 DEF Forward
    <2>2. q \in Seq(Events) /\ Head(q) \in Events /\ shown[s] \in Pages
        BY <2>1 DEF TypeOK, Pages
    <2>3. \A r \in Handlers : Row(chan'[s], r, shown'[s][r]) = Row(q, r, shown[s][r])
        <3> TAKE r \in Handlers
        <3>1. shown'[s][r] = After(Head(q), r, shown[s][r]) /\ chan'[s] = Tail(q)
            BY <2>1, <2>2, WatchRow DEF TypeOK
        <3>2. Row(q, r, shown[s][r]) = Row(Tail(q), r, After(Head(q), r, shown[s][r]))
            <4>1. q \in Seq(Events) /\ q # <<>>
                BY <2>1, <2>2
            <4> HIDE DEF q
            <4> QED
                BY <4>1, RowTail
        <3> HIDE DEF q
        <3> QED
            BY <3>1, <3>2
    <2> HIDE DEF q
    <2>4. SendsItsLast' /\ RingInOrder'
        BY <2>1 DEF LogInv, SendsItsLast, RingInOrder
    <2>5. StreamStages'
        BY <2>1 DEF LogInv, StreamStages, TypeOK
    <2>6. \A x \in Streams \ {s} : chan'[x] = chan[x] /\ shown'[x] = shown[x]
        BY <2>1 DEF TypeOK
    <2>7. \A x \in Streams, r \in Handlers :
            Row(chan'[x], r, shown'[x][r]) = Row(chan[x], r, shown[x][r])
        BY <2>3, <2>6 DEF q
    <2> QED
        BY <2>1, <2>4, <2>5, <2>7 DEF LogInv, WillSettle
<1>4. CASE Unsubscribe(s)
    <2>1. /\ subs' = subs \ {s} /\ phase' = [phase EXCEPT ![s] = "gone"]
          /\ UNCHANGED <<ring, chan, emitted, sending, toSend, aborted, shown, missed>>
          /\ phase[s] \in {"subscribed", "live"}
        BY <1>4 DEF Unsubscribe
    <2>2. StreamStages'
        BY <2>1 DEF LogInv, StreamStages, TypeOK
    <2> QED
        BY <2>1, <2>2 DEF LogInv, SendsItsLast, RingInOrder, WillSettle
<1> QED
    BY <1>1, <1>2, <1>3, <1>4 DEF StreamStep

(* A step of the log, or none of it.                                        *)
LEMMA StepSettles == TypeOK /\ LogInv /\ [Next]_vars => LogInv'
<1>1. LogInv /\ UNCHANGED vars => LogInv'
    BY DEF vars, LogInv, SendsItsLast, StreamStages, RingInOrder, WillSettle
<1> QED
    BY <1>1, RecordSettles, SendSettles, EndsSettle, StreamSettles DEF Next, EmitStep

(* What is left of the log's events always settles its viewers' pages.      *)
LEMMA LogSettles == Spec => []LogInv
<1>1. Init => LogInv
    BY InitSettles
<1>2. TypeOK /\ LogInv /\ [Next]_vars => LogInv'
    BY StepSettles
<1> QED
    BY <1>1, <1>2, LogTyped, PTL DEF Spec

(* No viewer that has caught up shows a row of a request that is over, of   *)
(* any requests and streams and with any bounds of the ring and the         *)
(* channels (activity.go:49-51, meshactivity.go:69-70).                     *)
THEOREM NoViewerIsStranded == Spec => []NoStrandedRow
<1>1. TypeOK /\ LogInv => NoStrandedRow
    <2> SUFFICES ASSUME TypeOK, LogInv, NEW s \in Streams, NEW r \in Handlers,
                        phase[s] = "live", chan[s] = <<>>, s \notin missed, Delivered(r)
                 PROVE  shown[s][r] # "started"
        BY DEF NoStrandedRow
    <2>1. emitted[r] = 2 /\ sending[r] = <<>> /\ r \notin aborted /\ r \in Emitters
        BY ScriptSays DEF Delivered, Emitters
    <2>2. s \in subs \ missed /\ s \notin toSend[r]
        BY <2>1 DEF LogInv, SendsItsLast, StreamStages
    <2> QED
        BY <2>1, <2>2, RowEmpty DEF LogInv, WillSettle
<1> QED
    BY <1>1, LogTyped, LogSettles, PTL
-----------------------------------------------------------------------------
(* Whatever the viewer's node does, its peer's log goes on as a log does.   *)
LEMMA MeshStepIsLogStep == [MeshNext]_meshVars => [Next]_vars
<1> SUFFICES ASSUME [MeshNext]_meshVars PROVE [Next]_vars
    OBVIOUS
<1>1. CASE PeerStep
    BY <1>1 DEF PeerStep, Replay, Feed, HangUp, StreamStep, Next
<1>2. CASE Dial
    <2>1. conn' \in Streams
        BY <1>2 DEF Dial
    <2>2. PICK s \in Streams : s = conn'
        BY <2>1
    <2>3. Subscribe(s)
        BY <1>2, <2>2 DEF Dial, Subscribe
    <2> QED
        BY <2>3 DEF Next, StreamStep
<1>3. CASE DialFails \/ ConnectionEnds \/ FollowerStep
    BY <1>3 DEF DialFails, ConnectionEnds, FollowerStep, Read, Merge, Redial, FollowerEnds
<1>4. CASE PumpTakes \/ PumpMerges \/ PumpEnds \/ Show \/ Cancel \/ WriteFails
    BY <1>4 DEF PumpTakes, PumpMerges, PumpEnds, Show, Cancel, WriteFails
<1>5. CASE UNCHANGED meshVars
    BY <1>5 DEF meshVars
<1> QED
    BY <1>1, <1>2, <1>3, <1>4, <1>5 DEF MeshNext

(* A mesh dashboard's peer behaves as the log it is taken for.              *)
THEOREM PeerIsALog == MeshSpec => Spec
BY MeshStepIsLogStep, PTL DEF MeshSpec, MeshInit, Spec

LEMMA MeshInitTyped == MeshInit => MeshTypeOK
<1> SUFFICES ASSUME MeshInit PROVE MeshTypeOK
    OBVIOUS
<1>1. TypeOK
    BY InitTyped DEF MeshInit
<1>2. <<>> \in Seq(Events) /\ <<>> \in Seq(Events \cup {LocalEvent}) /\ Len(<<>>) = 0
    OBVIOUS
<1>3. wire \in Seq(Events) /\ merged \in Seq(Events \cup {LocalEvent}) /\ Len(merged) <= MergedCap
    BY <1>2, MergedCapAssumption DEF MeshInit
<1>4. page \in [Handlers -> {"nothing", "started", "done"}]
    BY DEF MeshInit
<1> QED
    BY <1>1, <1>3, <1>4 DEF MeshInit, MeshTypeOK

(* What the peer writes is its own events.                                  *)
LEMMA PeerTyped ==
    ASSUME MeshTypeOK, TypeOK', PeerStep
    PROVE  MeshTypeOK'
<1>1. ring \in Seq(Events) /\ wire \in Seq(Events) /\ chan \in [Streams -> Seq(Events)]
    BY DEF MeshTypeOK, TypeOK
<1>2. wire' \in Seq(Events)
    <2>1. ASSUME NEW s \in Streams, Replay(s) PROVE wire' \in Seq(Events)
        <3>1. wire \o ring \in Seq(Events)
            BY <1>1
        <3> QED
            BY <1>1, <2>1, <3>1 DEF Replay, Write
    <2>2. ASSUME NEW s \in Streams, Feed(s) PROVE wire' \in Seq(Events)
        <3>1. chan[s] \in Seq(Events) /\ chan[s] # <<>>
            BY <1>1, <2>2 DEF Feed, Forward
        <3>2. Head(chan[s]) \in Events
            BY <3>1
        <3>3. wire \o <<Head(chan[s])>> = Append(wire, Head(chan[s]))
            BY <1>1, <3>2, ConcatOne
        <3>4. Append(wire, Head(chan[s])) \in Seq(Events)
            BY <1>1, <3>2
        <3> QED
            BY <1>1, <2>2, <3>3, <3>4 DEF Feed, Write
    <2> QED
        BY <1>1, <2>1, <2>2 DEF PeerStep, HangUp
<1> QED
    BY <1>2 DEF PeerStep, MeshTypeOK, followerVars, viewerVars

(* An event on its way to the page is one of the peer's, or this node's.    *)
LEMMA OwnTyped ==
    ASSUME MeshTypeOK, TypeOK',
           \/ Dial \/ DialFails \/ ConnectionEnds \/ FollowerStep
           \/ PumpTakes \/ PumpMerges \/ PumpEnds
           \/ Show \/ Cancel \/ WriteFails
    PROVE  MeshTypeOK'
<1> USE DEF MeshTypeOK, followerVars, viewerVars, Follow
<1>1. CASE Dial
    <2>1. conn' \in Streams /\ conn' # NoStream
        BY <1>1, LocalAssumption DEF Dial
    <2> QED
        BY <1>1, <2>1 DEF Dial
<1>2. CASE DialFails
    BY <1>2 DEF DialFails
<1>3. CASE Read
    <2>1. Head(wire) \in Events /\ Tail(wire) \in Seq(Events)
        BY <1>3 DEF Read
    <2>2. hand' \in {<<event>> : event \in Events} /\ hand' # <<>>
        BY <1>3, <2>1 DEF Read
    <2> QED
        BY <1>3, <2>1, <2>2 DEF Read
<1>4. CASE ConnectionEnds
    <2>1. <<>> \in Seq(Events)
        OBVIOUS
    <2> QED
        BY <1>4, <2>1 DEF ConnectionEnds
<1>5. CASE Merge
    <2>1. PICK ev \in Events : hand = <<ev>>
        BY <1>5 DEF Merge
    <2>2. merged' = Append(merged, ev)
        BY <1>5, <2>1, ConcatOne DEF Merge
    <2>3. merged' \in Seq(Events \cup {LocalEvent}) /\ Len(merged') <= MergedCap
        BY <1>5, <2>2, MergedCapAssumption DEF Merge
    <2> QED
        BY <1>5, <2>3 DEF Merge
<1>6. CASE Redial
    BY <1>6 DEF Redial
<1>7. CASE FollowerEnds
    <2>1. <<>> \in Seq(Events)
        OBVIOUS
    <2> QED
        BY <1>7, <2>1 DEF FollowerEnds
<1>8. CASE PumpTakes \/ PumpEnds
    BY <1>8 DEF PumpTakes, PumpEnds
<1>9. CASE PumpMerges
    <2>1. merged' \in Seq(Events \cup {LocalEvent}) /\ Len(merged') <= MergedCap
        BY <1>9, MergedCapAssumption DEF PumpMerges
    <2> QED
        BY <1>9, <2>1 DEF PumpMerges
<1>10. CASE Show
    <2>1. /\ Head(merged) \in Events \cup {LocalEvent}
          /\ Tail(merged) \in Seq(Events \cup {LocalEvent}) /\ Len(Tail(merged)) <= MergedCap
        BY <1>10, MergedCapAssumption DEF Show
    <2>2. Watch(page, Head(merged)) \in Pages
        BY <2>1, WatchRow, WatchLocal DEF Pages
    <2> QED
        BY <1>10, <2>1, <2>2 DEF Show, Pages
<1>11. CASE Cancel \/ WriteFails
    BY <1>11 DEF Cancel, WriteFails
<1> QED
    BY <1>1, <1>2, <1>3, <1>4, <1>5, <1>6, <1>7, <1>8, <1>9, <1>10, <1>11 DEF FollowerStep

(* Type correctness of a mesh dashboard's stream: a connection is held      *)
(* while the follower reads or merges, an event only while it merges, and   *)
(* the merged channel keeps its bound with two goroutines that send to it.  *)
THEOREM StreamIsTyped == MeshSpec => []MeshTypeOK
<1>1. MeshTypeOK /\ TypeOK' /\ [MeshNext]_meshVars => MeshTypeOK'
    <2>1. MeshTypeOK /\ UNCHANGED meshVars => MeshTypeOK'
        BY DEF MeshTypeOK, TypeOK, meshVars, vars, ownVars, followerVars, viewerVars
    <2> QED
        BY <2>1, PeerTyped, OwnTyped DEF MeshNext
<1> QED
    BY <1>1, MeshInitTyped, PeerIsALog, LogTyped, PTL DEF MeshSpec
-----------------------------------------------------------------------------
(* What is read after more was written tells what came last.                *)
LEMMA RowOne ==
    ASSUME NEW S, NEW e \in S, NEW r, NEW row
    PROVE  Row(<<e>>, r, row) = After(e, r, row)
<1> SUFFICES ASSUME NEW q, q = <<e>>
             PROVE  Row(q, r, row) = After(e, r, row)
    OBVIOUS
<1>1. q \in Seq(S) /\ DOMAIN q = {1} /\ q[1] = e
    OBVIOUS
<1>2. CASE e.src = r
    <2>1. IsLast(q, r, 1)
        BY <1>1, <1>2 DEF IsLast
    <2>2. Row(q, r, row) = q[1].kind
        BY <1>1, <2>1, RowOfLast
    <2>3. After(e, r, row) = e.kind
        BY <1>2 DEF After
    <2> QED
        BY <1>1, <2>2, <2>3
<1>3. CASE e.src # r
    <2>1. Silent(q, r)
        BY <1>1, <1>3 DEF Silent
    <2>2. Row(q, r, row) = row
        BY <2>1, RowOfSilent
    <2>3. After(e, r, row) = row
        BY <1>3 DEF After
    <2> QED
        BY <2>2, <2>3
<1> QED
    BY <1>2, <1>3

LEMMA RowConcat ==
    ASSUME NEW S, NEW p \in Seq(S), NEW q \in Seq(S), NEW r, NEW row, ~Silent(q, r)
    PROVE  Row(p \o q, r, row) = Row(q, r, row)
<1> DEFINE w == p \o q
           n == Len(p)
<1>1. /\ n \in Nat /\ w \in Seq(S) /\ DOMAIN w = 1 .. n + Len(q) /\ DOMAIN q = 1 .. Len(q)
      /\ \A i \in 1 .. Len(q) : w[n + i] = q[i]
      /\ Len(q) \in Nat
    OBVIOUS
<1>2. PICK i \in DOMAIN q : IsLast(q, r, i)
    BY SilentOrLast
<1> HIDE DEF w, n
<1>3. n + i \in DOMAIN w /\ w[n + i] = q[i]
    BY <1>1, <1>2
<1>4. ASSUME NEW j \in DOMAIN w, j > n + i PROVE w[j].src # r
    <2>1. j - n \in DOMAIN q /\ j - n > i
        BY <1>1, <1>2, <1>4
    <2>2. w[n + (j - n)] = q[j - n] /\ n + (j - n) = j
        BY <1>1, <1>4, <2>1
    <2> QED
        BY <1>2, <2>1, <2>2 DEF IsLast
<1>5. IsLast(w, r, n + i)
    BY <1>2, <1>3, <1>4 DEF IsLast
<1>6. Row(w, r, row) = w[n + i].kind
    BY <1>1, <1>5, RowOfLast
<1>7. Row(q, r, row) = q[i].kind
    BY <1>2, RowOfLast
<1> QED
    BY <1>3, <1>6, <1>7 DEF w

(* What the ring still has and did not get now it had before.               *)
LEMMA KeptBefore ==
    ASSUME NEW S, NEW q \in Seq(S), NEW e \in S, NEW x, x # e,
           NEW i \in DOMAIN Newest(Append(q, e)), Newest(Append(q, e))[i] = x
    PROVE  \E j \in DOMAIN q : q[j] = x
<1> USE RingMaxAssumption
<1> DEFINE p == Append(q, e)
<1>1. /\ p \in Seq(S) /\ Len(p) = Len(q) + 1 /\ Len(q) \in Nat /\ DOMAIN p = 1 .. Len(q) + 1
      /\ p[Len(q) + 1] = e /\ \A j \in 1 .. Len(q) : p[j] = q[j] /\ j \in DOMAIN q
    OBVIOUS
<1> HIDE DEF p
<1>2. PICK j \in DOMAIN p : p[j] = x
    <2>1. CASE ~(Len(p) > RingMax)
        <3>1. Newest(p) = p
            BY <2>1 DEF Newest
        <3> QED
            BY <3>1 DEF p
    <2>2. CASE Len(p) > RingMax
        <3> DEFINE d == Len(p) - RingMax
                   w == SubSeq(p, d + 1, Len(p))
        <3>1. /\ DOMAIN w = 1 .. RingMax /\ d \in Nat /\ Len(p) = RingMax + d /\ RingMax \in Nat
              /\ \A k \in 1 .. RingMax : w[k] = p[k + d]
            BY <1>1, <2>2
        <3>2. Newest(p) = w
            BY <2>2 DEF Newest
        <3> HIDE DEF w, d
        <3>3. i \in 1 .. RingMax /\ w[i] = x
            BY <3>1, <3>2 DEF p
        <3>4. i + d \in DOMAIN p /\ p[i + d] = x
            BY <1>1, <3>1, <3>3
        <3> QED
            BY <3>4
    <2> QED
        BY <2>1, <2>2
<1>3. j \in 1 .. Len(q)
    BY <1>1, <1>2
<1> QED
    BY <1>1, <1>2, <1>3

(* A step of the viewer's node that leaves the connection, or what is on    *)
(* its way to the page.                                                     *)
LEMMA PageKeeps ==
    ASSUME PageWillSettle, UNCHANGED vars,
           conn' = conn \/ conn' = NoStream,
           \A r \in Handlers : conn' = conn => PageRow(r)' = PageRow(r)
    PROVE  PageWillSettle'
<1> SUFFICES ASSUME NEW r \in Handlers, Followed(r)'
             PROVE  conn' \in toSend'[r] \/ Row(chan'[conn'], r, PageRow(r)') # "started"
    BY DEF PageWillSettle
<1>1. conn' = conn
    BY DEF Followed
<1>2. Followed(r)
    BY <1>1 DEF Followed, Kept, vars
<1> QED
    BY <1>1, <1>2 DEF PageWillSettle, vars

(* The peer records an event: a request that ends now is sent to the        *)
(* connection, one that is over was over before.                            *)
LEMMA RecordKeepsPage ==
    ASSUME MeshTypeOK, LogInv, PageWillSettle, NEW e \in Emitters, Record(e),
           UNCHANGED ownVars
    PROVE  PageWillSettle'
<1> USE DEF ownVars, followerVars, viewerVars, streamVars
<1> DEFINE event == Script(e)[emitted[e] + 1]
<1> SUFFICES ASSUME NEW r \in Handlers, Followed(r)'
             PROVE  conn' \in toSend'[r] \/ Row(chan'[conn'], r, PageRow(r)') # "started"
    BY DEF PageWillSettle
<1> TypeOK
    BY DEF MeshTypeOK
<1>0. emitted[e] \in 0 .. 2 /\ emitted[e] + 1 \in 1 .. Len(Script(e))
    BY ScriptSays DEF TypeOK, Record
<1>1. /\ event \in Events /\ event.src = e /\ TypeOK
      /\ ring' = Newest(Append(ring, event))
      /\ emitted' = [emitted EXCEPT ![e] = emitted[e] + 1]
      /\ toSend' = [toSend EXCEPT ![e] = subs]
      /\ UNCHANGED <<chan, aborted, phase, missed>>
    BY <1>0, ScriptSays DEF Record
<1> HIDE DEF event
<1>2. PageRow(r)' = PageRow(r) /\ conn' = conn /\ conn \in Streams
    BY DEF PageRow, Followed, MeshTypeOK
<1>3. CASE r = e
    <2>1. conn \in subs
        BY <1>1, <1>2 DEF Followed, LogInv, StreamStages
    <2> QED
        BY <1>1, <1>2, <1>3, <2>1 DEF TypeOK
<1>4. CASE r # e
    <2> DEFINE done == [src |-> r, kind |-> "done"]
    <2>1. emitted[r] = 2 /\ toSend'[r] = toSend[r]
        BY <1>1, <1>4 DEF Followed, TypeOK, Emitters
    <2>2. done # event
        BY <1>1, <1>4
    <2>3. Kept(done)
        <3> HIDE DEF done
        <3>1. PICK i \in DOMAIN Newest(Append(ring, event)) :
                Newest(Append(ring, event))[i] = done
            BY <1>1 DEF Followed, Kept, done
        <3>2. ring \in Seq(Events)
            BY <1>1 DEF TypeOK
        <3>3. \E j \in DOMAIN ring : ring[j] = done
            BY <1>1, <2>2, <3>1, <3>2, KeptBefore
        <3> QED
            BY <3>3 DEF Kept, done
    <2>4. Followed(r)
        BY <1>1, <1>2, <2>1, <2>3 DEF Followed
    <2> QED
        BY <1>1, <1>2, <2>1, <2>4 DEF PageWillSettle
<1> QED
    BY <1>3, <1>4

(* The peer sends it, or an emit ends.                                      *)
LEMMA EmitKeepsPage ==
    ASSUME MeshTypeOK, LogInv, PageWillSettle, NEW e \in Emitters, EmitStep(e),
           UNCHANGED ownVars
    PROVE  PageWillSettle'
<1> USE DEF ownVars, followerVars, viewerVars
<1> SUFFICES ASSUME NEW r \in Handlers, Followed(r)'
             PROVE  conn' \in toSend'[r] \/ Row(chan'[conn'], r, PageRow(r)') # "started"
    BY DEF PageWillSettle
<1>1. PageRow(r)' = PageRow(r) /\ conn' = conn /\ conn \in Streams /\ TypeOK
    BY DEF PageRow, Followed, MeshTypeOK
<1>2. /\ UNCHANGED <<ring, emitted, phase>>
      /\ missed \subseteq missed' /\ aborted \subseteq aborted'
    BY DEF EmitStep, EmitReturns, Send, SendPanics, logVars, streamVars
<1>3. Followed(r) /\ emitted[r] = 2 /\ conn \notin missed' /\ r \notin aborted'
    BY <1>1, <1>2 DEF Followed, Kept
<1>4. conn \in toSend[r] \/ Row(chan[conn], r, PageRow(r)) # "started"
    BY <1>3 DEF PageWillSettle
<1>5. ASSUME NEW s \in Streams, Send(e, s)
      PROVE  conn \in toSend'[r] \/ Row(chan'[conn], r, PageRow(r)) # "started"
    BY <1>1, <1>3, <1>4, <1>5, SendTells
<1>6. CASE EmitReturns(e)
    BY <1>1, <1>4, <1>6 DEF EmitReturns, logVars
<1>7. ASSUME NEW s \in Streams, SendPanics(e, s)
      PROVE  conn \in toSend'[r] \/ Row(chan'[conn], r, PageRow(r)) # "started"
    <2>1. r # e /\ toSend'[r] = toSend[r]
        BY <1>1, <1>3, <1>7 DEF SendPanics, TypeOK, Emitters
    <2> QED
        BY <1>4, <1>7, <2>1 DEF SendPanics, logVars
<1> QED
    BY <1>1, <1>5, <1>6, <1>7 DEF EmitStep
(* The peer's end of a connection: a replay leads with the end of a request *)
(* that the ring still has, and a live event moves one place on.            *)
LEMMA ReplayKeepsPage ==
    ASSUME MeshTypeOK, LogInv, PageWillSettle, NEW s \in Streams, Replay(s),
           UNCHANGED <<followerVars, pump, merged, viewerVars>>
    PROVE  PageWillSettle'
<1> USE DEF followerVars, viewerVars, emitVars, logVars
<1> SUFFICES ASSUME NEW r \in Handlers, Followed(r)'
             PROVE  conn' \in toSend'[r] \/ Row(chan'[conn'], r, PageRow(r)') # "started"
    BY DEF PageWillSettle
<1> TypeOK
    BY DEF MeshTypeOK
<1>1. /\ phase[s] = "subscribed" /\ phase' = [phase EXCEPT ![s] = "live"]
      /\ UNCHANGED <<ring, subs, chan, emitted, toSend, aborted, missed, conn, hand,
                     merged, page>>
      /\ wire' = IF s = conn THEN wire \o ring ELSE wire
    BY DEF Replay, ReplayBacklog, Write
<1>2. conn \in Streams
    BY <1>1 DEF MeshTypeOK, Followed
<1>3. CASE s # conn
    <2>1. Followed(r)
        BY <1>1, <1>2, <1>3 DEF Followed, Kept, TypeOK
    <2>2. PageRow(r)' = PageRow(r)
        BY <1>1, <1>3 DEF PageRow
    <2> QED
        BY <1>1, <2>1, <2>2 DEF PageWillSettle
<1>4. CASE s = conn
    <2>1. emitted[r] = 2 /\ r \notin aborted /\ conn \in subs \ missed
        BY <1>1, <1>2, <1>4 DEF Followed, LogInv, StreamStages
    <2>2. ~Silent(ring, r)
        BY <1>1 DEF Followed, Kept, Silent
    <2>3. \A row : Row(ring, r, row) # "started"
        <3>1. Row(ring, r, "nothing") # "started"
            BY <2>1 DEF LogInv, RingInOrder
        <3> QED
            BY <2>2, <3>1 DEF Row
    <2>4. PageRow(r)' # "started"
        <3> DEFINE row == Row(hand, r, Row(merged, r, page[r]))
        <3>1. PageRow(r)' = Row(wire \o ring, r, row)
            BY <1>1, <1>4 DEF PageRow
        <3> HIDE DEF row
        <3>2. wire \in Seq(Events) /\ ring \in Seq(Events)
            BY DEF MeshTypeOK, TypeOK
        <3>3. Row(wire \o ring, r, row) = Row(ring, r, row)
            BY <2>2, <3>2, RowConcat
        <3> QED
            BY <2>3, <3>1, <3>3
    <2>5. conn \in toSend[r] \/ Row(chan[conn], r, shown[conn][r]) # "started"
        BY <1>2, <2>1 DEF LogInv, WillSettle
    <2>6. Row(chan[conn], r, PageRow(r)')
            \in {Row(chan[conn], r, shown[conn][r]), PageRow(r)'}
        BY RowOverrides
    <2> QED
        BY <1>1, <2>4, <2>5, <2>6
<1> QED
    BY <1>3, <1>4

LEMMA FeedKeepsPage ==
    ASSUME MeshTypeOK, LogInv, PageWillSettle, NEW s \in Streams, Feed(s),
           UNCHANGED <<followerVars, pump, merged, viewerVars>>
    PROVE  PageWillSettle'
<1> USE DEF followerVars, viewerVars, emitVars
<1> SUFFICES ASSUME NEW r \in Handlers, Followed(r)'
             PROVE  conn' \in toSend'[r] \/ Row(chan'[conn'], r, PageRow(r)') # "started"
    BY DEF PageWillSettle
<1> TypeOK
    BY DEF MeshTypeOK
<1>1. /\ chan[s] # <<>> /\ chan' = [chan EXCEPT ![s] = Tail(chan[s])]
      /\ UNCHANGED <<ring, subs, phase, emitted, toSend, aborted, missed, conn, hand,
                     merged, page>>
      /\ s = conn => wire = <<>>
      /\ wire' = IF s = conn THEN wire \o <<Head(chan[s])>> ELSE wire
    BY DEF Feed, Forward, Write
<1>2. Followed(r) /\ conn \in Streams
    BY <1>1 DEF Followed, Kept, MeshTypeOK
<1>3. conn \in toSend[r] \/ Row(chan[conn], r, PageRow(r)) # "started"
    BY <1>2 DEF PageWillSettle
<1>4. CASE s # conn
    <2>1. PageRow(r)' = PageRow(r) /\ chan'[conn] = chan[conn]
        BY <1>1, <1>2, <1>4 DEF PageRow, TypeOK
    <2> QED
        BY <1>1, <1>3, <2>1
<1>5. CASE s = conn
    <2> DEFINE q == chan[conn]
               row == Row(hand, r, Row(merged, r, page[r]))
    <2>1. /\ q \in Seq(Events) /\ q # <<>> /\ Head(q) \in Events
          /\ chan'[conn] = Tail(q) /\ wire = <<>>
        BY <1>1, <1>2, <1>5 DEF TypeOK
    <2>2. wire' = <<Head(q)>>
        BY <1>1, <1>5, <2>1
    <2>3. PageRow(r) = Row(<<>>, r, row) /\ PageRow(r)' = Row(<<Head(q)>>, r, row)
        BY <1>1, <2>1, <2>2 DEF PageRow
    <2> HIDE DEF q, row
    <2>4. PageRow(r) = row /\ PageRow(r)' = After(Head(q), r, row)
        BY <2>1, <2>3, RowEmpty, RowOne
    <2>5. Row(q, r, row) = Row(Tail(q), r, After(Head(q), r, row))
        BY <2>1, RowTail
    <2> QED
        BY <1>1, <1>3, <2>1, <2>4, <2>5 DEF q
<1> QED
    BY <1>4, <1>5

LEMMA HangUpKeepsPage ==
    ASSUME MeshTypeOK, PageWillSettle, NEW s \in Streams, HangUp(s),
           UNCHANGED <<followerVars, pump, merged, viewerVars>>
    PROVE  PageWillSettle'
<1> USE DEF followerVars, viewerVars, emitVars
<1> SUFFICES ASSUME NEW r \in Handlers, Followed(r)'
             PROVE  conn' \in toSend'[r] \/ Row(chan'[conn'], r, PageRow(r)') # "started"
    BY DEF PageWillSettle
<1>1. /\ phase' = [phase EXCEPT ![s] = "gone"]
      /\ UNCHANGED <<ring, chan, emitted, toSend, aborted, missed, conn, hand, wire,
                     merged, page>>
    BY DEF HangUp, Unsubscribe
<1>2. PageRow(r)' = PageRow(r) /\ Followed(r)
    BY <1>1 DEF PageRow, Followed, Kept, MeshTypeOK, TypeOK
<1> QED
    BY <1>1, <1>2 DEF PageWillSettle

(* A new connection has everything before it.                               *)
LEMMA DialKeepsPage ==
    ASSUME MeshTypeOK, PageWillSettle, Dial
    PROVE  PageWillSettle'
<1>1. conn' \in Streams /\ phase' = [phase EXCEPT ![conn'] = "subscribed"]
    BY DEF Dial, Subscribe
<1>2. phase'[conn'] # "live"
    BY <1>1 DEF MeshTypeOK, TypeOK
<1> QED
    BY <1>2 DEF PageWillSettle, Followed

(* The viewer's node passes events on, in their order.                      *)
LEMMA OwnStepKeepsPage ==
    ASSUME MeshTypeOK, PageWillSettle,
           \/ DialFails \/ ConnectionEnds \/ FollowerStep
           \/ PumpTakes \/ PumpMerges \/ PumpEnds
           \/ Show \/ Cancel \/ WriteFails
    PROVE  PageWillSettle'
<1> USE DEF followerVars, viewerVars
<1>1. CASE DialFails \/ Redial \/ PumpTakes \/ PumpEnds \/ Cancel \/ WriteFails
    BY <1>1, PageKeeps
        DEF DialFails, Redial, PumpTakes, PumpEnds, Cancel, WriteFails, PageRow
<1>2. CASE ConnectionEnds \/ FollowerEnds
    <2>1. conn' = NoStream
        BY <1>2 DEF ConnectionEnds, FollowerEnds
    <2> QED
        BY <2>1 DEF PageWillSettle, Followed
<1>3. CASE Read
    <2>1. /\ wire \in Seq(Events) /\ wire # <<>> /\ Head(wire) \in Events
          /\ hand = <<>> /\ hand' = <<Head(wire)>> /\ wire' = Tail(wire)
          /\ UNCHANGED <<vars, conn, merged, page>>
        BY <1>3 DEF Read, Follow, MeshTypeOK
    <2>2. ASSUME NEW r \in Handlers PROVE PageRow(r)' = PageRow(r)
        <3> DEFINE row == Row(merged, r, page[r])
        <3>1. /\ PageRow(r) = Row(wire, r, Row(<<>>, r, row))
              /\ PageRow(r)' = Row(Tail(wire), r, Row(<<Head(wire)>>, r, row))
            BY <2>1 DEF PageRow
        <3> HIDE DEF row
        <3>2. Row(<<>>, r, row) = row /\ Row(<<Head(wire)>>, r, row) = After(Head(wire), r, row)
            BY <2>1, RowEmpty, RowOne
        <3>3. Row(wire, r, row) = Row(Tail(wire), r, After(Head(wire), r, row))
            BY <2>1, RowTail
        <3> QED
            BY <3>1, <3>2, <3>3
    <2> QED
        BY <2>1, <2>2, PageKeeps
<1>4. CASE Merge
    <2>1. PICK ev \in Events : hand = <<ev>>
        BY <1>4 DEF Merge, Follow, MeshTypeOK
    <2>2. /\ merged \in Seq(Events \cup {LocalEvent}) /\ merged' = Append(merged, ev)
          /\ hand' = <<>> /\ UNCHANGED <<vars, conn, wire, page>>
        BY <1>4, <2>1, ConcatOne DEF Merge, MeshTypeOK
    <2>3. ASSUME NEW r \in Handlers PROVE PageRow(r)' = PageRow(r)
        <3> DEFINE row == Row(merged, r, page[r])
        <3>1. /\ PageRow(r) = Row(wire, r, Row(<<ev>>, r, row))
              /\ PageRow(r)' = Row(wire, r, Row(<<>>, r, Row(Append(merged, ev), r, page[r])))
            BY <2>1, <2>2 DEF PageRow
        <3>2. Row(Append(merged, ev), r, page[r]) = After(ev, r, row)
            BY <2>2, RowAppend
        <3> HIDE DEF row
        <3> QED
            BY <3>1, <3>2, RowEmpty, RowOne
    <2> QED
        BY <2>2, <2>3, PageKeeps
<1>5. CASE PumpMerges
    <2>1. /\ merged \in Seq(Events \cup {LocalEvent}) /\ merged' = Append(merged, LocalEvent)
          /\ UNCHANGED <<vars, conn, wire, hand, page>>
        BY <1>5 DEF PumpMerges, MeshTypeOK
    <2>2. ASSUME NEW r \in Handlers PROVE PageRow(r)' = PageRow(r)
        <3>1. Row(Append(merged, LocalEvent), r, page[r])
                = After(LocalEvent, r, Row(merged, r, page[r]))
            BY <2>1, RowAppend
        <3>2. LocalEvent.src # r
            BY LocalAssumption DEF LocalEvent, Emitters
        <3> QED
            BY <2>1, <3>1, <3>2 DEF PageRow, After
    <2> QED
        BY <2>1, <2>2, PageKeeps
<1>6. CASE Show
    <2>1. /\ merged \in Seq(Events \cup {LocalEvent}) /\ merged # <<>>
          /\ Head(merged) \in Events \cup {LocalEvent} /\ page \in Pages
          /\ page' = Watch(page, Head(merged)) /\ merged' = Tail(merged)
          /\ UNCHANGED <<vars, conn, wire, hand>>
        BY <1>6 DEF Show, MeshTypeOK, Pages
    <2>2. ASSUME NEW r \in Handlers PROVE PageRow(r)' = PageRow(r)
        <3>1. page'[r] = After(Head(merged), r, page[r])
            <4>1. CASE Head(merged) \in Events
                BY <2>1, <4>1, WatchRow
            <4>2. CASE Head(merged) = LocalEvent
                <5>1. LocalEvent.src # r
                    BY LocalAssumption DEF LocalEvent, Emitters
                <5> QED
                    BY <2>1, <4>2, <5>1, WatchLocal DEF After
            <4> QED
                BY <2>1, <4>1, <4>2
        <3>2. Row(merged, r, page[r]) = Row(Tail(merged), r, After(Head(merged), r, page[r]))
            BY <2>1, RowTail
        <3> QED
            BY <2>1, <3>1, <3>2 DEF PageRow
    <2> QED
        BY <2>1, <2>2, PageKeeps
<1> QED
    BY <1>1, <1>2, <1>3, <1>4, <1>5, <1>6 DEF FollowerStep

LEMMA PageSettles == MeshSpec => []PageWillSettle
<1>1. MeshInit => PageWillSettle
    BY DEF MeshInit, PageWillSettle, Followed
<1>2. MeshTypeOK /\ LogInv /\ PageWillSettle /\ [MeshNext]_meshVars => PageWillSettle'
    <2> SUFFICES ASSUME MeshTypeOK, LogInv, PageWillSettle, [MeshNext]_meshVars
                 PROVE  PageWillSettle'
        OBVIOUS
    <2>1. CASE PeerStep
        <3>1. ASSUME wire' = wire, NEW e \in Emitters, Record(e) \/ EmitStep(e)
              PROVE  PageWillSettle'
            BY <2>1, <3>1, RecordKeepsPage, EmitKeepsPage DEF PeerStep, ownVars
        <3> QED
            BY <2>1, <3>1, ReplayKeepsPage, FeedKeepsPage, HangUpKeepsPage DEF PeerStep
    <2>2. CASE UNCHANGED meshVars
        BY <2>2, PageKeeps DEF meshVars, ownVars, followerVars, viewerVars, PageRow
    <2> QED
        BY <2>1, <2>2, DialKeepsPage, OwnStepKeepsPage DEF MeshNext
<1> QED
    BY <1>1, <1>2, StreamIsTyped, PeerIsALog, LogSettles, PTL DEF MeshSpec

(* A page that has caught up with its connection shows no row of a request  *)
(* that is over and whose end the peer's ring still has, however often the  *)
(* connection broke, whatever was dropped before, and for any bounds of the *)
(* ring and of the channels (activity.go:71-76, meshactivity.go:216-219).   *)
THEOREM ReplayClearsThePage == MeshSpec => []ReconnectClearsRows
<1>1. MeshTypeOK /\ LogInv /\ PageWillSettle => ReconnectClearsRows
    <2> SUFFICES ASSUME MeshTypeOK, LogInv, PageWillSettle, CaughtUp,
                        NEW r \in Handlers, Delivered(r),
                        Kept([src |-> r, kind |-> "done"])
                 PROVE  page[r] # "started"
        BY DEF ReconnectClearsRows
    <2>1. /\ emitted[r] = 2 /\ sending[r] = <<>> /\ r \notin aborted /\ r \in Emitters
        BY ScriptSays DEF Delivered, Emitters
    <2>2. conn # NoStream /\ hand = <<>> /\ wire = <<>> /\ chan[conn] = <<>>
        BY DEF CaughtUp, MeshTypeOK
    <2>3. Silent(merged, r)
        BY <2>1, LocalAssumption DEF CaughtUp, Silent
    <2>4. Followed(r) /\ conn \notin toSend[r]
        BY <2>1, <2>2 DEF Followed, CaughtUp, LogInv, SendsItsLast
    <2>5. Row(chan[conn], r, PageRow(r)) = page[r]
        BY <2>2, <2>3, RowEmpty, RowOfSilent DEF PageRow
    <2> QED
        BY <2>4, <2>5 DEF PageWillSettle
<1> QED
    BY <1>1, StreamIsTyped, PeerIsALog, LogSettles, PageSettles, PTL
=============================================================================
