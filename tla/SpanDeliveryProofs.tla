-------------------------- MODULE SpanDeliveryProofs ---------------------------
(***************************************************************************)
(* SpanDelivery implements SpanPromise.  A span that is live is held once, *)
(* by the buffer or by one flusher; one that is not is held by nobody.     *)
(* That is inductive together with what the control of the flushers and of *)
(* the event loops says of empty batches.                                  *)
(*                                                                         *)
(* Then RowsGrow of LivePage (a specification of its own), where spans end *)
(* up: for any sessions and projects, any buffer and any number of spans,  *)
(* broken connections and changes of project.                              *)
(***************************************************************************)
EXTENDS SpanDelivery, LivePage, TLAPS

\* A span is where its standing says.
Sound(h, s, standing) ==
    IF standing = "live" THEN \E p \in Holders : OnlyAt(h, s, p) ELSE Nowhere(h, s)

Batches == [Holders -> Seq(Spans)]

Typed ==
    /\ buffer \in Seq(Spans)
    /\ recorded \in 0..MaxSpans
    /\ fate \in [Spans -> Fates]
    /\ post \in [Flushers -> Seq(Spans)]

\* The variables that say where the program is.
TypedControl ==
    /\ task \in TaskStates
    /\ closer \in {"idle", "cancelling", "posting", "returned"}
    /\ thread \in {"sleeping", "going", "posting", "ended"}
    /\ closed \in BOOLEAN
    /\ loop \in {"down", "up", "ending"}
    /\ exit \in {"running", "flushing", "gone"}
    /\ mark \in 0..MaxSpans
    /\ outage \in BOOLEAN

\* A flusher that is about to take the buffer has no batch, close() and the task only go
\* on while a loop runs, and an exiting process leaves nothing behind.
Control ==
    /\ closer \in {"idle", "cancelling"} => post["close"] = <<>>
    /\ thread \in {"sleeping", "going"} => post["thread"] = <<>>
    /\ task = "cancelled" => post["task"] = <<>>
    /\ closer = "cancelling" => loop = "up"
    /\ task \in {"cancelled", "final"} => loop # "down"
    /\ exit = "running" => post["exit"] = <<>>
    /\ exit # "running" => loop = "down" /\ buffer = <<>>
    /\ exit = "gone" => \A f \in Flushers : post[f] = <<>>

\* Where the spans are.
Spread ==
    /\ \A s \in Spans : Sound(held, s, Standing(s))
    /\ \A s \in Spans : s > recorded => fate[s] = "live"

IInv == Typed /\ TypedControl /\ Control /\ Spread

Where(s) == PlaceIn(held, s, Standing(s))
-----------------------------------------------------------------------------
(* Where a span is. *)

\* A live span is placed at its only holder.
LEMMA PlacedAtHolder ==
    ASSUME NEW h, NEW s, NEW p \in Holders, OnlyAt(h, s, p)
    PROVE  PlaceIn(h, s, "live") = p
<1>1. ASSUME NEW q \in Holders, OnlyAt(h, s, q) PROVE q = p
  BY <1>1 DEF OnlyAt, Once, Absent
<1>2. (CHOOSE q \in Holders : OnlyAt(h, s, q)) = p
  BY <1>1
<1> QED BY <1>2 DEF PlaceIn

\* A span that is not live is placed at its standing.
LEMMA PlacedAtStanding ==
    ASSUME NEW h, NEW s, NEW standing, standing # "live", Nowhere(h, s)
    PROVE  PlaceIn(h, s, standing) = standing
BY DEF PlaceIn

\* A span of a sound state is at its only holder or at its standing.
LEMMA Placement ==
    ASSUME NEW h, NEW s, NEW standing, Sound(h, s, standing)
    PROVE  \/ /\ standing = "live"
              /\ PlaceIn(h, s, standing) \in Holders
              /\ OnlyAt(h, s, PlaceIn(h, s, standing))
           \/ /\ standing # "live"
              /\ Nowhere(h, s)
              /\ PlaceIn(h, s, standing) = standing
<1>1. CASE standing = "live"
  <2>1. PICK p \in Holders : OnlyAt(h, s, p)
    BY <1>1 DEF Sound
  <2> QED BY <1>1, <2>1, PlacedAtHolder
<1>2. CASE standing # "live"
  BY <1>2, PlacedAtStanding DEF Sound
<1> QED BY <1>1, <1>2
-----------------------------------------------------------------------------
(* How holders change. *)

HandedTo(h, f) == [h EXCEPT !["buffer"] = <<>>, ![f] = h["buffer"]]
GivenBack(h, f) == [h EXCEPT !["buffer"] = h[f] \o h["buffer"], ![f] = <<>>]
Without(h, F) == [p \in Holders |-> IF p \in F THEN <<>> ELSE h[p]]

\* Batches that are cut off or answered: their spans are held by nobody.
LEMMA Emptied ==
    ASSUME NEW h \in Batches, NEW F \in SUBSET Holders, NEW s,
           NEW g, g = Without(h, F)
    PROVE  /\ g \in Batches
           /\ Nowhere(h, s) => Nowhere(g, s)
           /\ \A p \in Holders : OnlyAt(h, s, p) =>
                IF p \in F THEN Nowhere(g, s) ELSE OnlyAt(g, s, p)
<1>1. \A p \in Holders : Absent(h[p], s) => Absent(g[p], s)
  BY DEF Absent, Without
<1>2. \A p \in F : Absent(g[p], s)
  BY DEF Absent, Without
<1>3. \A p \in Holders \ F : g[p] = h[p]
  BY DEF Without
<1>4. g \in Batches
  BY DEF Batches, Without
<1>5. Nowhere(h, s) => Nowhere(g, s)
  BY <1>1 DEF Nowhere
<1>6. ASSUME NEW p \in Holders, OnlyAt(h, s, p)
      PROVE  IF p \in F THEN Nowhere(g, s) ELSE OnlyAt(g, s, p)
  <2>1. CASE p \in F
    BY <1>1, <1>2, <1>6, <2>1 DEF Nowhere, OnlyAt
  <2>2. CASE p \notin F
    BY <1>1, <1>3, <1>6, <2>2 DEF OnlyAt
  <2> QED BY <2>1, <2>2
<1> QED BY <1>4, <1>5, <1>6

\* A flusher takes the buffer.
LEMMA Taken ==
    ASSUME NEW h \in Batches, NEW f \in Flushers, h[f] = <<>>, NEW s,
           NEW g, g = HandedTo(h, f)
    PROVE  /\ g \in Batches
           /\ Nowhere(h, s) => Nowhere(g, s)
           /\ \A p \in Holders : OnlyAt(h, s, p) =>
                IF p = "buffer" THEN OnlyAt(g, s, f) ELSE OnlyAt(g, s, p)
<1>1. f \in Holders /\ f # "buffer"
  BY DEF Holders, Flushers, AsyncFlushers, SyncFlushers
<1>2. /\ g["buffer"] = <<>> /\ g[f] = h["buffer"]
      /\ \A p \in Holders \ {"buffer", f} : g[p] = h[p]
  BY <1>1 DEF Batches, Holders, HandedTo
<1>3. Absent(<<>>, s) /\ ~ Once(<<>>, s)
  BY DEF Absent, Once
<1>4. \A p \in Holders : OnlyAt(h, s, p) => p # f
  BY <1>3 DEF OnlyAt
<1>5. g \in Batches
  BY <1>1 DEF Batches, Holders, HandedTo
<1>6. Nowhere(h, s) => Nowhere(g, s)
  BY <1>1, <1>2, <1>3 DEF Nowhere, Holders
<1>7. OnlyAt(h, s, "buffer") => OnlyAt(g, s, f)
  BY <1>1, <1>2, <1>3 DEF OnlyAt, Holders
<1>8. ASSUME NEW p \in Holders \ {"buffer"}, OnlyAt(h, s, p) PROVE OnlyAt(g, s, p)
  BY <1>1, <1>2, <1>3, <1>4, <1>8 DEF OnlyAt, Holders
<1> QED BY <1>5, <1>6, <1>7, <1>8

\* An element of a concatenation, or of a part, is one of its parts'.
LEMMA Joined ==
    ASSUME NEW a \in Seq(Spans), NEW b \in Seq(Spans), NEW s
    PROVE  /\ a \o b \in Seq(Spans)
           /\ Absent(a, s) /\ Absent(b, s) => Absent(a \o b, s)
           /\ Once(a, s) /\ Absent(b, s) => Once(a \o b, s)
           /\ Absent(a, s) /\ Once(b, s) => Once(a \o b, s)
<1> DEFINE c == a \o b
<1>1. /\ c \in Seq(Spans) /\ Len(c) = Len(a) + Len(b)
      /\ \A i \in 1..Len(a) : c[i] = a[i]
      /\ \A i \in (Len(a) + 1)..Len(c) : c[i] = b[i - Len(a)]
  OBVIOUS
<1>2. /\ DOMAIN c = 1..Len(c) /\ DOMAIN a = 1..Len(a) /\ DOMAIN b = 1..Len(b)
      /\ Len(a) \in Nat /\ Len(b) \in Nat
  BY <1>1
<1> HIDE DEF c
<1>3. \A i \in 1..Len(c) : i \in 1..Len(a) \/ (i - Len(a) \in 1..Len(b) /\ i \in (Len(a) + 1)..Len(c))
  BY <1>1, <1>2
<1>4. Absent(a, s) /\ Absent(b, s) => Absent(c, s)
  BY <1>1, <1>2, <1>3 DEF Absent
<1>5. ASSUME Once(a, s), Absent(b, s) PROVE Once(c, s)
  <2>1. PICK i \in 1..Len(a) : \A j \in 1..Len(a) : a[j] = s <=> j = i
    BY <1>2, <1>5 DEF Once
  <2>2. i \in 1..Len(c)
    BY <1>1, <1>2, <2>1
  <2>3. \A j \in 1..Len(c) : c[j] = s <=> j = i
    BY <1>1, <1>2, <1>3, <1>5, <2>1 DEF Absent
  <2> QED BY <1>2, <2>2, <2>3 DEF Once
<1>6. ASSUME Absent(a, s), Once(b, s) PROVE Once(c, s)
  <2>1. PICK i \in DOMAIN b : \A j \in DOMAIN b : b[j] = s <=> j = i
    BY <1>6 DEF Once
  <2>2. i + Len(a) \in 1..Len(c)
    BY <1>1, <1>2, <2>1
  <2>3. ASSUME NEW j \in 1..Len(c) PROVE c[j] = s <=> j = i + Len(a)
    <3>1. CASE j \in 1..Len(a)
      <4>1. c[j] # s
        BY <1>1, <1>2, <1>6, <3>1 DEF Absent
      <4>2. j # i + Len(a)
        BY <1>2, <2>1, <3>1
      <4> QED BY <4>1, <4>2
    <3>2. CASE j - Len(a) \in 1..Len(b) /\ j \in (Len(a) + 1)..Len(c)
      <4>1. c[j] = b[j - Len(a)]
        BY <1>1, <3>2
      <4>2. b[j - Len(a)] = s <=> j - Len(a) = i
        BY <1>2, <2>1, <3>2
      <4> QED BY <1>2, <2>1, <4>1, <4>2
    <3> QED BY <1>3, <3>1, <3>2
  <2> QED BY <1>2, <2>2, <2>3 DEF Once
<1> QED BY <1>1, <1>4, <1>5, <1>6 DEF c

\* A batch is put back.
LEMMA PutBack ==
    ASSUME NEW h \in Batches, NEW f \in Flushers, NEW s,
           NEW g, g = GivenBack(h, f)
    PROVE  /\ g \in Batches
           /\ Nowhere(h, s) => Nowhere(g, s)
           /\ \A p \in Holders : OnlyAt(h, s, p) =>
                IF p = f THEN OnlyAt(g, s, "buffer") ELSE OnlyAt(g, s, p)
<1>1. f \in Holders /\ f # "buffer" /\ "buffer" \in Holders
  BY DEF Holders, Flushers, AsyncFlushers, SyncFlushers
<1>2. h[f] \in Seq(Spans) /\ h["buffer"] \in Seq(Spans)
  BY <1>1 DEF Batches
<1>3. /\ g["buffer"] = h[f] \o h["buffer"] /\ g[f] = <<>>
      /\ \A p \in Holders \ {"buffer", f} : g[p] = h[p]
  BY <1>1 DEF Batches, GivenBack
<1>4. Absent(<<>>, s)
  BY DEF Absent
<1>5. /\ Absent(h[f], s) /\ Absent(h["buffer"], s) => Absent(g["buffer"], s)
      /\ Once(h[f], s) /\ Absent(h["buffer"], s) => Once(g["buffer"], s)
      /\ Absent(h[f], s) /\ Once(h["buffer"], s) => Once(g["buffer"], s)
      /\ g["buffer"] \in Seq(Spans)
  BY <1>2, <1>3, Joined
<1>6. g \in Batches
  <2>1. ASSUME NEW p \in Holders PROVE g[p] \in Seq(Spans)
    <3>1. <<>> \in Seq(Spans) /\ h[p] \in Seq(Spans)
      BY DEF Batches
    <3> QED BY <1>3, <1>5, <3>1
  <2>2. g = [p \in Holders |-> g[p]]
    BY DEF Batches, GivenBack
  <2> QED BY <2>1, <2>2 DEF Batches
<1>7. Nowhere(h, s) => Nowhere(g, s)
  BY <1>1, <1>3, <1>4, <1>5 DEF Nowhere
<1>8. OnlyAt(h, s, f) => OnlyAt(g, s, "buffer")
  BY <1>1, <1>3, <1>4, <1>5 DEF OnlyAt
<1>9. OnlyAt(h, s, "buffer") => OnlyAt(g, s, "buffer")
  BY <1>1, <1>3, <1>4, <1>5 DEF OnlyAt
<1>10. ASSUME NEW p \in Holders \ {"buffer", f}, OnlyAt(h, s, p) PROVE OnlyAt(g, s, p)
  BY <1>1, <1>3, <1>4, <1>5, <1>10 DEF OnlyAt
<1> QED BY <1>6, <1>7, <1>8, <1>9, <1>10

\* A span is appended and the buffer is trimmed: what was in it stays, or is dropped.
LEMMA Recorded ==
    ASSUME NEW b \in Seq(Spans), NEW x \in Spans, NEW s
    PROVE  LET longer == Append(b, x) IN
           /\ Trimmed(longer) \in Seq(Spans)
           /\ s # x /\ Absent(b, s) =>
                Absent(Trimmed(longer), s) /\ s \notin ToSet(Dropped(longer))
           /\ s # x /\ Once(b, s) =>
                IF s \in ToSet(Dropped(longer)) THEN Absent(Trimmed(longer), s)
                                                ELSE Once(Trimmed(longer), s)
           /\ s = x /\ Absent(b, s) =>
                Once(Trimmed(longer), s) /\ s \notin ToSet(Dropped(longer))
<1> DEFINE longer == Append(b, x)
           k == Surplus(longer)
           t == Trimmed(longer)
           d == Dropped(longer)
<1>1. /\ longer \in Seq(Spans) /\ Len(longer) = Len(b) + 1 /\ Len(b) \in Nat
      /\ \A i \in 1..Len(b) : longer[i] = b[i]
      /\ longer[Len(b) + 1] = x
  OBVIOUS
<1>2. k \in 0..Len(b)
  BY <1>1, DeliveryAssumption DEF Surplus
<1> HIDE DEF longer, k
<1>3. /\ t \in Seq(Spans) /\ Len(t) = Len(b) + 1 - k
      /\ \A i \in 1..Len(t) : t[i] = longer[k + i]
  <2>1. t = SubSeq(longer, 1 + k, Len(b) + 1)
    BY <1>1 DEF Trimmed, k
  <2>2. 1 + k \in 1..(Len(b) + 1)
    BY <1>1, <1>2
  <2> HIDE DEF t
  <2>3. \A i \in (1 + k)..(Len(b) + 1) : longer[i] \in Spans
    BY <1>1, <1>2
  <2>4. t \in Seq(Spans) /\ Len(t) = Len(b) + 1 - k
    BY <1>1, <1>2, <2>1, <2>2, <2>3
  <2>5. \A i \in 1..(Len(b) + 1 - k) : t[i] = longer[k + i]
    BY <1>1, <1>2, <2>1, <2>2
  <2> QED BY <2>4, <2>5
<1>4. /\ d \in Seq(Spans) /\ Len(d) = k
      /\ \A i \in 1..Len(d) : d[i] = longer[i]
  <2>1. d = SubSeq(longer, 1, k)
    BY DEF Dropped, k
  <2> HIDE DEF d
  <2>2. d \in Seq(Spans) /\ Len(d) = k
    BY <1>1, <1>2, <2>1
  <2>3. \A i \in 1..k : d[i] = longer[i]
    BY <1>1, <1>2, <2>1
  <2> QED BY <2>2, <2>3
<1>5. s \in ToSet(d) <=> \E i \in 1..k : longer[i] = s
  BY <1>2, <1>4 DEF ToSet
<1> HIDE DEF t, d
<1>6. ASSUME s # x, Absent(b, s) PROVE Absent(t, s) /\ s \notin ToSet(d)
  <2>1. \A i \in 1..(Len(b) + 1) : longer[i] # s
    BY <1>1, <1>6 DEF Absent
  <2> QED BY <1>1, <1>2, <1>3, <1>5, <2>1 DEF Absent
<1>7. ASSUME s # x, Once(b, s)
      PROVE  IF s \in ToSet(d) THEN Absent(t, s) ELSE Once(t, s)
  <2>1. PICK i \in 1..Len(b) : \A j \in 1..Len(b) : b[j] = s <=> j = i
    BY <1>1, <1>7 DEF Once
  <2>2. \A j \in 1..(Len(b) + 1) : longer[j] = s <=> j = i
    BY <1>1, <1>7, <2>1
  <2>3. CASE i <= k
    <3>1. s \in ToSet(d)
      BY <1>2, <1>5, <2>1, <2>2, <2>3
    <3>2. \A j \in 1..Len(t) : k + j \in 1..(Len(b) + 1) /\ k + j # i
      BY <1>1, <1>2, <1>3, <2>1, <2>3
    <3>3. \A j \in 1..Len(t) : t[j] # s
      BY <1>3, <2>2, <3>2
    <3>4. Absent(t, s)
      BY <1>3, <3>3 DEF Absent
    <3> QED BY <3>1, <3>4
  <2>4. CASE i > k
    <3>1. s \notin ToSet(d)
      BY <1>1, <1>2, <1>5, <2>2, <2>4
    <3>2. i - k \in 1..Len(t) /\ \A j \in 1..Len(t) : t[j] = s <=> j = i - k
      BY <1>1, <1>2, <1>3, <2>1, <2>2, <2>4
    <3>3. Once(t, s)
      BY <1>3, <3>2 DEF Once
    <3> QED BY <3>1, <3>3
  <2> QED BY <1>2, <2>1, <2>3, <2>4
<1>8. ASSUME s = x, Absent(b, s) PROVE Once(t, s) /\ s \notin ToSet(d)
  <2>1. \A j \in 1..(Len(b) + 1) : longer[j] = s <=> j = Len(b) + 1
    BY <1>1, <1>8 DEF Absent
  <2>2. s \notin ToSet(d)
    BY <1>1, <1>2, <1>5, <2>1
  <2>3. Len(t) \in 1..Len(t) /\ \A j \in 1..Len(t) : t[j] = s <=> j = Len(t)
    BY <1>1, <1>2, <1>3, <2>1
  <2> QED BY <1>3, <2>2, <2>3 DEF Once
<1> QED BY <1>3, <1>6, <1>7, <1>8 DEF t, d, longer
-----------------------------------------------------------------------------
(* How places change, for one span. *)

Standings == Fates \cup {"unrecorded"}

LEMMA Names ==
    /\ \A f \in Flushers : f \in Holders /\ f # "buffer"
    /\ "buffer" \in Holders
    /\ \A e \in Standings : e \notin Holders
BY DEF Holders, Flushers, AsyncFlushers, SyncFlushers, Standings, Fates

LEMMA TakeMoves ==
    ASSUME NEW h \in Batches, NEW s, NEW standing \in Standings, Sound(h, s, standing),
           NEW f \in Flushers, h[f] = <<>>,
           NEW g, g = HandedTo(h, f)
    PROVE  /\ Sound(g, s, standing)
           /\ PlaceIn(h, s, standing) # f
           /\ PlaceIn(g, s, standing) = IF PlaceIn(h, s, standing) = "buffer" THEN f
                                        ELSE PlaceIn(h, s, standing)
<1> DEFINE p == PlaceIn(h, s, standing)
<1>0. /\ Nowhere(h, s) => Nowhere(g, s)
      /\ \A q \in Holders : OnlyAt(h, s, q) =>
           IF q = "buffer" THEN OnlyAt(g, s, f) ELSE OnlyAt(g, s, q)
  BY Taken
<1>1. CASE standing = "live"
  <2>1. p \in Holders /\ OnlyAt(h, s, p)
    BY <1>1, Placement
  <2>2. p # f
    BY <2>1 DEF OnlyAt, Once
  <2>3. IF p = "buffer" THEN OnlyAt(g, s, f) ELSE OnlyAt(g, s, p)
    BY <1>0, <2>1
  <2> QED BY <1>1, <2>1, <2>2, <2>3, Names, PlacedAtHolder DEF Sound
<1>2. CASE standing # "live"
  <2>1. Nowhere(h, s) /\ p = standing
    BY <1>2, Placement
  <2>2. Nowhere(g, s)
    BY <1>0, <2>1
  <2>3. PlaceIn(g, s, standing) = standing
    BY <1>2, <2>2, PlacedAtStanding
  <2> QED BY <1>2, <2>1, <2>2, <2>3, Names DEF Sound
<1> QED BY <1>1, <1>2

LEMMA PutBackMoves ==
    ASSUME NEW h \in Batches, NEW s, NEW standing \in Standings, Sound(h, s, standing),
           NEW f \in Flushers,
           NEW g, g = GivenBack(h, f)
    PROVE  /\ Sound(g, s, standing)
           /\ PlaceIn(g, s, standing) = IF PlaceIn(h, s, standing) = f THEN "buffer"
                                        ELSE PlaceIn(h, s, standing)
<1> DEFINE p == PlaceIn(h, s, standing)
<1>0. /\ Nowhere(h, s) => Nowhere(g, s)
      /\ \A q \in Holders : OnlyAt(h, s, q) =>
           IF q = f THEN OnlyAt(g, s, "buffer") ELSE OnlyAt(g, s, q)
  BY PutBack
<1>1. CASE standing = "live"
  <2>1. p \in Holders /\ OnlyAt(h, s, p)
    BY <1>1, Placement
  <2>2. IF p = f THEN OnlyAt(g, s, "buffer") ELSE OnlyAt(g, s, p)
    BY <1>0, <2>1
  <2> QED BY <1>1, <2>1, <2>2, Names, PlacedAtHolder DEF Sound
<1>2. CASE standing # "live"
  <2>1. Nowhere(h, s) /\ p = standing
    BY <1>2, Placement
  <2>2. Nowhere(g, s)
    BY <1>0, <2>1
  <2>3. PlaceIn(g, s, standing) = standing
    BY <1>2, <2>2, PlacedAtStanding
  <2> QED BY <1>2, <2>1, <2>2, <2>3, Names DEF Sound
<1> QED BY <1>1, <1>2

\* The batches of F are over, and their spans end as e.
LEMMA EndMoves ==
    ASSUME NEW h \in Batches, NEW s, NEW standing \in Standings, Sound(h, s, standing),
           NEW F \in SUBSET Flushers, NEW e \in Fates \ {"live"},
           NEW g, g = Without(h, F),
           NEW after, after = IF \E f \in F : ~ Absent(h[f], s) THEN e ELSE standing
    PROVE  /\ Sound(g, s, after)
           /\ PlaceIn(g, s, after) = IF PlaceIn(h, s, standing) \in F THEN e
                                     ELSE PlaceIn(h, s, standing)
<1> DEFINE p == PlaceIn(h, s, standing)
<1>0. F \in SUBSET Holders
  BY Names
<1>1. CASE standing = "live"
  <2>1. p \in Holders /\ OnlyAt(h, s, p)
    BY <1>1, Placement
  <2>2. IF p \in F THEN Nowhere(g, s) ELSE OnlyAt(g, s, p)
    BY <1>0, <2>1, Emptied
  <2>3. CASE p \in F
    <3>1. ~ Absent(h[p], s)
      BY <2>1 DEF OnlyAt, Once, Absent
    <3>2. after = e
      BY <2>3, <3>1
    <3> QED BY <2>2, <2>3, <3>2, PlacedAtStanding DEF Sound
  <2>4. CASE p \notin F
    <3>1. \A f \in F : Absent(h[f], s)
      BY <1>0, <2>1, <2>4 DEF OnlyAt
    <3>2. after = "live"
      BY <1>1, <3>1
    <3> QED BY <2>1, <2>2, <2>4, <3>2, PlacedAtHolder DEF Sound
  <2> QED BY <2>3, <2>4
<1>2. CASE standing # "live"
  <2>1. Nowhere(h, s) /\ p = standing
    BY <1>2, Placement
  <2>2. Nowhere(g, s)
    BY <1>0, <2>1, Emptied
  <2>3. after = standing
    BY <1>0, <2>1 DEF Nowhere
  <2>4. p \notin F
    BY <1>0, <2>1, Names
  <2> QED BY <1>2, <2>1, <2>2, <2>3, <2>4, PlacedAtStanding DEF Sound
<1> QED BY <1>1, <1>2
-----------------------------------------------------------------------------
(* The steps, by what they do to the spans. *)

LEMMA HeldType == Typed => held \in Batches
BY DEF Typed, held, Batches, Holders

LEMMA StandingType ==
    ASSUME Typed, NEW s \in Spans PROVE Standing(s) \in Standings
BY DEF Typed, Standing, Standings

\* The flusher f takes the buffer.
LEMMA TakeStep ==
    ASSUME IInv, NEW f \in Flushers, post[f] = <<>>, Take(f), UNCHANGED <<recorded, fate>>,
           exit # "gone", exit' # "gone"
    PROVE  Typed' /\ Spread' /\ Promise!Take(f)
<1>1. held \in Batches /\ held[f] = <<>>
  BY HeldType, Names DEF IInv, held
<1>2. held' = HandedTo(held, f)
  <2>1. held' = [p \in Holders |-> IF p = "buffer" THEN buffer' ELSE post'[p]]
    BY DEF held
  <2>2. HandedTo(held, f) = [p \in Holders |-> IF p = f THEN held["buffer"]
                                 ELSE IF p = "buffer" THEN <<>> ELSE held[p]]
    BY <1>1, Names DEF HandedTo, Batches
  <2>3. held["buffer"] = buffer /\ \A p \in Flushers : held[p] = post[p]
    BY Names DEF held
  <2>4. /\ buffer' = <<>> /\ post'[f] = buffer
        /\ \A p \in Flushers \ {f} : post'[p] = post[p]
    BY DEF IInv, Typed, Take
  <2>5. \A p \in Holders : p = "buffer" \/ p \in Flushers
    BY DEF Holders
  <2>6. ASSUME NEW p \in Holders
        PROVE  (IF p = "buffer" THEN buffer' ELSE post'[p])
                 = IF p = f THEN held["buffer"] ELSE IF p = "buffer" THEN <<>> ELSE held[p]
    BY <2>3, <2>4, <2>5, Names
  <2> QED BY <2>1, <2>2, <2>6
<1>3. Typed'
  BY DEF IInv, Typed, Take
<1>4. ASSUME NEW s \in Spans
      PROVE  /\ Sound(held, s, Standing(s))'
             /\ Where(s) # f
             /\ Where(s)' = IF Where(s) = "buffer" THEN f ELSE Where(s)
  <2>1. Standing(s)' = Standing(s)
    BY DEF Standing
  <2>2. Standing(s) \in Standings /\ Sound(held, s, Standing(s))
    BY StandingType DEF IInv, Spread
  <2>3. /\ Sound(held', s, Standing(s))
        /\ PlaceIn(held, s, Standing(s)) # f
        /\ PlaceIn(held', s, Standing(s)) =
             IF PlaceIn(held, s, Standing(s)) = "buffer" THEN f
             ELSE PlaceIn(held, s, Standing(s))
    BY <1>1, <1>2, <2>2, TakeMoves
  <2> QED BY <2>1, <2>3 DEF Where
<1>5. Spread'
  BY <1>4 DEF IInv, Spread
<1>6. Promise!Take(f)
  BY <1>4 DEF Promise!Take, Promise!At, Promise!Moved, Where
<1> QED BY <1>3, <1>5, <1>6

\* The flusher f puts its batch back.
LEMMA PutBackStep ==
    ASSUME IInv, NEW f \in AsyncFlushers, UNCHANGED <<recorded, fate>>,
           buffer' = post[f] \o buffer, post' = [post EXCEPT ![f] = <<>>],
           exit # "gone", exit' # "gone"
    PROVE  Typed' /\ Spread' /\ Promise!PutBack(f)
<1>0. f \in Flushers
  BY DEF Flushers
<1>1. held \in Batches
  BY HeldType DEF IInv
<1>2. held' = GivenBack(held, f)
  <2>1. held' = [p \in Holders |-> IF p = "buffer" THEN buffer' ELSE post'[p]]
    BY DEF held
  <2>2. GivenBack(held, f) = [p \in Holders |-> IF p = f THEN <<>>
                                 ELSE IF p = "buffer" THEN held[f] \o held["buffer"]
                                 ELSE held[p]]
    BY <1>0, <1>1, Names DEF GivenBack, Batches
  <2>3. held["buffer"] = buffer /\ \A p \in Flushers : held[p] = post[p]
    BY Names DEF held
  <2>4. post'[f] = <<>> /\ \A p \in Flushers \ {f} : post'[p] = post[p]
    BY <1>0 DEF IInv, Typed
  <2>5. \A p \in Holders : p = "buffer" \/ p \in Flushers
    BY DEF Holders
  <2>6. ASSUME NEW p \in Holders
        PROVE  (IF p = "buffer" THEN buffer' ELSE post'[p])
                 = IF p = f THEN <<>> ELSE IF p = "buffer" THEN held[f] \o held["buffer"]
                   ELSE held[p]
    BY <1>0, <2>3, <2>4, <2>5, Names
  <2> QED BY <2>1, <2>2, <2>6
<1>3. Typed'
  BY <1>0 DEF IInv, Typed
<1>4. ASSUME NEW s \in Spans
      PROVE  /\ Sound(held, s, Standing(s))'
             /\ Where(s)' = IF Where(s) = f THEN "buffer" ELSE Where(s)
  <2>1. Standing(s)' = Standing(s)
    BY DEF Standing
  <2>2. Standing(s) \in Standings /\ Sound(held, s, Standing(s))
    BY StandingType DEF IInv, Spread
  <2>3. /\ Sound(held', s, Standing(s))
        /\ PlaceIn(held', s, Standing(s)) =
             IF PlaceIn(held, s, Standing(s)) = f THEN "buffer"
             ELSE PlaceIn(held, s, Standing(s))
    BY <1>0, <1>1, <1>2, <2>2, PutBackMoves
  <2> QED BY <2>1, <2>3 DEF Where
<1>5. Spread'
  BY <1>4 DEF IInv, Spread
<1>6. Promise!PutBack(f)
  BY <1>4 DEF Promise!PutBack, Promise!At, Promise!Moved, Where
<1> QED BY <1>3, <1>5, <1>6

\* The batches of F are over, and their spans end as e.
LEMMA EndStep ==
    ASSUME IInv, NEW F \in SUBSET Flushers, NEW e \in Fates \ {"live"},
           UNCHANGED <<buffer, recorded>>,
           post' = [f \in Flushers |-> IF f \in F THEN <<>> ELSE post[f]],
           fate' = Settle(UNION {ToSet(post[f]) : f \in F}, e)
    PROVE  /\ Typed' /\ Spread'
           /\ \A s \in Spans : Where(s)' = IF Where(s) \in F THEN e ELSE Where(s)
<1>1. held \in Batches
  BY HeldType DEF IInv
<1>2. held' = Without(held, F)
  <2>1. ASSUME NEW p \in Holders
        PROVE  (IF p = "buffer" THEN buffer' ELSE post'[p])
                 = IF p \in F THEN <<>> ELSE held[p]
    BY Names DEF held, Holders
  <2> QED BY <2>1 DEF held, Without
<1>3. Typed'
  BY DEF IInv, Typed, Settle
<1>4. \A f \in F : held[f] = post[f]
  BY Names DEF held
<1>5. ASSUME NEW s \in Spans
      PROVE  /\ Sound(held, s, Standing(s))'
             /\ Where(s)' = IF Where(s) \in F THEN e ELSE Where(s)
             /\ s > recorded' => fate'[s] = "live"
  <2>1. Standing(s) \in Standings /\ Sound(held, s, Standing(s))
    BY StandingType DEF IInv, Spread
  <2>2. (\E f \in F : ~ Absent(held[f], s)) <=> s \in UNION {ToSet(post[f]) : f \in F}
    BY <1>4 DEF Absent, ToSet
  <2>3. s > recorded => s \notin UNION {ToSet(post[f]) : f \in F}
    <3>1. s > recorded => \A f \in F : Absent(held[f], s)
      BY <2>1, Names DEF Standing, Sound, Nowhere
    <3> QED BY <2>2, <3>1
  <2>4. Standing(s)' = IF \E f \in F : ~ Absent(held[f], s) THEN e ELSE Standing(s)
    BY <2>2, <2>3 DEF Standing, Settle
  <2>5. /\ Sound(held', s, Standing(s)')
        /\ PlaceIn(held', s, Standing(s)') =
             IF PlaceIn(held, s, Standing(s)) \in F THEN e
             ELSE PlaceIn(held, s, Standing(s))
    BY <1>1, <1>2, <2>1, <2>4, EndMoves
  <2> QED BY <2>3, <2>5 DEF Where, Settle, IInv, Spread
<1> QED BY <1>3, <1>5 DEF Spread

\* A span is recorded.
LEMMA RecordStep ==
    ASSUME IInv, NEW inLoop \in BOOLEAN, Record(inLoop)
    PROVE  Typed' /\ Spread' /\ (\E x \in Spans : Promise!Record(x))
<1>0. PICK x \in Spans : x = recorded + 1
  BY DeliveryAssumption DEF Record, IInv, Typed, Spans
<1> DEFINE longer == Append(buffer, x)
           lost == ToSet(Dropped(longer))
<1>1. /\ x = recorded + 1 /\ recorded' = x /\ recorded \in Nat
      /\ buffer' = Trimmed(longer) /\ post' = post
      /\ fate' = Settle(lost, "overflow")
      /\ exit = "running" /\ exit' = exit
  BY <1>0 DEF Record, IInv, Typed
<1>2. buffer \in Seq(Spans) /\ held["buffer"] = buffer /\ held'["buffer"] = Trimmed(longer)
  BY <1>1, Names DEF held, IInv, Typed
<1>3. \A p \in Holders \ {"buffer"} : held'[p] = held[p]
  BY <1>1 DEF held
<1>4. ASSUME NEW s \in Spans
      PROVE  /\ s # x /\ Absent(buffer, s) =>
                  Absent(Trimmed(longer), s) /\ s \notin lost
             /\ s # x /\ Once(buffer, s) =>
                  IF s \in lost THEN Absent(Trimmed(longer), s) ELSE Once(Trimmed(longer), s)
             /\ s = x /\ Absent(buffer, s) => Once(Trimmed(longer), s) /\ s \notin lost
             /\ Trimmed(longer) \in Seq(Spans)
  BY <1>1, <1>2, Recorded
<1> HIDE DEF longer, lost
<1>5. Typed'
  BY <1>1, <1>4 DEF IInv, Typed, Settle, Fates, Spans
<1>6. Standing(x) = "unrecorded" /\ Nowhere(held, x) /\ fate[x] = "live"
  BY <1>1 DEF IInv, Spread, Standing, Sound, Spans, Typed
<1>7. OnlyAt(held', x, "buffer") /\ x \notin lost /\ Standing(x)' = "live"
  <2>1. Absent(buffer, x)
    BY <1>2, <1>6, Names DEF Nowhere
  <2>2. Once(held'["buffer"], x) /\ x \notin lost
    BY <1>2, <1>4, <2>1
  <2>3. OnlyAt(held', x, "buffer")
    BY <1>3, <1>6, <2>2 DEF OnlyAt, Nowhere
  <2>4. Standing(x)' = fate[x]
    BY <1>1, <2>2 DEF Standing, Settle
  <2> QED BY <1>6, <2>2, <2>3, <2>4
<1>8. ASSUME NEW s \in Spans, s # x
      PROVE  /\ Sound(held', s, Standing(s)')
             /\ Where(s)' = IF s \in lost THEN "overflow" ELSE Where(s)
             /\ s \in lost => Where(s) = "buffer"
             /\ s > x => s \notin lost
  <2>1. /\ s > recorded <=> s > recorded'
        /\ Standing(s)' = IF s \in lost /\ s <= recorded THEN "overflow" ELSE Standing(s)
    BY <1>1, <1>8 DEF Standing, Settle, IInv, Typed, Spans
  <2>2. Standing(s) \in Standings /\ Sound(held, s, Standing(s))
    BY StandingType DEF IInv, Spread
  <2>3. CASE Standing(s) # "live"
    <3>1. Nowhere(held, s) /\ Where(s) = Standing(s)
      BY <2>2, <2>3, Placement DEF Where
    <3>2. s \notin lost /\ Absent(held'["buffer"], s)
      BY <1>2, <1>4, <1>8, <3>1, Names DEF Nowhere
    <3>3. Nowhere(held', s)
      BY <1>3, <3>1, <3>2 DEF Nowhere
    <3>4. PlaceIn(held', s, Standing(s)') = Standing(s)
      BY <2>1, <2>3, <3>2, <3>3, PlacedAtStanding
    <3> QED BY <2>1, <2>3, <3>1, <3>2, <3>3, <3>4 DEF Where, Sound
  <2>4. CASE Standing(s) = "live" /\ Where(s) = "buffer"
    <3>1. OnlyAt(held, s, "buffer") /\ s <= recorded
      BY <2>2, <2>4, Placement DEF Where, Standing, IInv, Typed, Spans
    <3>2. IF s \in lost THEN Absent(held'["buffer"], s) ELSE Once(held'["buffer"], s)
      BY <1>2, <1>4, <1>8, <3>1 DEF OnlyAt
    <3>3. CASE s \in lost
      <4>1. Nowhere(held', s)
        BY <1>3, <3>1, <3>2, <3>3 DEF OnlyAt, Nowhere
      <4>2. Standing(s)' = "overflow" /\ PlaceIn(held', s, "overflow") = "overflow"
        BY <2>1, <3>1, <3>3, <4>1, PlacedAtStanding
      <4> QED BY <1>1, <2>4, <3>1, <3>3, <4>1, <4>2 DEF Where, Sound, IInv, Typed, Spans
    <3>4. CASE s \notin lost
      <4>1. OnlyAt(held', s, "buffer")
        BY <1>3, <3>1, <3>2, <3>4 DEF OnlyAt
      <4>2. Standing(s)' = "live" /\ PlaceIn(held', s, "live") = "buffer"
        BY <2>1, <2>4, <3>4, <4>1, Names, PlacedAtHolder
      <4> QED BY <2>4, <3>4, <4>1, <4>2, Names DEF Where, Sound
    <3> QED BY <3>3, <3>4
  <2>5. CASE Standing(s) = "live" /\ Where(s) # "buffer"
    <3>1. Where(s) \in Holders /\ OnlyAt(held, s, Where(s))
      BY <2>2, <2>5, Placement DEF Where
    <3>2. s \notin lost /\ Absent(held'["buffer"], s)
      BY <1>2, <1>4, <1>8, <2>5, <3>1, Names DEF OnlyAt
    <3>3. OnlyAt(held', s, Where(s))
      BY <1>3, <2>5, <3>1, <3>2 DEF OnlyAt
    <3>4. Standing(s)' = "live" /\ PlaceIn(held', s, "live") = Where(s)
      BY <2>1, <2>5, <3>1, <3>2, <3>3, PlacedAtHolder
    <3> QED BY <3>1, <3>2, <3>3, <3>4 DEF Where, Sound
  <2> QED BY <2>2, <2>3, <2>4, <2>5
<1>9. Where(x) = "unrecorded" /\ Where(x)' = "buffer" /\ Sound(held', x, Standing(x)')
  BY <1>6, <1>7, Names, PlacedAtHolder, PlacedAtStanding DEF Where, Sound
<1>10. Spread'
  <2>1. \A s \in Spans : Sound(held', s, Standing(s)')
    BY <1>8, <1>9
  <2>2. ASSUME NEW s \in Spans, s > recorded' PROVE fate'[s] = "live"
    <3>1. s # x /\ s > recorded /\ s \notin lost
      BY <1>1, <1>8, <2>2 DEF Spans, IInv, Typed
    <3> QED BY <1>1, <3>1 DEF Settle, IInv, Spread
  <2> QED BY <2>1, <2>2 DEF Spread
<1>11. Promise!Record(x)
  <2>1. \A s \in Spans : Where(s)' = IF s \in lost THEN "overflow"
                                     ELSE IF s = x THEN "buffer" ELSE Where(s)
    BY <1>7, <1>8, <1>9
  <2>2. lost \in SUBSET Spans
    <3>1. longer \in Seq(Spans)
      BY <1>1, <1>2 DEF longer
    <3>2. Dropped(longer) \in Seq(Spans)
      BY <3>1, DeliveryAssumption DEF Dropped, Surplus
    <3> QED BY <3>2 DEF lost, ToSet
  <2>3. lost \in SUBSET ({s \in Spans : Where(s) \in {"buffer"}} \cup {x})
    BY <1>8, <2>2
  <2> QED BY <1>1, <1>9, <2>1, <2>3 DEF Promise!Record, Promise!At, Where
<1> QED BY <1>5, <1>10, <1>11

\* The batch of f is answered, and its spans end as e.
LEMMA AnswerStep ==
    ASSUME IInv, NEW f \in Flushers, NEW e \in Fates \ {"live"},
           UNCHANGED <<buffer, recorded>>,
           post' = [post EXCEPT ![f] = <<>>],
           fate' = Settle(ToSet(post[f]), e)
    PROVE  /\ Typed' /\ Spread'
           /\ \A s \in Spans : Where(s)' = IF Where(s) \in {f} THEN e ELSE Where(s)
<1>1. post' = [g \in Flushers |-> IF g \in {f} THEN <<>> ELSE post[g]]
  BY DEF IInv, Typed
<1>2. UNION {ToSet(post[g]) : g \in {f}} = ToSet(post[f])
  OBVIOUS
<1>3. fate' = Settle(UNION {ToSet(post[g]) : g \in {f}}, e)
  BY <1>2
<1> QED BY <1>1, <1>3, EndStep

\* No span moves.
LEMMA StillStep ==
    ASSUME IInv, UNCHANGED <<buffer, recorded, fate, post, exit>>
    PROVE  Typed' /\ Spread' /\ UNCHANGED Promise!promised
<1>1. held' = held
  BY DEF held
<1>2. \A s \in Spans : Standing(s)' = Standing(s)
  BY DEF Standing
<1>3. Typed'
  BY DEF IInv, Typed
<1>4. Spread'
  BY <1>1, <1>2 DEF IInv, Spread
<1>5. UNCHANGED Promise!promised
  BY <1>1, <1>2 DEF Promise!promised
<1> QED BY <1>3, <1>4, <1>5
-----------------------------------------------------------------------------
(* The theorem. *)

LEMMA InitPromise == Init => IInv /\ Promise!Init
<1> SUFFICES ASSUME Init PROVE IInv /\ Promise!Init
  OBVIOUS
<1>1. Typed /\ TypedControl /\ Control
  <2>1. <<>> \in Seq(Spans) /\ 0 \in 0..MaxSpans
    BY DeliveryAssumption
  <2>2. Typed
    BY <2>1 DEF Init, Typed, Fates
  <2>3. TypedControl
    BY <2>1 DEF Init, TypedControl, TaskStates
  <2>4. Control
    BY DEF Init, Control, Flushers, AsyncFlushers, SyncFlushers
  <2> QED BY <2>2, <2>3, <2>4
<1>2. ASSUME NEW s \in Spans
      PROVE  Nowhere(held, s) /\ Standing(s) = "unrecorded" /\ Where(s) = "unrecorded"
  <2>1. \A p \in Holders : held[p] = <<>>
    BY DEF Init, held, Holders
  <2>2. Nowhere(held, s)
    BY <2>1 DEF Nowhere, Absent
  <2>3. Standing(s) = "unrecorded"
    BY DeliveryAssumption DEF Init, Standing, Spans
  <2> QED BY <2>2, <2>3, PlacedAtStanding DEF Where
<1>3. Spread
  BY <1>2 DEF Spread, Sound, Init
<1>4. Promise!Init
  BY <1>2 DEF Promise!Init, Where, Init
<1> QED BY <1>1, <1>3, <1>4 DEF IInv

\* What remains of the invariant, for the actions that record or take.
LEMMA RecordControl ==
    ASSUME IInv, NEW inLoop \in BOOLEAN, Record(inLoop)
    PROVE  TypedControl' /\ Control'
BY DEF IInv, TypedControl, Control, Record, TaskStates

LEMMA TaskControl ==
    ASSUME IInv, TaskFlush \/ FinalFlush \/ IntegrationFlush
    PROVE  TypedControl' /\ Control'
<1> USE DEF IInv, Typed, TypedControl, Control, Take, Flushers, AsyncFlushers, SyncFlushers, TaskStates
<1>1. CASE TaskFlush
  BY <1>1 DEF TaskFlush
<1>2. CASE FinalFlush
  BY <1>2 DEF FinalFlush
<1>3. CASE IntegrationFlush
  BY <1>3 DEF IntegrationFlush
<1> QED BY <1>1, <1>2, <1>3

LEMMA CloseControl ==
    ASSUME IInv, CloseCancels \/ CloseRaises \/ CloseFlush
    PROVE  TypedControl' /\ Control'
<1>0. CloseBegins => mark' \in 0..MaxSpans
  BY DeliveryAssumption DEF CloseBegins, IInv, Typed
<1>1. CASE CloseCancels
  <2>1. post' = [f \in Flushers |-> IF f = "task" THEN <<>> ELSE post[f]]
    BY <1>1 DEF CloseCancels, Idle
  <2>2. TypedControl'
    BY <1>0, <1>1 DEF CloseCancels, CloseBegins, IInv, TypedControl, TaskStates
  <2>3. Control'
    BY <1>1, <2>1 DEF CloseCancels, CloseBegins, IInv, Typed, TypedControl, Control,
       Flushers, AsyncFlushers, SyncFlushers
  <2> QED BY <2>2, <2>3
<1>2. CASE CloseRaises
  BY <1>2 DEF CloseRaises, IInv, TypedControl, Control
<1>3. CASE CloseFlush
  <2>1. TypedControl'
    BY <1>0, <1>3 DEF CloseFlush, CloseBegins, IInv, TypedControl
  <2>2. Control'
    <3>1. post' = [post EXCEPT !["close"] = buffer] /\ buffer' = <<>>
      BY <1>3 DEF CloseFlush, Take
    <3>2. /\ post'["close"] = buffer
          /\ \A g \in Flushers \ {"close"} : post'[g] = post[g]
      BY <3>1 DEF IInv, Typed, Flushers, AsyncFlushers
    <3>3. exit = "running"
      BY <1>3 DEF CloseFlush, CloseBegins, IInv, TypedControl, Control
    <3> QED BY <1>3, <3>1, <3>2, <3>3 DEF CloseFlush, CloseBegins, IInv, Control,
            Flushers, AsyncFlushers, SyncFlushers
  <2> QED BY <2>1, <2>2
<1> QED BY <1>1, <1>2, <1>3

LEMMA AnswerControl ==
    ASSUME IInv, NEW f \in AsyncFlushers, AsyncOk(f) \/ AsyncFail(f)
    PROVE  TypedControl' /\ Control'
<1>1. AsyncDone(f)
  BY DEF AsyncOk, AsyncFail
<1>2. TypedControl'
  BY <1>1 DEF AsyncDone, IInv, TypedControl, TaskStates
<1>3. exit = "running" /\ exit' = exit
  BY <1>1 DEF AsyncDone, IInv, TypedControl, Control
<1>4. f \in Flushers /\ f # "thread" /\ f # "exit"
  BY DEF Flushers, AsyncFlushers, SyncFlushers
<1>5. post' = [post EXCEPT ![f] = <<>>] /\ post'["thread"] = post["thread"]
      /\ post'["exit"] = post["exit"]
  BY <1>1, <1>4 DEF AsyncDone, IInv, Typed, Flushers, SyncFlushers
<1>6. \A g \in {"task", "close"} : post[g] = <<>> => post'[g] = <<>>
  BY <1>1 DEF AsyncDone, IInv, Typed, Flushers, AsyncFlushers
<1>7. post'[f] = <<>>
  BY <1>4, <1>5 DEF IInv, Typed
<1>8. closer' \in {"idle", "cancelling"} => post'["close"] = <<>>
  BY <1>1, <1>6 DEF AsyncDone, IInv, Control
<1>9. task' = "cancelled" => post'["task"] = <<>>
  BY <1>1, <1>6 DEF AsyncDone, IInv, Control
<1> QED BY <1>1, <1>2, <1>3, <1>5, <1>8, <1>9 DEF AsyncDone, IInv, Control

LEMMA ThreadControl ==
    ASSUME IInv, ThreadWake \/ ThreadFlush \/ ThreadDone
    PROVE  TypedControl' /\ Control'
<1> USE DEF IInv, Typed, TypedControl, Control, Take, Flushers, AsyncFlushers, SyncFlushers,
            TaskStates, AfterThread, SyncDone
<1>1. CASE ThreadWake
  BY <1>1 DEF ThreadWake
<1>2. CASE ThreadFlush
  BY <1>2 DEF ThreadFlush
<1>3. CASE ThreadDone
  BY <1>3 DEF ThreadDone
<1> QED BY <1>1, <1>2, <1>3

LEMMA ExitControl ==
    ASSUME IInv, Exit \/ ExitDone \/ Gone
    PROVE  TypedControl' /\ Control'
<1> USE DEF IInv, Typed, TypedControl, Control, Take, Flushers, AsyncFlushers, SyncFlushers,
            TaskStates, SyncDone, Idle
<1>1. CASE Exit
  BY <1>1 DEF Exit
<1>2. CASE ExitDone
  BY <1>2 DEF ExitDone
<1>3. CASE Gone
  BY <1>3 DEF Gone
<1> QED BY <1>1, <1>2, <1>3

LEMMA LoopControl ==
    ASSUME IInv, LoopStarts \/ LoopEnds \/ LoopEnded \/ LoopStops \/ Recovery
    PROVE  TypedControl' /\ Control'
<1> USE DEF IInv, Typed, TypedControl, Control, Flushers, AsyncFlushers, SyncFlushers,
            TaskStates, Idle
<1>1. CASE LoopStarts
  BY <1>1 DEF LoopStarts
<1>2. CASE LoopEnds
  BY <1>2 DEF LoopEnds
<1>3. CASE LoopEnded
  BY <1>3 DEF LoopEnded
<1>4. CASE LoopStops
  BY <1>4 DEF LoopStops
<1>5. CASE Recovery
  BY <1>5 DEF Recovery
<1> QED BY <1>1, <1>2, <1>3, <1>4, <1>5
-----------------------------------------------------------------------------
\* Every step keeps the invariant, and is a step of the promise or none.
LEMMA StepKeeps ==
    ASSUME IInv, Next
    PROVE  IInv' /\ [Promise!Next]_(Promise!promised)
<1> USE DEF Promise!Next
<1>0. Promise!Flushers = Flushers
  BY DEF Promise!Flushers, Flushers
<1>1. ASSUME NEW inLoop \in BOOLEAN, Record(inLoop)
      PROVE  IInv' /\ Promise!Next
  BY <1>1, RecordStep, RecordControl DEF IInv
<1>2. CASE TaskFlush \/ FinalFlush \/ IntegrationFlush
  <2>1. exit = "running" /\ exit' = exit
    BY <1>2 DEF TaskFlush, FinalFlush, IntegrationFlush, IInv, Control, TypedControl
  <2>2. PICK f \in {"task", "integration"} :
          Take(f) /\ post[f] = <<>> /\ UNCHANGED <<recorded, fate>>
    BY <1>2 DEF TaskFlush, FinalFlush, IntegrationFlush, IInv, Control
  <2>3. f \in Flushers
    BY DEF Flushers, AsyncFlushers
  <2>4. Typed' /\ Spread' /\ Promise!Take(f)
    BY <2>1, <2>2, <2>3, TakeStep
  <2> QED BY <1>0, <1>2, <2>3, <2>4, TaskControl DEF IInv
<1>3. CASE CloseFlush
  <2>1. /\ exit = "running" /\ exit' = exit
        /\ Take("close") /\ post["close"] = <<>> /\ UNCHANGED <<recorded, fate>>
    BY <1>3 DEF CloseFlush, CloseBegins, IInv, Control, TypedControl
  <2>2. "close" \in Flushers
    BY DEF Flushers, AsyncFlushers
  <2>3. Typed' /\ Spread' /\ Promise!Take("close")
    BY <2>1, <2>2, TakeStep
  <2> QED BY <1>0, <1>3, <2>2, <2>3, CloseControl DEF IInv
<1>4. CASE CloseRaises
  <2>1. UNCHANGED <<buffer, recorded, fate, post, exit>>
    BY <1>4 DEF CloseRaises
  <2> QED BY <1>4, <2>1, StillStep, CloseControl DEF IInv
<1>5. CASE CloseCancels
  <2>1. {"task"} \in SUBSET AsyncFlushers /\ {"task"} \in SUBSET Flushers
    BY DEF Flushers, AsyncFlushers
  <2>2. /\ UNCHANGED <<buffer, recorded>>
        /\ post' = [f \in Flushers |-> IF f \in {"task"} THEN <<>> ELSE post[f]]
        /\ fate' = Settle(UNION {ToSet(post[f]) : f \in {"task"}}, "cancelled")
    BY <1>5 DEF CloseCancels, Cut, Idle
  <2>3. /\ Typed' /\ Spread'
        /\ \A s \in Spans : Where(s)' = IF Where(s) \in {"task"} THEN "cancelled" ELSE Where(s)
    BY <2>1, <2>2, EndStep DEF Fates
  <2>4. exit # "gone" /\ exit' = exit
    BY <1>5 DEF CloseCancels, CloseBegins, IInv, Control
  <2>5. Promise!CutOff({"task"})
    BY <2>3, <2>4 DEF Promise!CutOff, Promise!At, Promise!Moved, Where
  <2> QED BY <1>5, <2>1, <2>3, <2>5, CloseControl DEF IInv
<1>6. ASSUME NEW f \in AsyncFlushers, AsyncOk(f)
      PROVE  IInv' /\ Promise!Next
  <2>1. f \in Flushers
    BY DEF Flushers
  <2>2. /\ UNCHANGED <<buffer, recorded>>
        /\ post' = [post EXCEPT ![f] = <<>>]
        /\ fate' = Settle(ToSet(post[f]), "acked")
    BY <1>6 DEF AsyncOk, AsyncDone
  <2>3. /\ Typed' /\ Spread'
        /\ \A s \in Spans : Where(s)' = IF Where(s) \in {f} THEN "acked" ELSE Where(s)
    BY <2>1, <2>2, AnswerStep DEF Fates
  <2>4. exit # "gone" /\ exit' = exit
    BY <1>6 DEF AsyncOk, AsyncDone, IInv, Control
  <2>5. Promise!Deliver(f)
    BY <2>3, <2>4 DEF Promise!Deliver, Promise!At, Promise!Moved, Where
  <2> QED BY <1>0, <1>6, <2>1, <2>3, <2>5, AnswerControl DEF IInv
<1>7. ASSUME NEW f \in AsyncFlushers, AsyncFail(f)
      PROVE  IInv' /\ Promise!Next
  <2>1. f \in Flushers
    BY DEF Flushers
  <2>2. /\ UNCHANGED <<recorded, fate>>
        /\ buffer' = post[f] \o buffer /\ post' = [post EXCEPT ![f] = <<>>]
        /\ exit # "gone" /\ exit' # "gone"
    BY <1>7 DEF AsyncFail, AsyncDone, IInv, Control
  <2>3. Typed' /\ Spread' /\ Promise!PutBack(f)
    BY <2>2, PutBackStep
  <2> QED BY <1>0, <1>7, <2>1, <2>3, AnswerControl DEF IInv
<1>8. CASE ThreadFlush
  <2>1. "thread" \in Flushers
    BY DEF Flushers, SyncFlushers
  <2>2. /\ Take("thread") /\ post["thread"] = <<>> /\ UNCHANGED <<recorded, fate>>
        /\ exit # "gone" /\ exit' = exit
    BY <1>8 DEF ThreadFlush, IInv, Control
  <2>3. Typed' /\ Spread' /\ Promise!Take("thread")
    BY <2>1, <2>2, TakeStep
  <2> QED BY <1>0, <1>8, <2>1, <2>3, ThreadControl DEF IInv
<1>9. ASSUME NEW f \in SyncFlushers, SyncDone(f), UNCHANGED exit
      PROVE  Typed' /\ Spread' /\ Promise!Next
  <2>1. f \in Flushers
    BY DEF Flushers
  <2>2. PICK e \in {"acked", "failed"} : fate' = Settle(ToSet(post[f]), e)
    BY <1>9 DEF SyncDone
  <2>3. UNCHANGED <<buffer, recorded>> /\ post' = [post EXCEPT ![f] = <<>>]
    BY <1>9 DEF SyncDone
  <2>4. /\ Typed' /\ Spread'
        /\ \A s \in Spans : Where(s)' = IF Where(s) \in {f} THEN e ELSE Where(s)
    BY <2>1, <2>2, <2>3, AnswerStep DEF Fates
  <2>5. exit # "gone" /\ exit' = exit
    BY <1>9, <2>1 DEF SyncDone, IInv, Control
  <2>6. Promise!Deliver(f) \/ Promise!Forget(f)
    BY <2>4, <2>5 DEF Promise!Deliver, Promise!Forget, Promise!At, Promise!Moved, Where
  <2> QED BY <1>0, <2>1, <2>4, <2>6
<1>10. CASE ThreadDone
  BY <1>9, <1>10, ThreadControl DEF ThreadDone, SyncFlushers, IInv
<1>11. CASE ThreadWake
  <2>1. UNCHANGED <<buffer, recorded, fate, post, exit>>
    BY <1>11 DEF ThreadWake
  <2> QED BY <1>11, <2>1, StillStep, ThreadControl DEF IInv
<1>12. CASE Exit
  <2>1. "exit" \in Flushers
    BY DEF Flushers, SyncFlushers
  <2>2. /\ Take("exit") /\ post["exit"] = <<>> /\ UNCHANGED <<recorded, fate>>
        /\ exit # "gone" /\ exit' # "gone"
    BY <1>12 DEF Exit, IInv, Control
  <2>3. Typed' /\ Spread' /\ Promise!Take("exit")
    BY <2>1, <2>2, TakeStep
  <2> QED BY <1>0, <1>12, <2>1, <2>3, ExitControl DEF IInv
<1>13. CASE ExitDone
  BY <1>9, <1>13, ExitControl DEF ExitDone, SyncFlushers, IInv
<1>14. CASE Gone
  <2>1. /\ UNCHANGED <<buffer, recorded>>
        /\ post' = [f \in Flushers |-> IF f \in Flushers THEN <<>> ELSE post[f]]
        /\ fate' = Settle(UNION {ToSet(post[f]) : f \in Flushers}, "cancelled")
    BY <1>14 DEF Gone, Cut, Idle
  <2>2. /\ Typed' /\ Spread'
        /\ \A s \in Spans : Where(s)' = IF Where(s) \in Flushers THEN "cancelled" ELSE Where(s)
    BY <2>1, EndStep DEF Fates
  <2>3. exit = "flushing" /\ exit' = "gone" /\ buffer = <<>>
    BY <1>14 DEF Gone, IInv, Control
  <2>4. ASSUME NEW s \in Spans PROVE Where(s) # "buffer"
    <3>1. ~ OnlyAt(held, s, "buffer")
      BY <2>3 DEF OnlyAt, Once, held, Holders
    <3> QED BY <3>1, StandingType, Placement DEF IInv, Spread, Where, Standings, Fates
  <2>5. Promise!End
    BY <1>0, <2>2, <2>3, <2>4 DEF Promise!End, Promise!At, Promise!Moved, Where
  <2> QED BY <1>14, <2>2, <2>5, ExitControl DEF IInv
<1>15. CASE LoopEnds
  <2> DEFINE cut == {f \in {"task", "integration"} : f = "task" => task # "parked"}
  <2>1. cut \in SUBSET AsyncFlushers /\ cut \in SUBSET Flushers
    BY DEF Flushers, AsyncFlushers
  <2>2. /\ UNCHANGED <<buffer, recorded>>
        /\ post' = [f \in Flushers |-> IF f \in cut THEN <<>> ELSE post[f]]
        /\ fate' = Settle(UNION {ToSet(post[f]) : f \in cut}, "cancelled")
    BY <1>15 DEF LoopEnds, Cut, Idle
  <2>3. exit # "gone" /\ exit' = exit
    BY <1>15 DEF LoopEnds, IInv, Control
  <2> HIDE DEF cut
  <2>4. /\ Typed' /\ Spread'
        /\ \A s \in Spans : Where(s)' = IF Where(s) \in cut THEN "cancelled" ELSE Where(s)
    BY <2>1, <2>2, EndStep DEF Fates
  <2>5. Promise!CutOff(cut)
    BY <2>3, <2>4 DEF Promise!CutOff, Promise!At, Promise!Moved, Where
  <2> QED BY <1>15, <2>1, <2>4, <2>5, LoopControl DEF IInv
<1>16. CASE LoopStarts \/ LoopEnded \/ LoopStops \/ Recovery
  <2>1. UNCHANGED <<buffer, recorded, fate, post, exit>>
    BY <1>16 DEF LoopStarts, LoopEnded, LoopStops, Recovery
  <2> QED BY <1>16, <2>1, StillStep, LoopControl DEF IInv
<1> QED
  BY <1>1, <1>2, <1>3, <1>4, <1>5, <1>6, <1>7, <1>8, <1>10, <1>11, <1>12, <1>13, <1>14,
     <1>15, <1>16 DEF Next

LEMMA StutterKeeps ==
    ASSUME IInv, UNCHANGED vars
    PROVE  IInv' /\ UNCHANGED Promise!promised
<1>1. UNCHANGED <<buffer, recorded, fate, post, exit>>
  BY DEF vars
<1>2. TypedControl' /\ Control'
  BY DEF vars, IInv, TypedControl, Control
<1> QED BY <1>1, <1>2, StillStep DEF IInv

\* Whatever the flushers, the trims and the event loops of client.py do at once, and
\* however many spans there are, the client implements the promise: every span is in one
\* place, once, and is delivered, trimmed or lost with a POST, but never forgotten.
THEOREM Refines == Spec => KeepsPromise
<1>1. Init => IInv /\ Promise!Init
  BY InitPromise
<1>2. IInv /\ [Next]_vars => IInv' /\ [Promise!Next]_(Promise!promised)
  BY StepKeeps, StutterKeeps
<1> QED BY <1>1, <1>2, PTL DEF Spec, KeepsPromise, Promise!Spec

\* The variables of the client keep their types, in every number of spans and any size of
\* the buffer.
THEOREM DeliveryTypes == Spec => []TypeOK
<1>1. Init => IInv
  BY InitPromise
<1>2. IInv /\ [Next]_vars => IInv'
  BY StepKeeps, StutterKeeps
<1>3. IInv => TypeOK
  BY DEF IInv, Typed, TypedControl, TypeOK
<1> QED BY <1>1, <1>2, <1>3, PTL DEF Spec
-----------------------------------------------------------------------------
(* What close() leaves. *)

\* close() flushes only when the flush task holds nothing: it waited for the task's last
\* flush, or found none.  From then on what is recorded is younger than the mark, and a
\* batch goes back only while the outage lasts, in which case nothing is marked.
Closing ==
    /\ mark <= recorded
    /\ mark > 0 => ~ outage
    /\ closer = "idle" => mark = 0
    /\ task \in {"none", "cancelled"} => post["task"] = <<>>
    /\ closer = "cancelling" => task # "parked"
    /\ closer = "cancelling" /\ task = "looping" => post["task"] = <<>>

Emptying ==
    closer \in {"posting", "returned"} =>
        \A s \in 1..mark : Absent(buffer, s) /\ Absent(post["task"], s)

CInv == IInv /\ Closing /\ Emptying

LEMMA InitClosing == Init => Closing /\ Emptying
BY DEF Init, Closing, Emptying, Flushers, AsyncFlushers

\* The control of close() and of the flush task.
LEMMA StepClosing ==
    ASSUME CInv, Next
    PROVE  Closing'
<1> USE DEF CInv, IInv, Typed, TypedControl, Control, Closing, Take, Flushers, AsyncFlushers,
            SyncFlushers, TaskStates
<1>1. ASSUME NEW inLoop \in BOOLEAN, Record(inLoop) PROVE Closing'
  BY <1>1 DEF Record
<1>2. CASE TaskFlush
  BY <1>2 DEF TaskFlush
<1>3. CASE FinalFlush
  BY <1>3 DEF FinalFlush
<1>4. CASE IntegrationFlush
  BY <1>4 DEF IntegrationFlush
<1>5. CASE CloseCancels
  <2>1. post' = [f \in Flushers |-> IF f = "task" THEN <<>> ELSE post[f]]
    BY <1>5 DEF CloseCancels, Idle
  <2> QED BY <1>5, <2>1 DEF CloseCancels, CloseBegins
<1>6. CASE CloseRaises
  BY <1>6 DEF CloseRaises
<1>7. CASE CloseFlush
  BY <1>7 DEF CloseFlush, CloseBegins
<1>8. ASSUME NEW f \in AsyncFlushers, AsyncOk(f) \/ AsyncFail(f) PROVE Closing'
  <2>1. AsyncDone(f)
    BY <1>8 DEF AsyncOk, AsyncFail
  <2>2. post[f] # <<>> /\ post' = [post EXCEPT ![f] = <<>>]
    BY <2>1 DEF AsyncDone
  <2>3. (post["task"] = <<>> => post'["task"] = <<>>) /\ (f = "task" => post'["task"] = <<>>)
    BY <2>2
  <2> QED BY <2>1, <2>3 DEF AsyncDone
<1>9. CASE ThreadWake \/ ThreadFlush \/ ThreadDone
  BY <1>9 DEF ThreadWake, ThreadFlush, ThreadDone, SyncDone
<1>10. CASE Exit \/ ExitDone
  BY <1>10 DEF Exit, ExitDone, SyncDone
<1>11. CASE Gone
  <2>1. post'["task"] = <<>>
    BY <1>11 DEF Gone, Idle
  <2> QED BY <1>11, <2>1 DEF Gone
<1>12. CASE LoopStarts
  BY <1>12 DEF LoopStarts
<1>13. CASE LoopEnds
  <2>1. /\ post["task"] = <<>> => post'["task"] = <<>>
        /\ task # "parked" => post'["task"] = <<>>
    BY <1>13 DEF LoopEnds, Idle
  <2> QED BY <1>13, <2>1 DEF LoopEnds
<1>14. CASE LoopEnded
  BY <1>14 DEF LoopEnded
<1>15. CASE LoopStops
  BY <1>15 DEF LoopStops
<1>16. CASE Recovery
  BY <1>16 DEF Recovery
<1> QED
  BY <1>1, <1>2, <1>3, <1>4, <1>5, <1>6, <1>7, <1>8, <1>9, <1>10, <1>11, <1>12, <1>13, <1>14,
     <1>15, <1>16 DEF Next

\* No marked span comes back to the buffer or to the flush task.
LEMMA StepEmptying ==
    ASSUME CInv, Next
    PROVE  Emptying'
<1>0. /\ \A s : Absent(<<>>, s)
      /\ post \in [Flushers -> Seq(Spans)] /\ buffer \in Seq(Spans)
      /\ recorded \in Nat /\ mark \in Nat /\ mark <= recorded
      /\ "task" \in Flushers /\ "buffer" # "task"
  BY DeliveryAssumption DEF Absent, CInv, IInv, Typed, TypedControl, Closing, Flushers, AsyncFlushers
<1>1. ASSUME NEW inLoop \in BOOLEAN, Record(inLoop) PROVE Emptying'
  <2>1. /\ recorded + 1 \in Spans
        /\ buffer' = Trimmed(Append(buffer, recorded + 1))
        /\ UNCHANGED <<post, mark, closer>>
    BY <1>0, <1>1, DeliveryAssumption DEF Record, Spans
  <2>2. ASSUME NEW s \in 1..mark, Absent(buffer, s) PROVE Absent(buffer', s)
    <3>1. s # recorded + 1
      BY <1>0
    <3> QED BY <1>0, <2>1, <2>2, <3>1, Recorded
  <2> QED BY <2>1, <2>2 DEF CInv, Emptying
\* The spans of the buffer and of the task's batch were there before, or none is marked.
<1>2. ASSUME UNCHANGED mark,
             closer' \in {"posting", "returned"} => closer \in {"posting", "returned"} \/ mark = 0,
             \A s \in 1..mark : Absent(buffer, s) /\ Absent(post["task"], s) =>
                                 Absent(buffer', s) /\ Absent(post'["task"], s)
      PROVE  Emptying'
  BY <1>0, <1>2 DEF CInv, Emptying
<1>3. ASSUME NEW f \in Flushers, Take(f), UNCHANGED <<mark, closer>>
      PROVE  Emptying'
  <2>1. buffer' = <<>> /\ post'["task"] \in {buffer, post["task"]}
    BY <1>0, <1>3 DEF Take
  <2>2. \A s \in 1..mark : Absent(buffer, s) /\ Absent(post["task"], s) =>
                            Absent(buffer', s) /\ Absent(post'["task"], s)
    BY <1>0, <2>1
  <2> QED BY <1>2, <1>3, <2>2
<1>4. ASSUME NEW F, post' = [g \in Flushers |-> IF g \in F THEN <<>> ELSE post[g]],
             UNCHANGED <<buffer, mark>>,
             closer' \in {"posting", "returned"} => closer \in {"posting", "returned"} \/ mark = 0
      PROVE  Emptying'
  <2>1. post'["task"] \in {<<>>, post["task"]}
    BY <1>0, <1>4
  <2> QED BY <1>0, <1>2, <1>4, <2>1
<1>5. CASE TaskFlush \/ FinalFlush \/ IntegrationFlush \/ ThreadFlush \/ Exit
  <2>1. PICK f \in Flushers : Take(f) /\ UNCHANGED <<mark, closer>>
    BY <1>5 DEF TaskFlush, FinalFlush, IntegrationFlush, ThreadFlush, Exit,
       Flushers, AsyncFlushers, SyncFlushers
  <2> QED BY <1>3, <2>1
<1>6. CASE CloseCancels
  BY <1>6 DEF CloseCancels, Emptying
<1>7. CASE CloseRaises
  BY <1>2, <1>7 DEF CloseRaises, CInv, Closing
<1>8. CASE CloseFlush
  <2>1. post["task"] = <<>>
    BY <1>8 DEF CloseFlush, CInv, IInv, TypedControl, Closing, TaskStates
  <2>2. buffer' = <<>> /\ post'["task"] = <<>>
    BY <1>0, <1>8, <2>1 DEF CloseFlush, Take
  <2> QED BY <1>0, <2>2 DEF Emptying
<1>9. ASSUME NEW f \in AsyncFlushers, AsyncOk(f) PROVE Emptying'
  <2>1. post' = [g \in Flushers |-> IF g \in {f} THEN <<>> ELSE post[g]]
    BY <1>0, <1>9 DEF AsyncOk, AsyncDone
  <2>2. post["close"] # <<>> => closer \in {"posting", "returned"}
    BY DEF CInv, IInv, TypedControl, Control
  <2>3. closer' \in {"posting", "returned"} => closer \in {"posting", "returned"}
    BY <1>9, <2>2 DEF AsyncOk, AsyncDone
  <2> QED BY <1>4, <1>9, <2>1, <2>3 DEF AsyncOk, AsyncDone
<1>10. ASSUME NEW f \in AsyncFlushers, AsyncFail(f) PROVE Emptying'
  <2>1. mark = 0 /\ mark' = 0
    BY <1>0, <1>10 DEF AsyncFail, AsyncDone, CInv, Closing
  <2> QED BY <2>1 DEF Emptying
<1>11. ASSUME NEW f \in SyncFlushers, SyncDone(f) PROVE Emptying'
  <2>1. post' = [g \in Flushers |-> IF g \in {f} THEN <<>> ELSE post[g]]
    BY <1>0, <1>11 DEF SyncDone
  <2> QED BY <1>4, <1>11, <2>1 DEF SyncDone
<1>12. CASE ThreadDone \/ ExitDone
  BY <1>11, <1>12 DEF ThreadDone, ExitDone, SyncFlushers
<1>13. CASE Gone
  <2>1. post' = [g \in Flushers |-> IF g \in Flushers THEN <<>> ELSE post[g]]
    BY <1>13 DEF Gone, Idle
  <2> QED BY <1>4, <1>13, <2>1 DEF Gone
<1>14. CASE LoopEnds
  <2> DEFINE cut == {f \in {"task", "integration"} : f = "task" => task # "parked"}
  <2>1. post' = [g \in Flushers |-> IF g \in cut THEN <<>> ELSE post[g]]
        /\ UNCHANGED <<buffer, mark, closer>>
    BY <1>14 DEF LoopEnds, Idle
  <2> HIDE DEF cut
  <2> QED BY <1>4, <2>1
<1>15. CASE ThreadWake \/ LoopStarts \/ LoopEnded \/ LoopStops \/ Recovery
  <2>1. UNCHANGED <<buffer, post, mark, closer>>
    BY <1>15 DEF ThreadWake, LoopStarts, LoopEnded, LoopStops, Recovery
  <2> QED BY <1>2, <2>1
<1> QED
  BY <1>1, <1>5, <1>6, <1>7, <1>8, <1>9, <1>10, <1>12, <1>13, <1>14, <1>15 DEF Next

LEMMA StutterClosing ==
    ASSUME CInv, UNCHANGED vars
    PROVE  CInv'
<1>1. IInv'
  BY StutterKeeps DEF CInv
<1>2. UNCHANGED <<mark, recorded, outage, closer, task, post, buffer>>
  BY DEF vars
<1>3. Closing'
  BY <1>2 DEF CInv, Closing
<1>4. Emptying'
  BY <1>2 DEF CInv, Emptying
<1> QED BY <1>1, <1>3, <1>4 DEF CInv

\* A client that was closed while the API answered keeps no span recorded before: not in
\* the buffer, and not in a batch of the flush task that close() cancelled and awaited,
\* whatever the thread, the integrations and a task started meanwhile do.
THEOREM CloseLeavesNothing == Spec => []CloseEmpties
<1>1. Init => CInv
  BY InitPromise, InitClosing DEF CInv
<1>2. CInv /\ [Next]_vars => CInv'
  <2>1. CInv /\ Next => CInv'
    BY StepKeeps, StepClosing, StepEmptying DEF CInv
  <2> QED BY <2>1, StutterClosing
<1>3. CInv => CloseEmpties
  <2> SUFFICES ASSUME CInv, closer = "returned", NEW s \in 1..mark,
                      s \in ToSet(buffer \o post["task"])
               PROVE  FALSE
    BY DEF CloseEmpties
  <2>1. buffer \in Seq(Spans) /\ post["task"] \in Seq(Spans)
    BY DEF CInv, IInv, Typed, Flushers, AsyncFlushers
  <2>2. Absent(buffer, s) /\ Absent(post["task"], s)
    BY DEF CInv, Emptying
  <2>3. Absent(buffer \o post["task"], s)
    BY <2>1, <2>2, Joined
  <2> QED BY <2>3 DEF ToSet, Absent
<1> QED BY <1>1, <1>2, <1>3, PTL DEF Spec

-----------------------------------------------------------------------------
(* The live page. *)

IsRow(r) == r = [count |-> r.count, idle |-> r.idle] /\ r.count \in Nat
IsSeed(q) == q = [n |-> q.n, project |-> q.project, answered |-> q.answered,
                  sessions |-> q.sessions]

\* What is counted is a number: in the store, in the answers and on the page.
Counted ==
    /\ DOMAIN stored = Sessions /\ \A s \in Sessions : stored[s] \in Nat
    /\ \A q \in seeds : /\ IsSeed(q)
                        /\ q.answered => \A s \in DOMAIN q.sessions : q.sessions[s] \in Nat
    /\ \A s \in DOMAIN rows : IsRow(rows[s])

\* What RowsGrow asks of a step.
Grow == \A s \in DOMAIN rows :
            ~rows[s].idle => s \in DOMAIN rows' /\ rows'[s].count >= rows[s].count

\* A table that stays, or whose rows grow idle.
LEMMA StillGrow ==
    ASSUME Counted, rows' = rows
    PROVE  Grow /\ \A s \in DOMAIN rows' : IsRow(rows'[s])
  BY DEF Counted, Grow, IsRow

\* mergeSpan counts one more span, and drops idle rows only.
LEMMA MergeGrows ==
    ASSUME Counted, NEW e, rows' = Merged(e)
    PROVE  Grow /\ \A s \in DOMAIN rows' : IsRow(rows'[s])
  <1> DEFINE count == IF e.session \in Kept THEN rows[e.session].count ELSE 0
  <1>1. count \in Nat
    BY DEF Counted, Kept, IsRow
  <1>2. PICK row : row = [count |-> count + 1, idle |-> e.late]
    OBVIOUS
  <1>3. IsRow(row) /\ row.count = count + 1
    BY <1>1, <1>2 DEF IsRow
  <1>4. rows' = [s \in Kept \cup {e.session} |-> IF s = e.session THEN row ELSE rows[s]]
    BY <1>2 DEF Merged
  <1>5. Kept \subseteq DOMAIN rows /\ \A s \in DOMAIN rows : ~rows[s].idle => s \in Kept
    BY DEF Kept
  <1>6. \A s \in DOMAIN rows' : IsRow(rows'[s])
    BY <1>3, <1>4, <1>5 DEF Counted
  <1>7. ASSUME NEW s \in DOMAIN rows, ~rows[s].idle
        PROVE  s \in DOMAIN rows' /\ rows'[s].count >= rows[s].count
    <2>1. rows[s].count \in Nat /\ s \in Kept
      BY <1>5, <1>7 DEF Counted, IsRow
    <2>2. CASE s = e.session
      BY <1>3, <1>4, <2>1, <2>2
    <2>3. CASE s # e.session
      BY <1>4, <2>1, <2>3
    <2> QED BY <2>2, <2>3
  <1> QED BY <1>6, <1>7 DEF Grow

\* The rows of a seed go under those of the page.
LEMMA SeedGrows ==
    ASSUME Counted, NEW q \in seeds, q.answered, rows' = SeedAdds(q)
    PROVE  Grow /\ \A s \in DOMAIN rows' : IsRow(rows'[s])
  <1>1. \A s \in DOMAIN Seeded(q) : IsRow(Seeded(q)[s])
    <2>1. ASSUME NEW s \in DOMAIN q.sessions
          PROVE  IsRow([count |-> q.sessions[s], idle |-> FALSE])
      BY <2>1 DEF Counted, IsRow
    <2> QED BY <2>1 DEF Seeded
  <1>2. /\ DOMAIN rows' = DOMAIN rows \cup DOMAIN Seeded(q)
        /\ \A s \in DOMAIN rows : rows'[s] = rows[s]
        /\ \A s \in DOMAIN Seeded(q) : s \notin DOMAIN rows => rows'[s] = Seeded(q)[s]
    BY DEF SeedAdds, Under
  <1>3. \A s \in DOMAIN rows : IsRow(rows[s]) /\ rows[s].count \in Nat
    BY DEF Counted, IsRow
  <1> QED BY <1>1, <1>2, <1>3 DEF Grow

\* A row that grows idle keeps its count.
LEMMA IdleGrows ==
    ASSUME Counted, NEW s \in Sessions, GrowsIdle(s)
    PROVE  Grow /\ \A t \in DOMAIN rows' : IsRow(rows'[t])
  <1>1. ASSUME NEW t \in DOMAIN rows
        PROVE  /\ t \in DOMAIN rows' /\ IsRow(rows'[t])
               /\ rows'[t].count = rows[t].count /\ rows[t].count \in Nat
    <2>1. IsRow(rows[t])
      BY DEF Counted
    <2>2. PICK row : row = [rows[t] EXCEPT !.idle = TRUE]
      OBVIOUS
    <2>3. IsRow(row) /\ row.count = rows[t].count /\ row.count \in Nat
      BY <2>1, <2>2 DEF IsRow
    <2>4. t \in DOMAIN rows' /\ rows'[t] = IF t = s THEN row ELSE rows[t]
      BY <2>2 DEF GrowsIdle
    <2> QED BY <2>1, <2>3, <2>4
  <1>2. DOMAIN rows' = DOMAIN rows
    BY DEF GrowsIdle
  <1> QED BY <1>1, <1>2 DEF Grow

\* A seed reads the store.
LEMMA SeedReads ==
    ASSUME Counted, NEW q \in seeds, SeedRead(q)
    PROVE  Counted'
  <1> DEFINE recent == {s \in Sessions : InScope(q.project, s) /\ stored[s] > 0 /\ s \notin idle}
  <1>1. PICK f : f = [s \in recent |-> stored[s]]
    OBVIOUS
  <1>2. PICK r : r = [q EXCEPT !.answered = TRUE, !.sessions = f]
    OBVIOUS
  <1>3. seeds' = (seeds \ {q}) \cup {r} /\ UNCHANGED <<stored, rows>>
    BY <1>1, <1>2 DEF SeedRead
  <1>4. IsSeed(r) /\ r.sessions = f
    <2>1. PICK n, p, a, g : q = [n |-> n, project |-> p, answered |-> a, sessions |-> g]
      BY DEF Counted, IsSeed
    <2>2. r = [n |-> n, project |-> p, answered |-> TRUE, sessions |-> f]
      BY <1>2, <2>1
    <2> QED BY <2>2 DEF IsSeed
  <1>5. \A s \in DOMAIN f : f[s] \in Nat
    BY <1>1 DEF Counted
  <1> QED BY <1>3, <1>4, <1>5 DEF Counted

\* The page asks for another project.
LEMMA SwitchKeeps ==
    ASSUME Counted, NEW p \in Projects, SwitchProject(p)
    PROVE  Counted'
  <1>1. PICK q : q = [Seed(p) EXCEPT !.n = switches']
    OBVIOUS
  <1>2. IsSeed(q) /\ q.answered = FALSE
    BY <1>1 DEF IsSeed, Seed
  <1>3. seeds' = seeds \cup {q} /\ UNCHANGED <<stored, rows>>
    BY <1>1 DEF SwitchProject
  <1> QED BY <1>2, <1>3 DEF Counted

\* Every step grows the table, and leaves numbers.
LEMMA LiveSteps ==
    ASSUME Counted, [LiveNext]_liveVars
    PROVE  Counted' /\ Grow
  <1>1. ASSUME UNCHANGED <<stored, rows>>, seeds' \subseteq seeds
        PROVE  Counted' /\ Grow
    BY <1>1, StillGrow DEF Counted
  <1>2. CASE UNCHANGED liveVars
    BY <1>1, <1>2 DEF liveVars
  <1>3. ASSUME NEW s \in Sessions, NEW late \in BOOLEAN, Store(s, late)
        PROVE  Counted' /\ Grow
    <2>1. stored' = [stored EXCEPT ![s] = @ + 1] /\ UNCHANGED <<seeds, rows>>
      BY <1>3 DEF Store
    <2>2. DOMAIN stored' = Sessions /\ \A t \in Sessions : stored'[t] \in Nat
      BY <2>1 DEF Counted
    <2> QED BY <2>1, <2>2, StillGrow DEF Counted
  <1>4. ASSUME NEW s \in Sessions, GrowsIdle(s)
        PROVE  Counted' /\ Grow
    <2>1. UNCHANGED <<stored, seeds>>
      BY <1>4 DEF GrowsIdle
    <2> QED BY <1>4, <2>1, IdleGrows DEF Counted
  <1>5. CASE (\E e \in unpublished : Publish(e)) \/ Send
    BY <1>1, <1>5 DEF Publish, Send
  <1>6. CASE OnSpan
    <2>1. rows' = Merged(Head(wire)) /\ UNCHANGED <<stored, seeds>>
      BY <1>6 DEF OnSpan
    <2> QED BY <2>1, MergeGrows DEF Counted
  <1>7. CASE Subscribe \/ OnOpen \/ OnError \/ Reconnect
    BY <1>1, <1>7 DEF Subscribe, OnOpen, OnError, Reconnect
  <1>8. ASSUME NEW q \in seeds, SeedRead(q)
        PROVE  Counted' /\ Grow
    BY <1>8, SeedReads, StillGrow DEF SeedRead
  <1>9. ASSUME NEW q \in seeds, SeedArrives(q)
        PROVE  Counted' /\ Grow
    <2>1. q.answered /\ rows' = SeedAdds(q) /\ stored' = stored /\ seeds' \subseteq seeds
      BY <1>9 DEF SeedArrives
    <2> QED BY <2>1, SeedGrows DEF Counted
  <1>10. ASSUME NEW q \in seeds, SeedFails(q)
         PROVE  Counted' /\ Grow
    BY <1>1, <1>10 DEF SeedFails
  <1>11. ASSUME NEW p \in Projects, SwitchProject(p)
         PROVE  Counted' /\ Grow
    BY <1>11, SwitchKeeps, StillGrow DEF SwitchProject
  <1> QED BY <1>2, <1>3, <1>4, <1>5, <1>6, <1>7, <1>8, <1>9, <1>10, <1>11 DEF LiveNext

\* The page starts with an empty table and an unanswered seed.
LEMMA LiveStarts == LiveInit => Counted
  <1> SUFFICES ASSUME LiveInit PROVE Counted
    OBVIOUS
  <1>1. DOMAIN rows = {}
    BY DEF LiveInit
  <1>2. \A s \in Sessions : stored[s] \in Nat
    BY DEF LiveInit
  <1>3. IsSeed(Seed(project)) /\ ~ Seed(project).answered
    BY DEF IsSeed, Seed
  <1> QED BY <1>1, <1>2, <1>3 DEF LiveInit, Counted

\* A session that is not idle keeps its row, and its row never counts less,
\* whatever the order of the seeds, the events, the breaks and the switches.
THEOREM RowsNeverFallBack == LiveSpec => RowsGrow
  <1>1. Counted /\ [LiveNext]_liveVars => Counted'
    BY LiveSteps
  <1>2. Counted /\ [LiveNext]_liveVars => [Grow]_liveVars
    BY LiveSteps
  <1>3. [Grow]_liveVars => [\A s \in DOMAIN rows :
            ~rows[s].idle => s \in DOMAIN rows' /\ rows'[s].count >= rows[s].count]_liveVars
    BY DEF Grow
  <1> QED BY <1>1, <1>2, <1>3, LiveStarts, PTL DEF LiveSpec, RowsGrow
=============================================================================
