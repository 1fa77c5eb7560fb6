--------------------------- MODULE ReconnectProofs ---------------------------
(***************************************************************************)
(* The replay of a reconnect is complete and in order, for every set of    *)
(* danmaku, every size of a page, every limit and every capacity of the    *)
(* queue of the client; and a query has exactly one result.                *)
(***************************************************************************)
EXTENDS Reconnect, WellFoundedInduction, SequenceTheorems, TLAPS

-----------------------------------------------------------------------------
(* The order of the cursor.                                                *)

\* A danmaku after one that is after a key is after that key.
LEMMA AfterIsTransitive ==
    ASSUME ts \in [Danmakus -> Nat], NEW c \in Danmakus, NEW d \in Danmakus, NEW k \in Keys,
           After(c, k), After(d, Key(c))
    PROVE  After(d, k)
BY ReconnectAssumption DEF After, Key, Keys

\* A danmaku after a key is after every danmaku that is not.
LEMMA AfterSeparates ==
    ASSUME ts \in [Danmakus -> Nat], NEW c \in Danmakus, NEW d \in Danmakus, NEW k \in Keys,
           ~After(c, k), After(d, k)
    PROVE  After(d, Key(c))
BY ReconnectAssumption DEF After, Key, Keys

\* The key of a danmaku is one, and nothing is after itself.
LEMMA KeyOfDanmaku ==
    ASSUME ts \in [Danmakus -> Nat], NEW d \in Danmakus
    PROVE  Key(d) \in Keys /\ ~After(d, Key(d))
BY ReconnectAssumption DEF After, Key, Keys

\* The order is strict.
LEMMA AfterIsAsymmetric ==
    ASSUME ts \in [Danmakus -> Nat], NEW c \in Danmakus, NEW d \in Danmakus, After(d, Key(c))
    PROVE  ~After(c, Key(d))
BY ReconnectAssumption DEF After, Key

-----------------------------------------------------------------------------
(* The queue of the client.                                                *)

\* A message joins what is queued.
LEMMA QueueGrows ==
    ASSUME inbox \in Seq(Seq(Danmakus)), NEW m \in Seq(Danmakus), inbox' = Append(inbox, m)
    PROVE  Queued' = Queued \cup Range(m)
<1>1. /\ DOMAIN inbox = 1..Len(inbox) /\ Len(inbox) \in Nat
      /\ DOMAIN inbox' = 1..(Len(inbox) + 1)
      /\ inbox'[Len(inbox) + 1] = m
      /\ \A i \in 1..Len(inbox) : inbox'[i] = inbox[i]
  OBVIOUS
<1>2. \A i \in DOMAIN inbox' : i \in DOMAIN inbox \/ i = Len(inbox) + 1
  BY <1>1
<1>3. Queued' \subseteq Queued \cup Range(m)
  BY <1>1, <1>2 DEF Queued
<1>4. Queued \subseteq Queued'
  BY <1>1 DEF Queued
<1>5. Range(m) \subseteq Queued'
  <2>1. Len(inbox) + 1 \in DOMAIN inbox'
    BY <1>1
  <2> QED
    BY <1>1, <2>1 DEF Queued
<1> QED
  BY <1>3, <1>4, <1>5

\* Nothing but the first message leaves when that is taken.
LEMMA QueueShrinks ==
    ASSUME inbox \in Seq(Seq(Danmakus)), inbox # <<>>, inbox' = Tail(inbox)
    PROVE  Queued \subseteq Queued' \cup Range(Head(inbox))
<1>1. /\ DOMAIN inbox = 1..Len(inbox) /\ Len(inbox) \in Nat \ {0}
      /\ DOMAIN inbox' = 1..(Len(inbox) - 1)
      /\ Head(inbox) = inbox[1]
      /\ \A i \in 1..(Len(inbox) - 1) : inbox'[i] = inbox[i + 1]
  OBVIOUS
<1>2. ASSUME NEW i \in DOMAIN inbox, i # 1
      PROVE  i - 1 \in DOMAIN inbox' /\ inbox'[i - 1] = inbox[i]
  BY <1>1, <1>2
<1>3. ASSUME NEW d \in Queued PROVE d \in Queued' \cup Range(Head(inbox))
  <2>1. PICK i \in DOMAIN inbox : d \in Range(inbox[i])
    BY DEF Queued
  <2>2. CASE i = 1
    BY <1>1, <2>1, <2>2
  <2>3. CASE i # 1
    BY <1>2, <2>1, <2>3 DEF Queued
  <2> QED
    BY <2>2, <2>3
<1> QED
  BY <1>3

-----------------------------------------------------------------------------
(* The steps, one lemma for each kind.                                     *)

\* The clock, a new danmaku and a new row leave the viewer and the replay alone;
\* a danmaku that was built keeps its time.
LEMMA StreamKeeps ==
    ASSUME ReplayInv, TypeOK',
           \A d \in Danmakus : IsBuilt(d) => ts'[d] = ts[d],
           \A d \in visible' : IsBuilt(d)',
           UNCHANGED <<aired, online, inbox, received, replay, since, page, pushed, from, lagging>>
    PROVE  ReplayInv'
<1> USE DEF ReplayInv
<1>0. /\ aired \subseteq Danmakus /\ page \in Seq(Danmakus) /\ pushed \in Seq(Danmakus)
      /\ \A i \in DOMAIN page : page[i] \in Danmakus
      /\ \A i \in DOMAIN pushed : pushed[i] \in Danmakus
  BY DEF TypeOK
<1>1. BuiltInv'
  BY <1>0 DEF BuiltInv, IsBuilt
<1>2. /\ \A i \in DOMAIN page : ts'[page[i]] = ts[page[i]]
      /\ \A i \in DOMAIN pushed : ts'[pushed[i]] = ts[pushed[i]]
      /\ \A d \in aired : ts'[d] = ts[d]
  BY <1>0 DEF BuiltInv
<1>3. PageInv'
  BY <1>2 DEF PageInv, After, Key
<1>4. CursorInv' /\ PagesInOrder'
  BY <1>2 DEF CursorInv, PagesInOrder, After, Key
<1>5. Queued' = Queued
  BY DEF Queued
<1>6. \A d \in aired : (Settled(d)' <=> Settled(d)) /\ (After(d, since)' <=> After(d, since))
  BY <1>2, <1>5 DEF Settled, After
<1>7. replay = "push" => \A d \in aired : After(d, Key(Last(page)))' <=> After(d, Key(Last(page)))
  <2> SUFFICES ASSUME replay = "push", NEW d \in aired
               PROVE  After(d, Key(Last(page)))' <=> After(d, Key(Last(page)))
    OBVIOUS
  <2>1. Last(page)' = Last(page) /\ Len(page) \in DOMAIN page
    BY <1>0 DEF Last, PageInv
  <2> QED
    BY <1>2, <2>1 DEF After, Key, Last
<1>8. AheadInv'
  BY <1>6, <1>7 DEF AheadInv
<1> QED
  BY <1>1, <1>3, <1>4, <1>8

\* A replay that was given up, or whose viewer is gone, promises nothing.
LEMMA GivenUpKeeps ==
    ASSUME ReplayInv, TypeOK', BuiltInv', UNCHANGED <<ts, pushed>>, replay' \in {"none", "cut"}
    PROVE  ReplayInv'
BY DEF ReplayInv, PageInv, AheadInv, CursorInv, PagesInOrder, After, Key

\* A lost connection leaves a state of the right type.
LEMMA LostIsTyped ==
    ASSUME TypeOK, Lose
    PROVE  /\ inbox' = <<>> /\ inbox' \in Seq(Seq(Danmakus))
           /\ online' \in BOOLEAN /\ drops' \in Nat /\ replay' = "none"
<1>1. drops \in Nat /\ drops' = drops + 1 /\ inbox' = <<>> /\ replay' = "none"
  BY DEF TypeOK, Lose
<1>2. online' \in BOOLEAN
  BY DEF Lose
<1>3. <<>> \in Seq(Seq(Danmakus))
  OBVIOUS
<1> QED
  BY <1>1, <1>2, <1>3

\* A broadcast reaches the queue of a viewer who is online, or ends the replay.
LEMMA BroadcastKeeps ==
    ASSUME ReplayInv, NEW d \in Danmakus, BroadcastToRoom(d)
    PROVE  ReplayInv'
<1>0. /\ TypeOK /\ UNCHANGED <<now, ts, visible, received, cursor, since, page, pushed, from, lagging>>
      /\ aired' = aired \cup {d} /\ IsBuilt(d)
  BY DEF BroadcastToRoom, viewer, ReplayInv, IsBuilt
<1>1. CASE UNCHANGED <<online, replay, drops>> /\ inbox' = IF online THEN Append(inbox, <<d>>) ELSE inbox
  <2>1. inbox \in Seq(Seq(Danmakus)) /\ <<d>> \in Seq(Danmakus) /\ d \in Range(<<d>>)
    BY <1>0 DEF TypeOK, Range
  <2>2. /\ Queued \subseteq Queued' /\ inbox' \in Seq(Seq(Danmakus))
        /\ online => d \in Queued'
        /\ \A i \in DOMAIN inbox' : inbox'[i] # <<>>
    <3>1. CASE online
      <4>1. inbox' = Append(inbox, <<d>>)
        BY <1>1, <3>1
      <4>2. Queued' = Queued \cup Range(<<d>>)
        BY <2>1, <4>1, QueueGrows
      <4>3. \A i \in DOMAIN inbox' : inbox'[i] # <<>>
        BY <2>1, <4>1 DEF ReplayInv, BuiltInv
      <4> QED
        BY <2>1, <4>1, <4>2, <4>3
    <3>2. CASE ~online
      BY <1>1, <2>1, <3>2 DEF Queued, ReplayInv, BuiltInv
    <3> QED
      BY <3>1, <3>2
  <2>3. TypeOK'
    BY <1>0, <1>1, <2>2 DEF TypeOK
  <2>4. BuiltInv'
    BY <1>0, <2>2 DEF ReplayInv, BuiltInv, IsBuilt
  <2>5. PageInv' /\ CursorInv' /\ PagesInOrder'
    BY <1>0, <1>1 DEF ReplayInv, PageInv, CursorInv, PagesInOrder, After, Key
  <2>6. \A x \in aired : Settled(x) => Settled(x)'
    BY <1>0, <2>2 DEF Settled, After
  <2>7. online => Settled(d)'
    BY <2>2 DEF Settled
  <2>8. \A x : /\ After(x, since)' <=> After(x, since)
               /\ After(x, Key(Last(page)))' <=> After(x, Key(Last(page)))
    BY <1>0 DEF After, Key
  <2>9. AheadInv'
    BY <1>0, <1>1, <2>6, <2>7, <2>8 DEF ReplayInv, AheadInv
  <2> QED
    BY <2>3, <2>4, <2>5, <2>9 DEF ReplayInv
<1>2. CASE Lose
  <2>1. TypeOK'
    BY <1>0, <1>2, LostIsTyped DEF TypeOK
  <2>2. BuiltInv'
    BY <1>0, <1>2 DEF ReplayInv, BuiltInv, IsBuilt, Lose
  <2> QED
    BY <1>0, <1>2, <2>1, <2>2, GivenUpKeeps DEF Lose
<1> QED
  BY <1>1, <1>2 DEF BroadcastToRoom

\* A message moves from the queue to the viewer.
LEMMA ReceiveKeeps ==
    ASSUME ReplayInv, Receive
    PROVE  ReplayInv'
<1>0. /\ TypeOK /\ inbox # <<>> /\ inbox' = Tail(inbox)
      /\ received' = received \cup Range(Head(inbox)) /\ cursor' = Key(Last(Head(inbox)))
      /\ UNCHANGED <<now, ts, visible, aired, online, replay, since, page, pushed, from, lagging, drops>>
  BY DEF Receive, ReplayInv, stream
<1>1. /\ inbox \in Seq(Seq(Danmakus)) /\ Head(inbox) \in Seq(Danmakus) /\ Head(inbox) # <<>>
      /\ inbox' \in Seq(Seq(Danmakus))
      /\ \A i \in DOMAIN inbox' : inbox'[i] # <<>>
  BY <1>0 DEF TypeOK, ReplayInv, BuiltInv
<1>2. Last(Head(inbox)) \in Danmakus /\ Range(Head(inbox)) \subseteq Danmakus
  BY <1>1 DEF Last, Range
<1>3. cursor' \in Keys
  BY <1>0, <1>2, KeyOfDanmaku DEF TypeOK
<1>4. TypeOK'
  BY <1>0, <1>1, <1>2, <1>3 DEF TypeOK
<1>5. BuiltInv'
  BY <1>0, <1>1 DEF ReplayInv, BuiltInv, IsBuilt
<1>6. PageInv' /\ CursorInv' /\ PagesInOrder'
  BY <1>0 DEF ReplayInv, PageInv, CursorInv, PagesInOrder, After, Key
<1>7. Queued \subseteq Queued' \cup Range(Head(inbox))
  BY <1>0, <1>1, QueueShrinks
<1>8. \A d \in aired : Settled(d) => Settled(d)'
  BY <1>0, <1>7 DEF Settled, After
<1>9. \A x : /\ After(x, since)' <=> After(x, since)
             /\ After(x, Key(Last(page)))' <=> After(x, Key(Last(page)))
  BY <1>0 DEF After, Key
<1>10. AheadInv'
  BY <1>0, <1>8, <1>9 DEF ReplayInv, AheadInv
<1> QED
  BY <1>4, <1>5, <1>6, <1>10 DEF ReplayInv

\* A lost connection and a failed query end the replay.
LEMMA EndKeeps ==
    ASSUME ReplayInv, Disconnect \/ QueryFails
    PROVE  ReplayInv'
<1>0. TypeOK
  BY DEF ReplayInv
<1>1. /\ UNCHANGED <<now, ts, visible, aired, received, cursor, since, page, pushed, from, lagging>>
      /\ Lose \/ (replay' = "cut" /\ UNCHANGED <<online, inbox, drops>>)
  BY DEF Disconnect, QueryFails, stream, viewer
<1>2. TypeOK' /\ (inbox' = <<>> \/ inbox' = inbox) /\ replay' \in {"none", "cut"}
  <2>1. CASE Lose
    BY <1>0, <1>1, <2>1, LostIsTyped DEF TypeOK
  <2>2. CASE replay' = "cut" /\ UNCHANGED <<online, inbox, drops>>
    BY <1>0, <1>1, <2>2 DEF TypeOK
  <2> QED
    BY <1>1, <2>1, <2>2
<1>3. BuiltInv'
  BY <1>1, <1>2 DEF ReplayInv, BuiltInv, IsBuilt
<1> QED
  BY <1>1, <1>2, <1>3, GivenUpKeeps

\* A new replay begins at the cursor of the viewer: what is after that is ahead.
LEMMA ServeKeeps ==
    ASSUME ReplayInv, ServeWs
    PROVE  ReplayInv'
<1>0. /\ TypeOK /\ online' = TRUE /\ replay' \in {"none", "query"}
      /\ since' = cursor /\ from' = cursor /\ pushed' = <<>> /\ lagging' = {}
      /\ UNCHANGED <<now, ts, visible, aired, inbox, received, cursor, page, drops>>
  BY DEF ServeWs, stream, viewer, ReplayInv
<1>1. TypeOK'
  BY <1>0 DEF TypeOK
<1>2. BuiltInv'
  BY <1>0 DEF ReplayInv, BuiltInv, IsBuilt
<1>3. PageInv' /\ CursorInv' /\ PagesInOrder'
  BY <1>0 DEF PageInv, CursorInv, PagesInOrder
<1>4. \A d : Settled(d)' \/ After(d, since)'
  BY <1>0 DEF Settled, After
<1>5. AheadInv'
  BY <1>0, <1>4 DEF AheadInv
<1> QED
  BY <1>1, <1>2, <1>3, <1>5 DEF ReplayInv

\* The result of a query: rows of the store after the cursor, in order, and
\* whatever it lacks comes after a full result.
LEMMA QueryResult ==
    ASSUME TypeOK, NEW limit \in Nat \ {0}, NEW rows \in ListSince(since, limit)
    PROVE  /\ rows \in Seq(Danmakus) /\ Len(rows) <= limit
           /\ \A i \in DOMAIN rows : rows[i] \in visible /\ After(rows[i], since)
           /\ \A i, j \in DOMAIN rows : i < j => After(rows[j], Key(rows[i]))
           /\ \A d \in visible : After(d, since) =>
                 \/ d \in Range(rows)
                 \/ Len(rows) = limit /\ After(d, Key(Last(rows)))
<1>1. PICK n \in 0..limit : rows \in [1..n -> visible]
  BY DEF ListSince
<1>2. /\ \A i \in DOMAIN rows : After(rows[i], since)
      /\ \A i, j \in DOMAIN rows : i < j => After(rows[j], Key(rows[i]))
      /\ \A d \in visible \ Range(rows) :
            After(d, since) => Len(rows) = limit /\ After(d, Key(Last(rows)))
  BY DEF ListSince
<1>3. visible \subseteq Danmakus
  BY DEF TypeOK
<1>4. rows \in Seq(Danmakus) /\ Len(rows) = n
  BY <1>1, <1>3
<1>5. \A i \in DOMAIN rows : rows[i] \in visible
  BY <1>1
<1> QED
  BY <1>1, <1>2, <1>4, <1>5

\* A query takes note of what lags; everything else after the cursor is in the
\* result or behind it.
LEMMA QueryKeeps ==
    ASSUME ReplayInv, QueryHistory
    PROVE  ReplayInv'
<1>0. /\ TypeOK /\ replay = "query" /\ lagging' = lagging \cup (aired \ visible)
      /\ page' \in ListSince(since, PageSize + 1)
      /\ replay' = IF page' = <<>> THEN "complete" ELSE "push"
      /\ UNCHANGED <<now, ts, visible, aired, online, inbox, received, cursor, since, pushed, from, drops>>
  BY DEF QueryHistory, stream, viewer, ReplayInv
<1>1. PageSize + 1 \in Nat \ {0}
  BY ReconnectAssumption
<1>2. /\ page' \in Seq(Danmakus) /\ Len(page') <= PageSize + 1
      /\ \A i \in DOMAIN page' : page'[i] \in visible /\ After(page'[i], since)
      /\ \A i, j \in DOMAIN page' : i < j => After(page'[j], Key(page'[i]))
      /\ \A d \in visible : After(d, since) =>
            \/ d \in Range(page')
            \/ Len(page') = PageSize + 1 /\ After(d, Key(Last(page')))
  BY <1>0, <1>1, QueryResult
<1>3. TypeOK'
  BY <1>0, <1>2 DEF TypeOK
<1>4. BuiltInv'
  BY <1>0, <1>2 DEF ReplayInv, BuiltInv, IsBuilt
<1>5. PageInv'
  BY <1>0, <1>2 DEF PageInv, After, Key
<1>6. CursorInv' /\ PagesInOrder'
  BY <1>0 DEF ReplayInv, CursorInv, PagesInOrder, After, Key
<1>7. Queued' = Queued
  BY <1>0 DEF Queued
<1>8. ASSUME NEW d \in aired
      PROVE  \/ Settled(d)' \/ d \in Range(page')
             \/ Len(page') = PageSize + 1 /\ After(d, Key(Last(page')))
  <2>1. Settled(d) \/ After(d, since)
    BY <1>0 DEF ReplayInv, AheadInv
  <2>2. CASE Settled(d)
    BY <1>0, <1>7, <2>2 DEF Settled, After
  <2>3. CASE After(d, since) /\ d \notin visible
    BY <1>0, <2>3 DEF Settled
  <2>4. CASE After(d, since) /\ d \in visible
    BY <1>2, <2>4
  <2> QED
    BY <2>1, <2>2, <2>3, <2>4
<1>9. \A d \in aired : After(d, Key(Last(page')))  <=> After(d, Key(Last(page)))'
  BY <1>0 DEF After, Key
<1>10. page' = <<>> => Range(page') = {} /\ Len(page') # PageSize + 1
  BY ReconnectAssumption DEF Range
<1>11. online
  BY <1>0 DEF ReplayInv, AheadInv
<1>12. AheadInv'
  BY <1>0, <1>8, <1>9, <1>10, <1>11 DEF AheadInv
<1> QED
  BY <1>3, <1>4, <1>5, <1>6, <1>12 DEF ReplayInv

\* What EnqueuePage sends of a result: all of it, or all but the last row when
\* that row only says that there is more.
LEMMA PageIsCut ==
    ASSUME NEW p \in Seq(Danmakus), p # <<>>, Len(p) <= PageSize + 1,
           NEW d, d = IF Len(p) > PageSize THEN SubSeq(p, 1, PageSize) ELSE p
    PROVE  /\ d \in Seq(Danmakus) /\ Len(d) \in Nat \ {0} /\ Len(d) <= Len(p)
           /\ \A i \in 1..Len(d) : i \in 1..Len(p) /\ d[i] = p[i]
           /\ Len(p) > PageSize => Len(p) = PageSize + 1 /\ Len(d) = PageSize
           /\ ~(Len(p) > PageSize) => d = p /\ Len(p) # PageSize + 1
<1>1. PageSize \in Nat \ {0} /\ Len(p) \in Nat /\ Len(p) # 0
  BY ReconnectAssumption
<1>2. CASE Len(p) > PageSize
  <2>1. Len(p) = PageSize + 1
    BY <1>1, <1>2
  <2>2. d = SubSeq(p, 1, PageSize)
    BY <1>2
  <2>3. d \in Seq(Danmakus) /\ Len(d) = PageSize /\ \A i \in 1..PageSize : d[i] = p[i]
    BY <1>1, <2>1, <2>2
  <2> QED
    BY <1>1, <1>2, <2>1, <2>3
<1>3. CASE ~(Len(p) > PageSize)
  <2>1. d = p
    BY <1>3
  <2> QED
    BY <1>1, <1>3, <2>1
<1> QED
  BY <1>2, <1>3

\* A page that is sent moves the cursor to its last danmaku: what was sent is
\* not after it, and what is left is.
LEMMA EnqueueKeeps ==
    ASSUME ReplayInv, EnqueuePage
    PROVE  ReplayInv'
<1> DEFINE hasMore == Len(page) > PageSize
           dms     == IF hasMore THEN SubSeq(page, 1, PageSize) ELSE page
           last    == dms[Len(dms)]
<1>0. /\ TypeOK /\ replay = "push"
      /\ UNCHANGED <<now, ts, visible, aired, online, received, cursor, page, from, lagging, drops>>
  BY DEF EnqueuePage, stream, viewer, ReplayInv
<1>1. CASE replay' = "cut" /\ UNCHANGED <<inbox, since, pushed>>
  <2>1. TypeOK' /\ BuiltInv'
    BY <1>0, <1>1 DEF TypeOK, ReplayInv, BuiltInv, IsBuilt
  <2> QED
    BY <1>0, <1>1, <2>1, GivenUpKeeps
<1>2. CASE /\ inbox' = Append(inbox, dms)
           /\ since' = Key(last)
           /\ pushed' = pushed \o dms
           /\ replay' = IF ~hasMore THEN "complete"
                        ELSE IF Len(pushed') >= MaxReplay THEN "cut" ELSE "query"
  <2>1. /\ page \in Seq(Danmakus) /\ page # <<>> /\ Len(page) <= PageSize + 1
        /\ \A i \in DOMAIN page : page[i] \in Danmakus /\ IsBuilt(page[i]) /\ After(page[i], since)
        /\ \A i, j \in DOMAIN page : i < j => After(page[j], Key(page[i]))
        /\ ts \in [Danmakus -> Nat] /\ since \in Keys /\ inbox \in Seq(Seq(Danmakus))
    BY <1>0 DEF TypeOK, ReplayInv, PageInv, BuiltInv
  <2>2. /\ dms \in Seq(Danmakus) /\ Len(dms) \in Nat \ {0} /\ Len(dms) <= Len(page)
        /\ \A i \in 1..Len(dms) : i \in 1..Len(page) /\ dms[i] = page[i]
        /\ hasMore => Len(page) = PageSize + 1 /\ Len(dms) = PageSize
        /\ ~hasMore => dms = page /\ Len(page) # PageSize + 1
    BY <2>1, PageIsCut
  <2> HIDE DEF hasMore, dms
  <2>a. DOMAIN page = 1..Len(page) /\ DOMAIN dms = 1..Len(dms) /\ dms # <<>>
    BY <2>1, <2>2
  <2>b. Len(dms) \in Nat \ {0} /\ Len(dms) \in 1..Len(dms)
    BY <2>2
  <2>c. \A i \in 1..Len(dms) : i \in DOMAIN page /\ dms[i] = page[i]
    BY <2>2, <2>a
  <2>4. \A i \in 1..Len(dms) : dms[i] \in Danmakus /\ IsBuilt(dms[i]) /\ After(dms[i], since)
    BY <2>1, <2>c
  <2>5. /\ DOMAIN dms = 1..Len(dms) /\ last = page[Len(dms)] /\ Len(dms) \in DOMAIN page
        /\ last \in Danmakus /\ IsBuilt(last) /\ After(last, since) /\ dms # <<>>
    BY <2>a, <2>b, <2>c, <2>4
  <2>6. Queued' = Queued \cup Range(dms) /\ inbox' \in Seq(Seq(Danmakus))
    BY <1>2, <2>1, <2>2, QueueGrows
  <2>7. \A i \in DOMAIN inbox' : inbox'[i] # <<>>
    <3>1. inbox' = Append(inbox, dms) /\ inbox \in Seq(Seq(Danmakus)) /\ dms \in Seq(Danmakus)
      BY <1>2, <2>1, <2>2
    <3>2. \A i \in DOMAIN inbox' : (i \in DOMAIN inbox /\ inbox'[i] = inbox[i]) \/ inbox'[i] = dms
      BY <3>1
    <3> QED
      BY <2>5, <3>2 DEF ReplayInv, BuiltInv
  <2>8. /\ pushed \in Seq(Danmakus) /\ pushed' \in Seq(Danmakus)
        /\ Len(pushed) \in Nat /\ DOMAIN pushed = 1..Len(pushed)
        /\ DOMAIN pushed' = 1..(Len(pushed) + Len(dms))
        /\ \A i \in 1..Len(pushed) : pushed'[i] = pushed[i]
        /\ \A i \in (Len(pushed) + 1)..(Len(pushed) + Len(dms)) : pushed'[i] = dms[i - Len(pushed)]
    BY <1>0, <1>2, <2>2 DEF TypeOK
  <2>9. \A i \in DOMAIN pushed' : \/ i \in DOMAIN pushed /\ pushed'[i] = pushed[i]
                                  \/ /\ i > Len(pushed) /\ i - Len(pushed) \in 1..Len(dms)
                                     /\ pushed'[i] = dms[i - Len(pushed)]
    BY <2>b, <2>8
  <2>10. \A i \in DOMAIN pushed : /\ pushed[i] \in Danmakus /\ IsBuilt(pushed[i])
                                  /\ ~After(pushed[i], since)
    BY <1>0, <2>8 DEF ReplayInv, BuiltInv, CursorInv
  <2>11. Key(last) \in Keys /\ ~After(last, Key(last))
    BY <2>1, <2>5, KeyOfDanmaku
  <2>12. TypeOK'
    BY <1>0, <1>2, <2>6, <2>8, <2>11 DEF TypeOK
  <2>13. BuiltInv'
    <3>1. \A i \in DOMAIN pushed' : IsBuilt(pushed'[i])
      BY <2>4, <2>9, <2>10
    <3> QED
      BY <1>0, <2>7, <3>1 DEF ReplayInv, BuiltInv, IsBuilt
  <2>14. ASSUME NEW i \in DOMAIN pushed', NEW j \in DOMAIN pushed', i < j
         PROVE  After(pushed'[j], Key(pushed'[i]))
    <3>1. CASE i \in DOMAIN pushed /\ j \in DOMAIN pushed
      BY <2>8, <2>14, <3>1 DEF ReplayInv, PagesInOrder
    <3>2. CASE i \in DOMAIN pushed /\ j \notin DOMAIN pushed
      BY <2>1, <2>4, <2>8, <2>9, <2>10, <3>2, AfterSeparates
    <3>3. CASE i \notin DOMAIN pushed
      <4>1. /\ i - Len(pushed) \in 1..Len(dms) /\ pushed'[i] = dms[i - Len(pushed)]
            /\ j - Len(pushed) \in 1..Len(dms) /\ pushed'[j] = dms[j - Len(pushed)]
            /\ i - Len(pushed) < j - Len(pushed)
        BY <2>2, <2>8, <2>9, <2>14, <3>3
      <4>2. /\ pushed'[i] = page[i - Len(pushed)] /\ i - Len(pushed) \in DOMAIN page
            /\ pushed'[j] = page[j - Len(pushed)] /\ j - Len(pushed) \in DOMAIN page
        BY <2>c, <4>1
      <4> QED
        BY <2>1, <4>1, <4>2
    <3> QED
      BY <3>1, <3>2, <3>3
  <2>15. PagesInOrder'
    BY <1>0, <2>14 DEF PagesInOrder, After, Key
  <2>16. ASSUME NEW i \in DOMAIN pushed' PROVE ~After(pushed'[i], Key(last))
    <3>1. CASE i \in DOMAIN pushed
      <4>1. pushed'[i] = pushed[i] /\ After(last, Key(pushed[i]))
        BY <2>1, <2>5, <2>8, <2>10, <3>1, AfterSeparates
      <4> QED
        BY <2>1, <2>5, <2>10, <3>1, <4>1, AfterIsAsymmetric
    <3>2. CASE i \notin DOMAIN pushed
      <4>1. PICK n \in 1..Len(dms) : pushed'[i] = dms[n]
        BY <2>9, <3>2
      <4>2. CASE n = Len(dms)
        BY <2>11, <4>1, <4>2
      <4>3. CASE n # Len(dms)
        <5>1. n < Len(dms) /\ n \in DOMAIN page /\ Len(dms) \in DOMAIN page /\ dms[n] = page[n]
          BY <2>b, <2>c, <4>3
        <5>2. After(last, Key(dms[n]))
          BY <2>1, <2>5, <5>1
        <5> QED
          BY <2>1, <2>5, <2>4, <4>1, <5>2, AfterIsAsymmetric
      <4> QED
        BY <4>2, <4>3
    <3> QED
      BY <3>1, <3>2
  <2>17. CursorInv'
    BY <1>0, <1>2, <2>16 DEF CursorInv, After, Key
  <2>18. PageInv'
    BY <1>2 DEF PageInv
  <2>19. ASSUME NEW d \in aired PROVE Settled(d)' \/ (hasMore /\ After(d, Key(last)))
    <3>0. d \in Danmakus
      BY <1>0 DEF TypeOK
    <3>1. \/ Settled(d) \/ d \in Range(page)
          \/ Len(page) = PageSize + 1 /\ After(d, Key(Last(page)))
      BY <1>0 DEF ReplayInv, AheadInv
    <3>2. CASE Settled(d)
      BY <1>0, <2>6, <3>2 DEF Settled, After
    <3>3. CASE d \in Range(dms)
      BY <2>6, <3>3 DEF Settled
    <3>4. CASE ~hasMore
      <4>1. dms = page /\ Len(page) # PageSize + 1
        BY <2>2, <3>4
      <4> QED
        BY <3>1, <3>2, <3>3, <4>1
    <3>5. CASE hasMore
      <4>1. /\ Len(page) = PageSize + 1 /\ Len(dms) = PageSize
            /\ last = page[PageSize] /\ Last(page) = page[PageSize + 1]
            /\ PageSize \in DOMAIN page /\ PageSize + 1 \in DOMAIN page
        <5>1. Len(page) = PageSize + 1 /\ Len(dms) = PageSize /\ PageSize \in Nat \ {0}
          BY <2>2, <3>5, ReconnectAssumption
        <5> QED
          BY <2>5, <2>a, <5>1 DEF Last
      <4>2. After(Last(page), Key(last)) /\ Last(page) \in Danmakus
        <5>1. PageSize < PageSize + 1
          BY ReconnectAssumption
        <5> QED
          BY <2>1, <4>1, <5>1
      <4>3. CASE d \in Range(page)
        <5>1. PICK i \in DOMAIN page : d = page[i]
          BY <4>3 DEF Range
        <5>2. CASE i = PageSize + 1
          BY <3>5, <4>1, <4>2, <5>1, <5>2
        <5>3. CASE i # PageSize + 1
          <6>1. i \in 1..Len(dms) /\ d = dms[i]
            BY <2>2, <4>1, <5>1, <5>3
          <6>2. d \in Range(dms)
            BY <2>5, <6>1 DEF Range
          <6> QED
            BY <3>3, <6>2
        <5> QED
          BY <5>2, <5>3
      <4>4. CASE After(d, Key(Last(page)))
        BY <2>1, <2>11, <3>0, <3>5, <4>2, <4>4, AfterIsTransitive
      <4> QED
        BY <3>1, <3>2, <4>3, <4>4
    <3> QED
      BY <3>4, <3>5
  <2>20. online
    BY <1>0 DEF ReplayInv, AheadInv
  <2>21. \A d \in aired : After(d, since)' <=> After(d, Key(last))
    BY <1>0, <1>2 DEF After
  <2>22. AheadInv'
    BY <1>0, <1>2, <2>19, <2>20, <2>21 DEF AheadInv
  <2> QED
    BY <2>12, <2>13, <2>15, <2>17, <2>18, <2>22 DEF ReplayInv
<1>3. \/ replay' = "cut" /\ UNCHANGED <<inbox, since, pushed>>
      \/ /\ inbox' = Append(inbox, dms)
         /\ since' = Key(last)
         /\ pushed' = pushed \o dms
         /\ replay' = IF ~hasMore THEN "complete"
                      ELSE IF Len(pushed') >= MaxReplay THEN "cut" ELSE "query"
  BY DEF EnqueuePage, Last
<1> HIDE DEF hasMore, dms, last
<1> QED
  BY <1>1, <1>2, <1>3

-----------------------------------------------------------------------------
(* Every step keeps the invariant.                                         *)

LEMMA ReplayNext == ReplayInv /\ [Next]_vars => ReplayInv'
<1> SUFFICES ASSUME ReplayInv, [Next]_vars PROVE ReplayInv'
  OBVIOUS
<1>0. TypeOK
  BY DEF ReplayInv
<1>1. ASSUME Tick \/ UNCHANGED vars PROVE ReplayInv'
  <2>1. /\ now' = now \/ now' = now + 1
        /\ UNCHANGED <<ts, visible, aired, online, inbox, received, cursor, replay, since, page,
                       pushed, from, lagging, drops>>
    BY <1>1 DEF Tick, vars, stream, viewer
  <2>2. TypeOK'
    BY <1>0, <2>1 DEF TypeOK
  <2>3. \A d \in visible' : IsBuilt(d)'
    BY <2>1 DEF ReplayInv, BuiltInv, IsBuilt
  <2> QED
    BY <2>1, <2>2, <2>3, StreamKeeps
<1>2. ASSUME NEW d \in Danmakus, buildDanmaku(d) PROVE ReplayInv'
  <2>1. /\ ts[d] = 0 /\ ts' = [ts EXCEPT ![d] = now]
        /\ UNCHANGED <<now, visible, aired, online, inbox, received, cursor, replay, since, page,
                       pushed, from, lagging, drops>>
    BY <1>2 DEF buildDanmaku, viewer
  <2>2. TypeOK'
    <3>1. ts' \in [Danmakus -> Nat]
      BY <1>0, <2>1 DEF TypeOK
    <3> QED
      BY <1>0, <2>1, <3>1 DEF TypeOK
  <2>3. \A x \in Danmakus : IsBuilt(x) => ts'[x] = ts[x]
    BY <1>0, <2>1 DEF TypeOK, IsBuilt
  <2>4. \A x \in visible' : IsBuilt(x)'
    BY <1>0, <2>1, <2>3 DEF TypeOK, ReplayInv, BuiltInv, IsBuilt
  <2> QED
    BY <2>1, <2>2, <2>3, <2>4, StreamKeeps
<1>3. ASSUME NEW d \in Danmakus, Add(d) PROVE ReplayInv'
  <2>1. /\ ts[d] # 0 /\ visible' = visible \cup {d}
        /\ UNCHANGED <<now, ts, aired, online, inbox, received, cursor, replay, since, page,
                       pushed, from, lagging, drops>>
    BY <1>3 DEF Add, viewer
  <2>2. TypeOK'
    BY <1>0, <2>1 DEF TypeOK
  <2>3. \A x \in visible' : IsBuilt(x)'
    BY <2>1 DEF ReplayInv, BuiltInv, IsBuilt
  <2> QED
    BY <2>1, <2>2, <2>3, StreamKeeps
<1> QED
  BY <1>1, <1>2, <1>3, BroadcastKeeps, ReceiveKeeps, EndKeeps, ServeKeeps, QueryKeeps, EnqueueKeeps
     DEF Next

\* The invariant of the replay holds in every state.
THEOREM ReplayInvariant == Spec => []ReplayInv
<1>1. Init => ReplayInv
  <2> SUFFICES ASSUME Init PROVE ReplayInv
    OBVIOUS
  <2> USE DEF Init, NoCursor
  <2>1. TypeOK
    <3>1. <<0, 0>> \in Keys
      BY DEF Keys
    <3>2. <<>> \in Seq(Seq(Danmakus)) /\ <<>> \in Seq(Danmakus)
      OBVIOUS
    <3>3. online \in BOOLEAN
      OBVIOUS
    <3> QED
      BY <3>1, <3>2, <3>3 DEF TypeOK
  <2>2. BuiltInv
    BY DEF BuiltInv
  <2>3. PageInv /\ AheadInv /\ CursorInv /\ PagesInOrder
    BY DEF PageInv, AheadInv, CursorInv, PagesInOrder
  <2> QED
    BY <2>1, <2>2, <2>3 DEF ReplayInv
<1> QED
  BY <1>1, ReplayNext, PTL DEF Spec

\* After sendHistoryOnReconnect came to its end and its pages have arrived, the
\* viewer has every danmaku that was broadcast, but for those that were not
\* after the cursor and those the writer had not written when the replay looked.
THEOREM ReplayIsComplete == Spec => []CompensationIsComplete
<1>1. ReplayInv => CompensationIsComplete
  <2> SUFFICES ASSUME ReplayInv, replay = "complete", inbox = <<>>, NEW d \in aired \ received
               PROVE  d \in lagging \/ ~After(d, from)
    BY DEF CompensationIsComplete
  <2>1. Queued = {}
    BY DEF Queued
  <2>2. Settled(d)
    BY DEF ReplayInv, AheadInv
  <2> QED
    BY <2>1, <2>2 DEF Settled
<1> QED
  BY <1>1, ReplayInvariant, PTL

\* The pages of one replay are in the order of the cursor, without a danmaku
\* twice, whatever rows are added between its queries.
THEOREM ReplayIsOrdered == Spec => []PagesInOrder
<1>1. ReplayInv => PagesInOrder
  BY DEF ReplayInv
<1> QED
  BY <1>1, ReplayInvariant, PTL

-----------------------------------------------------------------------------
(* What ListSince returns is determined.                                   *)

LEMMA Least ==
    ASSUME NEW T \in SUBSET Nat, T # {}
    PROVE  \E m \in T : \A k \in T : m <= k
<1> DEFINE R == {ss \in Nat \X Nat : ss[1] < ss[2]}
<1>1. R = OpToRel(<, Nat)
  BY Zenon DEF OpToRel
<1>2. IsWellFoundedOn(R, Nat)
  BY <1>1, NatLessThanWellFounded, Zenon
<1>3. PICK x \in T : \A y \in T : ~(<<y, x>> \in R)
  BY <1>2, WFMin
<1>4. ASSUME NEW y \in T PROVE x <= y
  <2>1. x \in Nat /\ y \in Nat
    OBVIOUS
  <2>2. ASSUME y < x PROVE <<y, x>> \in R
    <3>1. <<y, x>> \in Nat \X Nat /\ <<y, x>>[1] = y /\ <<y, x>>[2] = x
      BY <2>1
    <3> QED
      BY <2>2, <3>1
  <2>3. ~(y < x)
    BY <1>3, <2>2
  <2> QED
    BY <2>1, <2>3
<1> QED
  BY <1>4

\* Induction over the numbers up to a bound, on the set of those it holds for.
LEMMA UpTo ==
    ASSUME NEW n \in Nat, NEW T, 0 \in T, \A i \in 1..n : i - 1 \in T => i \in T
    PROVE  0..n \subseteq T
<1> DEFINE U == {i \in 0..n : i \notin T}
<1> SUFFICES ASSUME U # {} PROVE FALSE
  OBVIOUS
<1>1. U \in SUBSET Nat
  OBVIOUS
<1>2. PICK m \in U : \A k \in U : m <= k
  BY <1>1, Least
<1>3. m \in 1..n /\ m - 1 \in 0..n /\ ~(m <= m - 1)
  BY <1>2
<1> QED
  BY <1>2, <1>3

\* A set of danmaku has a first one.
LEMMA FirstOf ==
    ASSUME ts \in [Danmakus -> Nat], NEW M, M \subseteq Danmakus, M # {}
    PROVE  \E m \in M : \A d \in M : d # m => After(d, Key(m))
<1> DEFINE T == {ts[d] : d \in M}
<1>1. T \in SUBSET Nat /\ T # {}
  OBVIOUS
<1>2. PICK t \in T : \A x \in T : t <= x
  BY <1>1, Least
<1> DEFINE U == {d \in M : ts[d] = t}
<1>3. U \in SUBSET Nat /\ U # {}
  BY ReconnectAssumption
<1>4. PICK m \in U : \A x \in U : m <= x
  BY <1>3, Least
<1>5. ASSUME NEW d \in M, d # m PROVE After(d, Key(m))
  <2>1. /\ t <= ts[d] /\ (ts[d] = t => m <= d) /\ ts[m] = t
        /\ t \in Nat /\ ts[d] \in Nat /\ m \in Nat /\ d \in Nat
    BY <1>1, <1>2, <1>3, <1>4, ReconnectAssumption
  <2>2. ts[d] > ts[m] \/ (ts[d] = ts[m] /\ d > m)
    BY <1>5, <2>1
  <2> QED
    BY <2>2 DEF After, Key
<1> QED
  BY <1>5

\* What a member of ListSince is, with the type of its rows.
LEMMA ResultIs ==
    ASSUME TypeOK, NEW k, NEW limit \in Nat, NEW rows
    PROVE  rows \in ListSince(k, limit) <=>
             /\ rows \in Seq(visible) /\ Len(rows) <= limit
             /\ \A i \in 1..Len(rows) : After(rows[i], k)
             /\ \A i, j \in 1..Len(rows) : i < j => After(rows[j], Key(rows[i]))
             /\ \A d \in visible : (\A i \in 1..Len(rows) : rows[i] # d) /\ After(d, k)
                                      => Len(rows) = limit /\ After(d, Key(Last(rows)))
<1>1. rows \in UNION {[1..n -> visible] : n \in 0..limit} <=> rows \in Seq(visible) /\ Len(rows) <= limit
  <2>1. ASSUME NEW n \in 0..limit, rows \in [1..n -> visible]
        PROVE  rows \in Seq(visible) /\ Len(rows) <= limit
    BY <2>1
  <2>2. ASSUME rows \in Seq(visible), Len(rows) <= limit
        PROVE  Len(rows) \in 0..limit /\ rows \in [1..Len(rows) -> visible]
    BY <2>2, LenProperties
  <2> QED
    BY <2>1, <2>2
<1>2. ASSUME rows \in Seq(visible)
      PROVE  /\ DOMAIN rows = 1..Len(rows)
             /\ \A d : d \notin Range(rows) <=> \A i \in 1..Len(rows) : rows[i] # d
  <2>1. DOMAIN rows = 1..Len(rows)
    BY <1>2, LenProperties
  <2> QED
    BY <2>1 DEF Range
<1> QED
  BY <1>1, <1>2 DEF ListSince

\* For every limit there is a result: the result for one row less, with the
\* first of the missing rows behind it.
LEMMA ResultExists ==
    ASSUME TypeOK, NEW k \in Keys, NEW limit \in Nat
    PROVE  \E rows : rows \in ListSince(k, limit + 1)
<1> DEFINE T == {n \in 0..limit : \E rows : rows \in ListSince(k, n + 1)}
           Missing(rows) == {d \in visible : After(d, k) /\ \A i \in 1..Len(rows) : rows[i] # d}
<1>0. ts \in [Danmakus -> Nat] /\ visible \subseteq Danmakus
  BY DEF TypeOK
<1>1. ASSUME NEW rows \in Seq(visible), NEW n \in Nat, Len(rows) <= n, Missing(rows) = {},
             \A i \in 1..Len(rows) : After(rows[i], k),
             \A i, j \in 1..Len(rows) : i < j => After(rows[j], Key(rows[i]))
      PROVE  rows \in ListSince(k, n)
  BY <1>1, ResultIs
<1>2. ASSUME NEW rows \in Seq(visible), NEW n \in Nat, Len(rows) = n, Missing(rows) # {},
             \A i \in 1..n : After(rows[i], k),
             \A i, j \in 1..n : i < j => After(rows[j], Key(rows[i])),
             \A d \in Missing(rows) : \A i \in 1..n : After(d, Key(rows[i]))
      PROVE  \E more : more \in ListSince(k, n + 1)
  <2>1. PICK m \in Missing(rows) : \A d \in Missing(rows) : d # m => After(d, Key(m))
    <3>1. Missing(rows) \subseteq Danmakus
      BY <1>0
    <3> HIDE DEF Missing
    <3> QED
      BY <1>0, <1>2, <3>1, FirstOf
  <2>2. m \in visible /\ After(m, k) /\ \A i \in 1..n : After(m, Key(rows[i]))
    BY <1>2, <2>1
  <2> DEFINE more == Append(rows, m)
  <2>3. /\ more \in Seq(visible) /\ Len(more) = n + 1
        /\ \A i \in 1..n : more[i] = rows[i]
        /\ more[n + 1] = m
    BY <1>2, <2>2, AppendProperties
  <2> HIDE DEF more
  <2>4. \A i \in 1..(n + 1) : i \in 1..n \/ i = n + 1
    OBVIOUS
  <2>5. \A i \in 1..(n + 1) : After(more[i], k)
    BY <1>2, <2>2, <2>3, <2>4
  <2>6. ASSUME NEW i \in 1..(n + 1), NEW j \in 1..(n + 1), i < j PROVE After(more[j], Key(more[i]))
    <3>1. i \in 1..n
      BY <2>6
    <3>2. CASE j \in 1..n
      BY <1>2, <2>3, <2>6, <3>1, <3>2
    <3>3. CASE j = n + 1
      BY <2>2, <2>3, <3>1, <3>3
    <3> QED
      BY <2>4, <3>2, <3>3
  <2>7. ASSUME NEW d \in visible, \A i \in 1..(n + 1) : more[i] # d, After(d, k)
        PROVE  After(d, Key(Last(more)))
    <3>1. n + 1 \in 1..(n + 1) /\ \A i \in 1..n : i \in 1..(n + 1)
      OBVIOUS
    <3>2. d \in Missing(rows) /\ d # m
      BY <1>2, <2>3, <2>7, <3>1
    <3> QED
      BY <2>1, <2>3, <3>2 DEF Last
  <2>8. more \in ListSince(k, n + 1)
    BY <2>3, <2>5, <2>6, <2>7, ResultIs
  <2> QED
    BY <2>8
<1>3. 0 \in T
  <2> DEFINE none == <<>>
  <2>1. none \in Seq(visible) /\ Len(none) = 0 /\ 1..0 = {} /\ 0 + 1 = 1
    OBVIOUS
  <2> HIDE DEF none, Missing
  <2>2. /\ \A i \in 1..Len(none) : After(none[i], k)
        /\ \A i, j \in 1..Len(none) : i < j => After(none[j], Key(none[i]))
        /\ \A d \in Missing(none) : \A i \in 1..0 : After(d, Key(none[i]))
    BY <2>1
  <2>3. 0 \in Nat /\ 1 \in Nat /\ Len(none) <= 1 /\ 1..Len(none) = 1..0
    BY <2>1
  <2>4. CASE Missing(none) = {}
    <3>1. none \in ListSince(k, 1)
      BY <1>1, <2>1, <2>4, <2>2, <2>3
    <3> QED
      BY <2>1, <3>1
  <2>5. CASE Missing(none) # {}
    <3>1. \E more : more \in ListSince(k, 0 + 1)
      BY <1>2, <2>1, <2>5, <2>2, <2>3
    <3> QED
      BY <3>1
  <2> QED
    BY <2>4, <2>5
<1>4. ASSUME NEW n \in 1..limit, n - 1 \in T PROVE n \in T
  <2>1. PICK rows : rows \in ListSince(k, n)
    <3>1. (n - 1) + 1 = n
      OBVIOUS
    <3> QED
      BY <1>4, <3>1
  <2>2. /\ rows \in Seq(visible) /\ Len(rows) <= n /\ Len(rows) \in Nat
        /\ \A i \in 1..Len(rows) : After(rows[i], k)
        /\ \A i, j \in 1..Len(rows) : i < j => After(rows[j], Key(rows[i]))
        /\ \A d \in Missing(rows) : Len(rows) = n /\ After(d, Key(Last(rows)))
    BY <2>1, ResultIs
  <2>3. CASE Missing(rows) = {}
    <3>1. n + 1 \in Nat /\ Len(rows) <= n + 1
      BY <2>2
    <3>2. rows \in ListSince(k, n + 1)
      <4> HIDE DEF Missing
      <4> QED
        BY <1>1, <2>2, <2>3, <3>1
    <3> QED
      BY <3>2
  <2>4. CASE Missing(rows) # {}
    <3>1. Len(rows) = n /\ n \in 1..n
      BY <2>2, <2>4
    <3>2. ASSUME NEW d \in Missing(rows), NEW i \in 1..n PROVE After(d, Key(rows[i]))
      <4>1. After(d, Key(rows[n])) /\ rows[n] \in Danmakus /\ rows[i] \in Danmakus /\ d \in Danmakus
        BY <1>0, <2>2, <3>1 DEF Last
      <4>2. CASE i = n
        BY <4>1, <4>2
      <4>3. CASE i # n
        <5>1. After(rows[n], Key(rows[i])) /\ Key(rows[i]) \in Keys
          BY <1>0, <2>2, <3>1, <4>1, <4>3, KeyOfDanmaku
        <5> QED
          BY <1>0, <4>1, <5>1, AfterIsTransitive
      <4> QED
        BY <4>2, <4>3
    <3> HIDE DEF Missing
    <3>3. \E more : more \in ListSince(k, n + 1)
      BY <1>2, <2>2, <2>4, <3>1, <3>2
    <3> QED
      BY <3>3
  <2> QED
    BY <2>3, <2>4
<1>5. 0..limit \subseteq T
  <2> HIDE DEF T
  <2> QED
    BY <1>3, <1>4, UpTo
<1>6. limit \in 0..limit
  OBVIOUS
<1> QED
  BY <1>5, <1>6

\* Of two results that agree up to a row, the next row of one is there in the
\* other, and is no earlier.
LEMMA ResultsAgree ==
    ASSUME TypeOK, NEW k \in Keys, NEW limit \in Nat,
           NEW p \in ListSince(k, limit), NEW q \in ListSince(k, limit),
           NEW i \in 1..Len(p), \A j \in 1..(i - 1) : j \in 1..Len(q) /\ q[j] = p[j]
    PROVE  i \in 1..Len(q) /\ (p[i] # q[i] => After(p[i], Key(q[i])))
<1>0. ts \in [Danmakus -> Nat] /\ visible \subseteq Danmakus
  BY DEF TypeOK
<1>1. /\ p \in Seq(visible) /\ Len(p) <= limit /\ Len(p) \in Nat
      /\ \A j \in 1..Len(p) : p[j] \in visible /\ p[j] \in Danmakus /\ After(p[j], k)
      /\ \A h, j \in 1..Len(p) : h < j => After(p[j], Key(p[h]))
  <2>1. /\ p \in Seq(visible) /\ Len(p) <= limit
        /\ \A j \in 1..Len(p) : After(p[j], k)
        /\ \A h, j \in 1..Len(p) : h < j => After(p[j], Key(p[h]))
    BY ResultIs
  <2> QED
    BY <1>0, <2>1, ElementOfSeq
<1>2. /\ q \in Seq(visible) /\ Len(q) <= limit /\ Len(q) \in Nat
      /\ \A j \in 1..Len(q) : q[j] \in visible /\ q[j] \in Danmakus
      /\ \A h, j \in 1..Len(q) : h < j => After(q[j], Key(q[h]))
      /\ \A d \in visible : (\A j \in 1..Len(q) : q[j] # d) /\ After(d, k)
                               => Len(q) = limit /\ After(d, Key(Last(q)))
  <2>1. /\ q \in Seq(visible) /\ Len(q) <= limit
        /\ \A h, j \in 1..Len(q) : h < j => After(q[j], Key(q[h]))
        /\ \A d \in visible : (\A j \in 1..Len(q) : q[j] # d) /\ After(d, k)
                                 => Len(q) = limit /\ After(d, Key(Last(q)))
    BY ResultIs
  <2> QED
    BY <1>0, <2>1, ElementOfSeq
<1> DEFINE d == p[i]
<1>3. d \in visible /\ d \in Danmakus /\ After(d, k)
  BY <1>1
<1>4. ASSUME NEW j \in 1..(i - 1) PROVE q[j] # d
  <2>1. j \in 1..Len(p) /\ j < i
    BY <1>1
  <2>2. After(d, Key(p[j])) /\ q[j] = p[j]
    BY <1>1, <2>1
  <2> QED
    BY <1>0, <1>3, <2>2, KeyOfDanmaku
<1> HIDE DEF d
<1>5. i \in 1..Len(q)
  <2>1. SUFFICES ASSUME Len(q) < i PROVE FALSE
    BY <1>2
  <2>2. \A j \in 1..Len(q) : j \in 1..(i - 1)
    BY <1>2, <2>1
  <2>3. Len(q) = limit
    BY <1>2, <1>3, <1>4, <2>2
  <2> QED
    BY <1>1, <2>1, <2>3
<1>6. ASSUME d # q[i] PROVE After(d, Key(q[i]))
  <2>1. CASE \E j \in 1..Len(q) : q[j] = d
    <3>1. PICK j \in 1..Len(q) : q[j] = d
      BY <2>1
    <3>2. j > i
      BY <1>2, <1>4, <1>5, <1>6, <3>1
    <3> QED
      BY <1>2, <1>5, <3>1, <3>2
  <2>2. CASE \A j \in 1..Len(q) : q[j] # d
    <3>1. After(d, Key(q[Len(q)]))
      BY <1>2, <1>3, <2>2 DEF Last
    <3>2. CASE i = Len(q)
      BY <3>1, <3>2
    <3>3. CASE i # Len(q)
      <4>1. Len(q) \in 1..Len(q) /\ i < Len(q)
        BY <1>2, <1>5, <3>3
      <4>2. After(q[Len(q)], Key(q[i])) /\ q[Len(q)] \in Danmakus /\ Key(q[i]) \in Keys
        BY <1>0, <1>2, <1>5, <4>1, KeyOfDanmaku
      <4> QED
        BY <1>0, <1>3, <3>1, <4>2, AfterIsTransitive
    <3> QED
      BY <3>2, <3>3
  <2> QED
    BY <2>1, <2>2
<1> QED
  BY <1>5, <1>6 DEF d

LEMMA ResultIsUnique ==
    ASSUME TypeOK, NEW k \in Keys, NEW limit \in Nat,
           NEW p \in ListSince(k, limit), NEW q \in ListSince(k, limit)
    PROVE  p = q
<1> DEFINE T == {i \in 0..limit : \A j \in 1..i :
                    (j \in 1..Len(p) <=> j \in 1..Len(q)) /\ (j \in 1..Len(p) => p[j] = q[j])}
<1>0. ts \in [Danmakus -> Nat] /\ visible \subseteq Danmakus
  BY DEF TypeOK
<1>1. /\ p \in Seq(visible) /\ Len(p) <= limit /\ Len(p) \in Nat
      /\ q \in Seq(visible) /\ Len(q) <= limit /\ Len(q) \in Nat
      /\ \A j \in 1..Len(p) : p[j] \in Danmakus
      /\ \A j \in 1..Len(q) : q[j] \in Danmakus
  BY <1>0, ResultIs
<1>2. 0 \in T
  OBVIOUS
<1>3. ASSUME NEW i \in 1..limit, i - 1 \in T PROVE i \in T
  <2>1. ASSUME NEW j \in 1..(i - 1)
        PROVE  (j \in 1..Len(p) <=> j \in 1..Len(q)) /\ (j \in 1..Len(p) => p[j] = q[j])
    BY <1>3
  <2>2. i \in 1..Len(p) => \A j \in 1..(i - 1) : j \in 1..Len(p)
    BY <1>1
  <2>3. i \in 1..Len(q) => \A j \in 1..(i - 1) : j \in 1..Len(q)
    BY <1>1
  <2>4. ASSUME i \in 1..Len(p) PROVE i \in 1..Len(q) /\ (p[i] # q[i] => After(p[i], Key(q[i])))
    BY <2>1, <2>2, <2>4, ResultsAgree
  <2>5. ASSUME i \in 1..Len(q) PROVE i \in 1..Len(p) /\ (q[i] # p[i] => After(q[i], Key(p[i])))
    BY <2>1, <2>3, <2>5, ResultsAgree
  <2>6. ASSUME i \in 1..Len(p) PROVE p[i] = q[i]
    BY <1>0, <1>1, <2>4, <2>5, <2>6, AfterIsAsymmetric
  <2>7. \A j \in 1..i : j \in 1..(i - 1) \/ j = i
    OBVIOUS
  <2>8. i \in 0..limit
    OBVIOUS
  <2> QED
    BY <2>1, <2>4, <2>5, <2>6, <2>7, <2>8
<1>4. 0..limit \subseteq T
  <2> HIDE DEF T
  <2> QED
    BY <1>2, <1>3, UpTo
<1>5. \A j \in 1..limit : (j \in 1..Len(p) <=> j \in 1..Len(q)) /\ (j \in 1..Len(p) => p[j] = q[j])
  BY <1>4
<1>6. Len(p) = Len(q)
  <2>1. CASE Len(p) < Len(q)
    <3>1. Len(q) \in 1..limit /\ Len(q) \in 1..Len(q) /\ Len(q) \notin 1..Len(p)
      BY <1>1, <2>1
    <3> QED
      BY <1>5, <3>1
  <2>2. CASE Len(q) < Len(p)
    <3>1. Len(p) \in 1..limit /\ Len(p) \in 1..Len(p) /\ Len(p) \notin 1..Len(q)
      BY <1>1, <2>2
    <3> QED
      BY <1>5, <3>1
  <2> QED
    BY <1>1, <2>1, <2>2
<1>7. \A j \in 1..Len(p) : p[j] = q[j]
  BY <1>1, <1>5
<1> QED
  BY <1>1, <1>6, <1>7, SeqEqual

\* The rows, their times and the cursor determine what a query of the replay
\* returns: whatever was written before it and in between, ListSince has
\* exactly one result.
THEOREM QueriesAreDetermined == Spec => []QueryIsDetermined
<1>1. ReplayInv => QueryIsDetermined
  <2> SUFFICES ASSUME ReplayInv PROVE QueryIsDetermined
    OBVIOUS
  <2>1. TypeOK /\ since \in Keys /\ PageSize \in Nat /\ PageSize + 1 \in Nat
    BY ReconnectAssumption DEF ReplayInv, TypeOK
  <2>2. PICK rows : rows \in ListSince(since, PageSize + 1)
    BY <2>1, ResultExists
  <2>3. \A p \in ListSince(since, PageSize + 1) : p = rows
    BY <2>1, <2>2, ResultIsUnique
  <2> QED
    BY <2>2, <2>3 DEF QueryIsDetermined
<1> QED
  BY <1>1, ReplayInvariant, PTL

=============================================================================
