------------------------------ MODULE Reconnect ------------------------------
(***************************************************************************)
(* A viewer who loses the connection and comes back: the live stream of    *)
(* the room, the cursor the viewer keeps, and sendHistoryOnReconnect,      *)
(* which replays from the store what came after the cursor.                *)
(*                                                                         *)
(* The cursor is the time and the id of the danmaku the viewer got last.   *)
(* A danmaku gets its time, cut to the millisecond, when it is built; it   *)
(* becomes visible to ListSince when its row is written as approved, or    *)
(* when a reviewer approves it; it is broadcast after that on the direct   *)
(* path, and before or after it on the asynchronous paths.                 *)
(*                                                                         *)
(* Ids are numbers, for their order; which danmaku has which id is left    *)
(* open.  room.broadcast is never full here: WsHub has that case.          *)
(***************************************************************************)
EXTENDS Naturals, Sequences, SequencesExt

CONSTANTS
    Danmakus,     \* ids of the danmaku of the room
    SendCap,      \* capacity of client.send
    PageSize,     \* 100 in the code
    MaxReplay,    \* 1000 in the code
    MaxTime,      \* bound: milliseconds that pass
    MaxDrops      \* bound: lost connections

ASSUME ReconnectAssumption ==
    /\ Danmakus \subseteq Nat \ {0}
    /\ SendCap \in Nat \ {0} /\ PageSize \in Nat \ {0} /\ MaxReplay \in Nat \ {0}
    /\ MaxTime \in Nat \ {0} /\ MaxDrops \in Nat

VARIABLES
    now,        \* the clock, in milliseconds
    ts,         \* Timestamp of a danmaku, 0 before it is built
    visible,    \* rows that ListSince returns
    aired,      \* danmaku that were broadcast
    online,     \* whether the viewer is registered in the room
    inbox,      \* client.send: each message a sequence of danmaku
    received,   \* danmaku the viewer got
    cursor,     \* time and id of the one it got last, <<0, 0>> without one
    replay,     \* sendHistoryOnReconnect: "none", "query", "push",
                \* "complete", "cut" (an error, a full queue, the limit)
    since,      \* sinceTime and lastMessageID of its next query
    page,       \* what the query returned
    pushed,     \* the danmaku it has sent; their number is replayed
    from,       \* history: the cursor the replay began with
    lagging,    \* history: danmaku that had been broadcast but not written
                \* when the replay looked
    drops       \* number of lost connections

stream == <<now, ts, visible, aired>>
viewer == <<received, cursor>>
vars   == <<stream, online, inbox, viewer, replay, since, page, pushed, from, lagging, drops>>

NoCursor == <<0, 0>>
Key(d)   == <<ts[d], d>>

\* The condition of the cursor, on time first and on the id for equal times.
After(d, key) == ts[d] > key[1] \/ (ts[d] = key[1] /\ d > key[2])

Init ==
    /\ now = 1
    /\ ts = [d \in Danmakus |-> 0]
    /\ visible = {}
    /\ aired = {}
    /\ online = TRUE
    /\ inbox = <<>>
    /\ received = {}
    /\ cursor = NoCursor
    /\ replay = "none"
    /\ since = NoCursor
    /\ page = <<>>
    /\ pushed = <<>>
    /\ from = NoCursor
    /\ lagging = {}
    /\ drops = 0

-----------------------------------------------------------------------------
(* The stream.                                                             *)

Tick ==
    /\ now < MaxTime
    /\ now' = now + 1
    /\ UNCHANGED <<ts, visible, aired, online, inbox, viewer, replay, since, page, pushed, from, lagging, drops>>

buildDanmaku(d) ==
    /\ ts[d] = 0
    /\ ts' = [ts EXCEPT ![d] = now]
    /\ UNCHANGED <<now, visible, aired, online, inbox, viewer, replay, since, page, pushed, from, lagging, drops>>

\* The row is written as approved, or a flagged one is approved.
Add(d) ==
    /\ ts[d] # 0 /\ d \notin visible
    /\ visible' = visible \cup {d}
    /\ UNCHANGED <<now, ts, aired, online, inbox, viewer, replay, since, page, pushed, from, lagging, drops>>

\* The connection is gone, with everything that waited in client.send.  The
\* replay notices at its next enqueue; until then it only queries, which nobody
\* sees, and a new connection has a replay of its own: it ends here.
Lose ==
    /\ online' = FALSE
    /\ inbox' = <<>>
    /\ replay' = "none"
    /\ drops' = drops + 1

\* A client whose queue is full is kicked.
BroadcastToRoom(d) ==
    /\ ts[d] # 0 /\ d \notin aired
    /\ aired' = aired \cup {d}
    /\ \/ /\ online => Len(inbox) < SendCap
          /\ inbox' = IF online THEN Append(inbox, <<d>>) ELSE inbox
          /\ UNCHANGED <<online, replay, drops>>
       \/ online /\ Len(inbox) = SendCap /\ drops < MaxDrops /\ Lose
    /\ UNCHANGED <<now, ts, visible, viewer, since, page, pushed, from, lagging>>

-----------------------------------------------------------------------------
(* The viewer.                                                             *)

\* A message arrives, a danmaku or a page, and moves the cursor.
Receive ==
    /\ inbox # <<>>
    /\ received' = received \cup Range(Head(inbox))
    /\ cursor' = Key(Last(Head(inbox)))
    /\ inbox' = Tail(inbox)
    /\ UNCHANGED <<stream, online, replay, since, page, pushed, from, lagging, drops>>

Disconnect ==
    /\ online /\ drops < MaxDrops
    /\ Lose
    /\ UNCHANGED <<stream, viewer, since, page, pushed, from, lagging>>

\* The client is registered in the room first, so that nothing broadcast from
\* now on escapes it; the history comes after.
ServeWs ==
    /\ ~online
    /\ online' = TRUE
    /\ replay' = IF cursor = NoCursor THEN "none" ELSE "query"
    /\ since' = cursor
    /\ from' = cursor
    /\ pushed' = <<>>
    /\ lagging' = {}
    /\ UNCHANGED <<stream, inbox, viewer, page, drops>>

-----------------------------------------------------------------------------
(* The replay.                                                             *)

\* Mutant: only later milliseconds count, without the id.
ListSinceByTime(key, limit) ==
    {rows \in UNION {[1..n -> visible] : n \in 0..limit} :
        /\ \A i \in DOMAIN rows : ts[rows[i]] > key[1]
        /\ \A i, j \in DOMAIN rows : i < j => After(rows[j], Key(rows[i]))
        /\ \A d \in visible \ Range(rows) :
              ts[d] > key[1] => Len(rows) = limit /\ After(d, Key(Last(rows)))}

\* What a query may return: visible danmaku after the cursor, in the order of
\* the cursor, at most limit; what is missing comes after a full result.
ListSince(key, limit) ==
    {rows \in UNION {[1..n -> visible] : n \in 0..limit} :
        /\ \A i \in DOMAIN rows : After(rows[i], key)
        /\ \A i, j \in DOMAIN rows : i < j => After(rows[j], Key(rows[i]))
        /\ \A d \in visible \ Range(rows) :
              After(d, key) => Len(rows) = limit /\ After(d, Key(Last(rows)))}

\* One more than a page is asked for, to see whether there is more.
QueryHistory ==
    /\ replay = "query"
    /\ lagging' = lagging \cup (aired \ visible)
    /\ page' \in ListSince(since, PageSize + 1)
    /\ replay' = IF page' = <<>> THEN "complete" ELSE "push"
    /\ UNCHANGED <<stream, online, inbox, viewer, since, pushed, from, drops>>

QueryFails ==
    /\ replay = "query"
    /\ replay' = "cut"
    /\ UNCHANGED <<stream, online, inbox, viewer, since, page, pushed, from, lagging, drops>>

\* Mutant: the next query starts where the first one did.
EnqueuePageSameCursor ==
    LET hasMore == Len(page) > PageSize
        dms     == IF hasMore THEN SubSeq(page, 1, PageSize) ELSE page
    IN
    /\ replay = "push"
    /\ Len(inbox) < SendCap
    /\ inbox' = Append(inbox, dms)
    /\ pushed' = pushed \o dms
    /\ replay' = IF ~hasMore THEN "complete"
                 ELSE IF Len(pushed') >= MaxReplay THEN "cut" ELSE "query"
    /\ UNCHANGED <<stream, online, viewer, since, page, from, lagging, drops>>

\* A page is put into the queue of the client, which may be full of live
\* messages by now; then the replay is given up.
EnqueuePage ==
    LET hasMore == Len(page) > PageSize
        dms     == IF hasMore THEN SubSeq(page, 1, PageSize) ELSE page
    IN
    /\ replay = "push"
    /\ IF Len(inbox) = SendCap
       THEN /\ replay' = "cut"
            /\ UNCHANGED <<inbox, since, pushed>>
       ELSE /\ inbox' = Append(inbox, dms)
            /\ since' = Key(Last(dms))
            /\ pushed' = pushed \o dms
            /\ replay' = IF ~hasMore THEN "complete"
                         ELSE IF Len(pushed') >= MaxReplay THEN "cut" ELSE "query"
    /\ UNCHANGED <<stream, online, viewer, page, from, lagging, drops>>

Next ==
    \/ Tick
    \/ \E d \in Danmakus : buildDanmaku(d) \/ Add(d) \/ BroadcastToRoom(d)
    \/ Receive \/ Disconnect \/ ServeWs
    \/ QueryHistory \/ QueryFails \/ EnqueuePage

Spec == Init /\ [][Next]_vars

-----------------------------------------------------------------------------
(* Properties.                                                             *)

\* After a replay that came to its end, and once its pages have arrived, the
\* viewer has every danmaku that was broadcast so far, with two exceptions that
\* the protocol of the cursor cannot close: those not after the cursor the
\* viewer came back with (built earlier, or with a smaller id in the same
\* millisecond, but broadcast later than one the viewer already had), and those
\* the asynchronous writer had not written yet when the replay looked.
CompensationIsComplete ==
    replay = "complete" /\ inbox = <<>> =>
        \A d \in aired \ received : d \in lagging \/ ~After(d, from)

\* The pages of one replay go on where the page before ended: no danmaku is
\* sent twice and none out of order, although rows are added between queries.
PagesInOrder ==
    \A i, j \in DOMAIN pushed : i < j => After(pushed[j], Key(pushed[i]))

\* Rows and cursor leave no choice in what the next query returns.
QueryIsDetermined ==
    LET results == ListSince(since, PageSize + 1)
    IN  \E rows \in results : results = {rows}

-----------------------------------------------------------------------------
(* The inductive invariant.                                                *)

Keys == Nat \X Nat
IsBuilt(d) == ts[d] # 0

TypeOK ==
    /\ now \in Nat \ {0} /\ ts \in [Danmakus -> Nat]
    /\ visible \subseteq Danmakus /\ aired \subseteq Danmakus
    /\ received \subseteq Danmakus /\ lagging \subseteq Danmakus
    /\ online \in BOOLEAN /\ drops \in Nat
    /\ inbox \in Seq(Seq(Danmakus)) /\ page \in Seq(Danmakus) /\ pushed \in Seq(Danmakus)
    /\ cursor \in Keys /\ since \in Keys /\ from \in Keys
    /\ replay \in {"none", "query", "push", "complete", "cut"}

\* A danmaku has its time for good before it is written, broadcast or replayed.
BuiltInv ==
    /\ \A d \in visible \cup aired : IsBuilt(d)
    /\ \A i \in DOMAIN page : IsBuilt(page[i])
    /\ \A i \in DOMAIN pushed : IsBuilt(pushed[i])
    /\ \A i \in DOMAIN inbox : inbox[i] # <<>>

\* What waits in client.send.
Queued == UNION {Range(inbox[i]) : i \in DOMAIN inbox}

\* The viewer has the danmaku or will get it, or it is one of the exceptions
\* of CompensationIsComplete.
Settled(d) == d \in received \cup Queued \cup lagging \/ ~After(d, from)

\* The page at hand continues behind the cursor of the replay.
PageInv ==
    replay = "push" =>
        /\ page # <<>> /\ Len(page) <= PageSize + 1
        /\ \A i \in DOMAIN page : After(page[i], since)
        /\ \A i, j \in DOMAIN page : i < j => After(page[j], Key(page[i]))

\* What was broadcast and is not settled is still ahead of the replay: behind
\* its cursor, or in the page, or behind the row that says there is more.
AheadInv ==
    /\ replay \in {"query", "push", "complete"} => online
    /\ replay = "query" => \A d \in aired : Settled(d) \/ After(d, since)
    /\ replay = "push" =>
         \A d \in aired : \/ Settled(d) \/ d \in Range(page)
                          \/ Len(page) = PageSize + 1 /\ After(d, Key(Last(page)))
    /\ replay = "complete" => \A d \in aired : Settled(d)

\* Nothing the replay sent is behind its cursor.
CursorInv ==
    replay \in {"query", "push"} => \A i \in DOMAIN pushed : ~After(pushed[i], since)

ReplayInv == TypeOK /\ BuiltInv /\ PageInv /\ AheadInv /\ CursorInv /\ PagesInOrder

=============================================================================
