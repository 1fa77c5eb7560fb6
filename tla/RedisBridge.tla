---------------------------- MODULE RedisBridge ----------------------------
(***************************************************************************)
(* Broadcasts between instances through Redis: BroadcastToRoom and the     *)
(* bounded queue behind it, redisPublishLoop, the subscription loop of     *)
(* redisclient with its reconnects, redisSubscribeLoop, and Hub.Shutdown   *)
(* as far as it stops them.                                                *)
(*                                                                         *)
(* A message is <<i, n>>, the n-th broadcast of instance i; rooms and      *)
(* payloads make no difference here.  Local delivery on the instance that  *)
(* broadcasts is the subject of WsHub.  Delays only decide when a step     *)
(* happens, so the back-off is not part of the state.                      *)
(*                                                                         *)
(* Redis itself, and the client library, are external: the broker keeps    *)
(* nothing for a subscriber that is not connected, the library repeats a   *)
(* command that was not answered up to MaxRetries times, and a command it  *)
(* gave up may still be executed later, after newer ones.  Only            *)
(* this program publishes on the channels room:*, so every payload is a    *)
(* Message that can be read.                                               *)
(***************************************************************************)
EXTENDS Naturals, Sequences, FiniteSets

CONSTANTS
    Instances,
    Senders,      \* the instances whose users send
    PublishCap,   \* capacity of redisPublishChan, 256 in the code
    ChanCap,      \* capacity of the subscription channel, 64 in the code
    MaxRetries,   \* repetitions of a command by the library
    MaxSent,      \* bound: broadcasts per sender
    MaxFaults     \* bound: broken connections and outages of Redis

ASSUME BridgeAssumption ==
    /\ Senders \subseteq Instances
    /\ PublishCap \in Nat \ {0} /\ ChanCap \in Nat \ {0}
    /\ MaxRetries \in Nat /\ MaxSent \in Nat /\ MaxFaults \in Nat

VARIABLES
    sent,       \* number of broadcasts of each instance
    queue,      \* redisPublishChan, the numbers of the messages
    pub,        \* publish loop: "select", "publish", "ended"
    job,        \* the message it holds, 0 without one
    tries,      \* how often the library has sent the command already
    sub,        \* subscription loop: "connecting", "subscribed", "handing",
                \* "waiting", "ended"
    hand,       \* the message it is handing to the channel
    stream,     \* messages on the way from the broker to a connected subscriber
    ch,         \* the channel of StartSubscription
    ranging,    \* the instances whose redisSubscribeLoop still ranges over ch
    got,        \* got[j]: history, the messages that j gave to its rooms
    dropped,    \* dropped[j]: history, those its rooms had no place for
    unanswered, \* history: the messages with an attempt that was not answered
    late,       \* external: such attempts <<i, n, tries>> before the broker
    down,       \* Hub.Shutdown: "no", "flag" (shuttingDown is set), "wait"
                \* (the context is cancelled), "returned"
    redisUp,    \* external: the broker can be reached
    faults      \* number of faults so far

vars == <<sent, queue, pub, job, tries, sub, hand, stream, ch, ranging, got, dropped,
          unanswered, late, down, redisUp, faults>>

publisher  == <<queue, pub, job, tries>>
subscriber == <<sub, hand, ch>>
broker     == <<unanswered, late>>
rooms      == <<got, dropped>>

Nothing == <<>>

Init ==
    /\ sent = [i \in Instances |-> 0]
    /\ queue = [i \in Instances |-> <<>>]
    /\ pub = [i \in Instances |-> "select"]
    /\ job = [i \in Instances |-> 0]
    /\ tries = [i \in Instances |-> 0]
    /\ sub = [i \in Instances |-> "connecting"]
    /\ hand = [i \in Instances |-> Nothing]
    /\ stream = [i \in Instances |-> <<>>]
    /\ ch = [i \in Instances |-> <<>>]
    /\ ranging = Instances
    /\ got = [i \in Instances |-> <<>>]
    /\ dropped = [i \in Instances |-> {}]
    /\ unanswered = {}
    /\ late = {}
    /\ down = [i \in Instances |-> "no"]
    /\ redisUp = TRUE
    /\ faults = 0

ShuttingDown(i) == down[i] # "no"
Cancelled(i)    == down[i] \in {"wait", "returned"}

-----------------------------------------------------------------------------
(* Publishing.                                                             *)

\* A broadcast is queued for the other instances, or dropped for them when
\* the queue is full.
BroadcastToRoom(i) ==
    /\ ~ShuttingDown(i) /\ sent[i] < MaxSent
    /\ sent' = [sent EXCEPT ![i] = @ + 1]
    /\ queue' = IF Len(queue[i]) < PublishCap
                THEN [queue EXCEPT ![i] = Append(@, sent[i] + 1)] ELSE queue
    /\ UNCHANGED <<pub, job, tries, subscriber, stream, ranging, rooms, broker, down, redisUp, faults>>

\* The loop takes the next job also when the context is cancelled already:
\* select chooses among the cases that are ready.
TakeJob(i) ==
    /\ pub[i] = "select" /\ queue[i] # <<>>
    /\ pub' = [pub EXCEPT ![i] = "publish"]
    /\ job' = [job EXCEPT ![i] = Head(queue[i])]
    /\ queue' = [queue EXCEPT ![i] = Tail(@)]
    /\ UNCHANGED <<sent, tries, subscriber, stream, ranging, rooms, broker, down, redisUp, faults>>

\* The broker passes a message to every connected subscriber, the instance
\* that published it included.
Reach(m) ==
    stream' = [j \in Instances |->
                  IF sub[j] \in {"subscribed", "handing"} THEN Append(stream[j], m) ELSE stream[j]]

Published(i) ==
    /\ pub' = [pub EXCEPT ![i] = "select"]
    /\ job' = [job EXCEPT ![i] = 0]
    /\ tries' = [tries EXCEPT ![i] = 0]

\* The library tries again, unless the context is cancelled; then, or after
\* the last attempt, the error is counted and the message is given up.
Retry(i) ==
    IF tries[i] < MaxRetries /\ ~Cancelled(i)
    THEN tries' = [tries EXCEPT ![i] = @ + 1] /\ UNCHANGED <<pub, job>>
    ELSE Published(i)

PublishOk(i) ==
    /\ pub[i] = "publish" /\ redisUp
    /\ Reach(<<i, job[i]>>)
    /\ Published(i)
    /\ UNCHANGED <<sent, queue, subscriber, ranging, rooms, broker, down, redisUp, faults>>

\* No answer came in time.  The broker may execute the command, now or later.
PublishUnanswered(i) ==
    /\ pub[i] = "publish" /\ redisUp /\ faults < MaxFaults
    /\ unanswered' = unanswered \cup {<<i, job[i]>>}
    /\ late' = late \cup {<<i, job[i], tries[i]>>}
    /\ Retry(i)
    /\ faults' = faults + 1
    /\ UNCHANGED <<sent, queue, subscriber, stream, ranging, rooms, down, redisUp>>

\* The broker gets to a command that its sender no longer waits for.
ExecuteLate(c) ==
    /\ redisUp
    /\ Reach(<<c[1], c[2]>>)
    /\ late' = late \ {c}
    /\ UNCHANGED <<sent, publisher, subscriber, ranging, rooms, unanswered, down, redisUp, faults>>

\* The broker cannot be reached, or the cancelled context ends the attempt.
PublishFails(i) ==
    /\ pub[i] = "publish" /\ (~redisUp \/ Cancelled(i))
    /\ Retry(i)
    /\ UNCHANGED <<sent, queue, subscriber, stream, ranging, rooms, broker, down, redisUp, faults>>

PublishLoopEnds(i) ==
    /\ pub[i] = "select" /\ Cancelled(i)
    /\ pub' = [pub EXCEPT ![i] = "ended"]
    /\ UNCHANGED <<sent, queue, job, tries, subscriber, stream, ranging, rooms, broker, down, redisUp, faults>>

PublishStep(i) == \/ TakeJob(i) \/ PublishOk(i) \/ PublishUnanswered(i) \/ PublishFails(i)
                  \/ PublishLoopEnds(i)

-----------------------------------------------------------------------------
(* Subscribing.                                                            *)

\* Also when the context is cancelled after the connection was made.
Subscribe(i) ==
    /\ sub[i] = "connecting" /\ redisUp
    /\ sub' = [sub EXCEPT ![i] = "subscribed"]
    /\ stream' = [stream EXCEPT ![i] = <<>>]
    /\ UNCHANGED <<sent, publisher, hand, ch, ranging, rooms, broker, down, redisUp, faults>>

\* Mutant: the context is looked at during the back-off only.
waitForReconnectUnchecked(i) ==
    /\ sub' = [sub EXCEPT ![i] = "waiting"]
    /\ stream' = [stream EXCEPT ![i] = <<>>]

\* The subscription is closed, with all that was on its way; the loop waits
\* for its back-off, or ends with the context.
waitForReconnect(i) ==
    /\ sub' = [sub EXCEPT ![i] = IF Cancelled(i) THEN "ended" ELSE "waiting"]
    /\ stream' = [stream EXCEPT ![i] = <<>>]

SubscribeFails(i) ==
    /\ sub[i] = "connecting" /\ (~redisUp \/ Cancelled(i))
    /\ waitForReconnect(i)
    /\ UNCHANGED <<sent, publisher, hand, ch, ranging, rooms, broker, down, redisUp, faults>>

\* Mutant: only the context ends the back-off.
BackoffNeverEnds(i) ==
    /\ sub[i] = "waiting" /\ Cancelled(i)
    /\ sub' = [sub EXCEPT ![i] = "ended"]
    /\ UNCHANGED <<sent, publisher, hand, stream, ch, ranging, rooms, broker, down, redisUp, faults>>

\* The timer of the back-off, or the context, whichever select takes.
BackoffEnds(i) ==
    /\ sub[i] = "waiting"
    /\ \/ sub' = [sub EXCEPT ![i] = "connecting"]
       \/ Cancelled(i) /\ sub' = [sub EXCEPT ![i] = "ended"]
    /\ UNCHANGED <<sent, publisher, hand, stream, ch, ranging, rooms, broker, down, redisUp, faults>>

\* Mutant: the source of a message is not looked at.
ReceiveAll(i) ==
    /\ sub[i] = "subscribed" /\ stream[i] # <<>>
    /\ stream' = [stream EXCEPT ![i] = Tail(@)]
    /\ sub' = [sub EXCEPT ![i] = "handing"]
    /\ hand' = [hand EXCEPT ![i] = Head(stream[i])]
    /\ UNCHANGED <<sent, publisher, ch, ranging, rooms, broker, down, redisUp, faults>>

\* A message of this very instance is skipped.
Receive(i) ==
    LET m == Head(stream[i]) IN
    /\ sub[i] = "subscribed" /\ stream[i] # <<>>
    /\ stream' = [stream EXCEPT ![i] = Tail(@)]
    /\ IF m[1] = i
       THEN UNCHANGED <<sub, hand>>
       ELSE sub' = [sub EXCEPT ![i] = "handing"] /\ hand' = [hand EXCEPT ![i] = m]
    /\ UNCHANGED <<sent, publisher, ch, ranging, rooms, broker, down, redisUp, faults>>

\* The connection breaks, or Redis is gone.  ReceiveMessage reads from the
\* socket without a deadline and does not look at the context meanwhile;
\* after the cancellation a break is not counted as a fault.
ReceiveFails(i) ==
    /\ sub[i] = "subscribed"
    /\ \/ (~redisUp \/ Cancelled(i)) /\ UNCHANGED faults
       \/ faults < MaxFaults /\ faults' = faults + 1
    /\ waitForReconnect(i)
    /\ UNCHANGED <<sent, publisher, hand, ch, ranging, rooms, broker, down, redisUp>>

\* The loop blocks while the channel is full.
HandOver(i) ==
    /\ sub[i] = "handing" /\ Len(ch[i]) < ChanCap
    /\ ch' = [ch EXCEPT ![i] = Append(@, hand[i])]
    /\ hand' = [hand EXCEPT ![i] = Nothing]
    /\ sub' = [sub EXCEPT ![i] = "subscribed"]
    /\ UNCHANGED <<sent, publisher, stream, ranging, rooms, broker, down, redisUp, faults>>

HandOverCancelled(i) ==
    /\ sub[i] = "handing" /\ Cancelled(i)
    /\ sub' = [sub EXCEPT ![i] = "ended"]
    /\ hand' = [hand EXCEPT ![i] = Nothing]
    /\ stream' = [stream EXCEPT ![i] = <<>>]
    /\ UNCHANGED <<sent, publisher, ch, ranging, rooms, broker, down, redisUp, faults>>

SubscriptionStep(i) ==
    \/ Subscribe(i) \/ SubscribeFails(i) \/ BackoffEnds(i)
    \/ Receive(i) \/ HandOver(i) \/ HandOverCancelled(i)

\* redisSubscribeLoop takes a message, and BroadcastToRoomLocal passes it to
\* the room, unless the hub is shutting down; it is dropped when there is no
\* such room or the room's queue is full.  Nothing is published again.
BroadcastToRoomLocal(i) ==
    LET m == Head(ch[i]) IN
    /\ i \in ranging /\ ch[i] # <<>>
    /\ ch' = [ch EXCEPT ![i] = Tail(@)]
    /\ \/ ShuttingDown(i) /\ UNCHANGED rooms
       \/ ~ShuttingDown(i) /\ got' = [got EXCEPT ![i] = Append(@, m)] /\ UNCHANGED dropped
       \/ ~ShuttingDown(i) /\ dropped' = [dropped EXCEPT ![i] = @ \cup {m}] /\ UNCHANGED got
    /\ UNCHANGED <<sent, publisher, sub, hand, stream, ranging, broker, down, redisUp, faults>>

\* Mutant: the loop takes an empty channel for a closed one.
RangeEndsEarly(i) ==
    /\ i \in ranging /\ ch[i] = <<>>
    /\ ranging' = ranging \ {i}
    /\ UNCHANGED <<sent, publisher, subscriber, stream, rooms, broker, down, redisUp, faults>>

\* The channel is closed and empty.
RangeEnds(i) ==
    /\ i \in ranging /\ ch[i] = <<>> /\ sub[i] = "ended"
    /\ ranging' = ranging \ {i}
    /\ UNCHANGED <<sent, publisher, subscriber, stream, rooms, broker, down, redisUp, faults>>

RangeStep(i) == BroadcastToRoomLocal(i) \/ RangeEnds(i)

-----------------------------------------------------------------------------
(* Hub.Shutdown, and Redis.                                                *)

\* Set shuttingDown, cancel the context, wait for both loops.
Shutdown(i) ==
    /\ \/ down[i] = "no" /\ down' = [down EXCEPT ![i] = "flag"]
       \/ down[i] = "flag" /\ down' = [down EXCEPT ![i] = "wait"]
       \/ /\ down[i] = "wait" /\ pub[i] = "ended" /\ i \notin ranging
          /\ down' = [down EXCEPT ![i] = "returned"]
    /\ UNCHANGED <<sent, publisher, subscriber, stream, ranging, rooms, broker, redisUp, faults>>

RedisGoes ==
    /\ redisUp /\ faults < MaxFaults
    /\ redisUp' = FALSE
    /\ faults' = faults + 1
    /\ UNCHANGED <<sent, publisher, subscriber, stream, ranging, rooms, broker, down>>

RedisReturns ==
    /\ ~redisUp
    /\ redisUp' = TRUE
    /\ UNCHANGED <<sent, publisher, subscriber, stream, ranging, rooms, broker, down, faults>>

Next ==
    \/ \E i \in Senders : BroadcastToRoom(i)
    \/ \E i \in Instances : \/ PublishStep(i) \/ SubscriptionStep(i) \/ ReceiveFails(i)
                            \/ RangeStep(i) \/ Shutdown(i)
    \/ \E c \in late : ExecuteLate(c)
    \/ RedisGoes \/ RedisReturns

Spec == Init /\ [][Next]_vars

\* The loops keep running, a Shutdown that was called goes on, and an outage
\* ends.  Nobody is obliged to broadcast or to call Shutdown, a subscription
\* without messages need not return, cancelled or not, and a command that was
\* given up need not be executed.
Fairness ==
    /\ \A i \in Instances : /\ WF_vars(PublishStep(i))
                            /\ WF_vars(SubscriptionStep(i))
                            /\ WF_vars(RangeStep(i))
                            /\ WF_vars(ShuttingDown(i) /\ Shutdown(i))
    /\ WF_vars(RedisReturns)

FairSpec == Spec /\ Fairness

-----------------------------------------------------------------------------
(* Properties.                                                             *)

\* Other instances get the broadcasts that were published without trouble at
\* most once and in the order in which they were made, across full queues,
\* repeated commands, broken connections and outages; the ones a PUBLISH of
\* which went unanswered may come late and again.  Nobody gets his own back.
Promise == INSTANCE OrderedChannel WITH sent <- sent, unanswered <- unanswered, got <- got
ImplementsOrderedChannel == Promise!Spec

\* The numbers of an instance's messages, and the messages on their way.
Messages == Instances \X Nat

TypeOK ==
    /\ sent \in [Instances -> Nat]
    /\ queue \in [Instances -> Seq(Nat)]
    /\ pub \in [Instances -> {"select", "publish", "ended"}]
    /\ job \in [Instances -> Nat]
    /\ tries \in [Instances -> Nat]
    /\ sub \in [Instances -> {"connecting", "subscribed", "handing", "waiting", "ended"}]
    /\ hand \in [Instances -> Messages \cup {Nothing}]
    /\ stream \in [Instances -> Seq(Messages)]
    /\ ch \in [Instances -> Seq(Messages)]
    /\ got \in [Instances -> Seq(Messages)]
    /\ unanswered \subseteq Messages
    /\ late \subseteq Instances \X Nat \X Nat

\* The n-th broadcast of instance i is behind the publish loop: what the loop
\* holds, and what waits in the queue, is younger.
Behind(i, n) ==
    /\ n \in 1 .. sent[i]
    /\ pub[i] = "publish" => n < job[i]
    /\ \A k \in 1 .. Len(queue[i]) : n < queue[i][k]

\* The queue is in the order of the broadcasts, behind what the loop holds.
QueueInv ==
    \A i \in Instances :
        /\ \A k \in 1 .. Len(queue[i]) : queue[i][k] \in 1 .. sent[i]
        /\ \A k, l \in 1 .. Len(queue[i]) : k < l => queue[i][k] < queue[i][l]
        /\ pub[i] = "publish" =>
              job[i] \in 1 .. sent[i] /\ \A k \in 1 .. Len(queue[i]) : job[i] < queue[i][k]

\* What was given up by its sender is known as unanswered, and was broadcast.
LateInv ==
    /\ \A m \in unanswered : m[2] \in 1 .. sent[m[1]]
    /\ \A c \in late : <<c[1], c[2]>> \in unanswered

\* A message on its way was broadcast and, if it was answered, has left the
\* publish loop for good.
Placed(m) ==
    /\ m[2] \in 1 .. sent[m[1]]
    /\ m \notin unanswered => Behind(m[1], m[2])

\* Message m may come before message n.
InOrder(m, n) ==
    m \notin unanswered /\ n \notin unanswered /\ m[1] = n[1] => m[2] < n[2]

\* Instance j may give m to its rooms after what it gave them already.
MayFollow(j, m) == \A k \in 1 .. Len(got[j]) : InOrder(got[j][k], m)

\* The stations of a message at instance j: the connection, the hand of the
\* subscription loop, the channel, the rooms.  At each it is behind those of
\* the same source that are further on, and past the hand none is the
\* instance's own.
RoomsInOrder(j) == \A k \in 1 .. Len(got[j]) : Placed(got[j][k])

ChannelInOrder(j) ==
    /\ \A k \in 1 .. Len(ch[j]) :
          Placed(ch[j][k]) /\ MayFollow(j, ch[j][k]) /\ ch[j][k][1] # j
    /\ \A k, l \in 1 .. Len(ch[j]) : k < l => InOrder(ch[j][k], ch[j][l])

HandInOrder(j) ==
    sub[j] = "handing" =>
        /\ hand[j] \in Messages
        /\ Placed(hand[j]) /\ MayFollow(j, hand[j]) /\ hand[j][1] # j
        /\ \A k \in 1 .. Len(ch[j]) : InOrder(ch[j][k], hand[j])
        /\ \A l \in 1 .. Len(stream[j]) : InOrder(hand[j], stream[j][l])

StreamInOrder(j) ==
    /\ \A l \in 1 .. Len(stream[j]) :
          /\ Placed(stream[j][l]) /\ MayFollow(j, stream[j][l])
          /\ \A k \in 1 .. Len(ch[j]) : InOrder(ch[j][k], stream[j][l])
    /\ \A k, l \in 1 .. Len(stream[j]) : k < l => InOrder(stream[j][k], stream[j][l])

OrderInv ==
    \A j \in Instances : RoomsInOrder(j) /\ ChannelInOrder(j) /\ HandInOrder(j) /\ StreamInOrder(j)

\* The invariant behind the refinement.
BridgeInv == TypeOK /\ QueueInv /\ LateInv /\ OrderInv

\* "Redis Pub/Sub delivers at most once", and a publication that failed is
\* not repeated, says the documentation: no instance gives a message to its
\* rooms twice.
AtMostOnce ==
    \A j \in Instances : \A k, l \in DOMAIN got[j] : got[j][k] = got[j][l] => k = l

\* The subscription loop always finds its way back: after every broken
\* connection it is subscribed again, or ends because of the shutdown.
SubscriptionRecovers ==
    \A i \in Instances : sub[i] = "waiting" ~> sub[i] \in {"subscribed", "ended"}

\* "The returned channel is closed when the context is cancelled", says
\* StartSubscription.
ChannelClosesOnCancel ==
    \A i \in Instances : Cancelled(i) ~> sub[i] = "ended"

\* A subscription that is blocked in ReceiveMessage when the context is
\* cancelled has its connection broken at some time.  Nothing in the program
\* sees to that: main closes the client only after Hub.Shutdown.
ConnectionsEnd == \A i \in Instances : WF_vars(Cancelled(i) /\ ReceiveFails(i))

\* Hub.Shutdown returns if the blocked reads end: its wait for both loops ends
\* although the subscription may be waiting, blocked on a full channel, or
\* connecting to a Redis that does not answer, and although jobs are left in
\* the queue.
ShutdownStopsBridge ==
    ConnectionsEnd => \A i \in Instances : down[i] = "flag" ~> down[i] = "returned"

\* A message that is on its way to a connected subscriber is given to the
\* rooms there, or dropped because they have no place for it, unless the
\* connection breaks or the hub shuts down: the full channel of the
\* subscription only delays it.
ReceivedIsPassedOn ==
    \A i \in Senders : \A j \in Instances \ {i} : \A n \in 1 .. MaxSent :
        (\E k \in DOMAIN stream[j] : stream[j][k] = <<i, n>>)
        ~> \/ <<i, n>> \in dropped[j] \/ \E k \in DOMAIN got[j] : got[j][k] = <<i, n>>
           \/ sub[j] = "waiting" \/ ShuttingDown(j)

=============================================================================
