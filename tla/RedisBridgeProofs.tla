------------------------- MODULE RedisBridgeProofs -------------------------
(***************************************************************************)
(* Proofs about RedisBridge: for every number of instances, every capacity *)
(* of the queues and any number of broadcasts, retries and faults, the     *)
(* bridge implements OrderedChannel.                                       *)
(***************************************************************************)
EXTENDS RedisBridge, TLAPS

-----------------------------------------------------------------------------
(* Sequences as the queues use them.                                       *)

\* What is at each place of a sequence after Append.
LEMMA AppendAt ==
    ASSUME NEW S, NEW s \in Seq(S), NEW x \in S
    PROVE  /\ Append(s, x) \in Seq(S)
           /\ Len(Append(s, x)) = Len(s) + 1
           /\ Len(s) \in Nat
           /\ \A k \in 1 .. Len(s) : Append(s, x)[k] = s[k]
           /\ Append(s, x)[Len(s) + 1] = x
           /\ \A k \in 1 .. Len(Append(s, x)) : k \in 1 .. Len(s) \/ k = Len(s) + 1
  OBVIOUS

\* What is at each place of a sequence without its head.
LEMMA TailAt ==
    ASSUME NEW S, NEW s \in Seq(S), s # <<>>
    PROVE  /\ Tail(s) \in Seq(S)
           /\ Len(s) \in Nat /\ Len(s) >= 1
           /\ Len(Tail(s)) = Len(s) - 1
           /\ \A k \in 1 .. Len(Tail(s)) : k + 1 \in 1 .. Len(s) /\ Tail(s)[k] = s[k + 1]
           /\ 1 \in 1 .. Len(s) /\ Head(s) = s[1] /\ Head(s) \in S
  OBVIOUS

-----------------------------------------------------------------------------
(* Types.                                                                  *)

LEMMA BridgeInit == Init => BridgeInv
<1> SUFFICES ASSUME Init PROVE BridgeInv
  OBVIOUS
<1>1. TypeOK
  BY DEF Init, TypeOK
<1>2. QueueInv /\ LateInv
  BY DEF Init, QueueInv, LateInv
<1>3. OrderInv
  BY DEF Init, OrderInv, RoomsInOrder, ChannelInOrder, HandInOrder, StreamInOrder
<1> QED
  BY <1>1, <1>2, <1>3 DEF BridgeInv

\* After an attempt the publish loop either keeps the job or is done with it.
LEMMA RetryCases ==
    ASSUME NEW i, Retry(i)
    PROVE  \/ UNCHANGED <<pub, job>> /\ tries' = [tries EXCEPT ![i] = @ + 1]
           \/ Published(i)
<1>1. CASE tries[i] < MaxRetries /\ ~Cancelled(i)
  BY <1>1 DEF Retry
<1>2. CASE ~(tries[i] < MaxRetries /\ ~Cancelled(i))
  BY <1>2 DEF Retry
<1> QED
  BY <1>1, <1>2

\* The steps of Next, one disjunct each; what tells apart steps that the
\* invariant cannot tell apart is left out.
LEMMA BridgeSteps ==
    ASSUME [Next]_vars
    PROVE  \/ \E i \in Instances :
                 \/ BroadcastToRoom(i) \/ TakeJob(i) \/ PublishOk(i) \/ PublishUnanswered(i)
                 \/ PublishFails(i) \/ PublishLoopEnds(i)
                 \/ Subscribe(i) \/ SubscribeFails(i) \/ BackoffEnds(i) \/ Receive(i)
                 \/ ReceiveFails(i) \/ HandOver(i) \/ HandOverCancelled(i)
                 \/ BroadcastToRoomLocal(i)
           \/ \E c \in late : ExecuteLate(c)
           \/ UNCHANGED <<sent, publisher, subscriber, stream, got, broker>>
<1> DEFINE Idle == UNCHANGED <<sent, publisher, subscriber, stream, got, broker>>
<1>1. ASSUME NEW i \in Instances, Shutdown(i) PROVE Idle
  BY <1>1 DEF Shutdown, rooms
<1>2. ASSUME NEW i \in Instances, RangeEnds(i) PROVE Idle
  BY <1>2 DEF RangeEnds, rooms
<1>3. ASSUME RedisGoes \/ RedisReturns \/ UNCHANGED vars PROVE Idle
  BY <1>3 DEF RedisGoes, RedisReturns, vars, publisher, subscriber, rooms, broker
<1> HIDE DEF Idle
<1>4. \/ \E i \in Instances :
            \/ BroadcastToRoom(i) \/ TakeJob(i) \/ PublishOk(i) \/ PublishUnanswered(i)
            \/ PublishFails(i) \/ PublishLoopEnds(i)
            \/ Subscribe(i) \/ SubscribeFails(i) \/ BackoffEnds(i) \/ Receive(i)
            \/ ReceiveFails(i) \/ HandOver(i) \/ HandOverCancelled(i)
            \/ BroadcastToRoomLocal(i)
      \/ \E c \in late : ExecuteLate(c)
      \/ Idle
  BY BridgeAssumption, <1>1, <1>2, <1>3 DEF Next, PublishStep, SubscriptionStep, RangeStep
<1> QED
  BY <1>4 DEF Idle

\* Every step keeps the types.
LEMMA BridgeTypes == BridgeInv /\ [Next]_vars => TypeOK'
<1> SUFFICES ASSUME TypeOK, OrderInv, [Next]_vars PROVE TypeOK'
  BY DEF BridgeInv
<1> USE DEF TypeOK, publisher, subscriber, rooms, broker
<1>1. ASSUME NEW i \in Instances, BroadcastToRoom(i) PROVE TypeOK'
  <2>2. sent[i] + 1 \in Nat /\ Append(queue[i], sent[i] + 1) \in Seq(Nat)
    OBVIOUS
  <2> QED
    BY <1>1, <2>2 DEF BroadcastToRoom
<1>2. ASSUME NEW i \in Instances, TakeJob(i) PROVE TypeOK'
  <2>1. Head(queue[i]) \in Nat /\ Tail(queue[i]) \in Seq(Nat)
    BY <1>2, TailAt DEF TakeJob
  <2> QED
    BY <1>2, <2>1 DEF TakeJob
<1>3. ASSUME NEW m \in Messages, Reach(m)
      PROVE  stream' \in [Instances -> Seq(Messages)]
  <2>1. \A j \in Instances : Append(stream[j], m) \in Seq(Messages)
    OBVIOUS
  <2> QED
    BY <1>3, <2>1 DEF Reach
<1>m. \A i \in Instances : <<i, job[i]>> \in Messages
  BY DEF Messages
<1>4. ASSUME NEW i \in Instances, PublishOk(i) PROVE TypeOK'
  <2>1. stream' \in [Instances -> Seq(Messages)]
    BY <1>3, <1>4, <1>m DEF PublishOk
  <2> QED
    BY <1>4, <2>1 DEF PublishOk, Published
<1>5. ASSUME NEW i \in Instances, Retry(i)
      PROVE  /\ pub' \in [Instances -> {"select", "publish", "ended"}] /\ job' \in [Instances -> Nat]
             /\ tries' \in [Instances -> Nat]
  <2>1. CASE UNCHANGED <<pub, job>> /\ tries' = [tries EXCEPT ![i] = @ + 1]
    BY <2>1
  <2>2. CASE Published(i)
    BY <2>2 DEF Published
  <2> QED
    BY <1>5, <2>1, <2>2, RetryCases
<1>6. ASSUME NEW i \in Instances, PublishUnanswered(i) \/ PublishFails(i) PROVE TypeOK'
  <2>1. /\ Retry(i) /\ UNCHANGED <<sent, queue, subscriber, stream, got>>
        /\ \/ UNCHANGED broker
           \/ /\ unanswered' = unanswered \cup {<<i, job[i]>>}
              /\ late' = late \cup {<<i, job[i], tries[i]>>}
    BY <1>6 DEF PublishUnanswered, PublishFails
  <2>2. unanswered' \subseteq Messages
    BY <1>m, <2>1
  <2>3. late' \subseteq Instances \X Nat \X Nat
    BY <2>1
  <2> QED
    BY <1>5, <2>1, <2>2, <2>3
<1>7. ASSUME NEW i \in Instances, PublishLoopEnds(i) PROVE TypeOK'
  BY <1>7 DEF PublishLoopEnds
<1>8. <<>> \in Seq(Messages)
  OBVIOUS
<1>9. ASSUME NEW i \in Instances, Subscribe(i) PROVE TypeOK'
  BY <1>8, <1>9 DEF Subscribe
<1>10. ASSUME NEW i \in Instances, SubscribeFails(i) \/ ReceiveFails(i) PROVE TypeOK'
  <2>1. waitForReconnect(i) /\ UNCHANGED <<sent, publisher, hand, ch, got, broker>>
    BY <1>10 DEF SubscribeFails, ReceiveFails
  <2> QED
    BY <1>8, <2>1 DEF waitForReconnect
<1>11. ASSUME NEW i \in Instances, BackoffEnds(i) PROVE TypeOK'
  BY <1>11 DEF BackoffEnds
<1>12. ASSUME NEW i \in Instances, Receive(i) PROVE TypeOK'
  <2>1. Head(stream[i]) \in Messages /\ Tail(stream[i]) \in Seq(Messages)
    BY <1>12, TailAt DEF Receive
  <2> QED
    <3>1. CASE Head(stream[i])[1] = i
      BY <1>12, <2>1, <3>1 DEF Receive
    <3>2. CASE Head(stream[i])[1] # i
      <4>1. /\ sub' = [sub EXCEPT ![i] = "handing"] /\ hand' = [hand EXCEPT ![i] = Head(stream[i])]
            /\ stream' = [stream EXCEPT ![i] = Tail(@)]
            /\ UNCHANGED <<sent, publisher, ch, got, broker>>
        BY <1>12, <3>2 DEF Receive
      <4>2. /\ sub' \in [Instances -> {"connecting", "subscribed", "handing", "waiting", "ended"}]
            /\ hand' \in [Instances -> Messages \cup {Nothing}]
            /\ stream' \in [Instances -> Seq(Messages)]
        BY <2>1, <4>1
      <4> QED
        BY <4>1, <4>2
    <3> QED
      BY <3>1, <3>2
<1>13. ASSUME NEW i \in Instances, HandOver(i) PROVE TypeOK'
  <2>1. hand[i] \in Messages
    BY <1>13 DEF HandOver, OrderInv, HandInOrder
  <2>2. Append(ch[i], hand[i]) \in Seq(Messages)
    BY <2>1
  <2> QED
    BY <1>13, <2>2 DEF HandOver
<1>14. ASSUME NEW i \in Instances, HandOverCancelled(i) PROVE TypeOK'
  BY <1>8, <1>14 DEF HandOverCancelled
<1>15. ASSUME NEW i \in Instances, BroadcastToRoomLocal(i) PROVE TypeOK'
  <2>1. Head(ch[i]) \in Messages /\ Tail(ch[i]) \in Seq(Messages)
    BY <1>15, TailAt DEF BroadcastToRoomLocal
  <2>2. Append(got[i], Head(ch[i])) \in Seq(Messages)
    BY <2>1
  <2>3. got' = got \/ got' = [got EXCEPT ![i] = Append(@, Head(ch[i]))]
    BY <1>15 DEF BroadcastToRoomLocal
  <2>4. got' \in [Instances -> Seq(Messages)]
    BY <2>2, <2>3
  <2> QED
    BY <1>15, <2>1, <2>4 DEF BroadcastToRoomLocal
<1>16. ASSUME NEW c \in late, ExecuteLate(c) PROVE TypeOK'
  <2>1. <<c[1], c[2]>> \in Messages
    BY DEF Messages
  <2>2. stream' \in [Instances -> Seq(Messages)]
    BY <1>3, <1>16, <2>1 DEF ExecuteLate
  <2> QED
    BY <1>16, <2>2 DEF ExecuteLate
<1>17. CASE UNCHANGED <<sent, publisher, subscriber, stream, got, broker>>
  BY <1>17
<1> QED
  BY BridgeSteps, <1>1, <1>2, <1>4, <1>6, <1>7, <1>9, <1>10, <1>11, <1>12, <1>13, <1>14,
     <1>15, <1>16, <1>17

-----------------------------------------------------------------------------
(* The publishing side.                                                    *)

\* What a step means for the publish loop of instance i: nothing, or a new
\* broadcast, or the next job, or the end of the job.
LEMMA LoopEffect ==
    ASSUME TypeOK, [Next]_vars, NEW i \in Instances
    PROVE  /\ sent'[i] \in Nat /\ sent[i] <= sent'[i]
           /\ \/ queue'[i] = queue[i] /\ (pub'[i] = "publish" => pub[i] = "publish" /\ job'[i] = job[i])
              \/ /\ queue'[i] = Append(queue[i], sent[i] + 1) /\ sent'[i] = sent[i] + 1
                 /\ pub'[i] = pub[i] /\ job'[i] = job[i]
              \/ /\ queue[i] # <<>> /\ queue'[i] = Tail(queue[i]) /\ job'[i] = Head(queue[i])
                 /\ sent'[i] = sent[i]
<1> DEFINE Kept == /\ sent'[i] = sent[i] /\ queue'[i] = queue[i]
                   /\ pub'[i] = "publish" => pub[i] = "publish" /\ job'[i] = job[i]
<1>0. sent[i] \in Nat
  BY DEF TypeOK
<1> USE DEF publisher, subscriber, rooms, broker
<1>1. ASSUME NEW j \in Instances, BroadcastToRoom(j)
      PROVE  /\ sent'[i] \in Nat /\ sent[i] <= sent'[i] /\ pub' = pub /\ job' = job
             /\ \/ queue'[i] = queue[i]
                \/ queue'[i] = Append(queue[i], sent[i] + 1) /\ sent'[i] = sent[i] + 1
  <2>1. CASE i = j
    BY <1>1, <2>1 DEF BroadcastToRoom, TypeOK
  <2>2. CASE i # j
    BY <1>1, <2>2 DEF BroadcastToRoom, TypeOK
  <2> QED
    BY <2>1, <2>2
<1>2. ASSUME NEW j \in Instances, TakeJob(j)
      PROVE  \/ Kept
             \/ /\ queue[i] # <<>> /\ queue'[i] = Tail(queue[i]) /\ job'[i] = Head(queue[i])
                /\ sent'[i] = sent[i]
  BY <1>2 DEF TakeJob, TypeOK
<1>3. ASSUME NEW j \in Instances, PublishOk(j) \/ PublishUnanswered(j) \/ PublishFails(j)
      PROVE  Kept
  <2>1. UNCHANGED <<sent, queue>> /\ (UNCHANGED <<pub, job>> \/ Published(j))
    BY <1>3, RetryCases DEF PublishOk, PublishUnanswered, PublishFails
  <2> QED
    BY <2>1 DEF Published, TypeOK
<1>4. ASSUME NEW j \in Instances, PublishLoopEnds(j) PROVE Kept
  BY <1>4 DEF PublishLoopEnds, TypeOK
<1>5. ASSUME UNCHANGED <<sent, publisher>> PROVE Kept
  BY <1>5
<1>6. ASSUME NEW c \in late, ExecuteLate(c) PROVE UNCHANGED <<sent, publisher>>
  BY <1>6 DEF ExecuteLate
<1>7. ASSUME NEW j \in Instances,
             \/ Subscribe(j) \/ SubscribeFails(j) \/ BackoffEnds(j) \/ Receive(j)
             \/ ReceiveFails(j) \/ HandOver(j) \/ HandOverCancelled(j) \/ BroadcastToRoomLocal(j)
      PROVE  UNCHANGED <<sent, publisher>>
  BY <1>7 DEF Subscribe, SubscribeFails, BackoffEnds, Receive, ReceiveFails, HandOver,
     HandOverCancelled, BroadcastToRoomLocal
<1> QED
  BY BridgeSteps, <1>0, <1>1, <1>2, <1>3, <1>4, <1>5, <1>6, <1>7

\* A message that has left the publish loop stays behind it.
LEMMA BehindKept ==
    ASSUME BridgeInv, [Next]_vars, NEW i \in Instances, NEW n \in Nat, Behind(i, n)
    PROVE  Behind(i, n)'
<1>a. TypeOK
  BY DEF BridgeInv
<1>b. sent[i] \in Nat /\ queue[i] \in Seq(Nat) /\ Len(queue[i]) \in Nat
  BY <1>a DEF TypeOK
<1>c. n \in 1 .. sent[i] /\ \A k \in 1 .. Len(queue[i]) : n < queue[i][k]
  BY DEF Behind
<1>0. /\ TypeOK /\ sent[i] \in Nat /\ n \in 1 .. sent[i] /\ queue[i] \in Seq(Nat)
      /\ Len(queue[i]) \in Nat /\ \A k \in 1 .. Len(queue[i]) : n < queue[i][k]
  BY <1>a, <1>b, <1>c
<1>1. n \in 1 .. sent'[i]
  BY <1>0, LoopEffect
<1>2. ASSUME queue'[i] = queue[i], pub'[i] = "publish" => pub[i] = "publish" /\ job'[i] = job[i]
      PROVE  Behind(i, n)'
  BY <1>1, <1>2 DEF Behind
<1>3. ASSUME queue'[i] = Append(queue[i], sent[i] + 1), pub'[i] = pub[i], job'[i] = job[i]
      PROVE  Behind(i, n)'
  <2>1. /\ \A k \in 1 .. Len(queue[i]) : queue'[i][k] = queue[i][k]
        /\ queue'[i][Len(queue[i]) + 1] = sent[i] + 1
        /\ \A k \in 1 .. Len(queue'[i]) : k \in 1 .. Len(queue[i]) \/ k = Len(queue[i]) + 1
    BY <1>0, <1>3, AppendAt
  <2>2. ASSUME NEW k \in 1 .. Len(queue'[i]) PROVE n < queue'[i][k]
    <3>1. n < sent[i] + 1
      BY <1>0
    <3>2. CASE k \in 1 .. Len(queue[i])
      BY <1>0, <2>1, <3>2
    <3> QED
      BY <2>1, <3>1, <3>2
  <2> QED
    BY <1>1, <1>3, <2>2 DEF Behind
<1>4. ASSUME queue[i] # <<>>, queue'[i] = Tail(queue[i]), job'[i] = Head(queue[i])
      PROVE  Behind(i, n)'
  <2>1. \A k \in 1 .. Len(queue'[i]) : n < queue'[i][k]
    BY <1>0, <1>4, TailAt
  <2>2. n < job'[i]
    BY <1>0, <1>4, TailAt
  <2> QED
    BY <1>1, <2>1, <2>2 DEF Behind
<1> QED
  BY <1>0, <1>2, <1>3, <1>4, LoopEffect

\* The queue stays in the order of the broadcasts, and the loop takes the
\* oldest.
LEMMA QueueKept == BridgeInv /\ [Next]_vars => QueueInv'
<1> SUFFICES ASSUME BridgeInv, [Next]_vars, NEW i \in Instances
             PROVE  /\ \A k \in 1 .. Len(queue'[i]) : queue'[i][k] \in 1 .. sent'[i]
                    /\ \A k, l \in 1 .. Len(queue'[i]) : k < l => queue'[i][k] < queue'[i][l]
                    /\ pub'[i] = "publish" =>
                          /\ job'[i] \in 1 .. sent'[i]
                          /\ \A k \in 1 .. Len(queue'[i]) : job'[i] < queue'[i][k]
  BY DEF QueueInv
<1> DEFINE Sorted == /\ \A k \in 1 .. Len(queue'[i]) : queue'[i][k] \in 1 .. sent'[i]
                     /\ \A k, l \in 1 .. Len(queue'[i]) : k < l => queue'[i][k] < queue'[i][l]
           Ahead  == pub'[i] = "publish" =>
                          /\ job'[i] \in 1 .. sent'[i]
                          /\ \A k \in 1 .. Len(queue'[i]) : job'[i] < queue'[i][k]
<1>0. /\ \A k \in 1 .. Len(queue[i]) : queue[i][k] \in 1 .. sent[i]
      /\ \A k, l \in 1 .. Len(queue[i]) : k < l => queue[i][k] < queue[i][l]
      /\ pub[i] = "publish" => job[i] \in 1 .. sent[i] /\ \A k \in 1 .. Len(queue[i]) : job[i] < queue[i][k]
      /\ queue[i] \in Seq(Nat) /\ sent[i] \in Nat /\ Len(queue[i]) \in Nat
      /\ TypeOK
  <2>1. queue[i] \in Seq(Nat) /\ sent[i] \in Nat /\ Len(queue[i]) \in Nat
    BY DEF BridgeInv, TypeOK
  <2> QED
    BY <2>1 DEF QueueInv, BridgeInv
<1>s. sent'[i] \in Nat /\ sent[i] <= sent'[i]
  BY <1>0, LoopEffect
<1>1. ASSUME queue'[i] = queue[i], pub'[i] = "publish" => pub[i] = "publish" /\ job'[i] = job[i]
      PROVE  Sorted /\ Ahead
  BY <1>0, <1>1, <1>s
<1>2. ASSUME queue'[i] = Append(queue[i], sent[i] + 1), sent'[i] = sent[i] + 1,
             pub'[i] = pub[i], job'[i] = job[i]
      PROVE  Sorted /\ Ahead
  <2>1. /\ Len(queue'[i]) = Len(queue[i]) + 1
        /\ \A k \in 1 .. Len(queue[i]) : queue'[i][k] = queue[i][k]
        /\ queue'[i][Len(queue[i]) + 1] = sent[i] + 1
        /\ \A k \in 1 .. Len(queue'[i]) : k \in 1 .. Len(queue[i]) \/ k = Len(queue[i]) + 1
    BY <1>0, <1>2, AppendAt
  <2>2. \A k \in 1 .. Len(queue'[i]) : queue'[i][k] \in 1 .. sent'[i]
    BY <1>0, <1>2, <2>1
  <2>3. ASSUME NEW k \in 1 .. Len(queue'[i]), NEW l \in 1 .. Len(queue'[i]), k < l
        PROVE  queue'[i][k] < queue'[i][l]
    BY <1>0, <1>2, <2>1, <2>3
  <2>4. Ahead
    BY <1>0, <1>2, <2>1
  <2> QED
    BY <2>2, <2>3, <2>4
<1>3. ASSUME queue[i] # <<>>, queue'[i] = Tail(queue[i]), job'[i] = Head(queue[i]), sent'[i] = sent[i]
      PROVE  Sorted /\ Ahead
  <2>1. /\ Len(queue'[i]) = Len(queue[i]) - 1 /\ 1 \in 1 .. Len(queue[i])
        /\ \A k \in 1 .. Len(queue'[i]) : k + 1 \in 1 .. Len(queue[i]) /\ queue'[i][k] = queue[i][k + 1]
        /\ job'[i] = queue[i][1]
    BY <1>0, <1>3, TailAt
  <2>2. ASSUME NEW k \in 1 .. Len(queue'[i]), NEW l \in 1 .. Len(queue'[i])
        PROVE  /\ queue'[i][k] \in 1 .. sent'[i]
               /\ k < l => queue'[i][k] < queue'[i][l]
    BY <1>0, <1>3, <2>1, <2>2
  <2>3. job'[i] \in 1 .. sent'[i] /\ \A k \in 1 .. Len(queue'[i]) : job'[i] < queue'[i][k]
    BY <1>0, <1>3, <2>1
  <2> QED
    BY <2>2, <2>3
<1> QED
  BY <1>0, <1>1, <1>2, <1>3, LoopEffect

-----------------------------------------------------------------------------
(* Attempts that were not answered.                                        *)

\* What a step does to the set of unanswered messages.
LEMMA UnansweredEffect ==
    ASSUME [Next]_vars
    PROVE  \/ UNCHANGED broker
           \/ \E i \in Instances : /\ pub[i] = "publish"
                                   /\ unanswered' = unanswered \cup {<<i, job[i]>>}
                                   /\ late' = late \cup {<<i, job[i], tries[i]>>}
                                   /\ UNCHANGED <<sent, stream, ch, hand, sub, got>>
           \/ unanswered' = unanswered /\ late' \subseteq late /\ UNCHANGED <<sent, got>>
<1> USE DEF publisher, subscriber, rooms, broker
<1>1. ASSUME NEW i \in Instances, PublishUnanswered(i)
      PROVE  /\ pub[i] = "publish" /\ unanswered' = unanswered \cup {<<i, job[i]>>}
             /\ late' = late \cup {<<i, job[i], tries[i]>>}
             /\ UNCHANGED <<sent, stream, ch, hand, sub, got>>
  BY <1>1 DEF PublishUnanswered
<1>2. ASSUME NEW c \in late, ExecuteLate(c)
      PROVE  unanswered' = unanswered /\ late' \subseteq late /\ UNCHANGED <<sent, got>>
  BY <1>2 DEF ExecuteLate
<1>3. ASSUME NEW j \in Instances,
             \/ Subscribe(j) \/ SubscribeFails(j) \/ BackoffEnds(j) \/ Receive(j)
             \/ ReceiveFails(j) \/ HandOver(j) \/ HandOverCancelled(j) \/ BroadcastToRoomLocal(j)
      PROVE  UNCHANGED broker
  BY <1>3 DEF Subscribe, SubscribeFails, BackoffEnds, Receive, ReceiveFails, HandOver,
     HandOverCancelled, BroadcastToRoomLocal
<1>4. ASSUME NEW j \in Instances,
             \/ BroadcastToRoom(j) \/ TakeJob(j) \/ PublishOk(j) \/ PublishFails(j)
             \/ PublishLoopEnds(j)
      PROVE  UNCHANGED broker
  BY <1>4 DEF BroadcastToRoom, TakeJob, PublishOk, PublishFails, PublishLoopEnds
<1> QED
  BY BridgeSteps, <1>1, <1>2, <1>3, <1>4

\* What was given up is known as unanswered.
LEMMA LateKept == BridgeInv /\ [Next]_vars => LateInv'
<1> SUFFICES ASSUME BridgeInv, [Next]_vars PROVE LateInv'
  OBVIOUS
<1>0. TypeOK /\ LateInv /\ unanswered \subseteq Messages
      /\ \A m \in Messages : m[1] \in Instances /\ m[2] \in Nat
  BY DEF BridgeInv, TypeOK, Messages
<1>1. \A i \in Instances : sent[i] \in Nat /\ sent'[i] \in Nat /\ sent[i] <= sent'[i]
  BY <1>0, LoopEffect DEF TypeOK
<1>2. \A m \in unanswered : m[2] \in 1 .. sent'[m[1]]
  BY <1>0, <1>1 DEF LateInv
<1>3. CASE UNCHANGED broker
  BY <1>0, <1>2, <1>3 DEF LateInv, broker
<1>4. ASSUME NEW i \in Instances, pub[i] = "publish",
             unanswered' = unanswered \cup {<<i, job[i]>>},
             late' = late \cup {<<i, job[i], tries[i]>>}
      PROVE  LateInv'
  <2>1. job[i] \in 1 .. sent'[i]
    BY <1>1, <1>4 DEF BridgeInv, QueueInv
  <2>2. \A m \in unanswered' : m[2] \in 1 .. sent'[m[1]]
    BY <1>2, <1>4, <2>1
  <2>3. ASSUME NEW c \in late' PROVE <<c[1], c[2]>> \in unanswered'
    <3>1. CASE c \in late
      BY <1>0, <1>4, <3>1 DEF LateInv
    <3>2. CASE c = <<i, job[i], tries[i]>>
      BY <1>4, <3>2
    <3> QED
      BY <1>4, <3>1, <3>2
  <2> QED
    BY <2>2, <2>3 DEF LateInv
<1>5. CASE unanswered' = unanswered /\ late' \subseteq late
  BY <1>0, <1>2, <1>5 DEF LateInv
<1> QED
  BY <1>3, <1>4, <1>5, UnansweredEffect

-----------------------------------------------------------------------------
(* The subscribing side.                                                   *)

\* What is placed stays placed, and what is in order stays in order: an
\* attempt that was not answered only takes a message out of the order.
LEMMA PlacesKept ==
    ASSUME BridgeInv, [Next]_vars, NEW m \in Messages
    PROVE  /\ Placed(m) => m[2] \in 1 .. sent'[m[1]] /\ (m \notin unanswered' => Behind(m[1], m[2])')
           /\ \A n \in Messages : InOrder(m, n) =>
                 (m \notin unanswered' /\ n \notin unanswered' /\ m[1] = n[1] => m[2] < n[2])
<1>0. m[1] \in Instances /\ m[2] \in Nat
  BY DEF Messages
<1>1. unanswered \subseteq unanswered'
  BY UnansweredEffect DEF broker
<1>2. Behind(m[1], m[2]) => Behind(m[1], m[2])'
  BY <1>0, BehindKept
<1>3. m[2] \in 1 .. sent[m[1]] => m[2] \in 1 .. sent'[m[1]]
  <2>1. sent[m[1]] \in Nat /\ sent'[m[1]] \in Nat /\ sent[m[1]] <= sent'[m[1]]
    BY <1>0, LoopEffect DEF BridgeInv, TypeOK
  <2> QED
    BY <1>0, <2>1
<1> QED
  BY <1>1, <1>2, <1>3 DEF Placed, InOrder

\* What a step does at the stations of instance j: nothing but a lost
\* connection, or one of the four that move a message.
LEMMA StationEffect ==
    ASSUME BridgeInv, [Next]_vars, NEW j \in Instances
    PROVE  \/ /\ stream'[j] \in {stream[j], <<>>} /\ ch'[j] = ch[j] /\ got'[j] = got[j]
              /\ sub'[j] = "handing" => sub[j] = "handing" /\ hand'[j] = hand[j]
           \/ \E m \in Messages :
                 /\ \/ m \in unanswered
                    \/ /\ pub[m[1]] = "publish" /\ m[2] = job[m[1]]
                       /\ pub'[m[1]] = "select" /\ queue' = queue /\ sent' = sent
                 /\ stream'[j] = Append(stream[j], m) /\ unanswered' = unanswered
                 /\ ch' = ch /\ got' = got /\ sub' = sub /\ hand' = hand
           \/ Receive(j) \/ HandOver(j) \/ BroadcastToRoomLocal(j)
<1> DEFINE Quiet == /\ stream'[j] \in {stream[j], <<>>} /\ ch'[j] = ch[j] /\ got'[j] = got[j]
                    /\ sub'[j] = "handing" => sub[j] = "handing" /\ hand'[j] = hand[j]
           Comes(m) == /\ \/ m \in unanswered
                          \/ /\ pub[m[1]] = "publish" /\ m[2] = job[m[1]]
                             /\ pub'[m[1]] = "select" /\ queue' = queue /\ sent' = sent
                       /\ stream'[j] = Append(stream[j], m) /\ unanswered' = unanswered
                       /\ ch' = ch /\ got' = got /\ sub' = sub /\ hand' = hand
<1>0. TypeOK
  BY DEF BridgeInv
<1> USE DEF publisher, subscriber, rooms, broker
<1>1. ASSUME NEW i \in Instances, BroadcastToRoom(i) PROVE Quiet
  BY <1>1 DEF BroadcastToRoom
<1>2. ASSUME NEW i \in Instances,
             TakeJob(i) \/ PublishUnanswered(i) \/ PublishFails(i) \/ PublishLoopEnds(i)
      PROVE  Quiet
  BY <1>2 DEF TakeJob, PublishUnanswered, PublishFails, PublishLoopEnds
<1>3. ASSUME NEW i \in Instances, PublishOk(i)
      PROVE  Quiet \/ \E m \in Messages : Comes(m)
  <2> DEFINE m == <<i, job[i]>>
  <2>1. m \in Messages /\ m[1] = i /\ m[2] = job[i]
    BY <1>0 DEF TypeOK, Messages
  <2>2. /\ pub[i] = "publish" /\ pub'[i] = "select" /\ queue' = queue /\ sent' = sent
        /\ unanswered' = unanswered /\ ch' = ch /\ got' = got /\ sub' = sub /\ hand' = hand
        /\ stream'[j] = stream[j] \/ stream'[j] = Append(stream[j], m)
    BY <1>0, <1>3 DEF PublishOk, Published, Reach, TypeOK
  <2> HIDE DEF m
  <2> QED
    BY <2>1, <2>2
<1>4. ASSUME NEW c \in late, ExecuteLate(c)
      PROVE  Quiet \/ \E m \in Messages : Comes(m)
  <2> DEFINE m == <<c[1], c[2]>>
  <2>1. m \in Messages /\ m \in unanswered
    BY <1>0 DEF BridgeInv, LateInv, TypeOK
  <2>2. /\ unanswered' = unanswered /\ ch' = ch /\ got' = got /\ sub' = sub /\ hand' = hand
        /\ stream'[j] = stream[j] \/ stream'[j] = Append(stream[j], m)
    BY <1>4 DEF ExecuteLate, Reach
  <2> HIDE DEF m
  <2> QED
    BY <2>1, <2>2
<1>5. ASSUME NEW i \in Instances, Subscribe(i) PROVE Quiet
  BY <1>0, <1>5 DEF TypeOK, Subscribe
<1>6. ASSUME NEW i \in Instances, SubscribeFails(i) \/ ReceiveFails(i) PROVE Quiet
  <2>1. waitForReconnect(i) /\ UNCHANGED <<hand, ch, got>>
    BY <1>6 DEF SubscribeFails, ReceiveFails
  <2> QED
    BY <1>0, <2>1 DEF TypeOK, waitForReconnect
<1>7. ASSUME NEW i \in Instances, BackoffEnds(i) PROVE Quiet
  BY <1>0, <1>7 DEF TypeOK, BackoffEnds
<1>8. ASSUME NEW i \in Instances, HandOverCancelled(i) PROVE Quiet
  BY <1>0, <1>8 DEF TypeOK, HandOverCancelled
<1>9. ASSUME NEW i \in Instances, i # j, Receive(i) \/ HandOver(i) PROVE Quiet
  BY <1>0, <1>9 DEF TypeOK, Receive, HandOver
<1>10. ASSUME NEW i \in Instances, i # j, BroadcastToRoomLocal(i) PROVE Quiet
  BY <1>0, <1>10 DEF TypeOK, BroadcastToRoomLocal
<1>11. ASSUME UNCHANGED <<sent, publisher, subscriber, stream, got, broker>> PROVE Quiet
  BY <1>11
<1> HIDE DEF Quiet, Comes
<1>12. Quiet \/ (\E m \in Messages : Comes(m)) \/ Receive(j) \/ HandOver(j) \/ BroadcastToRoomLocal(j)
  BY BridgeSteps, <1>1, <1>2, <1>3, <1>4, <1>5, <1>6, <1>7, <1>8, <1>9, <1>10, <1>11
<1> QED
  BY <1>12 DEF Quiet, Comes

\* At every station the answered messages of one source stay in order,
\* whatever is lost between the stations.
LEMMA OrderKept == BridgeInv /\ [Next]_vars => OrderInv'
<1> SUFFICES ASSUME BridgeInv, [Next]_vars, NEW j \in Instances
             PROVE  RoomsInOrder(j)' /\ ChannelInOrder(j)' /\ HandInOrder(j)' /\ StreamInOrder(j)'
  BY DEF OrderInv
<1> DEFINE
      Later(m) == /\ m[2] \in 1 .. sent'[m[1]]
                  /\ m \notin unanswered' =>
                        /\ m[2] \in 1 .. sent'[m[1]]
                        /\ pub'[m[1]] = "publish" => m[2] < job'[m[1]]
                        /\ \A k \in 1 .. Len(queue'[m[1]]) : m[2] < queue'[m[1]][k]
      Ord(m, n) == m \notin unanswered' /\ n \notin unanswered' /\ m[1] = n[1] => m[2] < n[2]
      Turn(m) == \A k \in 1 .. Len(got'[j]) : Ord(got'[j][k], m)
      Rooms == \A k \in 1 .. Len(got'[j]) : Later(got'[j][k])
      Chan == /\ \A k \in 1 .. Len(ch'[j]) : Later(ch'[j][k]) /\ Turn(ch'[j][k]) /\ ch'[j][k][1] # j
              /\ \A k, l \in 1 .. Len(ch'[j]) : k < l => Ord(ch'[j][k], ch'[j][l])
      Hand == sub'[j] = "handing" =>
                 /\ hand'[j] \in Messages
                 /\ Later(hand'[j]) /\ Turn(hand'[j]) /\ hand'[j][1] # j
                 /\ \A k \in 1 .. Len(ch'[j]) : Ord(ch'[j][k], hand'[j])
                 /\ \A l \in 1 .. Len(stream'[j]) : Ord(hand'[j], stream'[j][l])
      Stream == /\ \A l \in 1 .. Len(stream'[j]) :
                      /\ Later(stream'[j][l]) /\ Turn(stream'[j][l])
                      /\ \A k \in 1 .. Len(ch'[j]) : Ord(ch'[j][k], stream'[j][l])
                /\ \A k, l \in 1 .. Len(stream'[j]) : k < l => Ord(stream'[j][k], stream'[j][l])
<1> SUFFICES Rooms /\ Chan /\ Hand /\ Stream
  <2>1. Rooms => RoomsInOrder(j)'
    BY DEF RoomsInOrder, Placed, Behind
  <2>2. Chan => ChannelInOrder(j)'
    BY DEF ChannelInOrder, Placed, Behind, InOrder, MayFollow
  <2>3. Hand => HandInOrder(j)'
    BY DEF HandInOrder, Placed, Behind, InOrder, MayFollow
  <2>4. Stream => StreamInOrder(j)'
    BY DEF StreamInOrder, Placed, Behind, InOrder, MayFollow
  <2> QED
    BY <2>1, <2>2, <2>3, <2>4
<1>1. \A m \in Messages : Placed(m) => Later(m)
  BY PlacesKept DEF Behind
<1>2. \A m, n \in Messages : InOrder(m, n) => Ord(m, n)
  BY PlacesKept
<1>3. /\ stream[j] \in Seq(Messages) /\ ch[j] \in Seq(Messages) /\ got[j] \in Seq(Messages)
      /\ Len(stream[j]) \in Nat /\ Len(ch[j]) \in Nat /\ Len(got[j]) \in Nat
      /\ \A k \in 1 .. Len(stream[j]) : stream[j][k] \in Messages
      /\ \A k \in 1 .. Len(ch[j]) : ch[j][k] \in Messages
      /\ \A k \in 1 .. Len(got[j]) : got[j][k] \in Messages
  BY DEF BridgeInv, TypeOK
<1>4. RoomsInOrder(j) /\ ChannelInOrder(j) /\ HandInOrder(j) /\ StreamInOrder(j)
  BY DEF BridgeInv, OrderInv
<1>t. ASSUME NEW m \in Messages, MayFollow(j, m), got'[j] = got[j] PROVE Turn(m)
  BY <1>2, <1>3, <1>t DEF MayFollow
<1> HIDE DEF Later, Ord
<1>r. got'[j] = got[j] => Rooms
  BY <1>1, <1>3, <1>4 DEF RoomsInOrder
<1>c. got'[j] = got[j] /\ ch'[j] = ch[j] => Chan
  <2> SUFFICES ASSUME got'[j] = got[j], ch'[j] = ch[j] PROVE Chan
    OBVIOUS
  <2>1. ASSUME NEW k \in 1 .. Len(ch[j]) PROVE Later(ch[j][k]) /\ Turn(ch[j][k]) /\ ch[j][k][1] # j
    BY <1>1, <1>3, <1>4, <1>t DEF ChannelInOrder
  <2>2. ASSUME NEW k \in 1 .. Len(ch[j]), NEW l \in 1 .. Len(ch[j]), k < l PROVE Ord(ch[j][k], ch[j][l])
    BY <1>2, <1>3, <1>4, <2>2 DEF ChannelInOrder
  <2> QED
    BY <2>1, <2>2
<1> HIDE DEF Turn
<1>5. CASE /\ stream'[j] \in {stream[j], <<>>} /\ ch'[j] = ch[j] /\ got'[j] = got[j]
           /\ sub'[j] = "handing" => sub[j] = "handing" /\ hand'[j] = hand[j]
  <2>3. CASE stream'[j] = stream[j]
    <3>1. Hand
      BY <1>1, <1>2, <1>3, <1>4, <1>5, <1>t, <2>3 DEF HandInOrder
    <3>2. ASSUME NEW l \in 1 .. Len(stream[j])
          PROVE  /\ Later(stream[j][l]) /\ Turn(stream[j][l])
                 /\ \A k \in 1 .. Len(ch[j]) : Ord(ch[j][k], stream[j][l])
      BY <1>1, <1>2, <1>3, <1>4, <1>5, <1>t DEF StreamInOrder
    <3>3. ASSUME NEW k \in 1 .. Len(stream[j]), NEW l \in 1 .. Len(stream[j]), k < l
          PROVE  Ord(stream[j][k], stream[j][l])
      BY <1>2, <1>3, <1>4, <3>3 DEF StreamInOrder
    <3> QED
      BY <1>5, <1>r, <1>c, <2>3, <3>1, <3>2, <3>3
  <2>4. CASE stream'[j] = <<>>
    <3>1. \A k \in 1 .. Len(stream'[j]) : FALSE
      BY <2>4
    <3>2. Hand
      BY <1>1, <1>2, <1>3, <1>4, <1>5, <1>t, <3>1 DEF HandInOrder
    <3>3. Stream
      BY <3>1
    <3> QED
      BY <1>5, <1>r, <1>c, <3>2, <3>3
  <2> QED
    BY <1>5, <2>3, <2>4
<1>6. ASSUME NEW m \in Messages,
             \/ m \in unanswered
             \/ /\ pub[m[1]] = "publish" /\ m[2] = job[m[1]]
                /\ pub'[m[1]] = "select" /\ queue' = queue /\ sent' = sent,
             stream'[j] = Append(stream[j], m), unanswered' = unanswered,
             ch' = ch, got' = got, sub' = sub, hand' = hand
      PROVE  Rooms /\ Chan /\ Hand /\ Stream
  <2>0. m[1] \in Instances /\ m[2] \in Nat /\ \A n \in Messages : n[1] \in Instances /\ n[2] \in Nat
    BY DEF Messages
  <2>1. Later(m)
    <3>1. CASE m \in unanswered
      <4>1. Placed(m)
        BY <3>1 DEF BridgeInv, LateInv, Placed
      <4> QED
        BY <1>1, <4>1
    <3>2. CASE m \notin unanswered
      <4>1. /\ m[2] \in 1 .. sent[m[1]] /\ \A k \in 1 .. Len(queue[m[1]]) : m[2] < queue[m[1]][k]
        BY <1>6, <2>0, <3>2 DEF BridgeInv, QueueInv
      <4> QED
        BY <1>6, <3>2, <4>1 DEF Later
    <3> QED
      BY <3>1, <3>2
  <2>2. \A n \in Messages : Placed(n) => Ord(n, m)
    BY <1>6, <2>0 DEF Ord, Placed, Behind
  <2>3. Turn(m)
    BY <1>3, <1>4, <1>6, <2>2 DEF Turn, RoomsInOrder
  <2>4. /\ Len(stream'[j]) = Len(stream[j]) + 1
        /\ \A k \in 1 .. Len(stream[j]) : stream'[j][k] = stream[j][k]
        /\ stream'[j][Len(stream[j]) + 1] = m
        /\ \A k \in 1 .. Len(stream'[j]) : k \in 1 .. Len(stream[j]) \/ k = Len(stream[j]) + 1
    BY <1>3, <1>6, AppendAt
  <2>6. Rooms /\ Chan
    BY <1>6, <1>r, <1>c
  <2>7. Hand
    <3> SUFFICES ASSUME sub[j] = "handing" PROVE Hand
      BY <1>6
    <3>1. /\ hand[j] \in Messages /\ Placed(hand[j]) /\ MayFollow(j, hand[j]) /\ hand[j][1] # j
          /\ \A k \in 1 .. Len(ch[j]) : InOrder(ch[j][k], hand[j])
          /\ \A l \in 1 .. Len(stream[j]) : InOrder(hand[j], stream[j][l])
      BY <1>4 DEF HandInOrder
    <3>2. Later(hand[j]) /\ Turn(hand[j]) /\ Ord(hand[j], m)
      BY <1>1, <1>6, <1>t, <2>2, <3>1
    <3>3. \A k \in 1 .. Len(ch[j]) : Ord(ch[j][k], hand[j])
      BY <1>2, <1>3, <3>1
    <3>4. \A l \in 1 .. Len(stream[j]) : Ord(hand[j], stream[j][l])
      BY <1>2, <1>3, <3>1
    <3> QED
      BY <1>6, <2>4, <3>1, <3>2, <3>3, <3>4
  <2>8. ASSUME NEW l \in 1 .. Len(stream'[j])
        PROVE  /\ Later(stream'[j][l]) /\ Turn(stream'[j][l])
               /\ \A k \in 1 .. Len(ch'[j]) : Ord(ch'[j][k], stream'[j][l])
    <3>1. CASE l \in 1 .. Len(stream[j])
      BY <1>1, <1>2, <1>3, <1>4, <1>6, <1>t, <2>4, <3>1 DEF StreamInOrder
    <3>2. CASE l = Len(stream[j]) + 1
      BY <1>3, <1>4, <1>6, <2>1, <2>2, <2>3, <2>4, <3>2 DEF ChannelInOrder
    <3> QED
      BY <2>4, <3>1, <3>2
  <2>9. ASSUME NEW k \in 1 .. Len(stream'[j]), NEW l \in 1 .. Len(stream'[j]), k < l
        PROVE  Ord(stream'[j][k], stream'[j][l])
    <3>0. k \in 1 .. Len(stream[j])
      BY <1>3, <2>4, <2>9
    <3>1. CASE l \in 1 .. Len(stream[j])
      <4>1. InOrder(stream[j][k], stream[j][l])
        BY <1>4, <2>9, <3>0, <3>1 DEF StreamInOrder
      <4> QED
        BY <1>2, <1>3, <2>4, <3>0, <3>1, <4>1
    <3>2. CASE l = Len(stream[j]) + 1
      BY <1>3, <1>4, <2>2, <2>4, <3>0, <3>2 DEF StreamInOrder
    <3> QED
      BY <2>4, <3>1, <3>2
  <2> QED
    BY <2>6, <2>7, <2>8, <2>9
<1>7. CASE Receive(j)
  <2> DEFINE m == Head(stream[j])
  <2>1. /\ sub[j] = "subscribed" /\ stream[j] # <<>> /\ stream'[j] = Tail(stream[j])
        /\ ch' = ch /\ got' = got
        /\ \/ m[1] = j /\ sub' = sub
           \/ m[1] # j /\ hand'[j] = m
    BY <1>7 DEF BridgeInv, TypeOK, Receive, subscriber, rooms
  <2>2. /\ m = stream[j][1] /\ 1 \in 1 .. Len(stream[j])
        /\ \A k \in 1 .. Len(stream'[j]) : k + 1 \in 1 .. Len(stream[j]) /\ stream'[j][k] = stream[j][k + 1]
        /\ Len(stream'[j]) \in Nat
    BY <1>3, <2>1, TailAt
  <2> HIDE DEF m
  <2>3. Rooms /\ Chan
    BY <1>r, <1>c, <2>1
  <2>4. ASSUME NEW l \in 1 .. Len(stream'[j]) PROVE Ord(m, stream'[j][l])
    <3>1. 1 < l + 1 /\ l + 1 \in 1 .. Len(stream[j]) /\ stream'[j][l] = stream[j][l + 1]
      BY <2>2
    <3>2. InOrder(stream[j][1], stream[j][l + 1])
      BY <1>4, <2>2, <3>1 DEF StreamInOrder
    <3> QED
      BY <1>2, <1>3, <2>2, <3>1, <3>2
  <2>a. ASSUME NEW l \in 1 .. Len(stream[j])
        PROVE  /\ Later(stream[j][l]) /\ Turn(stream[j][l])
               /\ \A k \in 1 .. Len(ch[j]) : Ord(ch[j][k], stream[j][l])
    BY <1>1, <1>2, <1>3, <1>4, <1>t, <2>1 DEF StreamInOrder
  <2>5. /\ m \in Messages /\ Later(m) /\ Turn(m)
        /\ \A k \in 1 .. Len(ch[j]) : Ord(ch[j][k], m)
    BY <1>3, <2>2, <2>a
  <2>6. Hand
    BY <2>1, <2>4, <2>5
  <2>7. ASSUME NEW l \in 1 .. Len(stream'[j])
        PROVE  /\ Later(stream'[j][l]) /\ Turn(stream'[j][l])
               /\ \A k \in 1 .. Len(ch'[j]) : Ord(ch'[j][k], stream'[j][l])
    BY <2>1, <2>2, <2>a
  <2>8. ASSUME NEW k \in 1 .. Len(stream'[j]), NEW l \in 1 .. Len(stream'[j]), k < l
        PROVE  Ord(stream'[j][k], stream'[j][l])
    <3>1. k + 1 < l + 1 /\ k + 1 \in 1 .. Len(stream[j]) /\ l + 1 \in 1 .. Len(stream[j])
      BY <1>3, <2>2, <2>8
    <3>2. InOrder(stream[j][k + 1], stream[j][l + 1])
      BY <1>4, <3>1 DEF StreamInOrder
    <3> QED
      BY <1>2, <1>3, <2>2, <3>1, <3>2
  <2> QED
    BY <2>3, <2>6, <2>7, <2>8
<1>8. CASE HandOver(j)
  <2> DEFINE m == hand[j]
  <2>1. /\ sub[j] = "handing" /\ sub'[j] = "subscribed" /\ ch'[j] = Append(ch[j], m)
        /\ stream' = stream /\ got' = got
    BY <1>8 DEF BridgeInv, TypeOK, HandOver, rooms
  <2>2. /\ m \in Messages /\ Placed(m) /\ MayFollow(j, m) /\ m[1] # j
        /\ \A k \in 1 .. Len(ch[j]) : InOrder(ch[j][k], m)
        /\ \A l \in 1 .. Len(stream[j]) : InOrder(m, stream[j][l])
    BY <1>4, <2>1 DEF HandInOrder
  <2>3. /\ Len(ch'[j]) = Len(ch[j]) + 1
        /\ \A k \in 1 .. Len(ch[j]) : ch'[j][k] = ch[j][k]
        /\ ch'[j][Len(ch[j]) + 1] = m
        /\ \A k \in 1 .. Len(ch'[j]) : k \in 1 .. Len(ch[j]) \/ k = Len(ch[j]) + 1
    BY <1>3, <2>1, <2>2, AppendAt
  <2> HIDE DEF m
  <2>4. Later(m) /\ Turn(m)
    BY <1>1, <1>t, <2>1, <2>2
  <2>5. Rooms /\ Hand
    BY <1>r, <2>1
  <2>6. ASSUME NEW k \in 1 .. Len(ch'[j])
        PROVE  Later(ch'[j][k]) /\ Turn(ch'[j][k]) /\ ch'[j][k][1] # j
    <3>1. CASE k \in 1 .. Len(ch[j])
      BY <1>1, <1>3, <1>4, <1>t, <2>1, <2>3, <3>1 DEF ChannelInOrder
    <3>2. CASE k = Len(ch[j]) + 1
      BY <2>2, <2>3, <2>4, <3>2
    <3> QED
      BY <2>3, <3>1, <3>2
  <2>7. ASSUME NEW k \in 1 .. Len(ch'[j]), NEW l \in 1 .. Len(ch'[j]), k < l
        PROVE  Ord(ch'[j][k], ch'[j][l])
    <3>0. k \in 1 .. Len(ch[j])
      BY <1>3, <2>3, <2>7
    <3>1. CASE l \in 1 .. Len(ch[j])
      <4>1. InOrder(ch[j][k], ch[j][l])
        BY <1>4, <2>7, <3>0, <3>1 DEF ChannelInOrder
      <4> QED
        BY <1>2, <1>3, <2>3, <3>0, <3>1, <4>1
    <3>2. CASE l = Len(ch[j]) + 1
      BY <1>2, <1>3, <2>2, <2>3, <3>0, <3>2
    <3> QED
      BY <2>3, <3>1, <3>2
  <2>8. ASSUME NEW l \in 1 .. Len(stream[j])
        PROVE  /\ Later(stream[j][l]) /\ Turn(stream[j][l]) /\ Ord(m, stream[j][l])
               /\ \A k \in 1 .. Len(ch[j]) : Ord(ch[j][k], stream[j][l])
    BY <1>1, <1>2, <1>3, <1>4, <1>t, <2>1, <2>2 DEF StreamInOrder
  <2>9. ASSUME NEW k \in 1 .. Len(stream[j]), NEW l \in 1 .. Len(stream[j]), k < l
        PROVE  Ord(stream[j][k], stream[j][l])
    BY <1>2, <1>3, <1>4, <2>9 DEF StreamInOrder
  <2>10. Stream
    BY <2>1, <2>3, <2>8, <2>9
  <2> QED
    BY <2>5, <2>6, <2>7, <2>10
<1>9. CASE BroadcastToRoomLocal(j)
  <2> DEFINE m == Head(ch[j])
  <2>1. /\ ch[j] # <<>> /\ ch'[j] = Tail(ch[j])
        /\ sub' = sub /\ hand' = hand /\ stream' = stream
        /\ got'[j] = got[j] \/ got'[j] = Append(got[j], m)
    BY <1>9 DEF BridgeInv, TypeOK, BroadcastToRoomLocal, rooms
  <2>2. /\ m = ch[j][1] /\ 1 \in 1 .. Len(ch[j])
        /\ \A k \in 1 .. Len(ch'[j]) : k + 1 \in 1 .. Len(ch[j]) /\ ch'[j][k] = ch[j][k + 1]
        /\ Len(ch'[j]) \in Nat
    BY <1>3, <2>1, TailAt
  <2> HIDE DEF m
  <2>3. m \in Messages /\ Later(m)
    BY <1>1, <1>3, <1>4, <2>2 DEF ChannelInOrder
  <2>4. \A k \in 1 .. Len(got'[j]) :
           (k \in 1 .. Len(got[j]) /\ got'[j][k] = got[j][k]) \/ got'[j][k] = m
    <3>1. CASE got'[j] = Append(got[j], m)
      BY <1>3, <2>3, <3>1, AppendAt
    <3>2. CASE got'[j] = got[j]
      BY <3>2
    <3> QED
      BY <2>1, <3>1, <3>2
  <2>5. ASSUME NEW n \in Messages, MayFollow(j, n), InOrder(m, n) PROVE Turn(n)
    <3>1. Ord(m, n) /\ \A k \in 1 .. Len(got[j]) : Ord(got[j][k], n)
      BY <1>2, <1>3, <2>3, <2>5 DEF MayFollow
    <3> QED
      BY <2>4, <3>1 DEF Turn
  <2>6. Rooms
    BY <1>1, <1>3, <1>4, <2>3, <2>4 DEF RoomsInOrder
  <2>7. ASSUME NEW k \in 1 .. Len(ch'[j])
        PROVE  Later(ch'[j][k]) /\ Turn(ch'[j][k]) /\ ch'[j][k][1] # j
    <3>1. /\ k + 1 \in 1 .. Len(ch[j]) /\ ch'[j][k] = ch[j][k + 1] /\ ch[j][k + 1] \in Messages
          /\ 1 < k + 1
      BY <1>3, <2>2
    <3>2. InOrder(m, ch[j][k + 1])
      BY <1>4, <2>2, <3>1 DEF ChannelInOrder
    <3>3. Placed(ch[j][k + 1]) /\ MayFollow(j, ch[j][k + 1]) /\ ch[j][k + 1][1] # j
      BY <1>4, <3>1 DEF ChannelInOrder
    <3> QED
      BY <1>1, <2>5, <3>1, <3>2, <3>3
  <2>8. ASSUME NEW k \in 1 .. Len(ch'[j]), NEW l \in 1 .. Len(ch'[j]), k < l
        PROVE  Ord(ch'[j][k], ch'[j][l])
    <3>1. k + 1 < l + 1 /\ k + 1 \in 1 .. Len(ch[j]) /\ l + 1 \in 1 .. Len(ch[j])
      BY <1>3, <2>2, <2>8
    <3>2. InOrder(ch[j][k + 1], ch[j][l + 1])
      BY <1>4, <3>1 DEF ChannelInOrder
    <3> QED
      BY <1>2, <1>3, <2>2, <3>1, <3>2
  <2>9. Hand
    <3> SUFFICES ASSUME sub[j] = "handing" PROVE Hand
      BY <2>1
    <3>1. /\ hand[j] \in Messages /\ Placed(hand[j]) /\ MayFollow(j, hand[j]) /\ hand[j][1] # j
          /\ \A k \in 1 .. Len(ch[j]) : InOrder(ch[j][k], hand[j])
          /\ \A l \in 1 .. Len(stream[j]) : InOrder(hand[j], stream[j][l])
      BY <1>4 DEF HandInOrder
    <3>2. Later(hand[j]) /\ Turn(hand[j])
      BY <1>1, <2>2, <2>5, <3>1
    <3>3. \A k \in 1 .. Len(ch'[j]) : Ord(ch'[j][k], hand[j])
      BY <1>2, <1>3, <2>2, <3>1
    <3>4. \A l \in 1 .. Len(stream[j]) : Ord(hand[j], stream[j][l])
      BY <1>2, <1>3, <3>1
    <3> QED
      BY <2>1, <3>1, <3>2, <3>3, <3>4
  <2>10. ASSUME NEW l \in 1 .. Len(stream[j])
         PROVE  /\ Later(stream[j][l]) /\ Turn(stream[j][l])
                /\ \A k \in 1 .. Len(ch'[j]) : Ord(ch'[j][k], stream[j][l])
    <3>1. /\ Placed(stream[j][l]) /\ MayFollow(j, stream[j][l]) /\ stream[j][l] \in Messages
          /\ \A k \in 1 .. Len(ch[j]) : InOrder(ch[j][k], stream[j][l])
      BY <1>3, <1>4 DEF StreamInOrder
    <3>2. Later(stream[j][l]) /\ Turn(stream[j][l])
      BY <1>1, <2>2, <2>5, <3>1
    <3>3. \A k \in 1 .. Len(ch'[j]) : Ord(ch'[j][k], stream[j][l])
      BY <1>2, <1>3, <2>2, <3>1
    <3> QED
      BY <3>2, <3>3
  <2>11. ASSUME NEW k \in 1 .. Len(stream[j]), NEW l \in 1 .. Len(stream[j]), k < l
         PROVE  Ord(stream[j][k], stream[j][l])
    BY <1>2, <1>3, <1>4, <2>11 DEF StreamInOrder
  <2> QED
    BY <2>1, <2>6, <2>7, <2>8, <2>9, <2>10, <2>11
<1> QED
  BY StationEffect, <1>5, <1>6, <1>7, <1>8, <1>9

-----------------------------------------------------------------------------
(* The theorems.                                                           *)

\* The inductive invariant holds in every behaviour: on every way from
\* BroadcastToRoom to the rooms of another instance the answered messages of
\* one source are in order, each at one place only.
THEOREM BridgeInvariant == Spec => []BridgeInv
<1>1. BridgeInv /\ [Next]_vars => BridgeInv'
  BY BridgeTypes, QueueKept, LateKept, OrderKept DEF BridgeInv
<1> QED
  BY BridgeInit, <1>1, PTL DEF Spec

\* The bridge implements the ordered channel: other instances pass on the
\* broadcasts that were published without trouble at most once and in the
\* order in which they were made, across full queues, repeated commands,
\* broken connections and outages, and nobody his own.
THEOREM BridgeKeepsOrder == Spec => ImplementsOrderedChannel
<1>1. Init => Promise!Init
  BY DEF Init, Promise!Init
<1>2. BridgeInv /\ [Next]_vars => [Promise!Next]_<<sent, unanswered, got>>
  <2> SUFFICES ASSUME BridgeInv, [Next]_vars PROVE [Promise!Next]_<<sent, unanswered, got>>
    OBVIOUS
  <2>0. TypeOK
    BY DEF BridgeInv
  <2> USE DEF publisher, subscriber, rooms, broker
  <2>1. ASSUME NEW i \in Instances, BroadcastToRoom(i)
        PROVE  [Promise!Next]_<<sent, unanswered, got>>
    BY <2>1 DEF BroadcastToRoom, Promise!Next, Promise!Send
  <2>2. ASSUME NEW j \in Instances, BroadcastToRoomLocal(j)
        PROVE  [Promise!Next]_<<sent, unanswered, got>>
    <3> DEFINE m == Head(ch[j])
    <3>1. ch[j] \in Seq(Messages) /\ ch[j] # <<>>
      BY <2>0, <2>2 DEF BroadcastToRoomLocal, TypeOK
    <3>2. m = ch[j][1] /\ 1 \in 1 .. Len(ch[j]) /\ m \in Messages
      BY <3>1, TailAt
    <3>3. /\ sent' = sent /\ unanswered' = unanswered
          /\ got' = got \/ got' = [got EXCEPT ![j] = Append(@, m)]
      BY <2>2 DEF BroadcastToRoomLocal
    <3> HIDE DEF m
    <3>4. Placed(m) /\ MayFollow(j, m) /\ m[1] # j
      BY <3>2 DEF BridgeInv, OrderInv, ChannelInOrder
    <3>5. m[1] \in Instances /\ m[2] \in 1 .. sent[m[1]] /\ m = <<m[1], m[2]>>
      BY <3>2, <3>4 DEF Placed, Messages
    <3>6. m \in unanswered \/ Promise!Follows(j, m)
      BY <3>4 DEF MayFollow, InOrder, Promise!Follows
    <3>7. CASE got' = got
      BY <3>3, <3>7
    <3>8. CASE got' = [got EXCEPT ![j] = Append(@, m)]
      <4>1. Promise!Deliver(j, m)
        BY <3>3, <3>4, <3>6, <3>8 DEF Promise!Deliver
      <4>2. Promise!Deliver(j, <<m[1], m[2]>>)
        BY <3>5, <4>1
      <4> QED
        BY <3>5, <4>2 DEF Promise!Next
    <3> QED
      BY <3>3, <3>7, <3>8
  <2>3. ASSUME NEW i \in Instances, PublishUnanswered(i)
        PROVE  [Promise!Next]_<<sent, unanswered, got>>
    <3>1. /\ pub[i] = "publish" /\ unanswered' = unanswered \cup {<<i, job[i]>>}
          /\ sent' = sent /\ got' = got
      BY <2>3 DEF PublishUnanswered
    <3>2. job[i] \in 1 .. sent[i] /\ job[i] \in Nat
      BY <2>0, <3>1 DEF BridgeInv, QueueInv, TypeOK
    <3>3. CASE <<i, job[i]>> \in unanswered
      BY <3>1, <3>3
    <3>4. CASE <<i, job[i]>> \notin unanswered
      <4>1. ASSUME NEW j \in Instances, NEW k \in 1 .. Len(got[j]) PROVE got[j][k] # <<i, job[i]>>
        <5>1. Placed(got[j][k])
          BY DEF BridgeInv, OrderInv, RoomsInOrder
        <5>2. got[j][k] = <<i, job[i]>> => job[i] < job[i]
          BY <3>1, <3>4, <5>1 DEF Placed, Behind
        <5> QED
          BY <3>2, <5>2
      <4>2. Promise!Unanswered(<<i, job[i]>>)
        BY <3>1, <4>1 DEF Promise!Unanswered
      <4> QED
        BY <3>2, <4>2 DEF Promise!Next
    <3> QED
      BY <3>3, <3>4
  <2>4. ASSUME NEW c \in late, ExecuteLate(c) PROVE UNCHANGED <<sent, unanswered, got>>
    BY <2>4 DEF ExecuteLate
  <2>5. ASSUME NEW i \in Instances,
               \/ TakeJob(i) \/ PublishOk(i) \/ PublishFails(i) \/ PublishLoopEnds(i)
               \/ Subscribe(i) \/ SubscribeFails(i) \/ BackoffEnds(i) \/ Receive(i)
               \/ ReceiveFails(i) \/ HandOver(i) \/ HandOverCancelled(i)
        PROVE  UNCHANGED <<sent, unanswered, got>>
    BY <2>5 DEF TakeJob, PublishOk, PublishFails, PublishLoopEnds, Subscribe, SubscribeFails,
       BackoffEnds, Receive, ReceiveFails, HandOver, HandOverCancelled
  <2>6. CASE UNCHANGED <<sent, unanswered, got>>
    BY <2>6
  <2> QED
    BY BridgeSteps, <2>1, <2>2, <2>3, <2>4, <2>5, <2>6
<1> QED
  BY <1>1, <1>2, BridgeInvariant, PTL DEF Spec, ImplementsOrderedChannel, Promise!Spec, Promise!vars

=============================================================================
