--------------------------- MODULE DanmakuService ---------------------------
(***************************************************************************)
(* The send path and the graceful shutdown of service/danmaku.go: requests *)
(* that run createAndBroadcast concurrently, the goroutine that drains     *)
(* danmakuChan into the store, the callers of Shutdown and the part of     *)
(* main.go that closes the hub and the database after Shutdown returned.   *)
(*                                                                         *)
(* A request is one HandleMessage or CreateDanmaku call; its danmaku is    *)
(* identified with the request (the code draws a fresh UUID for each).     *)
(* Content, colour, user and room are abstracted to the verdict of the     *)
(* checks: refused, flagged for review, approved.                          *)
(***************************************************************************)
EXTENDS Integers, Sequences, FiniteSets

CONSTANTS Requests,     \* the send requests of one process lifetime
          Callers,      \* the calls of Shutdown (a retry is another caller)
          MainCaller,   \* the call that main makes
          Modes,        \* persistence paths the process may be started with
          BufferSize    \* capacity of danmakuChan (asyncBufferSize)

ASSUME RequestsFinite == IsFiniteSet(Requests)
ASSUME MainCallerAssumption == MainCaller \in Callers
ASSUME ModesAssumption == Modes \subseteq {"kafka", "chan", "direct"}
ASSUME BufferAssumption == BufferSize \in Nat \ {0}

VARIABLES mode,         \* the path NewDanmakuService chose
          pc,           \* where each request is in createAndBroadcast
          verdict,      \* outcome of validation, rate limit and moderation
          result,       \* what the request returns to its client
          inflight,     \* DanmakuService.inflight
          accepting,    \* DanmakuService.accepting
          closed,       \* DanmakuService.closed
          buf,          \* contents of danmakuChan
          chanClosed,   \* close(danmakuChan) was executed
          current,      \* the danmaku the consumer holds: <<>> or <<dm>>
          consumerDone, \* danmakuConsumer returned (its wg.Done ran)
          producerClosed, \* kafkaProducer.Close was called
          durable,      \* danmaku that reached the store or the topic
          failedWrites, \* danmaku whose store.Add failed in the consumer
          broadcast,    \* danmaku handed to hub.BroadcastToRoom of an open hub
          sd,           \* where each call of Shutdown is
          main,         \* progress of main after its Shutdown call returned
          sent,         \* history: danmaku in the order danmakuChan took them
          written       \* history: danmaku in the order the consumer ended them

requestVars  == <<pc, verdict, result, inflight>>
chanVars     == <<buf, chanClosed, current, consumerDone, sent, written>>
sinkVars     == <<durable, failedWrites, broadcast>>
shutdownVars == <<accepting, closed, producerClosed, sd, main>>
vars == <<mode, requestVars, chanVars, sinkVars, shutdownVars>>

-----------------------------------------------------------------------------
(* Program points.                                                         *)

RequestPoints == {"idle", "entering", "registered", "accepted", "checked",
                  "persisted", "leaving", "done"}

\* The points at which the request is counted in inflight.
InFlightPoints == {"registered", "accepted", "checked", "persisted", "leaving"}

\* The points from which the request still may write to the channel, the
\* producer or the store.
WritingPoints == {"accepted", "checked"}

Results == {"none", "refused", "shutting_down", "buffered", "persisted",
            "queue_full", "persistence_failed"}

CallPoints == {"idle", "polling", "waiting", "closing", "swapping", "closeChan",
               "draining", "nil", "error"}

\* The points of a Shutdown call that saw inflight = 0.
QuiescentPoints == {"closing", "swapping", "closeChan", "draining", "nil"}

StoreOpen == main # "storeClosed" /\ main # "exited"
HubOpen   == main = "serving"
Alive     == main # "exited"

TypeOK ==
    /\ mode \in Modes
    /\ pc \in [Requests -> RequestPoints]
    /\ verdict \in [Requests -> {"none", "flagged", "approved"}]
    /\ result \in [Requests -> Results]
    /\ inflight \in Nat
    /\ accepting \in BOOLEAN
    /\ closed \in BOOLEAN
    /\ buf \in Seq(Requests)
    /\ chanClosed \in BOOLEAN
    /\ current \in Seq(Requests)
    /\ consumerDone \in BOOLEAN
    /\ producerClosed \in BOOLEAN
    /\ durable \in SUBSET Requests
    /\ failedWrites \in SUBSET Requests
    /\ broadcast \in SUBSET Requests
    /\ sd \in [Callers -> CallPoints]
    /\ main \in {"serving", "hubClosed", "storeClosed", "exited"}
    /\ sent \in Seq(Requests)
    /\ written \in Seq(Requests)

Init ==
    /\ mode \in Modes
    /\ pc = [r \in Requests |-> "idle"]
    /\ verdict = [r \in Requests |-> "none"]
    /\ result = [r \in Requests |-> "none"]
    /\ inflight = 0
    /\ accepting = TRUE
    /\ closed = FALSE
    /\ buf = <<>>
    /\ chanClosed = FALSE
    /\ current = <<>>
    /\ consumerDone = FALSE
    /\ producerClosed = FALSE
    /\ durable = {}
    /\ failedWrites = {}
    /\ broadcast = {}
    /\ sd = [c \in Callers |-> "idle"]
    /\ main = "serving"
    /\ sent = <<>>
    /\ written = <<>>

-----------------------------------------------------------------------------
(* A request.                                                              *)

\* HandleMessage and CreateDanmaku up to the call of createAndBroadcast:
\* authentication, room status and parsing refuse the request or let it in.
Arrive(r) ==
    /\ Alive
    /\ pc[r] = "idle"
    /\ \/ /\ pc' = [pc EXCEPT ![r] = "entering"]
          /\ UNCHANGED result
       \/ /\ pc' = [pc EXCEPT ![r] = "done"]
          /\ result' = [result EXCEPT ![r] = "refused"]
    /\ UNCHANGED <<verdict, inflight, chanVars, sinkVars, shutdownVars, mode>>

\* s.inflight.Add(1), before accepting is looked at.
Register(r) ==
    /\ Alive
    /\ pc[r] = "entering"
    /\ pc' = [pc EXCEPT ![r] = "registered"]
    /\ inflight' = inflight + 1
    /\ UNCHANGED <<verdict, result, chanVars, sinkVars, shutdownVars, mode>>

\* Mutant: the request goes on although the service stopped accepting.
CheckAcceptingIgnored(r) ==
    /\ Alive
    /\ pc[r] = "registered"
    /\ pc' = [pc EXCEPT ![r] = "accepted"]
    /\ UNCHANGED <<verdict, result, inflight, chanVars, sinkVars, shutdownVars, mode>>

\* if !s.accepting.Load() { return "service is shutting down" }
CheckAccepting(r) ==
    /\ Alive
    /\ pc[r] = "registered"
    /\ \/ /\ accepting
          /\ pc' = [pc EXCEPT ![r] = "accepted"]
          /\ UNCHANGED result
       \/ /\ ~accepting
          /\ pc' = [pc EXCEPT ![r] = "leaving"]
          /\ result' = [result EXCEPT ![r] = "shutting_down"]
    /\ UNCHANGED <<verdict, inflight, chanVars, sinkVars, shutdownVars, mode>>

\* validate, rateLimiter.Allow, CheckUserBan, CheckMute and CheckContent.
Moderate(r) ==
    /\ Alive
    /\ pc[r] = "accepted"
    /\ \/ \E v \in {"flagged", "approved"} :
             /\ verdict' = [verdict EXCEPT ![r] = v]
             /\ pc' = [pc EXCEPT ![r] = "checked"]
             /\ UNCHANGED result
       \/ /\ pc' = [pc EXCEPT ![r] = "leaving"]
          /\ result' = [result EXCEPT ![r] = "refused"]
          /\ UNCHANGED verdict
    /\ UNCHANGED <<inflight, chanVars, sinkVars, shutdownVars, mode>>

\* Where createAndBroadcast goes when persistDanmaku succeeded: a flagged
\* danmaku returns without being broadcast.
AfterPersist(r) == IF verdict[r] = "flagged" THEN "leaving" ELSE "persisted"

\* A write to the topic or to the database: it succeeds, it fails, or it
\* reports a failure although the record was written (an answer that is lost).
\* Nothing reaches a producer or a database that was closed.
WriteOutcomes == {[ok |-> TRUE,  effect |-> TRUE],
                  [ok |-> FALSE, effect |-> FALSE],
                  [ok |-> FALSE, effect |-> TRUE]}

\* A write of request r ends with outcome w.
Writing(r, w) ==
    /\ durable' = IF w.effect THEN durable \cup {r} ELSE durable
    /\ pc' = [pc EXCEPT ![r] = IF w.ok THEN AfterPersist(r) ELSE "leaving"]
    /\ result' = [result EXCEPT ![r] = IF w.ok THEN "persisted"
                                               ELSE "persistence_failed"]

\* persistDanmaku through KafkaProducer.Produce.
PersistKafka(r) ==
    /\ Alive
    /\ mode = "kafka"
    /\ pc[r] = "checked"
    /\ \E w \in WriteOutcomes : (w.effect => ~producerClosed) /\ Writing(r, w)
    /\ UNCHANGED <<verdict, inflight, chanVars, failedWrites, broadcast, shutdownVars, mode>>

\* persistDanmaku straight into the store.
PersistDirect(r) ==
    /\ Alive
    /\ mode = "direct"
    /\ pc[r] = "checked"
    /\ \E w \in WriteOutcomes : (w.effect => StoreOpen) /\ Writing(r, w)
    /\ UNCHANGED <<verdict, inflight, chanVars, failedWrites, broadcast, shutdownVars, mode>>

\* Mutant: a full channel is reported as a buffered danmaku.
PersistChanSilentDrop(r) ==
    /\ Alive
    /\ mode = "chan"
    /\ pc[r] = "checked"
    /\ result' = [result EXCEPT ![r] = "buffered"]
    /\ pc' = [pc EXCEPT ![r] = AfterPersist(r)]
    /\ buf' = IF Len(buf) < BufferSize THEN Append(buf, r) ELSE buf
    /\ sent' = IF Len(buf) < BufferSize THEN Append(sent, r) ELSE sent
    /\ UNCHANGED <<verdict, inflight, chanClosed, current, consumerDone, written,
                   sinkVars, shutdownVars, mode>>

\* persistDanmaku into danmakuChan: a non-blocking send, refused when full.
PersistChan(r) ==
    /\ Alive
    /\ mode = "chan"
    /\ pc[r] = "checked"
    /\ \/ /\ Len(buf) < BufferSize
          /\ buf' = Append(buf, r)
          /\ sent' = Append(sent, r)
          /\ pc' = [pc EXCEPT ![r] = AfterPersist(r)]
          /\ result' = [result EXCEPT ![r] = "buffered"]
       \/ /\ Len(buf) >= BufferSize
          /\ pc' = [pc EXCEPT ![r] = "leaving"]
          /\ result' = [result EXCEPT ![r] = "queue_full"]
          /\ UNCHANGED <<buf, sent>>
    /\ UNCHANGED <<verdict, inflight, chanClosed, current, consumerDone, written,
                   sinkVars, shutdownVars, mode>>

\* hub.BroadcastToRoom: it does nothing once the hub is shutting down.
Broadcast(r) ==
    /\ Alive
    /\ pc[r] = "persisted"
    /\ broadcast' = IF HubOpen THEN broadcast \cup {r} ELSE broadcast
    /\ pc' = [pc EXCEPT ![r] = "leaving"]
    /\ UNCHANGED <<verdict, result, inflight, chanVars, durable, failedWrites,
                   shutdownVars, mode>>

\* defer s.inflight.Add(-1), and the answer goes to the client.
Leave(r) ==
    /\ Alive
    /\ pc[r] = "leaving"
    /\ pc' = [pc EXCEPT ![r] = "done"]
    /\ inflight' = inflight - 1
    /\ UNCHANGED <<verdict, result, chanVars, sinkVars, shutdownVars, mode>>

\* The steps that the request's goroutine takes by itself; the three others
\* wait for Kafka or the database: Moderate looks up bans and mutes.
LocalStep(r) ==
    \/ Register(r)
    \/ CheckAccepting(r)
    \/ PersistChan(r)
    \/ Broadcast(r)
    \/ Leave(r)

RequestStep(r) == LocalStep(r) \/ Moderate(r) \/ PersistKafka(r) \/ PersistDirect(r)

-----------------------------------------------------------------------------
(* The goroutine danmakuConsumer.                                          *)

\* for dm := range s.danmakuChan: a buffered danmaku is received even after
\* the channel was closed.
ConsumerReceive ==
    /\ Alive
    /\ mode = "chan"
    /\ ~consumerDone
    /\ current = <<>>
    /\ buf # <<>>
    /\ current' = <<Head(buf)>>
    /\ buf' = Tail(buf)
    /\ UNCHANGED <<chanClosed, consumerDone, sent, written, requestVars,
                   sinkVars, shutdownVars, mode>>

\* Mutant: a danmaku whose write failed goes back into the channel.
ConsumerWriteRequeues ==
    /\ Alive
    /\ current # <<>>
    /\ current' = <<>>
    /\ \/ /\ StoreOpen
          /\ durable' = durable \cup {Head(current)}
          /\ written' = Append(written, Head(current))
          /\ UNCHANGED buf
       \/ /\ buf' = Append(buf, Head(current))
          /\ UNCHANGED <<durable, written>>
    /\ UNCHANGED <<chanClosed, consumerDone, sent, requestVars, failedWrites, broadcast,
                   shutdownVars, mode>>

\* Mutant: a failed write ends the consumer.
ConsumerWriteGivesUp ==
    /\ Alive
    /\ current # <<>>
    /\ current' = <<>>
    /\ written' = Append(written, Head(current))
    /\ \/ /\ StoreOpen
          /\ durable' = durable \cup {Head(current)}
          /\ UNCHANGED <<failedWrites, consumerDone>>
       \/ /\ failedWrites' = failedWrites \cup {Head(current)}
          /\ consumerDone' = TRUE
          /\ UNCHANGED durable
    /\ UNCHANGED <<buf, chanClosed, sent, requestVars, broadcast, shutdownVars, mode>>

\* s.store.Add(dm): a failure is logged and the danmaku is given up.
ConsumerWrite ==
    /\ Alive
    /\ current # <<>>
    /\ \E w \in WriteOutcomes :
          /\ w.effect => StoreOpen
          /\ durable' = IF w.effect THEN durable \cup {Head(current)} ELSE durable
          /\ failedWrites' = IF w.ok THEN failedWrites
                                     ELSE failedWrites \cup {Head(current)}
    /\ current' = <<>>
    /\ written' = Append(written, Head(current))
    /\ UNCHANGED <<buf, chanClosed, consumerDone, sent, requestVars, broadcast,
                   shutdownVars, mode>>

\* Mutant: the consumer returns as soon as the channel is closed.
ConsumerExitEarly ==
    /\ Alive
    /\ mode = "chan"
    /\ ~consumerDone
    /\ current = <<>>
    /\ chanClosed
    /\ consumerDone' = TRUE
    /\ UNCHANGED <<buf, chanClosed, current, sent, written, requestVars,
                   sinkVars, shutdownVars, mode>>

\* The range loop ends when the channel is closed and empty.
ConsumerExit ==
    /\ Alive
    /\ mode = "chan"
    /\ ~consumerDone
    /\ current = <<>>
    /\ buf = <<>>
    /\ chanClosed
    /\ consumerDone' = TRUE
    /\ UNCHANGED <<buf, chanClosed, current, sent, written, requestVars,
                   sinkVars, shutdownVars, mode>>

\* danmakuConsumer.
ConsumerStep == ConsumerReceive \/ ConsumerWrite \/ ConsumerExit

-----------------------------------------------------------------------------
(* A call of Shutdown.                                                     *)

Call(c, from, to) ==
    /\ Alive
    /\ sd[c] = from
    /\ sd' = [sd EXCEPT ![c] = to]

\* s.accepting.Store(false)
ShutdownStart(c) ==
    /\ Call(c, "idle", "polling")
    /\ accepting' = FALSE
    /\ UNCHANGED <<closed, producerClosed, main, requestVars, chanVars, sinkVars, mode>>

\* Mutant: the poll ends without looking at inflight.
ShutdownQuiescentUnwaited(c) ==
    /\ Call(c, "polling", "closing")
    /\ UNCHANGED <<accepting, closed, producerClosed, main, requestVars, chanVars,
                   sinkVars, mode>>

\* The poll reads inflight = 0.
ShutdownQuiescent(c) ==
    /\ inflight <= 0
    /\ Call(c, "polling", "closing")
    /\ UNCHANGED <<accepting, closed, producerClosed, main, requestVars, chanVars,
                   sinkVars, mode>>

\* The poll reads inflight > 0 and enters the select.
ShutdownBusy(c) ==
    /\ inflight > 0
    /\ Call(c, "polling", "waiting")
    /\ UNCHANGED <<accepting, closed, producerClosed, main, requestVars, chanVars,
                   sinkVars, mode>>

\* The default branch: sleep a millisecond and poll again.
ShutdownPollAgain(c) ==
    /\ Call(c, "waiting", "polling")
    /\ UNCHANGED <<accepting, closed, producerClosed, main, requestVars, chanVars,
                   sinkVars, mode>>

\* <-pollCtx.Done(): return without closing anything.
ShutdownPollTimeout(c) ==
    /\ Call(c, "waiting", "error")
    /\ UNCHANGED <<accepting, closed, producerClosed, main, requestVars, chanVars,
                   sinkVars, mode>>

\* s.kafkaProducer.Close() when there is one.
ShutdownCloseProducer(c) ==
    /\ Call(c, "closing", "swapping")
    /\ producerClosed' = IF mode = "kafka" THEN TRUE ELSE producerClosed
    /\ UNCHANGED <<accepting, closed, main, requestVars, chanVars, sinkVars, mode>>

\* s.closed.CompareAndSwap(false, true): only the winner goes on to close the
\* channel; without a channel there is nothing to close.
ShutdownSwap(c) ==
    /\ Call(c, "swapping", IF ~closed /\ mode = "chan" THEN "closeChan" ELSE "nil")
    /\ closed' = TRUE
    /\ UNCHANGED <<accepting, producerClosed, main, requestVars, chanVars, sinkVars, mode>>

\* close(s.danmakuChan)
ShutdownCloseChan(c) ==
    /\ Call(c, "closeChan", "draining")
    /\ chanClosed' = TRUE
    /\ UNCHANGED <<accepting, closed, producerClosed, main, requestVars, buf, current,
                   consumerDone, sent, written, sinkVars, mode>>

\* <-drainDone, after s.wg.Wait() returned.
ShutdownDrained(c) ==
    /\ consumerDone
    /\ Call(c, "draining", "nil")
    /\ UNCHANGED <<accepting, closed, producerClosed, main, requestVars, chanVars,
                   sinkVars, mode>>

\* Mutant: Shutdown waits for the drain whatever its deadline.
ShutdownDrainTimeoutNever(c) ==
    /\ FALSE
    /\ UNCHANGED vars

\* <-ctx.Done() while draining.
ShutdownDrainTimeout(c) ==
    /\ Call(c, "draining", "error")
    /\ UNCHANGED <<accepting, closed, producerClosed, main, requestVars, chanVars,
                   sinkVars, mode>>

\* What a started call does next.
ShutdownStep(c) ==
    \/ ShutdownQuiescent(c)
    \/ ShutdownBusy(c)
    \/ ShutdownPollAgain(c)
    \/ ShutdownPollTimeout(c)
    \/ ShutdownCloseProducer(c)
    \/ ShutdownSwap(c)
    \/ ShutdownCloseChan(c)
    \/ ShutdownDrained(c)
    \/ ShutdownDrainTimeout(c)

-----------------------------------------------------------------------------
(* main, after its call of Shutdown returned, whatever it returned.        *)

MainGoesOn(from, to) ==
    /\ main = from
    /\ main' = to
    /\ UNCHANGED <<accepting, closed, producerClosed, sd, requestVars, chanVars, sinkVars,
                   mode>>

MainCloseHub ==
    /\ sd[MainCaller] \in {"nil", "error"}
    /\ MainGoesOn("serving", "hubClosed")

MainCloseStore == MainGoesOn("hubClosed", "storeClosed")

MainExit == MainGoesOn("storeClosed", "exited")

MainStep == MainCloseHub \/ MainCloseStore \/ MainExit

-----------------------------------------------------------------------------
Next ==
    \/ \E r \in Requests : Arrive(r) \/ RequestStep(r)
    \/ ConsumerStep
    \/ \E c \in Callers : ShutdownStart(c) \/ ShutdownStep(c)
    \/ MainStep

Spec == Init /\ [][Next]_vars

\* The scheduler runs every goroutine that can run, and the deadline of ctx
\* ends a poll that would go on for ever.  Clients need not send, nobody need
\* call Shutdown, and a lookup in the database, a write to it or to Kafka may
\* hang.
FairSpec ==
    /\ Spec
    /\ \A r \in Requests : WF_vars(LocalStep(r))
    /\ \A c \in Callers : WF_vars(ShutdownStep(c)) /\ SF_vars(ShutdownPollTimeout(c))
    /\ WF_vars(ConsumerReceive \/ ConsumerExit)
    /\ WF_vars(MainStep)

-----------------------------------------------------------------------------
(* Properties.                                                             *)

\* No request that passed the accepting check can still be about to write
\* once danmakuChan or the producer was closed: Shutdown closes them behind
\* the last request, so there is no send on a closed channel
\* (createAndBroadcast registers in inflight before it reads accepting).
NoSendOnClosed ==
    \A r \in Requests :
        pc[r] \in WritingPoints =>
            /\ ~chanClosed
            /\ ~producerClosed

\* inflight counts exactly the requests between inflight.Add(1) and the
\* deferred inflight.Add(-1), which is what Shutdown's poll relies on.
InflightCounts ==
    inflight = Cardinality({r \in Requests : pc[r] \in InFlightPoints})

\* However many callers Shutdown has, close(danmakuChan) is executed once:
\* the caller about to close it finds it open, and is alone there.
NoDoubleClose ==
    \A c \in Callers :
        sd[c] = "closeChan" =>
            /\ ~chanClosed
            /\ \A d \in Callers : sd[d] \in {"closeChan", "draining"} => d = c

\* Everything danmakuChan ever took is, in that order, what the consumer
\* ended, what it holds and what is still buffered: the asynchronous path
\* neither loses, duplicates nor reorders a danmaku.
ChannelConservation == sent = written \o current \o buf

\* A client that was told "buffered" has its danmaku in the asynchronous path
\* and a client that was told "persisted" has it in the store or the topic.
AckIsBacked ==
    \A r \in Requests :
        /\ result[r] = "buffered" => \E i \in 1..Len(sent) : sent[i] = r
        /\ result[r] = "persisted" => r \in durable

\* When main's Shutdown, the only call so far, returned nil, nobody writes any
\* more, the channel is drained and every buffered danmaku is in the store or
\* its write failed.
CleanShutdown ==
    /\ sd[MainCaller] = "nil"
    /\ \A c \in Callers \ {MainCaller} : sd[c] = "idle"
    =>  /\ \A r \in Requests : pc[r] \notin WritingPoints
        /\ buf = <<>> /\ current = <<>>
        /\ \A r \in Requests :
              result[r] = "buffered" => r \in durable \cup failedWrites

\* Once a caller saw the service quiescent, the set of acknowledged danmaku
\* is final: no later step acknowledges another one.
AckIsOld ==
    (\E c \in Callers : sd[c] \in QuiescentPoints) =>
        \A r \in Requests :
            result'[r] \in {"buffered", "persisted"} => result'[r] = result[r]

NoAckAfterQuiescence == [][AckIsOld]_vars

\* When the database answers the lookups of bans and mutes, a request on the
\* asynchronous path that passed the accepting check is answered, even while a
\* write of the consumer hangs: it never waits for the channel, and the process
\* does not exit under it unless main's Shutdown ran into its deadline.
LookupsAnswer == \A r \in Requests : WF_vars(Moderate(r))
AcceptedIsAnswered ==
    LookupsAnswer =>
        \A r \in Requests :
            mode = "chan" /\ pc[r] = "accepted"
                ~> (pc[r] = "done" \/ sd[MainCaller] = "error")

\* Every call of Shutdown returns, even while the lookup or the write of a
\* request in flight, or a write of the consumer, hangs, unless the process
\* exits under it.
ShutdownReturns ==
    \A c \in Callers :
        sd[c] = "polling" ~> (sd[c] \in {"nil", "error"} \/ main = "exited")

\* When the database answers the consumer's writes, with success or with an
\* error, every danmaku acknowledged as buffered is eventually written or its
\* write fails, unless the process exits first; one failed write does not end
\* the consumer.
StoreAnswers == WF_vars(ConsumerWrite)
BufferedIsWritten ==
    StoreAnswers =>
        \A r \in Requests :
            result[r] = "buffered"
                ~> (r \in durable \cup failedWrites \/ main = "exited")

-----------------------------------------------------------------------------
(* The inductive invariant behind NoSendOnClosed, NoDoubleClose and        *)
(* ChannelConservation.                                                    *)

\* accepting is cleared by the first step of Shutdown and stays cleared.
StoppedAccepting == \A c \in Callers : sd[c] # "idle" => ~accepting

\* The point of no return: some caller saw inflight = 0, or left a trace of
\* having seen it.
Quiesced ==
    \/ \E c \in Callers : sd[c] \in QuiescentPoints
    \/ closed
    \/ chanClosed
    \/ producerClosed

\* Behind the point of no return nobody writes and nobody is let in.
QuiescentIsFinal ==
    Quiesced => ~accepting /\ \A r \in Requests : pc[r] \notin WritingPoints

\* The winner of the swap on closed is the only caller that closes the channel.
SwapDecides ==
    /\ chanClosed => closed
    /\ \A c \in Callers : sd[c] \in {"closeChan", "draining"} => closed
    /\ \A c \in Callers : sd[c] = "draining" => chanClosed
    /\ \A c, d \in Callers :
          sd[c] \in {"closeChan", "draining"} /\ sd[d] \in {"closeChan", "draining"}
              => c = d
    /\ \A c \in Callers : sd[c] = "closeChan" => ~chanClosed

\* The inductive invariant of the send path and Shutdown: the counter is
\* exact, the point of no return is final, one caller closes the channel.
ShutdownInv ==
    /\ TypeOK
    /\ InflightCounts
    /\ StoppedAccepting
    /\ QuiescentIsFinal
    /\ SwapDecides

\* What the drain leaves behind.  The consumer ends only behind the close and
\* with nothing left, what it ended is stored or given up, and a channel that
\* does not exist holds nothing.
DrainInv ==
    /\ consumerDone => chanClosed /\ buf = <<>> /\ current = <<>>
    /\ mode # "chan" => sent = <<>> /\ buf = <<>> /\ current = <<>>
    /\ \A i \in 1..Len(written) : written[i] \in durable \cup failedWrites

\* Somebody won the swap on closed, and who returned nil without a drained
\* channel left the drain to another caller.
WinnerDrains ==
    /\ closed => \E c \in Callers : sd[c] \in {"closeChan", "draining", "nil", "error"}
    /\ \A c \in Callers :
          mode = "chan" /\ sd[c] = "nil" /\ ~consumerDone =>
              \E d \in Callers : sd[d] \in {"closeChan", "draining", "error"}

\* The inductive invariant behind CleanShutdown.
CleanInv == ShutdownInv /\ ChannelConservation /\ AckIsBacked /\ DrainInv /\ WinnerDrains

=============================================================================
