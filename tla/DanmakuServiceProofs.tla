------------------------ MODULE DanmakuServiceProofs ------------------------
(***************************************************************************)
(* Proofs about DanmakuService, for every set of requests and callers,     *)
(* every buffer size and every persistence path.                           *)
(***************************************************************************)
EXTENDS DanmakuService, FiniteSetTheorems, SequenceTheorems, TLAPS

\* Whether a program point is counted in inflight.
Counted(point) == IF point \in InFlightPoints THEN 1 ELSE 0

\* When a request moves and inflight is adjusted by what the move is worth,
\* inflight still counts the requests in flight, and is not negative.
LEMMA CountMoves ==
    ASSUME TypeOK, InflightCounts,
           NEW r \in Requests, NEW to \in RequestPoints,
           pc' = [pc EXCEPT ![r] = to],
           inflight' = inflight + Counted(to) - Counted(pc[r])
    PROVE  InflightCounts' /\ inflight' \in Nat
<1> DEFINE before == {q \in Requests : pc[q] \in InFlightPoints}
           after  == {q \in Requests : pc'[q] \in InFlightPoints}
<1>1. IsFiniteSet(before) /\ IsFiniteSet(after)
  BY RequestsFinite, FS_Subset
<1>2. Cardinality(before) \in Nat /\ Cardinality(after) \in Nat
  BY <1>1, FS_CardinalityType
<1>3. inflight = Cardinality(before)
  BY DEF InflightCounts
<1>4. pc \in [Requests -> RequestPoints]
  BY DEF TypeOK
<1>5. Cardinality(after) = Cardinality(before) + Counted(to) - Counted(pc[r])
  <2>1. CASE pc[r] \notin InFlightPoints /\ to \in InFlightPoints
    <3>1. after = before \cup {r} /\ r \notin before
      BY <2>1, <1>4
    <3> QED
      BY <2>1, <3>1, <1>1, <1>2, FS_AddElement DEF Counted
  <2>2. CASE pc[r] \in InFlightPoints /\ to \notin InFlightPoints
    <3>1. after = before \ {r} /\ r \in before
      BY <2>2, <1>4
    <3>2. Cardinality(after) = Cardinality(before) - 1
      BY <3>1, <1>1, FS_RemoveElement, SMTT(40)
    <3> QED
      BY <2>2, <3>2, <1>2 DEF Counted
  <2>3. CASE pc[r] \in InFlightPoints <=> to \in InFlightPoints
    <3>1. after = before
      BY <2>3, <1>4
    <3> QED
      BY <2>3, <3>1, <1>2 DEF Counted
  <2> QED
    BY <2>1, <2>2, <2>3
<1> QED
  BY <1>2, <1>3, <1>5 DEF InflightCounts

\* Nothing is in flight when the counter is zero.
LEMMA ZeroMeansQuiet ==
    ASSUME InflightCounts, inflight = 0, NEW r \in Requests
    PROVE  pc[r] \notin InFlightPoints
<1>1. IsFiniteSet({q \in Requests : pc[q] \in InFlightPoints})
  BY RequestsFinite, FS_Subset
<1>2. {q \in Requests : pc[q] \in InFlightPoints} = {}
  BY <1>1, FS_EmptySet DEF InflightCounts
<1> QED
  BY <1>2

\* The initial states satisfy the inductive invariant.
LEMMA ShutdownInvInit == Init => ShutdownInv
<1> SUFFICES ASSUME Init PROVE ShutdownInv
  OBVIOUS
<1>1. TypeOK
  <2>1. /\ pc \in [Requests -> RequestPoints]
        /\ verdict \in [Requests -> {"none", "flagged", "approved"}]
        /\ result \in [Requests -> Results]
        /\ sd \in [Callers -> CallPoints]
    BY DEF Init, RequestPoints, Results, CallPoints
  <2>2. /\ buf \in Seq(Requests) /\ current \in Seq(Requests)
        /\ sent \in Seq(Requests) /\ written \in Seq(Requests)
    BY DEF Init
  <2>3. durable \in SUBSET Requests /\ failedWrites \in SUBSET Requests /\ broadcast \in SUBSET Requests
    BY DEF Init
  <2>4. inflight \in Nat /\ main \in {"serving", "hubClosed", "storeClosed", "exited"} /\ mode \in Modes
    BY DEF Init
  <2>5. accepting \in BOOLEAN /\ closed \in BOOLEAN /\ chanClosed \in BOOLEAN /\ consumerDone \in BOOLEAN /\ producerClosed \in BOOLEAN
    BY DEF Init
  <2> QED
    BY <2>1, <2>2, <2>3, <2>4, <2>5 DEF TypeOK
<1>2. InflightCounts
  <2>1. {r \in Requests : pc[r] \in InFlightPoints} = {}
    BY DEF Init, InFlightPoints
  <2>2. QED
    BY <2>1, FS_EmptySet DEF Init, InflightCounts
<1>3. StoppedAccepting /\ QuiescentIsFinal /\ SwapDecides
  BY DEF Init, StoppedAccepting, QuiescentIsFinal, Quiesced, SwapDecides,
         QuiescentPoints, WritingPoints
<1> QED
  BY <1>1, <1>2, <1>3 DEF ShutdownInv

\* Every step of a request keeps the types and the count: each move of its
\* program point is matched by what it does to inflight.
LEMMA RequestTypesAndCount ==
    ASSUME ShutdownInv, NEW r \in Requests, Arrive(r) \/ RequestStep(r)
    PROVE  TypeOK' /\ InflightCounts'
<1> USE DEF RequestPoints, Results
<1>1. TypeOK /\ InflightCounts
  BY DEF ShutdownInv
<1>2. pc[r] \in RequestPoints /\ inflight \in Nat
  BY <1>1 DEF TypeOK
<1>3. CASE Arrive(r)
  <2>1. PICK to \in {"entering", "done"} :
            /\ pc' = [pc EXCEPT ![r] = to]
            /\ inflight' = inflight + Counted(to) - Counted(pc[r])
    BY <1>1, <1>2, <1>3 DEF Arrive, Counted, InFlightPoints, requestVars, chanVars, sinkVars, shutdownVars
  <2>2. InflightCounts' /\ inflight' \in Nat
    BY <1>1, <2>1, CountMoves
  <2> QED
    BY <1>1, <1>3, <2>1, <2>2 DEF TypeOK, Arrive, requestVars, chanVars, sinkVars, shutdownVars
<1>4. CASE Register(r)
  <2>1. PICK to \in {"registered"} :
            /\ pc' = [pc EXCEPT ![r] = to]
            /\ inflight' = inflight + Counted(to) - Counted(pc[r])
    BY <1>1, <1>2, <1>4 DEF Register, Counted, InFlightPoints, requestVars, chanVars, sinkVars, shutdownVars
  <2>2. InflightCounts' /\ inflight' \in Nat
    BY <1>1, <2>1, CountMoves
  <2> QED
    BY <1>1, <1>4, <2>1, <2>2 DEF TypeOK, Register, requestVars, chanVars, sinkVars, shutdownVars
<1>5. CASE CheckAccepting(r)
  <2>1. PICK to \in {"accepted", "leaving"} :
            /\ pc' = [pc EXCEPT ![r] = to]
            /\ inflight' = inflight + Counted(to) - Counted(pc[r])
    BY <1>1, <1>2, <1>5 DEF CheckAccepting, Counted, InFlightPoints, requestVars, chanVars, sinkVars, shutdownVars
  <2>2. InflightCounts' /\ inflight' \in Nat
    BY <1>1, <2>1, CountMoves
  <2> QED
    BY <1>1, <1>5, <2>1, <2>2 DEF TypeOK, CheckAccepting, requestVars, chanVars, sinkVars, shutdownVars
<1>6. CASE Moderate(r)
  <2>1. PICK to \in {"checked", "leaving"} :
            /\ pc' = [pc EXCEPT ![r] = to]
            /\ inflight' = inflight + Counted(to) - Counted(pc[r])
    BY <1>1, <1>2, <1>6 DEF Moderate, Counted, InFlightPoints, requestVars, chanVars, sinkVars, shutdownVars
  <2>2. InflightCounts' /\ inflight' \in Nat
    BY <1>1, <2>1, CountMoves
  <2> QED
    BY <1>1, <1>6, <2>1, <2>2, ZenonT(40) DEF TypeOK, Moderate, requestVars, chanVars, sinkVars, shutdownVars
<1>7. CASE PersistKafka(r)
  <2>0. PICK w \in WriteOutcomes : Writing(r, w)
    BY <1>7 DEF PersistKafka
  <2>1. PICK to \in {"persisted", "leaving"} :
            /\ pc' = [pc EXCEPT ![r] = to]
            /\ inflight' = inflight + Counted(to) - Counted(pc[r])
    <3>1. \E to \in {"persisted", "leaving"} : pc' = [pc EXCEPT ![r] = to]
      BY <2>0 DEF Writing, AfterPersist
    <3>2. \A to \in {"persisted", "leaving"} :
             inflight' = inflight + Counted(to) - Counted(pc[r])
      BY <1>1, <1>2, <1>7 DEF PersistKafka, Counted, InFlightPoints
    <3> QED
      BY <3>1, <3>2
  <2>2. InflightCounts' /\ inflight' \in Nat
    BY <1>1, <2>1, CountMoves
  <2> QED
    BY <1>1, <1>7, <2>1, <2>2 DEF TypeOK, PersistKafka, Writing, WriteOutcomes, requestVars, chanVars, sinkVars, shutdownVars
<1>8. CASE PersistDirect(r)
  <2>0. PICK w \in WriteOutcomes : Writing(r, w)
    BY <1>8 DEF PersistDirect
  <2>1. PICK to \in {"persisted", "leaving"} :
            /\ pc' = [pc EXCEPT ![r] = to]
            /\ inflight' = inflight + Counted(to) - Counted(pc[r])
    <3>1. \E to \in {"persisted", "leaving"} : pc' = [pc EXCEPT ![r] = to]
      BY <2>0 DEF Writing, AfterPersist
    <3>2. \A to \in {"persisted", "leaving"} :
             inflight' = inflight + Counted(to) - Counted(pc[r])
      BY <1>1, <1>2, <1>8 DEF PersistDirect, Counted, InFlightPoints
    <3> QED
      BY <3>1, <3>2
  <2>2. InflightCounts' /\ inflight' \in Nat
    BY <1>1, <2>1, CountMoves
  <2> QED
    BY <1>1, <1>8, <2>1, <2>2 DEF TypeOK, PersistDirect, Writing, WriteOutcomes, requestVars, chanVars, sinkVars, shutdownVars
<1>9. CASE PersistChan(r)
  <2>1. PICK to \in {"persisted", "leaving"} :
            /\ pc' = [pc EXCEPT ![r] = to]
            /\ inflight' = inflight + Counted(to) - Counted(pc[r])
    BY <1>1, <1>2, <1>9 DEF PersistChan, AfterPersist, Counted, InFlightPoints, requestVars, chanVars, sinkVars, shutdownVars
  <2>2. InflightCounts' /\ inflight' \in Nat
    BY <1>1, <2>1, CountMoves
  <2>3. buf' \in Seq(Requests) /\ sent' \in Seq(Requests)
    <3>1. buf \in Seq(Requests) /\ sent \in Seq(Requests)
      BY <1>1 DEF TypeOK
    <3>2. \/ buf' = Append(buf, r) /\ sent' = Append(sent, r)
          \/ buf' = buf /\ sent' = sent
      BY <1>9 DEF PersistChan
    <3>3. Append(buf, r) \in Seq(Requests) /\ Append(sent, r) \in Seq(Requests)
      BY <3>1
    <3> QED
      BY <3>1, <3>2, <3>3
  <2>4. result' \in [Requests -> Results] /\ pc' \in [Requests -> RequestPoints]
    BY <1>1, <1>9, <2>1 DEF TypeOK, PersistChan
  <2> QED
    BY <1>1, <1>9, <2>2, <2>3, <2>4 DEF TypeOK, PersistChan, requestVars, chanVars, sinkVars, shutdownVars
<1>10. CASE Broadcast(r)
  <2>1. PICK to \in {"leaving"} :
            /\ pc' = [pc EXCEPT ![r] = to]
            /\ inflight' = inflight + Counted(to) - Counted(pc[r])
    BY <1>1, <1>2, <1>10 DEF Broadcast, Counted, InFlightPoints, requestVars, chanVars, sinkVars, shutdownVars
  <2>2. InflightCounts' /\ inflight' \in Nat
    BY <1>1, <2>1, CountMoves
  <2> QED
    BY <1>1, <1>10, <2>1, <2>2 DEF TypeOK, Broadcast, requestVars, chanVars, sinkVars, shutdownVars
<1>11. CASE Leave(r)
  <2>1. PICK to \in {"done"} :
            /\ pc' = [pc EXCEPT ![r] = to]
            /\ inflight' = inflight + Counted(to) - Counted(pc[r])
    BY <1>1, <1>2, <1>11 DEF Leave, Counted, InFlightPoints, requestVars, chanVars, sinkVars, shutdownVars
  <2>2. InflightCounts' /\ inflight' \in Nat
    BY <1>1, <2>1, CountMoves
  <2> QED
    BY <1>1, <1>11, <2>1, <2>2 DEF TypeOK, Leave, requestVars, chanVars, sinkVars, shutdownVars
<1> QED
  BY <1>3, <1>4, <1>5, <1>6, <1>7, <1>8, <1>9, <1>10, <1>11 DEF RequestStep, LocalStep

\* No step of a request disturbs what Shutdown decided: a request reaches the
\* writing points only while the service accepts.
LEMMA RequestKeepsShutdown ==
    ASSUME ShutdownInv, NEW r \in Requests, Arrive(r) \/ RequestStep(r)
    PROVE  StoppedAccepting' /\ QuiescentIsFinal' /\ SwapDecides'
<1>1. UNCHANGED shutdownVars /\ UNCHANGED chanClosed
  BY DEF Arrive, RequestStep, LocalStep, Register, CheckAccepting, Moderate, PersistKafka, PersistDirect,
         PersistChan, Broadcast, Leave, chanVars
<1>2. ASSUME NEW q \in Requests, pc'[q] \in WritingPoints
      PROVE  pc[q] \in WritingPoints \/ accepting
  <2>1. pc \in [Requests -> RequestPoints]
    BY DEF ShutdownInv, TypeOK
  <2> QED
    BY <1>2, <2>1 DEF Arrive, RequestStep, LocalStep, Register, CheckAccepting, Moderate, PersistKafka,
         PersistDirect, PersistChan, Broadcast, Leave, Writing, WriteOutcomes, AfterPersist,
         WritingPoints
<1> QED
  BY <1>1, <1>2 DEF ShutdownInv, StoppedAccepting, QuiescentIsFinal, Quiesced, SwapDecides,
                    shutdownVars

\* Every step of the consumer and of main preserves the inductive invariant:
\* they touch neither the requests nor what Shutdown decided.
LEMMA ConsumerAndMainPreserve ==
    ASSUME ShutdownInv, ConsumerStep \/ MainStep
    PROVE  ShutdownInv'
<1>1. TypeOK'
  <2>1. CASE ConsumerReceive
    BY <2>1 DEF ShutdownInv, TypeOK, ConsumerReceive, requestVars, chanVars, sinkVars, shutdownVars
  <2>2. CASE ConsumerWrite
    BY <2>2 DEF ShutdownInv, TypeOK, ConsumerWrite, WriteOutcomes, requestVars, chanVars, sinkVars, shutdownVars
  <2>3. CASE ConsumerExit
    BY <2>3 DEF ShutdownInv, TypeOK, ConsumerExit, requestVars, chanVars, sinkVars, shutdownVars
  <2>4. CASE MainCloseHub
    BY <2>4 DEF ShutdownInv, TypeOK, MainCloseHub, MainGoesOn, requestVars, chanVars, sinkVars, shutdownVars
  <2>5. CASE MainCloseStore
    BY <2>5 DEF ShutdownInv, TypeOK, MainCloseStore, MainGoesOn, requestVars, chanVars, sinkVars, shutdownVars
  <2>6. CASE MainExit
    BY <2>6 DEF ShutdownInv, TypeOK, MainExit, MainGoesOn, requestVars, chanVars, sinkVars, shutdownVars
  <2> QED
    BY <2>1, <2>2, <2>3, <2>4, <2>5, <2>6 DEF ConsumerStep, MainStep
<1>2. /\ UNCHANGED requestVars
      /\ UNCHANGED <<accepting, closed, producerClosed, sd, chanClosed>>
  BY DEF ConsumerStep, ConsumerReceive, ConsumerWrite, ConsumerExit, MainStep, MainCloseHub,
         MainCloseStore, MainExit, MainGoesOn, shutdownVars, chanVars
<1> QED
  BY <1>1, <1>2 DEF ShutdownInv, InflightCounts, StoppedAccepting, QuiescentIsFinal, Quiesced,
                    SwapDecides, requestVars

\* Every step of a call of Shutdown preserves the inductive invariant: a
\* caller passes the point of no return only when nothing is in flight, and
\* the swap lets one caller through.
LEMMA ShutdownPreserves ==
    ASSUME ShutdownInv, NEW c \in Callers, ShutdownStart(c) \/ ShutdownStep(c)
    PROVE  ShutdownInv'
<1> USE DEF ShutdownInv, CallPoints
<1>1. TypeOK'
  <2>1. CASE ShutdownStart(c)
    BY <2>1 DEF TypeOK, ShutdownStart, Call, requestVars, chanVars, sinkVars, shutdownVars
  <2>2. CASE ShutdownQuiescent(c)
    BY <2>2 DEF TypeOK, ShutdownQuiescent, Call, requestVars, chanVars, sinkVars, shutdownVars
  <2>3. CASE ShutdownBusy(c)
    BY <2>3 DEF TypeOK, ShutdownBusy, Call, requestVars, chanVars, sinkVars, shutdownVars
  <2>4. CASE ShutdownPollAgain(c)
    BY <2>4 DEF TypeOK, ShutdownPollAgain, Call, requestVars, chanVars, sinkVars, shutdownVars
  <2>5. CASE ShutdownPollTimeout(c)
    BY <2>5 DEF TypeOK, ShutdownPollTimeout, Call, requestVars, chanVars, sinkVars, shutdownVars
  <2>6. CASE ShutdownCloseProducer(c)
    BY <2>6 DEF TypeOK, ShutdownCloseProducer, Call, requestVars, chanVars, sinkVars, shutdownVars
  <2>7. CASE ShutdownSwap(c)
    BY <2>7 DEF TypeOK, ShutdownSwap, Call, requestVars, chanVars, sinkVars, shutdownVars
  <2>8. CASE ShutdownCloseChan(c)
    BY <2>8 DEF TypeOK, ShutdownCloseChan, Call, requestVars, chanVars, sinkVars, shutdownVars
  <2>9. CASE ShutdownDrained(c)
    BY <2>9 DEF TypeOK, ShutdownDrained, Call, requestVars, chanVars, sinkVars, shutdownVars
  <2>10. CASE ShutdownDrainTimeout(c)
    BY <2>10 DEF TypeOK, ShutdownDrainTimeout, Call, requestVars, chanVars, sinkVars, shutdownVars
  <2> QED
    BY <2>1, <2>2, <2>3, <2>4, <2>5, <2>6, <2>7, <2>8, <2>9, <2>10 DEF ShutdownStep
<1>2. InflightCounts'
  BY DEF InflightCounts, requestVars, ShutdownStep, ShutdownStart, ShutdownQuiescent, ShutdownBusy, ShutdownPollAgain, ShutdownPollTimeout, ShutdownCloseProducer, ShutdownSwap, ShutdownCloseChan, ShutdownDrained, ShutdownDrainTimeout
<1>3. sd \in [Callers -> CallPoints] /\ inflight \in Nat
  BY DEF TypeOK
<1>4. StoppedAccepting' /\ QuiescentIsFinal' /\ SwapDecides'
  <2>1. CASE ShutdownStart(c)
    BY <1>3, <2>1 DEF ShutdownStart, Call, StoppedAccepting, QuiescentIsFinal, Quiesced, SwapDecides,
       QuiescentPoints, requestVars, chanVars
  <2>2. CASE ShutdownQuiescent(c)
    <3>1. inflight = 0
      BY <1>3, <2>2 DEF ShutdownQuiescent
    <3>2. \A r \in Requests : pc[r] \notin WritingPoints
      BY <3>1, ZeroMeansQuiet DEF InFlightPoints, WritingPoints
    <3> QED
      BY <1>3, <2>2, <3>2 DEF ShutdownQuiescent, Call, StoppedAccepting, QuiescentIsFinal, Quiesced,
         SwapDecides, QuiescentPoints, requestVars, chanVars
  <2>3. CASE ShutdownBusy(c)
    BY <1>3, <2>3 DEF ShutdownBusy, Call, StoppedAccepting, QuiescentIsFinal, Quiesced, SwapDecides,
       QuiescentPoints, requestVars, chanVars
  <2>4. CASE ShutdownPollAgain(c)
    BY <1>3, <2>4 DEF ShutdownPollAgain, Call, StoppedAccepting, QuiescentIsFinal, Quiesced, SwapDecides,
       QuiescentPoints, requestVars, chanVars
  <2>5. CASE ShutdownPollTimeout(c)
    BY <1>3, <2>5 DEF ShutdownPollTimeout, Call, StoppedAccepting, QuiescentIsFinal, Quiesced, SwapDecides,
       QuiescentPoints, requestVars, chanVars
  <2>6. CASE ShutdownCloseProducer(c)
    BY <1>3, <2>6 DEF ShutdownCloseProducer, Call, StoppedAccepting, QuiescentIsFinal, Quiesced, SwapDecides,
       QuiescentPoints, requestVars, chanVars
  <2>7. CASE ShutdownSwap(c)
    BY <1>3, <2>7 DEF ShutdownSwap, Call, StoppedAccepting, QuiescentIsFinal, Quiesced, SwapDecides,
       QuiescentPoints, requestVars, chanVars
  <2>8. CASE ShutdownCloseChan(c)
    BY <1>3, <2>8 DEF ShutdownCloseChan, Call, StoppedAccepting, QuiescentIsFinal, Quiesced, SwapDecides,
       QuiescentPoints, requestVars, chanVars
  <2>9. CASE ShutdownDrained(c)
    BY <1>3, <2>9 DEF ShutdownDrained, Call, StoppedAccepting, QuiescentIsFinal, Quiesced, SwapDecides,
       QuiescentPoints, requestVars, chanVars
  <2>10. CASE ShutdownDrainTimeout(c)
    BY <1>3, <2>10 DEF ShutdownDrainTimeout, Call, StoppedAccepting, QuiescentIsFinal, Quiesced, SwapDecides,
       QuiescentPoints, requestVars, chanVars
  <2> QED
    BY <2>1, <2>2, <2>3, <2>4, <2>5, <2>6, <2>7, <2>8, <2>9, <2>10 DEF ShutdownStep
<1> QED
  BY <1>1, <1>2, <1>4

\* The invariant is inductive.
LEMMA ShutdownInvNext == ShutdownInv /\ [Next]_vars => ShutdownInv'
<1> SUFFICES ASSUME ShutdownInv, [Next]_vars PROVE ShutdownInv'
  OBVIOUS
<1>1. CASE \E r \in Requests : Arrive(r) \/ RequestStep(r)
  BY <1>1, RequestTypesAndCount, RequestKeepsShutdown DEF ShutdownInv
<1>2. CASE ConsumerStep \/ MainStep
  BY <1>2, ConsumerAndMainPreserve
<1>3. CASE \E c \in Callers : ShutdownStart(c) \/ ShutdownStep(c)
  BY <1>3, ShutdownPreserves
<1>4. CASE UNCHANGED vars
  BY <1>4 DEF vars, requestVars, chanVars, sinkVars, shutdownVars, ShutdownInv, TypeOK,
     InflightCounts, StoppedAccepting, QuiescentIsFinal, Quiesced, SwapDecides
<1> QED
  BY <1>1, <1>2, <1>3, <1>4 DEF Next

\* The inductive invariant holds in every behaviour: in particular every
\* variable keeps its type and inflight is exact and never negative.
THEOREM ShutdownInvariant == Spec => []ShutdownInv
<1> QED
  BY ShutdownInvInit, ShutdownInvNext, PTL DEF Spec

\* inflight counts the requests in flight in every reachable state.
THEOREM InflightIsExact == Spec => []InflightCounts
<1>1. ShutdownInv => InflightCounts
  BY DEF ShutdownInv
<1> QED
  BY <1>1, ShutdownInvariant, PTL

\* No request sends on a closed danmakuChan or to a closed producer, whatever
\* the number of requests and of calls of Shutdown.
THEOREM NeverSendsOnClosed == Spec => []NoSendOnClosed
<1>1. ShutdownInv => NoSendOnClosed
  BY DEF ShutdownInv, QuiescentIsFinal, Quiesced, NoSendOnClosed
<1> QED
  BY <1>1, ShutdownInvariant, PTL

\* danmakuChan is closed at most once, whatever the number of concurrent or
\* repeated calls of Shutdown.
THEOREM ClosesOnce == Spec => []NoDoubleClose
<1>1. ShutdownInv => NoDoubleClose
  BY DEF ShutdownInv, SwapDecides, NoDoubleClose
<1> QED
  BY <1>1, ShutdownInvariant, PTL

\* Receiving moves the head of the buffer into the consumer's hands, which
\* leaves the conserved sequence as it is.
LEMMA HeadInHand ==
    ASSUME NEW S, NEW a \in Seq(S), NEW d \in Seq(S), d # <<>>
    PROVE  a \o <<>> \o d = a \o <<Head(d)>> \o Tail(d)
<1>0. Head(d) \in S /\ Tail(d) \in Seq(S)
  BY HeadTailProperties, Zenon
<1>1. Head(d) \in S /\ Tail(d) \in Seq(S) /\ <<Head(d)>> \in Seq(S)
  BY <1>0
<1>2. d = <<Head(d)>> \o Tail(d)
  <2> DEFINE e == <<Head(d)>> \o Tail(d)
  <2>1. e \in Seq(S) /\ Len(e) = 1 + Len(Tail(d))
    BY <1>1, ConcatProperties
  <2>2. Len(e) = Len(d)
    BY <2>1, HeadTailProperties, LenProperties
  <2>3. ASSUME NEW i \in 1..Len(d) PROVE e[i] = d[i]
    <3>1. CASE i = 1
      BY <3>1, <1>1, ConcatProperties
    <3>2. CASE i > 1
      <4>1. e[i] = Tail(d)[i - 1]
        BY <3>2, <1>1, <2>1, <2>2, ConcatProperties
      <4>2. Tail(d)[i - 1] = d[i]
        BY <3>2, HeadTailProperties
      <4> QED
        BY <4>1, <4>2
    <3> QED
      BY <3>1, <3>2
  <2> HIDE DEF e
  <2> QED
    BY <2>1, <2>2, <2>3, SeqEqual
<1>3. a \o <<>> = a
  BY ConcatEmptySeq
<1>4. (a \o <<Head(d)>>) \o Tail(d) = a \o (<<Head(d)>> \o Tail(d))
  BY <1>1, ConcatAssociative
<1> QED
  BY <1>2, <1>3, <1>4

\* What the consumer holds is at most one danmaku.
OneInHand == current = <<>> \/ \E r \in Requests : current = <<r>>

\* The asynchronous path conserves its danmaku in every step.
LEMMA ConservationNext ==
    TypeOK /\ OneInHand /\ ChannelConservation /\ [Next]_vars
        => OneInHand' /\ ChannelConservation'
<1> SUFFICES ASSUME TypeOK, OneInHand, ChannelConservation, [Next]_vars
             PROVE  OneInHand' /\ ChannelConservation'
  OBVIOUS
<1>1. buf \in Seq(Requests) /\ written \in Seq(Requests) /\ current \in Seq(Requests)
  BY DEF TypeOK
<1>2. ASSUME NEW r \in Requests, PersistChan(r)
      PROVE  OneInHand' /\ ChannelConservation'
  <2>1. current' = current /\ written' = written
    BY <1>2 DEF PersistChan
  <2>2. \/ buf' = Append(buf, r) /\ sent' = Append(sent, r)
        \/ buf' = buf /\ sent' = sent
    BY <1>2 DEF PersistChan
  <2>3. Append(written \o current \o buf, r) = written \o current \o Append(buf, r)
    <3>1. written \o current \in Seq(Requests)
      BY <1>1, ConcatProperties
    <3>2. <<r>> \in Seq(Requests) /\ written \o current \o buf \in Seq(Requests)
      BY <1>1, <1>2, <3>1, ConcatProperties
    <3>3. Append(written \o current \o buf, r) = (written \o current \o buf) \o <<r>>
      BY <1>2, <3>2, AppendIsConcat
    <3>4. Append(buf, r) = buf \o <<r>>
      BY <1>1, <1>2, AppendIsConcat
    <3>5. (written \o current \o buf) \o <<r>> = written \o current \o (buf \o <<r>>)
      BY <1>1, <3>1, <3>2, ConcatAssociative, SMTT(40)
    <3> QED
      BY <3>3, <3>4, <3>5, Zenon
  <2>4. ChannelConservation'
    BY <2>1, <2>2, <2>3, Zenon DEF ChannelConservation
  <2>5. OneInHand'
    BY <2>1, Zenon DEF OneInHand
  <2> QED
    BY <2>4, <2>5
<1>3. CASE ConsumerReceive
  <2>1. /\ current = <<>> /\ buf # <<>>
        /\ current' = <<Head(buf)>> /\ buf' = Tail(buf)
        /\ written' = written /\ sent' = sent
    BY <1>3 DEF ConsumerReceive
  <2>2. Head(buf) \in Requests
    BY <1>1, <2>1, HeadTailProperties
  <2>3. written \o <<>> \o buf = written \o <<Head(buf)>> \o Tail(buf)
    BY <1>1, <2>1, HeadInHand
  <2>4. ChannelConservation'
    BY <2>1, <2>3, Zenon DEF ChannelConservation
  <2>5. OneInHand'
    BY <2>1, <2>2, Zenon DEF OneInHand
  <2> QED
    BY <2>4, <2>5
<1>4. CASE ConsumerWrite
  <2>1. /\ current # <<>> /\ current' = <<>>
        /\ written' = Append(written, Head(current))
        /\ buf' = buf /\ sent' = sent
    BY <1>4 DEF ConsumerWrite
  <2>2. PICK r \in Requests : current = <<r>>
    BY <2>1 DEF OneInHand
  <2>3. written' = Append(written, r)
    BY <2>1, <2>2
  <2>4. Append(written, r) = written \o <<r>> /\ written' \in Seq(Requests)
    BY <1>1, <2>3, AppendIsConcat
  <2>5. written' \o <<>> = written'
    BY <2>4, ConcatEmptySeq
  <2>6. ChannelConservation'
    BY <2>1, <2>2, <2>3, <2>4, <2>5, Zenon DEF ChannelConservation
  <2>7. OneInHand'
    BY <2>1 DEF OneInHand
  <2> QED
    BY <2>6, <2>7
<1>5. CASE UNCHANGED <<sent, written, current, buf>>
  BY <1>5 DEF OneInHand, ChannelConservation
<1>6. \/ \E r \in Requests : PersistChan(r)
      \/ ConsumerReceive
      \/ ConsumerWrite
      \/ UNCHANGED <<sent, written, current, buf>>
  BY DEF Next, vars, chanVars, requestVars, sinkVars, shutdownVars, Arrive, RequestStep, LocalStep, Register,
         CheckAccepting, Moderate, PersistKafka, PersistDirect, Broadcast, Leave, ConsumerStep,
         ConsumerExit, ShutdownStart, ShutdownStep, ShutdownQuiescent, ShutdownBusy,
         ShutdownPollAgain, ShutdownPollTimeout, ShutdownCloseProducer, ShutdownSwap,
         ShutdownCloseChan, ShutdownDrained, ShutdownDrainTimeout, MainStep, MainCloseHub,
         MainCloseStore, MainExit, MainGoesOn
<1> QED
  BY <1>2, <1>3, <1>4, <1>5, <1>6

\* Every danmaku that danmakuChan took is written, in the consumer's hands or
\* buffered, in the order it was taken, for every buffer size.
THEOREM AsyncPathConserves == Spec => []ChannelConservation
<1>1. Init => OneInHand /\ ChannelConservation
  BY DEF Init, OneInHand, ChannelConservation
<1>2. ShutdownInv => TypeOK
  BY DEF ShutdownInv
<1> QED
  BY <1>1, <1>2, ShutdownInvariant, ConservationNext, PTL DEF Spec

-----------------------------------------------------------------------------
(* Acknowledgements.                                                       *)

\* Every step acknowledges at most what it has just put into the channel, the
\* topic or the store, for a request that passed the checks; what is there
\* stays there.
LEMMA AckEffect ==
    ASSUME TypeOK, [Next]_vars
    PROVE  /\ durable \subseteq durable'
           /\ sent' = sent \/ \E r \in Requests : sent' = Append(sent, r)
           /\ \A q \in Requests :
                 \/ result'[q] = result[q]
                 \/ result'[q] \notin {"buffered", "persisted"}
                 \/ pc[q] = "checked" /\ result'[q] = "buffered" /\ sent' = Append(sent, q)
                 \/ pc[q] = "checked" /\ result'[q] = "persisted" /\ q \in durable'
<1> DEFINE Grows == /\ durable \subseteq durable'
                    /\ sent' = sent \/ \E r \in Requests : sent' = Append(sent, r)
           Acks == \A q \in Requests :
                      \/ result'[q] = result[q]
                      \/ result'[q] \notin {"buffered", "persisted"}
                      \/ pc[q] = "checked" /\ result'[q] = "buffered" /\ sent' = Append(sent, q)
                      \/ pc[q] = "checked" /\ result'[q] = "persisted" /\ q \in durable'
<1> SUFFICES Grows /\ Acks
  OBVIOUS
<1> USE DEF requestVars, chanVars, sinkVars, shutdownVars
<1>0. result \in [Requests -> Results]
  BY DEF TypeOK
<1>1. ASSUME NEW r \in Requests, Arrive(r) \/ CheckAccepting(r) \/ Moderate(r) PROVE Grows /\ Acks
  <2>1. /\ UNCHANGED <<durable, sent>>
        /\ \/ result' = result
           \/ \E x \in {"refused", "shutting_down"} : result' = [result EXCEPT ![r] = x]
    BY <1>1 DEF Arrive, CheckAccepting, Moderate
  <2> QED
    BY <1>0, <2>1
<1>2. ASSUME NEW r \in Requests, PersistKafka(r) \/ PersistDirect(r) PROVE Grows /\ Acks
  <2>1. PICK w \in WriteOutcomes : Writing(r, w)
    BY <1>2 DEF PersistKafka, PersistDirect
  <2>2. pc[r] = "checked" /\ sent' = sent
    BY <1>2 DEF PersistKafka, PersistDirect
  <2>3. \/ /\ durable' = durable \cup {r}
           /\ result' = [result EXCEPT ![r] = "persisted"]
        \/ /\ durable' = durable \/ durable' = durable \cup {r}
           /\ result' = [result EXCEPT ![r] = "persistence_failed"]
    <3>1. CASE w = [ok |-> TRUE, effect |-> TRUE]
      BY <2>1, <3>1 DEF Writing
    <3>2. CASE w = [ok |-> FALSE, effect |-> FALSE]
      BY <2>1, <3>2 DEF Writing
    <3>3. CASE w = [ok |-> FALSE, effect |-> TRUE]
      BY <2>1, <3>3 DEF Writing
    <3> QED
      BY <2>1, <3>1, <3>2, <3>3 DEF WriteOutcomes
  <2> QED
    BY <1>0, <2>2, <2>3
<1>3. ASSUME NEW r \in Requests, PersistChan(r) PROVE Grows /\ Acks
  <2>1. /\ pc[r] = "checked" /\ durable' = durable
        /\ \/ sent' = Append(sent, r) /\ result' = [result EXCEPT ![r] = "buffered"]
           \/ sent' = sent /\ result' = [result EXCEPT ![r] = "queue_full"]
    BY <1>3 DEF PersistChan
  <2> QED
    BY <1>0, <2>1
<1>4. ASSUME NEW r \in Requests, Register(r) \/ Broadcast(r) \/ Leave(r) PROVE Grows /\ Acks
  BY <1>4 DEF Register, Broadcast, Leave
<1>5. ASSUME ConsumerStep PROVE Grows /\ Acks
  <2>1. /\ UNCHANGED <<sent, result>>
        /\ durable' = durable \/ durable' = durable \cup {Head(current)}
    BY <1>5 DEF ConsumerStep, ConsumerReceive, ConsumerWrite, ConsumerExit
  <2> QED
    BY <2>1
<1>6. ASSUME NEW c \in Callers, ShutdownStart(c) \/ ShutdownStep(c) PROVE UNCHANGED <<durable, sent, result>>
  BY <1>6 DEF ShutdownStep, ShutdownStart, ShutdownQuiescent, ShutdownBusy, ShutdownPollAgain,
     ShutdownPollTimeout, ShutdownCloseProducer, ShutdownSwap, ShutdownCloseChan, ShutdownDrained,
     ShutdownDrainTimeout
<1>7. ASSUME MainStep \/ UNCHANGED vars PROVE UNCHANGED <<durable, sent, result>>
  BY <1>7 DEF MainStep, MainCloseHub, MainCloseStore, MainExit, MainGoesOn, vars
<1>8. ASSUME UNCHANGED <<durable, sent, result>> PROVE Grows /\ Acks
  BY <1>8
<1> HIDE DEF Grows, Acks
<1> QED
  BY <1>1, <1>2, <1>3, <1>4, <1>5, <1>6, <1>7, <1>8 DEF Next, RequestStep, LocalStep

\* What was acknowledged stays backed.
LEMMA AckNext == TypeOK /\ AckIsBacked /\ [Next]_vars => AckIsBacked'
<1> SUFFICES ASSUME TypeOK, AckIsBacked, [Next]_vars, NEW q \in Requests
             PROVE  /\ result'[q] = "buffered" => \E i \in 1..Len(sent') : sent'[i] = q
                    /\ result'[q] = "persisted" => q \in durable'
  BY DEF AckIsBacked
<1>1. sent \in Seq(Requests)
  BY DEF TypeOK
<1>2. ASSUME NEW r \in Requests, sent' = Append(sent, r)
      PROVE  /\ sent'[Len(sent')] = r /\ Len(sent') \in 1..Len(sent')
             /\ \A i \in 1..Len(sent) : i \in 1..Len(sent') /\ sent'[i] = sent[i]
  BY <1>1, <1>2
<1>3. (\E i \in 1..Len(sent) : sent[i] = q) => \E i \in 1..Len(sent') : sent'[i] = q
  BY <1>2, AckEffect
<1>4. CASE result'[q] = result[q]
  BY <1>3, <1>4, AckEffect DEF AckIsBacked
<1>5. CASE pc[q] = "checked" /\ result'[q] = "buffered" /\ sent' = Append(sent, q)
  BY <1>2, <1>5
<1>6. CASE pc[q] = "checked" /\ result'[q] = "persisted" /\ q \in durable'
  BY <1>6
<1> QED
  BY <1>4, <1>5, <1>6, AckEffect

\* A client that was told "buffered" or "persisted" has its danmaku in the
\* asynchronous path, or in the topic or the store, from then on.
THEOREM AcknowledgedIsBacked == Spec => []AckIsBacked
<1>1. Init => AckIsBacked
  BY DEF Init, AckIsBacked
<1>2. ShutdownInv => TypeOK
  BY DEF ShutdownInv
<1> QED
  BY <1>1, <1>2, AckNext, ShutdownInvariant, PTL DEF Spec

\* After any caller of Shutdown saw inflight = 0, no client is told "buffered"
\* or "persisted" any more.
THEOREM QuiescenceIsFinal == Spec => NoAckAfterQuiescence
<1>1. ShutdownInv /\ [Next]_vars => [AckIsOld]_vars
  <2> SUFFICES ASSUME ShutdownInv, [Next]_vars,
                      NEW c \in Callers, sd[c] \in QuiescentPoints,
                      NEW r \in Requests, result'[r] \in {"buffered", "persisted"}
               PROVE  result'[r] = result[r]
    BY DEF AckIsOld
  <2>1. pc[r] # "checked"
    BY DEF ShutdownInv, QuiescentIsFinal, Quiesced, WritingPoints
  <2>2. TypeOK
    BY DEF ShutdownInv
  <2> QED
    BY <2>1, <2>2, AckEffect
<1> QED
  BY <1>1, ShutdownInvariant, PTL DEF Spec, NoAckAfterQuiescence

-----------------------------------------------------------------------------
(* The drain.                                                              *)

\* The consumer's exit is final, and what it ended is accounted for.
LEMMA DrainNext == ShutdownInv /\ OneInHand /\ DrainInv /\ [Next]_vars => DrainInv'
<1> SUFFICES ASSUME ShutdownInv, OneInHand, DrainInv, [Next]_vars PROVE DrainInv'
  OBVIOUS
<1> DEFINE Ended == consumerDone' => chanClosed' /\ buf' = <<>> /\ current' = <<>>
           Absent == mode' # "chan" => sent' = <<>> /\ buf' = <<>> /\ current' = <<>>
           Settled == \A i \in 1..Len(written') : written'[i] \in durable' \cup failedWrites'
<1> SUFFICES Ended /\ Absent /\ Settled
  BY DEF DrainInv
<1> USE DEF requestVars, chanVars, sinkVars, shutdownVars
<1>0. /\ consumerDone => chanClosed /\ buf = <<>> /\ current = <<>>
      /\ mode # "chan" => sent = <<>> /\ buf = <<>> /\ current = <<>>
      /\ \A i \in 1..Len(written) : written[i] \in durable \cup failedWrites
      /\ written \in Seq(Requests) /\ TypeOK
      /\ current = <<>> \/ \E r \in Requests : current = <<r>>
  BY DEF DrainInv, ShutdownInv, TypeOK, OneInHand
<1>a. ASSUME UNCHANGED <<written, failedWrites>> PROVE Settled
  BY <1>0, <1>a, AckEffect
<1>b. ASSUME UNCHANGED <<mode, consumerDone, buf, current, sent>>, chanClosed => chanClosed'
      PROVE  Ended /\ Absent
  BY <1>0, <1>b
<1>1. ASSUME NEW r \in Requests, PersistChan(r) PROVE Ended /\ Absent /\ Settled
  <2>1. mode' = "chan" /\ UNCHANGED <<written, failedWrites, consumerDone>> /\ pc[r] = "checked"
    BY <1>1 DEF PersistChan
  <2>2. ~chanClosed
    BY <2>1 DEF ShutdownInv, QuiescentIsFinal, Quiesced, WritingPoints
  <2> QED
    BY <1>0, <1>a, <2>1, <2>2
<1>2. ASSUME ConsumerReceive PROVE Ended /\ Absent /\ Settled
  <2>1. mode' = "chan" /\ UNCHANGED <<written, failedWrites, consumerDone>> /\ ~consumerDone
    BY <1>2 DEF ConsumerReceive
  <2> QED
    BY <1>a, <2>1
<1>3. ASSUME ConsumerWrite PROVE Ended /\ Absent /\ Settled
  <2>1. /\ current # <<>> /\ current' = <<>> /\ written' = Append(written, Head(current))
        /\ UNCHANGED <<buf, chanClosed, consumerDone, sent, mode>>
    BY <1>3 DEF ConsumerWrite
  <2>2. PICK r \in Requests : current = <<r>>
    BY <1>0, <2>1
  <2>3. Head(current) = r
    BY <2>2
  <2>4. PICK w \in WriteOutcomes :
           /\ durable' = IF w.effect THEN durable \cup {r} ELSE durable
           /\ failedWrites' = IF w.ok THEN failedWrites ELSE failedWrites \cup {r}
    BY <1>3, <2>3 DEF ConsumerWrite
  <2>5. r \in durable' \cup failedWrites'
    BY <2>4 DEF WriteOutcomes
  <2>6. durable \subseteq durable' /\ failedWrites \subseteq failedWrites'
    BY <2>4
  <2>7. /\ Len(written') = Len(written) + 1 /\ Len(written) \in Nat
        /\ \A i \in 1..Len(written) : written'[i] = written[i]
        /\ written'[Len(written) + 1] = r
        /\ \A i \in 1..Len(written') : i \in 1..Len(written) \/ i = Len(written) + 1
    BY <1>0, <2>1, <2>3
  <2>8. Settled
    BY <1>0, <2>5, <2>6, <2>7
  <2> QED
    BY <1>0, <2>1, <2>8
<1>4. ASSUME ConsumerExit PROVE Ended /\ Absent /\ Settled
  BY <1>4, <1>a DEF ConsumerExit
<1>5. ASSUME NEW r \in Requests,
             \/ Arrive(r) \/ Register(r) \/ CheckAccepting(r) \/ Moderate(r) \/ PersistKafka(r)
             \/ PersistDirect(r) \/ Broadcast(r) \/ Leave(r)
      PROVE  UNCHANGED <<mode, consumerDone, buf, current, sent, chanClosed, written, failedWrites>>
  BY <1>5 DEF Arrive, Register, CheckAccepting, Moderate, PersistKafka, PersistDirect, Broadcast, Leave
<1>6. ASSUME NEW c \in Callers, ShutdownStart(c) \/ ShutdownStep(c)
      PROVE  /\ UNCHANGED <<mode, consumerDone, buf, current, sent, written, failedWrites>>
             /\ chanClosed => chanClosed'
  <2>1. CASE ShutdownCloseChan(c)
    BY <2>1 DEF ShutdownCloseChan
  <2>2. CASE ~ShutdownCloseChan(c)
    <3>1. UNCHANGED <<mode, consumerDone, buf, current, sent, chanClosed, written, failedWrites>>
      BY <1>6, <2>2 DEF ShutdownStep, ShutdownStart, ShutdownQuiescent, ShutdownBusy,
         ShutdownPollAgain, ShutdownPollTimeout, ShutdownCloseProducer, ShutdownSwap,
         ShutdownDrained, ShutdownDrainTimeout
    <3> QED
      BY <3>1
  <2> QED
    BY <2>1, <2>2
<1>7. ASSUME MainStep \/ UNCHANGED vars
      PROVE  UNCHANGED <<mode, consumerDone, buf, current, sent, chanClosed, written, failedWrites>>
  BY <1>7 DEF MainStep, MainCloseHub, MainCloseStore, MainExit, MainGoesOn, vars
<1> HIDE DEF Ended, Absent, Settled
<1> QED
  BY <1>a, <1>b, <1>1, <1>2, <1>3, <1>4, <1>5, <1>6, <1>7 DEF Next, RequestStep, LocalStep, ConsumerStep

\* One of the callers drains the channel, or gave up waiting for it.
LEMMA WinnerNext == ShutdownInv /\ WinnerDrains /\ [Next]_vars => WinnerDrains'
<1> SUFFICES ASSUME ShutdownInv, WinnerDrains, [Next]_vars PROVE WinnerDrains'
  OBVIOUS
<1> USE DEF requestVars, chanVars, sinkVars, shutdownVars
<1>0. sd \in [Callers -> CallPoints]
  BY DEF ShutdownInv, TypeOK
<1>1. ASSUME UNCHANGED <<closed, sd, mode>>, consumerDone => consumerDone' PROVE WinnerDrains'
  BY <1>1 DEF WinnerDrains
<1>2. ASSUME NEW c \in Callers, NEW to \in {"polling", "waiting", "closing", "swapping", "error"},
             sd[c] \notin {"closeChan", "draining", "nil", "error"} \/ to = "error",
             sd' = [sd EXCEPT ![c] = to], UNCHANGED <<closed, mode, consumerDone>>
      PROVE  WinnerDrains'
  BY <1>0, <1>2 DEF WinnerDrains
<1>3. ASSUME NEW c \in Callers,
             \/ ShutdownStart(c) \/ ShutdownQuiescent(c) \/ ShutdownBusy(c) \/ ShutdownPollAgain(c)
             \/ ShutdownPollTimeout(c) \/ ShutdownCloseProducer(c) \/ ShutdownDrainTimeout(c)
      PROVE  WinnerDrains'
  <2>1. /\ UNCHANGED <<closed, mode, consumerDone>>
        /\ \E to \in {"polling", "waiting", "closing", "swapping", "error"} :
              /\ sd' = [sd EXCEPT ![c] = to]
              /\ sd[c] \notin {"closeChan", "draining", "nil", "error"} \/ to = "error"
    BY <1>3 DEF ShutdownStart, ShutdownQuiescent, ShutdownBusy, ShutdownPollAgain, ShutdownPollTimeout,
       ShutdownCloseProducer, ShutdownDrainTimeout, Call
  <2> QED
    BY <1>2, <2>1
<1>4. ASSUME NEW c \in Callers, ShutdownSwap(c) PROVE WinnerDrains'
  <2>1. /\ sd[c] = "swapping" /\ closed' = TRUE /\ UNCHANGED <<mode, consumerDone>>
        /\ sd' = [sd EXCEPT ![c] = IF ~closed /\ mode = "chan" THEN "closeChan" ELSE "nil"]
    BY <1>4 DEF ShutdownSwap, Call
  <2>2. CASE ~closed /\ mode = "chan"
    <3>1. sd'[c] = "closeChan"
      BY <1>0, <2>1, <2>2
    <3> QED
      BY <3>1 DEF WinnerDrains
  <2>3. CASE mode # "chan"
    <3>1. sd'[c] = "nil"
      BY <1>0, <2>1, <2>3
    <3> QED
      BY <2>1, <2>3, <3>1 DEF WinnerDrains
  <2>4. CASE closed /\ mode = "chan"
    <3>1. sd'[c] = "nil" /\ \A d \in Callers : d # c => sd'[d] = sd[d]
      BY <1>0, <2>1, <2>4
    <3>2. ASSUME ~consumerDone PROVE \E d \in Callers : d # c /\ sd[d] \in {"closeChan", "draining", "error"}
      BY <2>1, <2>4, <3>2 DEF WinnerDrains
    <3> QED
      BY <2>1, <3>1, <3>2 DEF WinnerDrains
  <2> QED
    BY <2>2, <2>3, <2>4 DEF ShutdownInv, TypeOK
<1>5. ASSUME NEW c \in Callers, ShutdownCloseChan(c) PROVE WinnerDrains'
  <2>1. sd' = [sd EXCEPT ![c] = "draining"] /\ UNCHANGED <<closed, mode, consumerDone>>
    BY <1>5 DEF ShutdownCloseChan, Call
  <2>2. sd'[c] = "draining"
    BY <1>0, <2>1
  <2> QED
    BY <2>2 DEF WinnerDrains
<1>6. ASSUME NEW c \in Callers, ShutdownDrained(c) PROVE WinnerDrains'
  <2>1. sd' = [sd EXCEPT ![c] = "nil"] /\ consumerDone' /\ UNCHANGED <<closed, mode>>
    BY <1>6 DEF ShutdownDrained, Call
  <2>2. sd'[c] = "nil"
    BY <1>0, <2>1
  <2> QED
    BY <2>1, <2>2 DEF WinnerDrains
<1>7. ASSUME NEW r \in Requests, Arrive(r) \/ RequestStep(r)
      PROVE  UNCHANGED <<closed, sd, mode, consumerDone>>
  BY <1>7 DEF Arrive, RequestStep, LocalStep, Register, CheckAccepting, Moderate, PersistKafka,
     PersistDirect, PersistChan, Broadcast, Leave
<1>8. ASSUME ConsumerStep \/ MainStep \/ UNCHANGED vars
      PROVE  UNCHANGED <<closed, sd, mode>> /\ (consumerDone => consumerDone')
  BY <1>8 DEF ConsumerStep, ConsumerReceive, ConsumerWrite, ConsumerExit, MainStep, MainCloseHub,
     MainCloseStore, MainExit, MainGoesOn, vars
<1> QED
  BY <1>1, <1>3, <1>4, <1>5, <1>6, <1>7, <1>8 DEF Next, ShutdownStep

\* When main's call, the only one, returned nil, nobody writes any more, the
\* channel is drained, and every danmaku acknowledged as buffered is in the
\* store or its write failed.
THEOREM NilMeansDrained == Spec => []CleanShutdown
<1>1. Init => OneInHand /\ ChannelConservation /\ AckIsBacked /\ DrainInv /\ WinnerDrains
  BY DEF Init, OneInHand, ChannelConservation, AckIsBacked, DrainInv, WinnerDrains
<1>2. ShutdownInv => TypeOK
  BY DEF ShutdownInv
<1>3. ShutdownInv /\ ChannelConservation /\ AckIsBacked /\ DrainInv /\ WinnerDrains => CleanShutdown
  <2> SUFFICES ASSUME ShutdownInv, ChannelConservation, AckIsBacked, DrainInv, WinnerDrains,
                      sd[MainCaller] = "nil", \A c \in Callers \ {MainCaller} : sd[c] = "idle"
               PROVE  /\ \A r \in Requests : pc[r] \notin WritingPoints
                      /\ buf = <<>> /\ current = <<>>
                      /\ \A r \in Requests :
                            result[r] = "buffered" => r \in durable \cup failedWrites
    BY DEF CleanShutdown
  <2>1. \A r \in Requests : pc[r] \notin WritingPoints
    BY MainCallerAssumption DEF ShutdownInv, QuiescentIsFinal, Quiesced, QuiescentPoints
  <2>2. mode = "chan" => consumerDone
    BY MainCallerAssumption DEF WinnerDrains
  <2>3. buf = <<>> /\ current = <<>>
    BY <2>2 DEF DrainInv
  <2>4. written \in Seq(Requests)
    BY DEF ShutdownInv, TypeOK
  <2>5. sent = written
    BY <2>3, <2>4, ConcatEmptySeq DEF ChannelConservation
  <2>6. \A r \in Requests : result[r] = "buffered" => r \in durable \cup failedWrites
    BY <2>5 DEF AckIsBacked, DrainInv
  <2> QED
    BY <2>1, <2>3, <2>6
<1> QED
  BY <1>1, <1>2, <1>3, ShutdownInvariant, ConservationNext, AckNext, DrainNext, WinnerNext, PTL DEF Spec

=============================================================================
