------------------------ MODULE KafkaPipelineProofs ------------------------
(***************************************************************************)
(* Proofs about KafkaPipeline, for every set of danmaku and instances and  *)
(* every number of events and faults.                                      *)
(***************************************************************************)
EXTENDS KafkaPipeline, TLAPS

\* The initial states satisfy the inductive invariant.
LEMMA PipelineInit == Init => PipelineInv
<1> SUFFICES ASSUME Init PROVE PipelineInv
  OBVIOUS
<1> USE NoneAssumption DEF Init
<1>1. TypeOK
  BY DEF TypeOK, Phases, MaxRetry
<1>2. TopicIsFaithful /\ SessionPosition /\ RowsAreFaithful /\ MarkedIsSettled
  BY DEF TopicIsFaithful, SessionPosition, RowsAreFaithful, MarkedIsSettled
<1>3. DecisionStands /\ FlaggedNeedsReview
  BY DEF DecisionStands, FlaggedNeedsReview
<1> QED
  BY <1>1, <1>2, <1>3 DEF PipelineInv

\* The fields of an event.
LEMMA EventFields ==
    /\ \A d, s : Event(d, s).id = d /\ Event(d, s).status = s
    /\ Garbage.id = None
  BY DEF Event, Garbage

\* The positions of the topic.
LEMMA TopicDomain ==
    ASSUME PipelineInv PROVE DOMAIN topic = 1 .. Len(topic) /\ Len(topic) \in Nat
  BY DEF PipelineInv, TypeOK

\* An event appended to the topic leaves the others where they are.
LEMMA AppendKeeps ==
    ASSUME TypeOK, NEW e \in Events, topic' = Append(topic, e)
    PROVE  /\ Len(topic') = Len(topic) + 1
           /\ \A k \in 1 .. Len(topic) : topic'[k] = topic[k]
           /\ topic'[Len(topic) + 1] = e
  BY DEF TypeOK

\* Marking a message keeps the types of the session.
LEMMA MarkTypes ==
    ASSUME TypeOK, NEW i \in Instances, Mark(i)
    PROVE  /\ claim' \in SUBSET Instances /\ handling' \in SUBSET Instances
           /\ next' \in [Instances -> Nat] /\ marked' \in [Instances -> Nat]
           /\ retry' \in [Instances -> 0 .. MaxRetry]
  BY DEF TypeOK, Mark, MaxRetry

\* Counting a retry keeps the counter's type.
LEMMA RetryTypes ==
    ASSUME retry \in [Instances -> 0 .. MaxRetry], NEW i \in Instances, retry[i] < MaxRetry,
           retry' = [retry EXCEPT ![i] = @ + 1]
    PROVE  retry' \in [Instances -> 0 .. MaxRetry]
<1>1. retry[i] + 1 \in 0 .. MaxRetry
  BY DEF MaxRetry
<1> QED
  BY <1>1

\* What processMessage works on is an event of a danmaku.
LEMMA HandledIsEvent ==
    ASSUME PipelineInv, NEW i \in Instances, i \in handling
    PROVE  /\ next[i] \in 1 .. Len(topic)
           /\ topic[next[i]] \in Events
           /\ topic[next[i]].id \in Danmakus
           /\ topic[next[i]].status \in {"", "approved", "flagged"}
           /\ sent[topic[next[i]].id] # "none"
           /\ sent[topic[next[i]].id] = "flagged" => topic[next[i]].status = "flagged"
<1>1. next[i] \in 1 .. Len(topic) /\ topic[next[i]] # Garbage
  BY DEF PipelineInv, TypeOK, SessionPosition
<1>2. topic[next[i]] \in Events
  BY <1>1 DEF PipelineInv, TypeOK
<1>3. next[i] \in DOMAIN topic
  BY <1>1 DEF PipelineInv, TypeOK
<1>4. /\ topic[next[i]].id \in Danmakus
      /\ sent[topic[next[i]].id] # "none"
      /\ topic[next[i]] = Event(topic[next[i]].id,
                                IF sent[topic[next[i]].id] = "v1" THEN "" ELSE sent[topic[next[i]].id])
  BY <1>1, <1>3 DEF PipelineInv, TopicIsFaithful
<1>5. sent[topic[next[i]].id] = "flagged" => topic[next[i]].status = "flagged"
  BY <1>4 DEF Event
<1>6. topic[next[i]].status \in {"", "approved", "flagged"}
  BY <1>2 DEF Events
<1> QED
  BY <1>1, <1>2, <1>4, <1>5, <1>6

\* A call of Add leaves every other row alone, and the row of its danmaku if
\* there is one.
LEMMA AddRows ==
    ASSUME NEW e, e.id \in Danmakus, e.status \in {"", "approved", "flagged"},
           rows \in [Danmakus -> {"absent", "approved", "flagged", "rejected"}]
    PROVE  /\ Add(e) \in [Danmakus -> {"absent", "approved", "flagged", "rejected"}]
           /\ \A d \in Danmakus : d # e.id \/ rows[d] # "absent" => Add(e)[d] = rows[d]
           /\ Add(e)[e.id] # "absent"
           /\ rows[e.id] = "absent" /\ e.status = "flagged" => Add(e)[e.id] = "flagged"
<1> DEFINE v == IF rows[e.id] # "absent" THEN rows[e.id]
                ELSE IF e.status = "" THEN "approved" ELSE e.status
<1>1. Add(e) = [rows EXCEPT ![e.id] = v]
  BY DEF Add
<1>2. v \in {"approved", "flagged", "rejected"}
  OBVIOUS
<1>3. rows[e.id] # "absent" => v = rows[e.id]
  OBVIOUS
<1>4. rows[e.id] = "absent" /\ e.status = "flagged" => v = "flagged"
  OBVIOUS
<1> HIDE DEF v
<1> QED
  BY <1>1, <1>2, <1>3, <1>4

\* The outcomes of a call of store.Add in processMessage.
LEMMA StoreAddOutcomes ==
    ASSUME NEW i \in Instances, StoreAdd(i)
    PROVE  /\ i \in handling
           /\ \/ Mark(i) /\ rows' = Add(topic[next[i]]) /\ UNCHANGED skipped
              \/ /\ Mark(i) /\ skipped' = skipped \cup {next[i]}
                 /\ rows' \in {rows, Add(topic[next[i]])}
              \/ /\ retry[i] < MaxRetry
                 /\ retry' = [retry EXCEPT ![i] = @ + 1]
                 /\ UNCHANGED <<claim, next, handling, marked, skipped>>
                 /\ rows' \in {rows, Add(topic[next[i]])}
           /\ UNCHANGED <<producerVars, brokerVars, decided, processVars, faults>>
  BY DEF StoreAdd, AddFails

\* Every variable keeps its type.
LEMMA PipelineTypes == PipelineInv /\ [Next]_vars => TypeOK'
<1> SUFFICES ASSUME PipelineInv, [Next]_vars PROVE TypeOK'
  OBVIOUS
<1>0. TypeOK
  BY DEF PipelineInv
<1> USE NoneAssumption DEF TypeOK, Phases, MaxRetry, producerVars, brokerVars, tableVars,
                           processVars, sessionVars
<1>1. ASSUME NEW d \in Danmakus, Produce(d) PROVE TypeOK'
  BY <1>0, <1>1 DEF Produce
<1>2. ASSUME NEW d \in Danmakus, BrokerAppend(d) PROVE TypeOK'
  <2>1. eventFromDanmaku(d) \in Events
    BY <1>0, <1>2 DEF BrokerAppend, eventFromDanmaku, Event, Events
  <2> QED
    BY <1>0, <1>2, <2>1 DEF BrokerAppend
<1>3. ASSUME NEW d \in Danmakus, ProduceReturn(d) PROVE TypeOK'
  BY <1>0, <1>3 DEF ProduceReturn
<1>4. CASE ForeignAppend
  <2>1. Garbage \in Events
    BY DEF Garbage, Event, Events
  <2> QED
    BY <1>0, <1>4, <2>1 DEF ForeignAppend
<1>5. ASSUME NEW i \in Instances, ConsumeSetup(i) PROVE TypeOK'
  BY <1>0, <1>5 DEF ConsumeSetup
<1>6. ASSUME NEW i \in Instances, ConsumeSetupPanics(i) PROVE TypeOK'
  BY <1>0, <1>6 DEF ConsumeSetupPanics
<1>7. ASSUME NEW i \in Instances, Deliver(i) PROVE TypeOK'
  <2>1. CASE Mark(i)
    BY <1>0, <1>7, <2>1, MarkTypes DEF Deliver
  <2>2. CASE handling' = handling \cup {i} /\ UNCHANGED <<claim, next, retry, marked>>
    BY <1>0, <1>7, <2>2 DEF Deliver
  <2> QED
    BY <1>7, <2>1, <2>2 DEF Deliver
<1>8. ASSUME NEW i \in Instances, StoreAdd(i) PROVE TypeOK'
  <2>1. rows' \in [Danmakus -> {"absent", "approved", "flagged", "rejected"}]
    <3> DEFINE e == topic[next[i]]
    <3>1. e.id \in Danmakus /\ e.status \in {"", "approved", "flagged"}
      BY <1>8, HandledIsEvent, StoreAddOutcomes
    <3>2. rows' \in {rows, Add(e)}
      BY <1>8, StoreAddOutcomes
    <3>3. rows \in [Danmakus -> {"absent", "approved", "flagged", "rejected"}]
      BY <1>0
    <3> HIDE DEF e
    <3>4. Add(e) \in [Danmakus -> {"absent", "approved", "flagged", "rejected"}]
      BY <3>1, <3>3, AddRows
    <3> QED
      BY <3>2, <3>3, <3>4
  <2>2. UNCHANGED <<producerVars, brokerVars, decided, processVars, faults>>
    BY <1>8, StoreAddOutcomes
  <2>3. CASE Mark(i) /\ skipped' \in {skipped, skipped \cup {next[i]}}
    BY <1>0, <2>1, <2>2, <2>3, MarkTypes
  <2>4. CASE /\ retry[i] < MaxRetry
             /\ retry' = [retry EXCEPT ![i] = @ + 1]
             /\ UNCHANGED <<claim, next, handling, marked, skipped>>
    <3>1. retry' \in [Instances -> 0 .. MaxRetry]
      BY <1>0, <2>4, RetryTypes
    <3> QED
      BY <1>0, <2>1, <2>2, <2>4, <3>1
  <2>5. \/ Mark(i) /\ UNCHANGED skipped
        \/ Mark(i) /\ skipped' = skipped \cup {next[i]}
        \/ /\ retry[i] < MaxRetry
           /\ retry' = [retry EXCEPT ![i] = @ + 1]
           /\ UNCHANGED <<claim, next, handling, marked, skipped>>
    BY <1>8, StoreAddOutcomes
  <2> QED
    BY <2>3, <2>4, <2>5
<1>9. CASE Rebalance
  BY <1>0, <1>9 DEF Rebalance
<1>10. ASSUME NEW i \in Instances, Close(i) PROVE TypeOK'
  BY <1>0, <1>10 DEF Close, Without
<1>11. ASSUME NEW i \in Instances, EndSession(i) PROVE TypeOK'
  BY <1>0, <1>11 DEF EndSession
<1>12. ASSUME NEW i \in Instances, StartReturns(i) PROVE TypeOK'
  BY <1>0, <1>12 DEF StartReturns
<1>13. ASSUME NEW i \in Instances, Crash(i) PROVE TypeOK'
  BY <1>0, <1>13 DEF Crash, Without
<1>14. ASSUME NEW i \in Instances, Restart(i) PROVE TypeOK'
  BY <1>0, <1>14 DEF Restart
<1>15. ASSUME NEW d \in Danmakus, NEW s \in {"approved", "rejected"}, Review(d, s) PROVE TypeOK'
  BY <1>0, <1>15 DEF Review
<1>16. CASE UNCHANGED vars
  BY <1>0, <1>16 DEF vars
<1> QED
  BY <1>1, <1>2, <1>3, <1>4, <1>5, <1>6, <1>7, <1>8, <1>9, <1>10, <1>11, <1>12, <1>13, <1>14,
     <1>15, <1>16 DEF Next, ProducerStep, ConsumerStep, Environment

\* Appending an event keeps the invariant: positions stay, and the new event
\* carries its danmaku's status.
LEMMA AppendStep ==
    ASSUME PipelineInv, TypeOK', NEW e \in Events, topic' = Append(topic, e),
           \/ e = Garbage
           \/ \E d \in Danmakus : sent[d] # "none" /\ e = eventFromDanmaku(d),
           UNCHANGED <<producerVars, committed, owner, tableVars, processVars, sessionVars, faults>>
    PROVE  PipelineInv'
<1>1. /\ Len(topic') = Len(topic) + 1 /\ Len(topic) \in Nat
      /\ \A k \in 1 .. Len(topic) : topic'[k] = topic[k]
      /\ topic'[Len(topic) + 1] = e
      /\ DOMAIN topic = 1 .. Len(topic) /\ DOMAIN topic' = 1 .. (Len(topic) + 1)
  BY AppendKeeps DEF PipelineInv, TypeOK
<1>2. UNCHANGED <<sent, committed, rows, decided, skipped, phase, next, handling, marked>>
  BY DEF producerVars, tableVars, processVars, sessionVars
<1>3. TopicIsFaithful'
  <2> SUFFICES ASSUME NEW k \in DOMAIN topic', topic'[k] # Garbage
               PROVE  /\ topic'[k].id \in Danmakus /\ sent[topic'[k].id] # "none"
                      /\ topic'[k] = Event(topic'[k].id, IF sent[topic'[k].id] = "v1" THEN ""
                                                         ELSE sent[topic'[k].id])
    BY <1>2 DEF TopicIsFaithful
  <2>1. CASE k \in DOMAIN topic
    BY <1>1, <2>1 DEF PipelineInv, TopicIsFaithful
  <2>2. CASE k = Len(topic) + 1
    <3>1. PICK d \in Danmakus : sent[d] # "none" /\ e = eventFromDanmaku(d)
      BY <1>1, <2>2
    <3>2. topic'[k] = Event(d, IF sent[d] = "v1" THEN "" ELSE sent[d])
      BY <1>1, <2>2, <3>1 DEF eventFromDanmaku
    <3>3. topic'[k].id = d
      BY <3>2, EventFields
    <3> QED
      BY <3>1, <3>2, <3>3
  <2>3. k \in 1 .. Len(topic) \/ k = Len(topic) + 1
    BY <1>1
  <2> QED
    BY <1>1, <2>1, <2>2, <2>3
<1>4. SessionPosition'
  BY <1>1, <1>2 DEF PipelineInv, TypeOK, SessionPosition
<1>5. MarkedIsSettled'
  <2> SUFFICES ASSUME NEW i \in Instances, NEW k \in 1 .. marked[i] PROVE Settled(k)'
    BY <1>2 DEF MarkedIsSettled
  <2>1. Settled(k)
    BY DEF PipelineInv, MarkedIsSettled
  <2>2. marked[i] \in Nat /\ marked[i] <= Len(topic)
    BY DEF PipelineInv, TypeOK, SessionPosition
  <2>3. k \in 1 .. Len(topic)
    BY <1>1, <2>2
  <2> QED
    BY <1>1, <1>2, <2>1, <2>3 DEF Settled
<1>6. RowsAreFaithful' /\ DecisionStands' /\ FlaggedNeedsReview'
  BY <1>2 DEF PipelineInv, RowsAreFaithful, DecisionStands, FlaggedNeedsReview
<1> QED
  BY <1>3, <1>4, <1>5, <1>6 DEF PipelineInv

\* Marking the message at hand keeps marks settled if the message is.
LEMMA MarkStep ==
    ASSUME PipelineInv, NEW i \in Instances, Mark(i),
           NEW n \in DOMAIN topic, next[i] = n, Settled(n)',
           UNCHANGED <<topic, committed, phase>>,
           \A k \in Nat : Settled(k) => Settled(k)'
    PROVE  SessionPosition' /\ MarkedIsSettled'
<1>1. /\ TypeOK /\ SessionPosition /\ MarkedIsSettled
      /\ DOMAIN topic = 1 .. Len(topic) /\ Len(topic) \in Nat
  BY DEF PipelineInv, TypeOK
<1>2. /\ marked' = [marked EXCEPT ![i] = next[i]]
      /\ next' = [next EXCEPT ![i] = next[i] + 1]
      /\ handling' = handling \ {i}
  BY DEF Mark
<1>3. SessionPosition'
  BY <1>1, <1>2 DEF TypeOK, SessionPosition
<1>4. MarkedIsSettled'
  <2> SUFFICES ASSUME NEW j \in Instances, NEW k \in 1 .. marked'[j] PROVE Settled(k)'
    BY DEF MarkedIsSettled
  <2>1. CASE k \in 1 .. marked[j]
    BY <1>1, <2>1 DEF TypeOK, MarkedIsSettled
  <2>2. CASE j = i /\ k = n
    BY <2>2
  <2> QED
    BY <1>1, <1>2, <2>1, <2>2 DEF TypeOK, SessionPosition
<1> QED
  BY <1>3, <1>4

\* A session that receives a message keeps the invariant.
LEMMA DeliverStep ==
    ASSUME PipelineInv, TypeOK', NEW i \in Instances, Deliver(i) PROVE PipelineInv'
<1>1. UNCHANGED <<sent, topic, committed, phase, rows, decided, skipped>>
  BY DEF Deliver, producerVars, brokerVars, tableVars, processVars
<1>2. next[i] \in DOMAIN topic
  BY DEF Deliver
<1>3. TopicIsFaithful' /\ RowsAreFaithful' /\ DecisionStands' /\ FlaggedNeedsReview'
  BY <1>1 DEF PipelineInv, TopicIsFaithful, RowsAreFaithful, DecisionStands, FlaggedNeedsReview
<1>4. \A k \in Nat : Settled(k) => Settled(k)'
  BY <1>1 DEF Settled
<1>5. CASE topic[next[i]] = Garbage /\ Mark(i)
  <2>1. \A n \in DOMAIN topic : n = next[i] => Settled(n)'
    BY <1>1, <1>5, EventFields DEF Settled
  <2>2. SessionPosition' /\ MarkedIsSettled'
    BY <1>1, <1>2, <1>4, <1>5, <2>1, MarkStep
  <2> QED
    BY <1>3, <2>2 DEF PipelineInv
<1>6. CASE /\ topic[next[i]] # Garbage
           /\ handling' = handling \cup {i}
           /\ UNCHANGED <<claim, next, retry, marked>>
  <2>1. SessionPosition'
    <3>1. next[i] <= Len(topic) /\ phase[i] # "loop"
      BY <1>2, TopicDomain DEF Deliver
    <3> QED
      BY <1>1, <1>6, <3>1 DEF PipelineInv, SessionPosition
  <2>2. MarkedIsSettled'
    <3> SUFFICES ASSUME NEW j \in Instances, NEW k \in 1 .. marked[j] PROVE Settled(k)'
      BY <1>6 DEF MarkedIsSettled
    <3> QED
      BY <1>4 DEF PipelineInv, TypeOK, MarkedIsSettled
  <2> QED
    BY <1>3, <2>1, <2>2 DEF PipelineInv
<1> QED
  BY <1>5, <1>6 DEF Deliver

\* A call of store.Add keeps the invariant, whatever its outcome.
LEMMA StoreAddStep ==
    ASSUME PipelineInv, TypeOK', NEW i \in Instances, StoreAdd(i) PROVE PipelineInv'
<1> DEFINE e == topic[next[i]]
<1>1. UNCHANGED <<sent, topic, committed, phase, decided>>
  BY StoreAddOutcomes DEF producerVars, brokerVars, processVars
<1>2. /\ next[i] \in 1 .. Len(topic) /\ e.id \in Danmakus /\ sent[e.id] # "none"
      /\ e.status \in {"", "approved", "flagged"}
      /\ sent[e.id] = "flagged" => e.status = "flagged"
  BY StoreAddOutcomes, HandledIsEvent
<1>3. rows \in [Danmakus -> {"absent", "approved", "flagged", "rejected"}]
  BY DEF PipelineInv, TypeOK
<1>4. rows' \in {rows, Add(e)}
  BY StoreAddOutcomes
<1>5. next[i] \in DOMAIN topic
  BY <1>2, TopicDomain
<1>6. TopicIsFaithful'
  BY <1>1 DEF PipelineInv, TopicIsFaithful
<1>7. /\ \A d \in Danmakus : d # e.id \/ rows[d] # "absent" => rows'[d] = rows[d]
      /\ rows[e.id] = "absent" /\ e.status = "flagged" => rows'[e.id] \in {"absent", "flagged"}
      /\ Add(e)[e.id] # "absent"
  <2> HIDE DEF e
  <2>1. /\ \A d \in Danmakus : d # e.id \/ rows[d] # "absent" => Add(e)[d] = rows[d]
        /\ Add(e)[e.id] # "absent"
        /\ rows[e.id] = "absent" /\ e.status = "flagged" => Add(e)[e.id] = "flagged"
    BY <1>2, <1>3, AddRows
  <2>2. CASE rows' = rows
    BY <2>1, <2>2
  <2>3. CASE rows' = Add(e)
    BY <2>1, <2>3
  <2> QED
    BY <1>4, <2>2, <2>3
<1>8. RowsAreFaithful' /\ DecisionStands' /\ FlaggedNeedsReview'
  <2> HIDE DEF e
  <2> SUFFICES ASSUME NEW d \in Danmakus
               PROVE  /\ rows'[d] # "absent" => sent[d] # "none"
                      /\ rows'[d] = "absent" => decided[d] = "none"
                      /\ sent[d] = "flagged" /\ decided[d] = "none" => rows'[d] \in {"absent", "flagged"}
                      /\ decided[d] # "none" => rows'[d] = decided[d]
                      /\ sent[d] = "flagged" /\ rows'[d] = "approved" => decided[d] = "approved"
    BY <1>1 DEF RowsAreFaithful, DecisionStands, FlaggedNeedsReview
  <2>1. /\ rows[d] # "absent" => sent[d] # "none"
        /\ rows[d] = "absent" => decided[d] = "none"
        /\ sent[d] = "flagged" /\ decided[d] = "none" => rows[d] \in {"absent", "flagged"}
        /\ decided[d] # "none" => rows[d] = decided[d]
        /\ sent[d] = "flagged" /\ rows[d] = "approved" => decided[d] = "approved"
    BY DEF PipelineInv, RowsAreFaithful, DecisionStands, FlaggedNeedsReview
  <2>2. CASE d # e.id \/ rows[d] # "absent"
    BY <1>7, <2>1, <2>2
  <2>3. CASE d = e.id /\ rows[d] = "absent"
    BY <1>2, <1>7, <2>1, <2>3
  <2> QED
    BY <2>2, <2>3
<1>9. SessionPosition' /\ MarkedIsSettled'
  <2>1. skipped \subseteq skipped'
    BY StoreAddOutcomes
  <2>2. \A d \in Danmakus : rows[d] # "absent" => rows'[d] # "absent"
    BY <1>7
  <2>3. \A k \in Nat : Settled(k) => Settled(k)'
    BY <1>1, <2>1, <2>2 DEF Settled
  <2>4. CASE Mark(i) /\ (rows' = Add(e) \/ skipped' = skipped \cup {next[i]})
    <3>1. \A n \in DOMAIN topic : n = next[i] => Settled(n)'
      BY <1>1, <1>2, <1>7, <2>4 DEF Settled
    <3> QED
      BY <1>1, <1>5, <2>3, <2>4, <3>1, MarkStep
  <2>5. CASE UNCHANGED <<next, handling, marked>>
    <3>1. SessionPosition'
      BY <1>1, <2>5 DEF PipelineInv, SessionPosition
    <3>2. MarkedIsSettled'
      <4> SUFFICES ASSUME NEW j \in Instances, NEW k \in 1 .. marked[j] PROVE Settled(k)'
        BY <2>5 DEF MarkedIsSettled
      <4> QED
        BY <2>3 DEF PipelineInv, TypeOK, MarkedIsSettled
    <3> QED
      BY <3>1, <3>2
  <2> QED
    BY <2>4, <2>5, StoreAddOutcomes
<1> QED
  BY <1>6, <1>8, <1>9 DEF PipelineInv

\* The conjuncts other than the types only depend on these variables.
LEMMA TopicAndRowsKept ==
    ASSUME PipelineInv, UNCHANGED <<sent, topic, rows, decided, skipped>>
    PROVE  /\ TopicIsFaithful' /\ RowsAreFaithful' /\ DecisionStands' /\ FlaggedNeedsReview'
           /\ \A k : Settled(k) => Settled(k)'
  BY DEF PipelineInv, TopicIsFaithful, RowsAreFaithful, DecisionStands, FlaggedNeedsReview, Settled

\* Ends and starts of sessions and processes keep the invariant.
LEMMA SessionStep ==
    ASSUME PipelineInv, TypeOK',
           UNCHANGED <<sent, topic, committed, rows, decided, skipped>>,
           \A j \in Instances :
               /\ \/ next'[j] = next[j] /\ marked'[j] = marked[j]
                  \/ next'[j] = 1 /\ marked'[j] = 0 /\ j \notin handling'
               /\ j \in handling' => j \in handling
               /\ phase'[j] = "loop" => phase[j] = "loop" \/ j \notin handling'
    PROVE  PipelineInv'
<1>1. /\ TopicIsFaithful' /\ RowsAreFaithful' /\ DecisionStands' /\ FlaggedNeedsReview'
      /\ \A k : Settled(k) => Settled(k)'
  BY TopicAndRowsKept
<1>2. /\ SessionPosition /\ committed = 0 /\ Len(topic) \in Nat
      /\ \A j \in Instances : marked[j] \in Nat
  BY TopicDomain DEF PipelineInv, TypeOK, SessionPosition
<1>3. SessionPosition'
  <2> SUFFICES ASSUME NEW j \in Instances
               PROVE  /\ next'[j] = marked'[j] + 1
                      /\ marked'[j] <= Len(topic)
                      /\ j \in handling' => next'[j] <= Len(topic) /\ topic[next'[j]] # Garbage
                      /\ phase'[j] = "loop" => j \notin handling'
    BY <1>2 DEF SessionPosition
  <2>1. /\ next[j] = marked[j] + 1
        /\ marked[j] <= Len(topic)
        /\ j \in handling => next[j] <= Len(topic) /\ topic[next[j]] # Garbage
        /\ phase[j] = "loop" => j \notin handling
    BY <1>2 DEF SessionPosition
  <2>2. CASE next'[j] = next[j] /\ marked'[j] = marked[j]
    BY <2>1, <2>2
  <2>3. CASE next'[j] = 1 /\ marked'[j] = 0 /\ j \notin handling'
    BY <1>2, <2>3
  <2> QED
    BY <2>2, <2>3
<1>4. MarkedIsSettled'
  <2> SUFFICES ASSUME NEW j \in Instances, NEW k \in 1 .. marked'[j] PROVE Settled(k)'
    BY DEF MarkedIsSettled
  <2>1. k \in 1 .. marked[j]
    BY <1>2
  <2> QED
    BY <1>1, <2>1 DEF PipelineInv, MarkedIsSettled
<1> QED
  BY <1>1, <1>3, <1>4 DEF PipelineInv

\* Every step keeps the inductive invariant.
LEMMA PipelineNext == PipelineInv /\ [Next]_vars => PipelineInv'
<1> SUFFICES ASSUME PipelineInv, [Next]_vars PROVE PipelineInv'
  OBVIOUS
<1>0. TypeOK /\ TypeOK' /\ SessionPosition
  BY PipelineTypes DEF PipelineInv
<1> USE DEF producerVars, brokerVars, tableVars, processVars, sessionVars
<1>1. ASSUME NEW d \in Danmakus, Produce(d) PROVE PipelineInv'
  <2>1. /\ sent[d] = "none" /\ sent'[d] \in {"approved", "flagged", "v1"}
        /\ \A x \in Danmakus : x # d => sent'[x] = sent[x]
        /\ UNCHANGED <<topic, committed, rows, decided, skipped, phase, next, handling, marked>>
    BY <1>0, <1>1 DEF Produce, TypeOK
  <2>2. TopicIsFaithful'
    BY <2>1 DEF PipelineInv, TopicIsFaithful
  <2>3. RowsAreFaithful' /\ DecisionStands' /\ FlaggedNeedsReview'
    BY <2>1 DEF PipelineInv, RowsAreFaithful, DecisionStands, FlaggedNeedsReview
  <2>4. SessionPosition' /\ MarkedIsSettled'
    BY <2>1 DEF PipelineInv, SessionPosition, MarkedIsSettled, Settled
  <2> QED
    BY <1>0, <2>2, <2>3, <2>4 DEF PipelineInv
<1>2. ASSUME NEW d \in Danmakus, BrokerAppend(d) PROVE PipelineInv'
  <2>1. eventFromDanmaku(d) \in Events
    BY <1>0, <1>2 DEF BrokerAppend, TypeOK, eventFromDanmaku, Event, Events
  <2> QED
    BY <1>0, <1>2, <2>1, AppendStep DEF BrokerAppend
<1>3. CASE ForeignAppend
  <2>1. Garbage \in Events
    BY DEF Garbage, Event, Events
  <2> QED
    BY <1>0, <1>3, <2>1, AppendStep DEF ForeignAppend
<1>4. ASSUME NEW i \in Instances, Deliver(i) PROVE PipelineInv'
  BY <1>0, <1>4, DeliverStep
<1>5. ASSUME NEW i \in Instances, StoreAdd(i) PROVE PipelineInv'
  BY <1>0, <1>5, StoreAddStep
<1>6. ASSUME NEW i \in Instances, ConsumeSetup(i) PROVE PipelineInv'
  BY <1>0, <1>6, SessionStep DEF ConsumeSetup, TypeOK, SessionPosition
<1>7. ASSUME NEW i \in Instances,
             ConsumeSetupPanics(i) \/ StartReturns(i) \/ Close(i) \/ Crash(i)
      PROVE  PipelineInv'
  <2>1. CASE ConsumeSetupPanics(i)
    BY <1>0, <2>1, SessionStep DEF ConsumeSetupPanics, TypeOK
  <2>2. CASE StartReturns(i)
    BY <1>0, <2>2, SessionStep DEF StartReturns, TypeOK
  <2>3. CASE Close(i)
    BY <1>0, <2>3, SessionStep DEF Close, TypeOK
  <2>4. CASE Crash(i)
    BY <1>0, <2>4, SessionStep DEF Crash, TypeOK
  <2> QED
    BY <1>7, <2>1, <2>2, <2>3, <2>4
<1>8. ASSUME NEW i \in Instances, EndSession(i) PROVE PipelineInv'
  BY <1>0, <1>8, SessionStep DEF EndSession, AutoCommitEnable, TypeOK
<1>9. ASSUME NEW i \in Instances, Restart(i) PROVE PipelineInv'
  BY <1>0, <1>9, SessionStep DEF Restart, TypeOK
<1>10. CASE Rebalance
  BY <1>0, <1>10, SessionStep DEF Rebalance, TypeOK
<1>11. ASSUME NEW d \in Danmakus, NEW s \in {"approved", "rejected"}, Review(d, s)
       PROVE  PipelineInv'
  <2>1. /\ rows[d] # "absent" /\ rows'[d] = s /\ decided'[d] = s
        /\ \A x \in Danmakus : x # d => rows'[x] = rows[x] /\ decided'[x] = decided[x]
        /\ UNCHANGED <<sent, topic, committed, skipped, phase, next, handling, marked>>
    BY <1>0, <1>11 DEF Review, TypeOK
  <2>2. TopicIsFaithful' /\ SessionPosition' /\ MarkedIsSettled'
    BY <2>1 DEF PipelineInv, TopicIsFaithful, SessionPosition, MarkedIsSettled, Settled
  <2>3. RowsAreFaithful' /\ DecisionStands' /\ FlaggedNeedsReview'
    BY <2>1 DEF PipelineInv, RowsAreFaithful, DecisionStands, FlaggedNeedsReview
  <2> QED
    BY <1>0, <2>2, <2>3 DEF PipelineInv
<1>12. CASE UNCHANGED vars \/ \E d \in Danmakus : ProduceReturn(d)
  BY <1>0, <1>12, SessionStep DEF vars, ProduceReturn
<1> QED
  BY <1>1, <1>2, <1>3, <1>4, <1>5, <1>6, <1>7, <1>8, <1>9, <1>10, <1>11, <1>12
     DEF Next, ProducerStep, ConsumerStep, Environment

\* The inductive invariant holds in every behaviour of the pipeline, however
\* often the group rebalances and processes crash.
THEOREM PipelineInvariant == Spec => []PipelineInv
<1> QED
  BY PipelineInit, PipelineNext, PTL DEF Spec

\* Whatever is marked is stored, no event, or was given up after the retries:
\* at-least-once for a consumer that starts at the mark.
THEOREM AtLeastOnce == Spec => []MarkedIsSettled
<1>1. PipelineInv => MarkedIsSettled
  BY DEF PipelineInv
<1> QED
  BY <1>1, PipelineInvariant, PTL

\* No redelivery undoes an administrator's decision.
THEOREM ReviewsAreFinal == Spec => []DecisionStands
<1>1. PipelineInv => DecisionStands
  BY DEF PipelineInv
<1> QED
  BY <1>1, PipelineInvariant, PTL

\* No danmaku held back for review becomes visible without one.
THEOREM HeldBackUntilReviewed == Spec => []FlaggedNeedsReview
<1>1. PipelineInv => FlaggedNeedsReview
  BY DEF PipelineInv
<1> QED
  BY <1>1, PipelineInvariant, PTL

=============================================================================
