--------------------------- MODULE KafkaPipeline ---------------------------
(***************************************************************************)
(* The Kafka path from an accepted danmaku to its row in MySQL             *)
(* (service/kafka.go): Produce appends the event to one partition, the     *)
(* consumer group of all instances reads it back, and processMessage       *)
(* inserts it with retries while administrators review the rows.  Broker,  *)
(* group coordinator and database are external: an append or an insert may *)
(* take effect although its caller is told that it failed, the group may   *)
(* rebalance at any time, and an instance that lost the partition still    *)
(* works on what it had received.                                          *)
(***************************************************************************)
EXTENDS Naturals, Sequences

CONSTANTS Danmakus, Instances, None,
          MaxLog,       \* bound: events in the partition
          MaxFaults     \* bound: rebalances, crashes and shutdowns together

ASSUME NoneAssumption == None \notin Danmakus \cup Instances
ASSUME BoundsAssumption == MaxLog \in Nat /\ MaxFaults \in Nat

VARIABLES
    sent,       \* the status a danmaku was accepted with; "v1": by an old instance
    answer,     \* what its sender was told
    topic,      \* the partition
    committed,  \* the group's offset at the broker
    owner,      \* the instance the coordinator gave the partition to
    rows,       \* the danmaku table: status, or "absent"
    decided,    \* history: the last review of a danmaku
    phase,      \* where an instance's Start loop is, or how the process ended
    closing,    \* the instances whose consumer Close was called for
    ready,      \* the instances whose channel ready is closed
    claim,      \* the instances whose session consumes the partition
    next,       \* the message that ConsumeClaim is at
    handling,   \* the instances that are about to call store.Add for it
    retry,      \* failed calls of store.Add for that message
    marked,     \* the session's marked offset
    skipped,    \* history: messages given up after the retries
    faults      \* bound: faults so far

producerVars == <<sent, answer>>
sessionVars  == <<claim, next, handling, retry, marked>>
processVars  == <<phase, closing, ready>>
tableVars    == <<rows, decided, skipped>>
brokerVars   == <<topic, committed, owner>>
vars == <<producerVars, brokerVars, tableVars, processVars, sessionVars, faults>>

MaxRetry == 3
AutoCommitEnable == FALSE
Phases == {"loop", "session", "ending", "returned", "down", "panicked"}

Event(d, s) == [id |-> d, status |-> s]
Garbage == Event(None, "")

Events == [id : Danmakus \cup {None}, status : {"", "approved", "flagged"}]

TypeOK ==
    /\ sent \in [Danmakus -> {"none", "approved", "flagged", "v1"}]
    /\ answer \in [Danmakus -> {"none", "persisted", "unavailable"}]
    /\ topic \in Seq(Events)
    /\ committed \in Nat
    /\ owner \in Instances \cup {None}
    /\ rows \in [Danmakus -> {"absent", "approved", "flagged", "rejected"}]
    /\ decided \in [Danmakus -> {"none", "approved", "rejected"}]
    /\ phase \in [Instances -> Phases]
    /\ closing \in SUBSET Instances
    /\ ready \in SUBSET Instances
    /\ claim \in SUBSET Instances
    /\ next \in [Instances -> Nat]
    /\ handling \in SUBSET Instances
    /\ retry \in [Instances -> 0 .. MaxRetry]
    /\ marked \in [Instances -> Nat]
    /\ skipped \in SUBSET Nat
    /\ faults \in Nat

Init ==
    /\ sent = [d \in Danmakus |-> "none"]
    /\ answer = [d \in Danmakus |-> "none"]
    /\ topic = <<>>
    /\ committed = 0
    /\ owner = None
    /\ rows = [d \in Danmakus |-> "absent"]
    /\ decided = [d \in Danmakus |-> "none"]
    /\ phase = [i \in Instances |-> "loop"]
    /\ closing = {}
    /\ ready = {}
    /\ claim = {}
    /\ next = [i \in Instances |-> 1]
    /\ handling = {}
    /\ retry = [i \in Instances |-> 0]
    /\ marked = [i \in Instances |-> 0]
    /\ skipped = {}
    /\ faults = 0

-----------------------------------------------------------------------------
(* The producer.                                                           *)

\* Mutant: the event loses the review status, as in schema version 1.
eventFromDanmakuV1(d) == Event(d, "")

\* The event of a danmaku; an instance of schema version 1 writes no status.
eventFromDanmaku(d) == Event(d, IF sent[d] = "v1" THEN "" ELSE sent[d])

\* persistDanmaku calls Produce with the status that moderation gave.
Produce(d) ==
    /\ sent[d] = "none"
    /\ \E s \in {"approved", "flagged", "v1"} : sent' = [sent EXCEPT ![d] = s]
    /\ UNCHANGED <<answer, brokerVars, tableVars, processVars, sessionVars, faults>>

\* External: the broker appends the event, once per attempt of SendMessage that
\* reaches it, and possibly after the sender gave up.
BrokerAppend(d) ==
    /\ sent[d] # "none"
    /\ Len(topic) < MaxLog
    /\ topic' = Append(topic, eventFromDanmaku(d))
    /\ UNCHANGED <<producerVars, committed, owner, tableVars, processVars, sessionVars, faults>>

\* External: something else writes a value to the topic that does not unmarshal.
ForeignAppend ==
    /\ Len(topic) < MaxLog
    /\ topic' = Append(topic, Garbage)
    /\ UNCHANGED <<producerVars, committed, owner, tableVars, processVars, sessionVars, faults>>

InTopic(d) == \E k \in DOMAIN topic : topic[k].id = d

\* SendMessage returns: success only once all replicas have the event, an error
\* whether they have it or not.
ProduceReturn(d) ==
    /\ sent[d] # "none" /\ answer[d] = "none"
    /\ \/ InTopic(d) /\ answer' = [answer EXCEPT ![d] = "persisted"]
       \/ answer' = [answer EXCEPT ![d] = "unavailable"]
    /\ UNCHANGED <<sent, brokerVars, tableVars, processVars, sessionVars, faults>>

-----------------------------------------------------------------------------
(* The consumer group session.                                             *)

\* The owner's partition is free again when instance i is not the owner any more.
Without(i) == IF owner = i THEN None ELSE owner

\* Start calls Consume, and Setup closes ready for the first session.  The session
\* consumes the partition if the coordinator has nobody for it, from the
\* committed offset on, or from the oldest message.
ConsumeSetup(i) ==
    /\ phase[i] = "loop" /\ i \notin closing /\ i \notin ready
    /\ ready' = ready \cup {i}
    /\ phase' = [phase EXCEPT ![i] = "session"]
    /\ claim' = IF owner = None THEN claim \cup {i} ELSE claim
    /\ owner' = IF owner = None THEN i ELSE owner
    /\ next' = [next EXCEPT ![i] = committed + 1]
    /\ marked' = [marked EXCEPT ![i] = committed]
    /\ UNCHANGED <<producerVars, topic, committed, tableVars, closing, handling, retry, faults>>

\* Setup of a later session closes the closed channel: the process panics.
ConsumeSetupPanics(i) ==
    /\ phase[i] = "loop" /\ i \notin closing /\ i \in ready
    /\ phase' = [phase EXCEPT ![i] = "panicked"]
    /\ UNCHANGED <<producerVars, brokerVars, tableVars, closing, ready, sessionVars, faults>>

\* The processing of the message at hand is over and ConsumeClaim goes on.
Mark(i) ==
    /\ marked' = [marked EXCEPT ![i] = next[i]]
    /\ next' = [next EXCEPT ![i] = @ + 1]
    /\ handling' = handling \ {i}
    /\ retry' = [retry EXCEPT ![i] = 0]
    /\ UNCHANGED claim

\* ConsumeClaim receives a message, also in a session that is about to end:
\* a value that does not unmarshal is marked, any other goes to store.Add.
Deliver(i) ==
    /\ phase[i] \in {"session", "ending"} /\ i \in claim /\ i \notin handling
    /\ next[i] \in DOMAIN topic
    /\ \/ topic[next[i]] = Garbage /\ Mark(i)
       \/ /\ topic[next[i]] # Garbage
          /\ handling' = handling \cup {i}
          /\ UNCHANGED <<claim, next, retry, marked>>
    /\ UNCHANGED <<producerVars, brokerVars, tableVars, processVars, faults>>

\* Mutant: Add saves, and overwrites the row there is.
AddUpserts(e) == [rows EXCEPT ![e.id] = IF e.status = "" THEN "approved" ELSE e.status]

\* MySQLStore.Add: the primary key refuses a second row.  A missing status, of
\* schema version 1, counts as approved.
Add(e) ==
    [rows EXCEPT ![e.id] = IF @ # "absent" THEN @
                           ELSE IF e.status = "" THEN "approved" ELSE e.status]

\* Mutant: ConsumeClaim returns the error of a message that was given up.
AddFailsStops(i) ==
    \/ /\ retry[i] < MaxRetry
       /\ retry' = [retry EXCEPT ![i] = @ + 1]
       /\ UNCHANGED <<claim, next, handling, marked, skipped>>
    \/ /\ retry[i] = MaxRetry
       /\ skipped' = skipped \cup {next[i]}
       /\ claim' = claim \ {i}
       /\ handling' = handling \ {i}
       /\ UNCHANGED <<next, retry, marked>>

\* Mutant: a failed insert is marked at once and forgotten.
AddFailsMarked(i) ==
    /\ Mark(i)
    /\ UNCHANGED skipped

\* An insert failed: another try, or after the last one the message is skipped.
AddFails(i) ==
    \/ /\ retry[i] < MaxRetry
       /\ retry' = [retry EXCEPT ![i] = @ + 1]
       /\ UNCHANGED <<claim, next, handling, marked, skipped>>
    \/ /\ retry[i] = MaxRetry
       /\ skipped' = skipped \cup {next[i]}
       /\ Mark(i)

\* One call of store.Add in processMessage: inserted or a duplicate key, which
\* both mark the message, or another error, after which the row may be there.
StoreAdd(i) ==
    /\ phase[i] \in {"session", "ending"} /\ i \in handling
    /\ \/ rows' = Add(topic[next[i]]) /\ Mark(i) /\ UNCHANGED skipped
       \/ rows' = Add(topic[next[i]]) /\ AddFails(i)
       \/ UNCHANGED rows /\ AddFails(i)
    /\ UNCHANGED <<producerVars, brokerVars, decided, processVars, faults>>

\* External: the group rebalances (a member came or went, a heartbeat was late)
\* and every session is told to end, which it may learn late: it still consumes.
Rebalance ==
    /\ faults < MaxFaults
    /\ \E i \in Instances : phase[i] = "session"
    /\ phase' = [i \in Instances |-> IF phase[i] = "session" THEN "ending" ELSE phase[i]]
    /\ owner' = None
    /\ faults' = faults + 1
    /\ UNCHANGED <<producerVars, topic, committed, tableVars, closing, ready, sessionVars>>

\* main closes the consumer group, which ends the session.
Close(i) ==
    /\ faults < MaxFaults
    /\ phase[i] \in {"loop", "session", "ending"} /\ i \notin closing
    /\ closing' = closing \cup {i}
    /\ phase' = [phase EXCEPT ![i] = IF @ = "session" THEN "ending" ELSE @]
    /\ owner' = Without(i)
    /\ faults' = faults + 1
    /\ UNCHANGED <<producerVars, topic, committed, tableVars, ready, sessionVars>>

\* The session is released once ConsumeClaim has returned, and Start loops.  Only
\* with AutoCommit does the library send the marked offset at this point.
EndSession(i) ==
    /\ phase[i] = "ending" /\ i \notin handling
    /\ phase' = [phase EXCEPT ![i] = "loop"]
    /\ claim' = claim \ {i}
    /\ committed' = IF AutoCommitEnable /\ i \in claim THEN marked[i] ELSE committed
    /\ UNCHANGED <<producerVars, topic, owner, tableVars, closing, ready, next, handling, retry, marked, faults>>

\* Consume on a closed group returns ErrClosedConsumerGroup and Start returns.
StartReturns(i) ==
    /\ phase[i] = "loop" /\ i \in closing
    /\ phase' = [phase EXCEPT ![i] = "returned"]
    /\ UNCHANGED <<producerVars, brokerVars, tableVars, closing, ready, sessionVars, faults>>

-----------------------------------------------------------------------------
(* The environment.                                                        *)

\* The process is killed and its session is gone.
Crash(i) ==
    /\ faults < MaxFaults
    /\ phase[i] \in {"loop", "session", "ending"}
    /\ phase' = [phase EXCEPT ![i] = "down"]
    /\ owner' = Without(i)
    /\ faults' = faults + 1
    /\ UNCHANGED <<producerVars, topic, committed, tableVars, closing, ready, sessionVars>>

\* A new process runs NewKafkaConsumer and Start.
Restart(i) ==
    /\ phase[i] \in {"down", "panicked", "returned"}
    /\ phase' = [phase EXCEPT ![i] = "loop"]
    /\ closing' = closing \ {i}
    /\ ready' = ready \ {i}
    /\ claim' = claim \ {i}
    /\ next' = [next EXCEPT ![i] = 1]
    /\ handling' = handling \ {i}
    /\ retry' = [retry EXCEPT ![i] = 0]
    /\ marked' = [marked EXCEPT ![i] = 0]
    /\ UNCHANGED <<producerVars, brokerVars, tableVars, faults>>

\* ReviewDanmaku approves or rejects a row that exists and has another status;
\* what it tells the viewers does not concern the table.
Review(d, s) ==
    /\ rows[d] \notin {"absent", s}
    /\ rows' = [rows EXCEPT ![d] = s]
    /\ decided' = [decided EXCEPT ![d] = s]
    /\ UNCHANGED <<producerVars, brokerVars, skipped, processVars, sessionVars, faults>>

ProducerStep(d) == Produce(d) \/ BrokerAppend(d) \/ ProduceReturn(d)

ConsumerStep(i) ==
    \/ ConsumeSetup(i) \/ ConsumeSetupPanics(i)
    \/ Deliver(i) \/ StoreAdd(i)
    \/ EndSession(i) \/ StartReturns(i)

Environment(i) == Close(i) \/ Crash(i) \/ Restart(i)

Next ==
    \/ \E d \in Danmakus : ProducerStep(d)
    \/ \E i \in Instances : ConsumerStep(i) \/ Environment(i)
    \/ \E d \in Danmakus : \E s \in {"approved", "rejected"} : Review(d, s)
    \/ ForeignAppend
    \/ Rebalance

Spec == Init /\ [][Next]_vars

\* ConsumeClaim runs in a goroutine of its own and receives what is there.
Fairness == \A i \in Instances : WF_vars(Deliver(i))

FairSpec == Spec /\ Fairness

-----------------------------------------------------------------------------
(* Properties.                                                             *)

\* A message is done with: no event, in the table, or given up after the retries.
Settled(k) ==
    \/ topic[k].id = None
    \/ k \in skipped
    \/ topic[k].id \in Danmakus /\ rows[topic[k].id] # "absent"

\* What a session marks, and could commit, is done with, whatever rebalances,
\* crashes and lost answers came in between: a consumer that starts at the mark
\* misses nothing that was not given up (processMessage, MarkMessage).
MarkedIsSettled == \A i \in Instances : \A k \in 1 .. marked[i] : Settled(k)

\* A redelivered event, by a restart, a rebalance or a second copy in the topic,
\* never undoes an administrator's decision (the duplicate key of Add).
DecisionStands == \A d \in Danmakus : decided[d] # "none" => rows[d] = decided[d]

\* A danmaku that moderation held back for review becomes visible only by a
\* review, although its status travels through the topic and old events have none.
FlaggedNeedsReview ==
    \A d \in Danmakus :
        sent[d] = "flagged" /\ rows[d] = "approved" => decided[d] = "approved"

StoreAnswers(i) == WF_vars(StoreAdd(i))

\* An acknowledged danmaku reaches the table or is given up itself, also behind
\* another one that was given up and behind messages that do not unmarshal, if
\* some instance keeps the partition in the end and its database calls return:
\* README.md:620 says that a message that fails for good does not stop those
\* behind it (ConsumeClaim goes on after an error of processMessage).
AckedIsStored ==
    \A i \in Instances : \A d \in Danmakus :
        StoreAnswers(i) /\ <>[](owner = i) =>
            (answer[d] = "persisted" ~>
                \/ rows[d] # "absent"
                \/ \E k \in skipped : topic[k].id = d)

\* main.go:330 says that closing the consumer commits the final offset, and
\* README.md:616 that offsets are committed by hand: when Start has returned,
\* what its session marked would be committed.
ClosedIsCommitted == \A i \in Instances : phase[i] = "returned" => marked[i] <= committed

\* README.md:106 promises that the consumer reconnects by itself after the
\* connection was lost; the next session's Setup ends the process instead.
ReconnectsByItself == \A i \in Instances : phase[i] # "panicked"

-----------------------------------------------------------------------------
(* The inductive invariant.                                                *)

\* The events of a danmaku carry the status it was accepted with.
TopicIsFaithful ==
    \A k \in DOMAIN topic :
        \/ topic[k] = Garbage
        \/ /\ topic[k].id \in Danmakus
           /\ sent[topic[k].id] # "none"
           /\ topic[k] = Event(topic[k].id, IF sent[topic[k].id] = "v1" THEN ""
                                            ELSE sent[topic[k].id])

\* A session is at the message after its mark, within the partition.
SessionPosition ==
    /\ committed = 0
    /\ \A i \in Instances :
          /\ next[i] = marked[i] + 1
          /\ marked[i] <= Len(topic)
          /\ i \in handling => next[i] <= Len(topic) /\ topic[next[i]] # Garbage
          /\ phase[i] = "loop" => i \notin handling

\* Without a review a row has the status its danmaku was accepted with.
RowsAreFaithful ==
    \A d \in Danmakus :
        /\ rows[d] # "absent" => sent[d] # "none"
        /\ rows[d] = "absent" => decided[d] = "none"
        /\ sent[d] = "flagged" /\ decided[d] = "none" => rows[d] \in {"absent", "flagged"}

PipelineInv ==
    /\ TypeOK
    /\ TopicIsFaithful
    /\ SessionPosition
    /\ RowsAreFaithful
    /\ MarkedIsSettled
    /\ DecisionStands
    /\ FlaggedNeedsReview

=============================================================================
