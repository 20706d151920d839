----------------------------- MODULE OutboxRelay -----------------------------
(***************************************************************************)
(* How a message travels from one service's transaction to the effect in   *)
(* another: the outbox table, the relays that poll it, a Kafka partition,  *)
(* and a consumer with its processed_messages table.                       *)
(*   common outbox/OutboxWriter.java, outbox/OutboxRelay.java,             *)
(*   idempotency/IdempotencyGuard.java, kafka/KafkaCommonConfiguration.java *)
(*                                                                         *)
(* A row's id is its place in outbox, given at INSERT: rows are committed  *)
(* in another order than their ids, but for rows of one key, which are     *)
(* written under the lock of their order's row.  A message is numbered     *)
(* within its key; a retry writes a new row for the same message.          *)
(***************************************************************************)
EXTENDS Naturals, Sequences, FiniteSets, SequencesExt, FiniteSetsExt

CONSTANTS
    Keys,        \* orderIds that share a partition
    Relays,      \* replicas of the producing service, each with its relay
    BatchSize,   \* checkout.outbox.batch-size
    MaxRows,     \* bound: rows ever inserted
    MaxFailures  \* bound: failed sends, crashes and redeliveries

RelayAssumption ==
    /\ BatchSize \in Nat \ {0}
    /\ MaxRows \in Nat
    /\ MaxFailures \in Nat

VARIABLES
    outbox,     \* the outbox table, by id: [key, message, state]
    batch,      \* per relay: ids its transaction has locked and has yet to send
    sent,       \* per relay: ids its transaction has sent and marked
    topic,      \* the partition: ids of the rows its records come from
    offset,     \* the consumer group's committed offset
    unacked,    \* has the record after it been handled, but not acknowledged?
    processed,  \* processed_messages: <<key, message>> pairs
    effects,    \* per key: messages whose effect was committed, in order
    failures    \* failures so far

relayVars    == <<batch, sent>>
consumerVars == <<offset, unacked, processed, effects>>
vars == <<outbox, relayVars, topic, consumerVars, failures>>

-----------------------------------------------------------------------------
\* "open": its transaction has not committed yet.
Row == [key: Keys, message: Nat \ {0}, state: {"open", "pending", "published", "aborted"}]

MessageOf(id) == <<outbox[id].key, outbox[id].message>>

InState(state) == {id \in DOMAIN outbox : outbox[id].state = state}

RowsOf(k) == {id \in DOMAIN outbox : outbox[id].key = k /\ outbox[id].state # "aborted"}

LastMessage(k) == Max({outbox[id].message : id \in RowsOf(k)} \cup {0})

Locked == UNION {Range(batch[r]) \cup sent[r] : r \in Relays}

Init ==
    /\ outbox = <<>>
    /\ batch = [r \in Relays |-> <<>>]
    /\ sent = [r \in Relays |-> {}]
    /\ topic = <<>>
    /\ offset = 0 /\ unacked = FALSE
    /\ processed = {}
    /\ effects = [k \in Keys |-> <<>>]
    /\ failures = 0

Fail == failures < MaxFailures /\ failures' = failures + 1

-----------------------------------------------------------------------------
(* The producing service.                                                  *)

\* A handler that holds its order's row inserts a new message, or a retry of the
\* order's last one.
Write(k, message) ==
    /\ Len(outbox) < MaxRows
    /\ message \in {LastMessage(k), LastMessage(k) + 1} \ {0}
    /\ \A id \in InState("open") : outbox[id].key # k
    /\ outbox' = Append(outbox, [key |-> k, message |-> message, state |-> "open"])
    /\ UNCHANGED <<relayVars, topic, consumerVars, failures>>

\* The handler's transaction ends, rows and outbox together.
EndWrite(id, state) ==
    /\ id \in InState("open")
    /\ state \in {"pending", "aborted"}
    /\ outbox' = [outbox EXCEPT ![id].state = state]
    /\ UNCHANGED <<relayVars, topic, consumerVars, failures>>

-----------------------------------------------------------------------------
(* The relay: one transaction per batch.                                   *)

Idle(r) == batch[r] = <<>> /\ sent[r] = {}

Pending == InState("pending") \ Locked

\* The n smallest ids, in ascending order.
FirstOf(ids, n) ==
    CHOOSE s \in [1..n -> ids] :
        /\ \A i, j \in 1..n : i < j => s[i] < s[j]
        /\ \A id \in ids \ Range(s) : \A i \in 1..n : s[i] < id

\* SELECT ... ORDER BY id LIMIT n FOR UPDATE SKIP LOCKED
Fetch(r) ==
    /\ Idle(r)
    /\ Pending # {}
    /\ batch' = [batch EXCEPT ![r] =
                    FirstOf(Pending, Min({BatchSize, Cardinality(Pending)}))]
    /\ UNCHANGED <<outbox, sent, topic, consumerVars, failures>>

\* The poll finds nothing to send.
PollNothing(r) == Idle(r) /\ Pending = {} /\ UNCHANGED vars

\* The broker acknowledged the record; the row is marked, not committed yet.
Send(r) ==
    /\ batch[r] # <<>>
    /\ topic' = Append(topic, Head(batch[r]))
    /\ sent' = [sent EXCEPT ![r] = @ \cup {Head(batch[r])}]
    /\ batch' = [batch EXCEPT ![r] = Tail(@)]
    /\ UNCHANGED <<outbox, consumerVars, failures>>

MarkPublished(ids) ==
    outbox' = [id \in DOMAIN outbox |->
                 IF id \in ids THEN [outbox[id] EXCEPT !.state = "published"] ELSE outbox[id]]

Release(r) ==
    /\ batch' = [batch EXCEPT ![r] = <<>>]
    /\ sent' = [sent EXCEPT ![r] = {}]

\* The batch is through: the transaction commits.
CommitBatch(r) ==
    /\ batch[r] = <<>> /\ sent[r] # {}
    /\ MarkPublished(sent[r])
    /\ Release(r)
    /\ UNCHANGED <<topic, consumerVars, failures>>

SendFailsContinuing(r, reached) ==
    /\ batch[r] # <<>>
    /\ Fail
    /\ topic' = IF reached THEN Append(topic, Head(batch[r])) ELSE topic
    /\ batch' = [batch EXCEPT ![r] = Tail(@)]
    /\ UNCHANGED <<outbox, sent, consumerVars>>

SendFailsMarkingIt(r, reached) ==
    /\ batch[r] # <<>>
    /\ Fail
    /\ topic' = IF reached THEN Append(topic, Head(batch[r])) ELSE topic
    /\ MarkPublished(sent[r] \cup {Head(batch[r])})
    /\ Release(r)
    /\ UNCHANGED consumerVars

\* The send failed or its answer did not come in time: the record may have
\* reached the partition all the same.  The rest of the batch is left for the
\* next poll and the transaction commits what was sent before.
SendFails(r, reached) ==
    /\ batch[r] # <<>>
    /\ Fail
    /\ topic' = IF reached THEN Append(topic, Head(batch[r])) ELSE topic
    /\ MarkPublished(sent[r])
    /\ Release(r)
    /\ UNCHANGED consumerVars

\* The replica dies or loses its database: the transaction is rolled back, the
\* records it sent stay in the partition.
RelayCrash(r) ==
    /\ ~ Idle(r)
    /\ Fail
    /\ Release(r)
    /\ UNCHANGED <<outbox, topic, consumerVars>>

-----------------------------------------------------------------------------
(* The consumer.                                                           *)

\* INSERT ... ON CONFLICT DO NOTHING: is the message new?
TryMarkProcessed(message) == message \notin processed

\* One transaction: processed_messages and the handler's effect.
Handle ==
    /\ offset < Len(topic) /\ ~ unacked
    /\ LET id == topic[offset + 1]
           k == outbox[id].key IN
       /\ processed' = processed \cup {MessageOf(id)}
       /\ effects' = IF TryMarkProcessed(MessageOf(id))
                       THEN [effects EXCEPT ![k] = Append(@, outbox[id].message)]
                       ELSE effects
    /\ unacked' = TRUE
    /\ UNCHANGED <<outbox, relayVars, topic, offset, failures>>

\* AckMode RECORD: the offset is committed after the transaction.
Ack ==
    /\ unacked
    /\ offset' = offset + 1
    /\ unacked' = FALSE
    /\ UNCHANGED <<outbox, relayVars, topic, processed, effects, failures>>

\* A crash or rebalance between the two: the record will be delivered again.
Redeliver ==
    /\ unacked
    /\ Fail
    /\ unacked' = FALSE
    /\ UNCHANGED <<outbox, relayVars, topic, offset, processed, effects>>

-----------------------------------------------------------------------------
Next ==
    \/ \E k \in Keys, message \in 1..MaxRows : Write(k, message)
    \/ \E id \in DOMAIN outbox, state \in {"pending", "aborted"} : EndWrite(id, state)
    \/ \E r \in Relays :
         \/ Fetch(r) \/ PollNothing(r) \/ Send(r) \/ CommitBatch(r) \/ RelayCrash(r)
         \/ \E reached \in BOOLEAN : SendFails(r, reached)
    \/ Handle \/ Ack \/ Redeliver

Spec == Init /\ [][Next]_vars

\* The relay is a fixed-delay task that survives its exceptions, the listener
\* container retries without limit, and the failures come to an end.
Fairness ==
    /\ \A r \in Relays : WF_vars(Fetch(r)) /\ WF_vars(Send(r)) /\ WF_vars(CommitBatch(r))
    /\ WF_vars(Handle) /\ WF_vars(Ack)

FairSpec == Spec /\ Fairness

-----------------------------------------------------------------------------
(* Properties.                                                             *)

\* The messages of an order enter the partition in the order they were written,
\* resent ones aside: whatever fails, no message is ahead of its predecessor
\* (events.md 1, saga.md 3.3; publishBatch stops at the first failure for it).
OrderPerKey ==
    \A i \in DOMAIN topic :
        LET row == outbox[topic[i]] IN
        row.message > 1 =>
            \E j \in 1..(i - 1) : MessageOf(topic[j]) = <<row.key, row.message - 1>>

\* Through failed sends, crashes, redeliveries and retries, the consumer gives an
\* order's messages their effect in order, each once, with none skipped.
EffectsInOrderOnce ==
    \A k \in Keys : effects[k] = [n \in 1..Len(effects[k]) |-> n]

\* Only what has its effect is given up: a row is marked published only with its
\* record in the partition, an offset is passed only with its message processed.
NothingGivenUp ==
    /\ InState("published") \subseteq Range(topic)
    /\ \A i \in 1..offset : MessageOf(topic[i]) \in processed
    /\ \A i \in DOMAIN topic : outbox[topic[i]].state \in {"pending", "published"}

\* Every committed message gets its effect in the end.
EveryMessageArrives ==
    \A k \in Keys, n \in 1..MaxRows :
        (\E id \in InState("pending") : MessageOf(id) = <<k, n>>)
            ~> n \in Range(effects[k])
=============================================================================
