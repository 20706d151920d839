---------------------------- MODULE FairCheckout ----------------------------
(***************************************************************************)
(* The checkout with the fairness its scheduling gives: CheckoutSaga plus  *)
(* the messages handled since they were last sent.                         *)
(*                                                                         *)
(* Relays, consumers and pollers are periodic tasks that survive their     *)
(* exceptions, so a message is handled at least once after it was last     *)
(* sent; time passes and the scheduler keeps scanning.  This is assumed of *)
(* the messages in flight only, the command a saga waits on and its        *)
(* replies: older ones may come or not.  No second delivery is ever        *)
(* assumed: what the retries are for must come from the retries.           *)
(***************************************************************************)
EXTENDS CheckoutSaga

VARIABLE delivered  \* messages in flight handled since they were last sent

fairVars == <<vars, delivered>>

\* The command a message is, or answers; 0 for order.created.
CommandId(m) == IF "cause" \in DOMAIN m THEN m.cause ELSE m.id

InFlight(m) == CommandId(m) = saga[m.order].id

FairInit == Init /\ delivered = {}

\* After a step, of the messages handled only those in flight are remembered.
Remember(handled) == delivered' = {m \in handled : InFlight(m)'}

Deliver(message) == Remember(delivered \cup {message})

\* A command sent again by the scheduler is to be handled again.
FairTick(i, o) ==
    Tick(i, o) /\ Remember(delivered \ Coordinator!Sent(o, saga'[o]))

OtherSteps ==
    /\ \/ \E o \in Orders, snapshot \in Snapshots : PlaceOrder(o, snapshot)
       \/ \E due \in SUBSET delayedReplies : PaymentPoller(due)
       \/ \E o \in Orders : Clock(o)
       \/ \E i \in Instances : Restart(i) \/ Resume(i)
    /\ UNCHANGED delivered

FairNext ==
    \/ \E event \in Events : SagaHandles(event) /\ Deliver(event)
    \/ \E cmd \in commands :
         /\ OrderHandles(cmd) \/ InventoryHandles(cmd) \/ PaymentHandles(cmd) \/ ShippingHandles(cmd)
         /\ Deliver(cmd)
    \/ \E i \in Instances, o \in Orders : FairTick(i, o)
    \/ OtherSteps

Undelivered(messages, o) == {m \in messages : m.order = o /\ InFlight(m)} \ delivered

Fairness ==
    /\ \A o \in Orders :
         /\ WF_fairVars(\E event \in Undelivered(Events, o) : SagaHandles(event) /\ Deliver(event))
         /\ WF_fairVars(\E cmd \in Undelivered(commands, o) : OrderHandles(cmd) /\ Deliver(cmd))
         /\ WF_fairVars(\E cmd \in Undelivered(commands, o) : InventoryHandles(cmd) /\ Deliver(cmd))
         /\ WF_fairVars(\E cmd \in Undelivered(commands, o) : PaymentHandles(cmd) /\ Deliver(cmd))
         /\ WF_fairVars(\E cmd \in Undelivered(commands, o) : ShippingHandles(cmd) /\ Deliver(cmd))
         /\ WF_fairVars(Clock(o) /\ UNCHANGED delivered)
         /\ WF_fairVars(\E i \in Instances : FairTick(i, o))
    /\ WF_fairVars(PaymentPoller(delayedReplies) /\ UNCHANGED delivered)
    /\ \A i \in Instances : WF_fairVars(Resume(i) /\ UNCHANGED delivered)

FairSpec == FairInit /\ [][FairNext]_fairVars /\ Fairness

\* Every order placed is decided, and its saga ends, whatever fault is simulated,
\* whatever comes late, twice or out of order, and if the coordinator restarts.
EveryOrderDecided ==
    \A o \in Orders :
        orders[o].status = "PENDING" ~> saga[o].status \in TerminalStatus
=============================================================================
