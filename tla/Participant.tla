----------------------------- MODULE Participant -----------------------------
(***************************************************************************)
(* What the three participants of the saga share: the shape of the         *)
(* commands they are sent and of the replies they publish, and the policy  *)
(* that decides whether an action command is answered at all.              *)
(*   */domain/ReplyPolicy.java, common/messaging/Simulate.java,            *)
(*   common/messaging/MessageFactory.java                                  *)
(***************************************************************************)
EXTENDS SagaStatus, Naturals

\* The fault an order asks a participant to simulate, per order; "NONE": none.
InventoryMode == {"NONE", "OUT_OF_STOCK", "TIMEOUT"}
PaymentMode   == {"NONE", "DECLINE", "TIMEOUT", "TIMEOUT_ONCE", "SLOW"}
ShippingMode  == {"NONE", "FAIL", "TIMEOUT", "TIMEOUT_ONCE"}

Reason == {"NONE", "OUT_OF_STOCK", "UNKNOWN_SKU", "DECLINED", "CARRIER_REJECTED",
           "INVALID_ADDRESS", "ALREADY_COMPENSATED"}

\* An envelope answering command cmd: its causationId is the command's messageId.
\* Replies re-published for the same command differ only by their own messageId,
\* which nothing but duplicate detection reads: they are one element here.
ReplyTo(cmd, type, reason) ==
    [order |-> cmd.order, cause |-> cmd.id, type |-> type, reason |-> reason]

\* The column attempts, exact up to the 2 the reply policy compares it with.
CountAttempt(n) == IF n < 2 THEN n + 1 ELSE n

\* TIMEOUT executes and never answers; TIMEOUT_ONCE answers from the retry on.
ShouldReply(mode, attempts) ==
    /\ mode # "TIMEOUT"
    /\ mode = "TIMEOUT_ONCE" => attempts >= 2
=============================================================================
