--------------------------- MODULE PaymentService ---------------------------
(***************************************************************************)
(* The payment participant: at most one payment row per order, the replies *)
(* it publishes and, under simulate.payment=SLOW, the replies it keeps     *)
(* back in delayed_replies.                                                *)
(*   payment-service messaging/PaymentCommandHandler.java,                 *)
(*   messaging/DelayedReplies.java, domain/PaymentGateway.java,            *)
(*   domain/PaymentRepository.java                                         *)
(***************************************************************************)
EXTENDS Participant

CONSTANTS Orders

VARIABLES
    payments,        \* the payments table, by order
    delayedReplies,  \* the delayed_replies table
    paymentEvents    \* the replies ever written to the outbox

vars == <<payments, delayedReplies, paymentEvents>>

-----------------------------------------------------------------------------
Payment(status, noop) == [status |-> status, noop |-> noop, attempts |-> 0]

NoPayment == Payment("NONE", FALSE)
Tombstone == Payment("REFUNDED", TRUE)

Init ==
    /\ payments = [o \in Orders |-> NoPayment]
    /\ delayedReplies = {}
    /\ paymentEvents = {}

\* The simulated issuer (PaymentGateway.authorize).
Gateway(mode) == Payment(IF mode = "DECLINE" THEN "DECLINED" ELSE "AUTHORIZED", FALSE)

Publish(cmd, type, reason) ==
    /\ paymentEvents' = paymentEvents \cup {ReplyTo(cmd, type, reason)}
    /\ UNCHANGED delayedReplies

Delay(cmd, type, reason) ==
    /\ delayedReplies' = delayedReplies \cup {ReplyTo(cmd, type, reason)}
    /\ UNCHANGED paymentEvents

\* payment.authorize after the refund: refused without effect, never delayed.
AuthorizeAfterRefund(cmd) ==
    /\ cmd.type = "payment.authorize"
    /\ payments[cmd.order].status = "REFUNDED"
    /\ Publish(cmd, "payment.failed", "ALREADY_COMPENSATED")
    /\ UNCHANGED payments

\* payment.authorize: the issuer is asked once per order; the row answers after.
Authorize(cmd, mode) ==
    LET o == cmd.order
        row == IF payments[o].status = "NONE" THEN Gateway(mode) ELSE payments[o]
        attempts == CountAttempt(row.attempts)
        type == IF row.status = "AUTHORIZED" THEN "payment.authorized" ELSE "payment.failed"
        reason == IF row.status = "AUTHORIZED" THEN "NONE" ELSE "DECLINED"
    IN
    /\ cmd.type = "payment.authorize"
    /\ payments[o].status # "REFUNDED"
    /\ payments' = [payments EXCEPT ![o] = [row EXCEPT !.attempts = attempts]]
    /\ CASE ~ ShouldReply(mode, attempts) -> UNCHANGED <<delayedReplies, paymentEvents>>
         [] mode = "SLOW"                 -> Delay(cmd, type, reason)
         [] OTHER                         -> Publish(cmd, type, reason)

RefundWithoutTombstone(cmd) ==
    LET o == cmd.order IN
    /\ cmd.type = "payment.refund"
    /\ payments' = IF payments[o].status = "AUTHORIZED"
                     THEN [payments EXCEPT ![o].status = "REFUNDED", ![o].noop = FALSE]
                     ELSE payments
    /\ Publish(cmd, "payment.refunded", "NONE")

\* payment.refund: always answered; a tombstone when there is nothing to refund yet.
Refund(cmd) ==
    LET o == cmd.order IN
    /\ cmd.type = "payment.refund"
    /\ payments' =
         CASE payments[o].status = "NONE"       -> [payments EXCEPT ![o] = Tombstone]
           [] payments[o].status = "AUTHORIZED" ->
                [payments EXCEPT ![o].status = "REFUNDED", ![o].noop = FALSE]
           [] OTHER                             -> payments
    /\ Publish(cmd, "payment.refunded", "NONE")

Handle(cmd, mode) ==
    \/ AuthorizeAfterRefund(cmd)
    \/ Authorize(cmd, mode)
    \/ Refund(cmd)

\* The poller releases the delayed replies that are due, in one transaction; any
\* of those kept back may be due (publishDue).
PublishDue(due) ==
    /\ due # {} /\ due \subseteq delayedReplies
    /\ paymentEvents' = paymentEvents \cup due
    /\ delayedReplies' = delayedReplies \ due
    /\ UNCHANGED payments
=============================================================================
