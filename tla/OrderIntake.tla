----------------------------- MODULE OrderIntake -----------------------------
(***************************************************************************)
(* POST /orders: how one Idempotency-Key makes one order, however many     *)
(* requests carry it, at the same time, again after a lost answer, or with *)
(* another body.                                                           *)
(*   order-service domain/OrderService.java, domain/OrderRepository.java,  *)
(*   api/OrderController.java                                              *)
(*                                                                         *)
(* A body stands for its hash and for what it asks.  The look-up and the   *)
(* insertion are separate transactions; the insertion waits for another    *)
(* one under the same key (UNIQUE) until it ends.  An order is named by    *)
(* the request that inserted it.                                           *)
(***************************************************************************)
EXTENDS Naturals, FiniteSets

CONSTANTS
    Requests,    \* the requests sent
    Keys,        \* Idempotency-Keys
    Bodies,      \* request bodies
    ValidBodies, \* the bodies that pass validate()
    NoOrder      \* no order

IntakeAssumption ==
    /\ ValidBodies \subseteq Bodies
    /\ NoOrder \notin Requests

VARIABLES
    request,  \* per request: [key, body], as sent
    pc,       \* per request: where it is in create()
    answers,  \* per request: the answers it ever got, [status, order]
    rows,     \* the committed rows of orders, by key: the order, or NoOrder
    placed    \* the order.created messages committed to the outbox

vars == <<request, pc, answers, rows, placed>>

-----------------------------------------------------------------------------
PC == {"find", "validate", "insert", "inserting", "reread", "answered", "lost"}

Init ==
    /\ request \in [Requests -> [key: Keys, body: Bodies]]
    /\ pc = [r \in Requests |-> "find"]
    /\ answers = [r \in Requests |-> {}]
    /\ rows = [k \in Keys |-> NoOrder]
    /\ placed = {}

Goto(r, label) == pc' = [pc EXCEPT ![r] = label]

Answer(r, status, order) ==
    /\ answers' = [answers EXCEPT ![r] = @ \cup {[status |-> status, order |-> order]}]
    /\ Goto(r, "answered")
    /\ UNCHANGED <<request, rows, placed>>

\* The committed order under the request's key, if any.
Existing(r) == rows[request[r].key]

\* The key is known: the order it made, or 409 if the body is another one.
Replay(r) ==
    IF request[r].body = request[Existing(r)].body
      THEN Answer(r, 200, Existing(r))
      ELSE Answer(r, 409, NoOrder)

-----------------------------------------------------------------------------
FindByIdempotencyKey(r) ==
    /\ pc[r] = "find"
    /\ IF Existing(r) # NoOrder
         THEN Replay(r)
         ELSE Goto(r, "validate") /\ UNCHANGED <<request, answers, rows, placed>>

Validate(r) ==
    /\ pc[r] = "validate"
    /\ IF request[r].body \in ValidBodies
         THEN Goto(r, "insert") /\ UNCHANGED <<request, answers, rows, placed>>
         ELSE Answer(r, 400, NoOrder)

Inserting(k) == {r \in Requests : pc[r] = "inserting" /\ request[r].key = k}

InsertUnchecked(r) ==
    /\ pc[r] = "insert"
    /\ Goto(r, "inserting")
    /\ UNCHANGED <<request, answers, rows, placed>>

\* The transaction inserts the order, or finds its key taken.
Insert(r) ==
    /\ pc[r] = "insert"
    /\ Inserting(request[r].key) = {}
    /\ Goto(r, IF Existing(r) = NoOrder THEN "inserting" ELSE "reread")
    /\ UNCHANGED <<request, answers, rows, placed>>

\* Its commit: the order and order.created, together; then the answer 202,
\* which may not reach the client.
Commit(r) ==
    /\ pc[r] = "inserting"
    /\ rows' = [rows EXCEPT ![request[r].key] = r]
    /\ placed' = placed \cup {r}
    /\ \/ /\ Goto(r, "answered")
          /\ answers' = [answers EXCEPT ![r] = @ \cup {[status |-> 202, order |-> r]}]
       \/ Goto(r, "lost") /\ UNCHANGED answers
    /\ UNCHANGED request

\* DuplicateKeyException: the order that won is read and replayed.
ReRead(r) ==
    /\ pc[r] = "reread"
    /\ Replay(r)

\* The service dies under the request, or its database does: an open transaction
\* is rolled back and the client has no answer.
Abort(r) ==
    /\ pc[r] \notin {"answered", "lost"}
    /\ Goto(r, "lost")
    /\ UNCHANGED <<request, answers, rows, placed>>

\* A client sends the same request again, having an answer or not.
Resend(r) ==
    /\ pc[r] \in {"answered", "lost"}
    /\ Goto(r, "find")
    /\ UNCHANGED <<request, answers, rows, placed>>

Next ==
    \E r \in Requests :
        \/ FindByIdempotencyKey(r) \/ Validate(r) \/ Insert(r) \/ Commit(r) \/ ReRead(r)
        \/ Abort(r) \/ Resend(r)

Spec == Init /\ [][Next]_vars

-----------------------------------------------------------------------------
(* Properties.                                                             *)

Answered(k, statuses) ==
    {a.order : a \in {b \in UNION {answers[r] : r \in {q \in Requests : request[q].key = k}} :
                        b.status \in statuses}}

\* However the requests under one key interleave and fail, the key makes at most
\* one order, whose row and whose order.created are there together.
OneOrderPerKey ==
    /\ \A p, q \in placed : request[p].key = request[q].key => p = q
    /\ placed = {rows[k] : k \in Keys} \ {NoOrder}

\* The clients of one key are never told two things: whoever gets an order gets
\* the same one, made of the body it sent; only another body gets 409, and an
\* invalid body never makes an order (OrderService.create, replay).
AnswersAgree ==
    /\ \A k \in Keys : Answered(k, {200, 202}) \subseteq {rows[k]}
    /\ \A r \in Requests : \A a \in answers[r] :
         /\ a.status \in {200, 202} =>
              request[a.order].body = request[r].body /\ request[r].body \in ValidBodies
         /\ a.status = 409 => Existing(r) # NoOrder /\ request[Existing(r)].body # request[r].body
=============================================================================
