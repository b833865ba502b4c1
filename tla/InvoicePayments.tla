---------------------------- MODULE InvoicePayments ----------------------------
(***************************************************************************)
(* The payments of one invoice: checkouts that are opened at Paystack, the *)
(* charges it confirms by webhook, and again when the customer is sent     *)
(* back, and payments an operator records.  A request loads the invoice    *)
(* with its payments, may ask Paystack, writes a payment, sums up what is  *)
(* committed and its own, and commits at its end; of the invoice only the  *)
(* fields that differ from what was loaded are written.                    *)
(***************************************************************************)
EXTENDS Naturals, FiniteSets

CONSTANTS
    Refs,        \* payment references
    Totals,      \* totals an invoice can have
    LateFailure, \* may charge.failed arrive after the charge has succeeded
    MaxOpen      \* bound on requests that are under way

VARIABLES
    iinv,    \* the committed invoice
    irow,    \* the committed payments
    itaken,  \* checkouts that Paystack has charged
    ireq,    \* a request of each kind
    inote,   \* "paid" notifications since the total was set; 2 is twice or more
    iover    \* a request was under way when another one, or an edit, began

ivars == <<iinv, irow, itaken, ireq, inote, iover>>

Kinds == {"webhook", "verify", "checkout", "manual"}
MaxTotal == CHOOSE t \in Totals : \A u \in Totals : u <= t
Amount == 0..MaxTotal
InvoiceType == [status : {"draft", "sent", "viewed", "paid", "void"},
                total : Totals, paid : 0..(MaxTotal * Cardinality(Refs))]
RowType == [st : {"none", "pending", "success", "failed"}, amt : Amount]
RequestType == [pc : {"idle", "loaded", "applied"}, ref : Refs, amt : Amount,
                old : InvoiceType, rows : [Refs -> RowType],   \* as loaded
                new : InvoiceType, row : RowType, paidNow : BOOLEAN]

NoRow == [st |-> "none", amt |-> 0]
Draft(t) == [status |-> "draft", total |-> t, paid |-> 0]
AnyRef == CHOOSE r \in Refs : TRUE
AnyTotal == CHOOSE t \in Totals : TRUE
Idle == [pc |-> "idle", ref |-> AnyRef, amt |-> 0, old |-> Draft(AnyTotal),
         rows |-> [r \in Refs |-> NoRow], new |-> Draft(AnyTotal), row |-> NoRow,
         paidNow |-> FALSE]

IInit ==
    /\ \E t \in Totals : iinv = Draft(t)
    /\ irow = [r \in Refs |-> NoRow]
    /\ itaken = {}
    /\ ireq = [k \in Kinds |-> Idle]
    /\ inote = 0 /\ iover = FALSE

\* What the successful payments come to, counted unit by unit.
Units(rows) == {u \in Refs \X (1..MaxTotal) : rows[u[1]].st = "success" /\ u[2] <= rows[u[1]].amt}
Sum(rows) == Cardinality(Units(rows))

\* effective_status, and balance_minor
Status(inv) == IF inv.status \in {"draft", "void"} THEN inv.status
               ELSE IF inv.paid >= inv.total THEN "paid" ELSE "open"
Balance(inv) == IF inv.paid >= inv.total THEN 0 ELSE inv.total - inv.paid

\* _recalculate_paid
Recalculated(inv, sum) ==
    [inv EXCEPT !.paid = sum,
                !.status = IF sum >= inv.total THEN "paid"
                           ELSE IF (sum > 0 /\ @ = "draft") \/ @ = "paid" THEN "sent" ELSE @]

-----------------------------------------------------------------------------
(* Requests *)

Open == {k \in Kinds : ireq[k].pc # "idle"}
Busy == Open # {}
Fresh == {r \in Refs : irow[r].st = "none"
                       /\ \A k \in Kinds : ireq[k].pc # "idle" => ireq[k].ref # r}

Load(k, r, amt) ==
    /\ ireq[k].pc = "idle" /\ Cardinality(Open) < MaxOpen
    /\ ireq' = [ireq EXCEPT ![k] = [Idle EXCEPT !.pc = "loaded", !.ref = r, !.amt = amt,
                                                !.old = iinv, !.rows = irow]]
    /\ iover' = (iover \/ Busy)
    /\ UNCHANGED <<iinv, irow, itaken, inote>>

\* public_pay and pay_invoice: Paystack opens a checkout for the balance.
Checkout(r) ==
    /\ r \in Fresh
    /\ Status(iinv) \notin {"void", "paid"} /\ Balance(iinv) > 0
    /\ Load("checkout", r, Balance(iinv))

Manual(r, amt) ==
    /\ r \in Fresh
    /\ Status(iinv) \notin {"void", "paid"} /\ amt \in 1..Balance(iinv)
    /\ Load("manual", r, amt)

\* Paystack delivers an event until it is answered, and may again.
Confirmed(k, r) ==
    /\ r \in itaken
    /\ Load(k, r, irow[r].amt)

\* The row record_payment finds: as loaded, if it was loaded.
Found(req) == IF req.rows[req.ref].st # "none" THEN req.rows[req.ref] ELSE irow[req.ref]

Write(k, new, row, paidNow) ==
    ireq' = [ireq EXCEPT ![k].pc = "applied", ![k].amt = 0, ![k].rows = Idle.rows,
                         ![k].new = new, ![k].row = row, ![k].paidNow = paidNow]

\* Mutant: the new payment is not flushed when payments are summed up.
SummedBefore(req, row) == Sum(irow)

\* What is committed, and the request's own payment
Summed(req, row) == Sum([irow EXCEPT ![req.ref] = row])

PaidNow(old, new) == Status(new) = "paid" /\ Status(old) # "paid"

\* record_payment, and _after_success; a write of the same payment by another
\* request is waited for.
RecordPayment(k) ==
    LET req == ireq[k]
        row == [st |-> IF k = "checkout" THEN "pending" ELSE "success", amt |-> req.amt]
        sent == IF k = "webhook" /\ req.old.status = "draft"
                THEN [req.old EXCEPT !.status = "sent"] ELSE req.old
        new == Recalculated(req.old, Summed(req, row))
    IN /\ req.pc = "loaded"
       /\ Found(req).st = "success" \/ \A j \in Kinds \ {k} :
                                          ireq[j].pc = "applied" => ireq[j].ref # req.ref
       /\ IF k = "checkout" /\ Found(req).st = "none" THEN Write(k, req.old, row, FALSE)
          ELSE IF k = "checkout" \/ Found(req).st = "success"
               THEN Write(k, sent, irow[req.ref], FALSE)
          ELSE Write(k, new, row, PaidNow(req.old, new))
       /\ UNCHANGED <<iinv, irow, itaken, inote, iover>>

Commit(k) ==
    LET req == ireq[k]
    IN /\ req.pc = "applied"
       /\ iinv' = [f \in DOMAIN iinv |-> IF req.new[f] # req.old[f] THEN req.new[f] ELSE iinv[f]]
       /\ irow' = [irow EXCEPT ![req.ref] = req.row]
       /\ inote' = IF req.paidNow /\ inote < 2 THEN inote + 1 ELSE inote
       /\ ireq' = [ireq EXCEPT ![k] = Idle]
       /\ UNCHANGED <<itaken, iover>>

\* Paystack refuses, the process dies, or a key is there already.
RollBack(k) ==
    /\ ireq[k].pc # "idle"
    /\ ireq' = [ireq EXCEPT ![k] = Idle]
    /\ UNCHANGED <<iinv, irow, itaken, inote, iover>>

-----------------------------------------------------------------------------
(* The customer at Paystack, and short requests *)

CustomerPays(r) ==
    /\ irow[r].st \in {"pending", "failed"}
    /\ itaken' = itaken \union {r}
    /\ UNCHANGED <<iinv, irow, ireq, inote, iover>>

\* charge.failed, of an attempt: the payment's status is written over, and
\* nothing is summed up.
ChargeFailed(r) ==
    /\ IF LateFailure THEN r \in itaken \/ irow[r].st = "pending"
       ELSE r \notin itaken /\ irow[r].st = "pending"
    /\ irow' = [irow EXCEPT ![r].st = "failed"]
    /\ iover' = (iover \/ Busy)
    /\ UNCHANGED <<iinv, itaken, ireq, inote>>

Short(inv) ==
    /\ iinv' = inv
    /\ iover' = (iover \/ Busy)
    /\ UNCHANGED <<irow, itaken, ireq>>

\* _send_invoice and mark_viewed
Send ==
    /\ iinv.status \in {"draft", "viewed"}
    /\ Short([iinv EXCEPT !.status = "sent"]) /\ UNCHANGED inote
View ==
    /\ iinv.status = "sent"
    /\ Short([iinv EXCEPT !.status = "viewed"]) /\ UNCHANGED inote

Void ==
    /\ Status(iinv) # "paid"
    /\ Short([iinv EXCEPT !.status = "void"]) /\ UNCHANGED inote

\* update_invoice: other lines, or another status
Edit ==
    \/ \E t \in Totals \ {iinv.total} :
         Short(Recalculated([iinv EXCEPT !.total = t], Sum(irow))) /\ inote' = 0
    \/ \E st \in {"draft", "sent", "paid"} :
         /\ st = "paid" => Balance(iinv) = 0
         /\ Short(Recalculated([iinv EXCEPT !.status = st], Sum(irow)))
         /\ UNCHANGED inote

INext ==
    \/ \E r \in Refs :
         \/ Checkout(r) \/ \E amt \in Amount : Manual(r, amt)
         \/ Confirmed("webhook", r) \/ Confirmed("verify", r)
         \/ CustomerPays(r) \/ ChargeFailed(r)
    \/ \E k \in Kinds : RecordPayment(k) \/ Commit(k) \/ RollBack(k)
    \/ Send \/ View \/ Void \/ Edit

ISpec == IInit /\ [][INext]_ivars

-----------------------------------------------------------------------------
(* Properties *)

ITypeOK ==
    /\ iinv \in InvoiceType
    /\ irow \in [Refs -> RowType] /\ itaken \subseteq Refs
    /\ ireq \in [Kinds -> RequestType]
    /\ inote \in 0..2 /\ iover \in BOOLEAN

\* "The unique (provider, reference) pair makes the second arrival a no-op
\* rather than a double credit": the invoice never shows more than its payments
\* come to, whatever overlaps; and it shows all of it as long as requests
\* follow one another.
MoneyCounted ==
    /\ iinv.paid <= Sum(irow)
    /\ ~iover => iinv.paid = Sum(irow)

\* "status alone must not create money": an invoice that is stored as paid has
\* its total in payments.
PaidIsPaid == ~iover /\ iinv.status = "paid" => Sum(irow) >= iinv.total

\* Webhook, verification and deliveries that are repeated announce once that
\* an invoice is paid.
PaidOnce == ~iover => inote <= 1

\* An invoice shows the money that came in, is paid by it and says so once.
InvoiceHolds == ITypeOK /\ MoneyCounted /\ PaidIsPaid /\ PaidOnce
=============================================================================
