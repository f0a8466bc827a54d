-------------------------- MODULE InvoiceCollection --------------------------
(***************************************************************************)
(* Collecting the invoices of one subscription by card                     *)
(* (backend/src/services/billingEngine: scheduler.ts, collect.ts,          *)
(* invoiceEngine.ts, transitions.ts, subscriptions.ts).  Every process     *)
(* claims due invoices under a lease that may run out while it works, and  *)
(* charges each one's linked payment at the acquirer.  The acquirer's      *)
(* answer and its event both move the payment, and moving the payment      *)
(* moves the invoice and the subscription in the same transaction (the     *)
(* hook).  The merchant and the payer act on the same rows meanwhile.      *)
(*                                                                         *)
(* An instant is one of "later", "now" and "none".  Amounts, proration,    *)
(* tax, credit notes, FairCoin invoices, send_invoice collection, trials   *)
(* and paused collection are left out.                                     *)
(***************************************************************************)
EXTENDS Integers, FiniteSets, IntentState

CONSTANTS Workers,       \* tasks and requests that may attempt a payment
          MaxInvoices,   \* bound: invoices of the subscription
          MaxPayments,   \* bound: payments made to collect them
          MaxTries,      \* bound: times the acquirer tries one payment
          MaxRequests,   \* bound: attempts asked for outside the scheduler
          MaxFaults,     \* bound: lost answers, outages and crashes
          Outcomes,      \* what the acquirer may make of a charge
          MayLackMethod, \* whether an attempt may find no saved method
          Retries,       \* length of the merchant's retry_schedule_days
          FinalAction,   \* what the merchant does to the subscription at last
          InvoiceAction, \* and to the invoice
          FirstReason    \* billing_reason of the first invoice

CollectionBounds ==
  /\ MaxInvoices \in Nat \ {0} /\ MaxPayments \in Nat \ {0}
  /\ MaxTries \in Nat /\ MaxRequests \in Nat /\ MaxFaults \in Nat
  /\ Outcomes \subseteq {"succeeded", "requires_action", "processing",
                          "requires_payment_method"}
  /\ Retries \in Nat /\ MayLackMethod \in BOOLEAN
  /\ FinalAction \in {"cancel", "unpaid", "past_due"}
  /\ InvoiceAction \in {"mark_uncollectible", "leave_open"}
  /\ FirstReason \in {"subscription_create", "subscription_cycle"}

VARIABLES subscription, \* its status and latest invoice
          invoice,      \* the invoices' rows
          payment,      \* the payment intents' rows
          acquirer,     \* the payments as the acquirer holds them
          answers,      \* what each idempotency key of an attempt got
          events,       \* acquirer events not yet drained
          job,          \* what each worker is doing
          requests, faults

billing == <<subscription, invoice>>
vars == <<subscription, invoice, payment, acquirer, answers, events, job,
          requests, faults>>

Invoices == 1..MaxInvoices
Payments == 1..MaxPayments
Instants == {"now", "later", "none"}

Idle == [pc |-> "idle", inv |-> 1, auto |-> FALSE, attempts |-> 0, link |-> 0,
         pay |-> 0, seen |-> "canceled", answer |-> "canceled"]

NoInvoice == [status |-> "none", link |-> 0, attempts |-> 0, due |-> "none",
              exhausted |-> FALSE, leased |-> FALSE, outOfBand |-> FALSE]

Reason(i) == IF i = 1 THEN FirstReason ELSE "subscription_cycle"

\* A subscription just created waits for its first invoice, finalized and not
\* advanced by the engine; a running one has just drafted a renewal.
Init ==
  /\ subscription = [status |-> IF FirstReason = "subscription_create"
                                THEN "incomplete" ELSE "active", latest |-> 1]
  /\ invoice = [i \in Invoices |->
       IF i > 1 THEN NoInvoice
       ELSE IF FirstReason = "subscription_create"
            THEN [NoInvoice EXCEPT !.status = "open"]
            ELSE [NoInvoice EXCEPT !.status = "draft", !.due = "later"]]
  /\ payment = [k \in Payments |->
                  [status |-> "none", inv |-> 1, shown |-> FALSE]]
  /\ acquirer = [k \in Payments |-> [status |-> "none", tries |-> 0]]
  /\ answers = {}
  /\ events = {}
  /\ job = [w \in Workers |-> Idle]
  /\ requests = 0
  /\ faults = 0

-----------------------------------------------------------------------------
(* The state machines, and the transactions that move the two rows.  A     *)
(* transaction is a function of both rows, written b.                      *)

SubscriptionAllowed ==
  [incomplete |-> {"active", "incomplete_expired", "canceled"},
   incomplete_expired |-> {},
   active |-> {"past_due", "unpaid", "canceled"},
   past_due |-> {"active", "unpaid", "canceled"},
   unpaid |-> {"active", "canceled"},
   canceled |-> {}]

SubscriptionMayMove(from, to) == from = to \/ to \in SubscriptionAllowed[from]

SubscriptionIsTerminal(s) == SubscriptionAllowed[s] = {}

PayableInvoice(s) == s \in {"open", "uncollectible"}

Rows == [sub |-> subscription, inv |-> invoice]

Commit(b) == subscription' = b.sub /\ invoice' = b.inv

TransitionSubscription(b, to) ==
  IF SubscriptionMayMove(b.sub.status, to)
  THEN [b EXCEPT !.sub.status = to] ELSE b

\* A renewal that could not be collected leaves its subscription past due.
MarkSubscriptionPastDue(b, i) ==
  IF /\ Reason(i) # "subscription_create"
     /\ b.sub.status = "active"
     /\ b.sub.latest = i
  THEN TransitionSubscription(b, "past_due") ELSE b

\* The schedule is spent: the invoice's action, then the subscription's.
RunFinalDunningAction(b, i) ==
  LET spent == [b EXCEPT !.inv[i].exhausted = TRUE, !.inv[i].due = "none"]
      left == IF InvoiceAction = "mark_uncollectible" /\ b.inv[i].status = "open"
              THEN [spent EXCEPT !.inv[i].status = "uncollectible"] ELSE spent
  IN IF b.inv[i].exhausted THEN b
     ELSE IF b.sub.latest # i \/ b.sub.status \notin {"active", "past_due"}
     THEN left
     ELSE TransitionSubscription(left,
            IF FinalAction = "cancel" THEN "canceled" ELSE FinalAction)

\* recordFailedAttempt: a first invoice is not dunned.
RecordFailedAttempt(b, i) ==
  LET attempts == b.inv[i].attempts + 1
      dunned == Reason(i) # "subscription_create"
      again == dunned /\ attempts <= Retries
      counted == MarkSubscriptionPastDue(
                   [b EXCEPT !.inv[i].attempts = attempts,
                             !.inv[i].due = IF again THEN "later" ELSE "none"],
                   i)
  IN IF dunned /\ ~again THEN RunFinalDunningAction(counted, i) ELSE counted

\* A faulty variant: only a subscription past due is active again.
ActivateOnPaymentPastDue(b, i) ==
  IF b.sub.latest = i /\ b.sub.status \in {"incomplete", "past_due"}
  THEN TransitionSubscription(b, "active") ELSE b

\* A subscription waiting on this invoice is active again.
ActivateOnPayment(b, i) ==
  IF b.sub.latest = i /\ b.sub.status \in {"incomplete", "past_due", "unpaid"}
  THEN TransitionSubscription(b, "active") ELSE b

PaidRow(row, byCard) ==
  [row EXCEPT !.status = "paid", !.due = "none", !.outOfBand = ~byCard,
              !.attempts = @ + (IF byCard THEN 1 ELSE 0)]

MarkInvoicePaid(b, i, byCard) ==
  ActivateOnPayment([b EXCEPT !.inv[i] = PaidRow(@, byCard)], i)

VoidInvoiceIn(b, i) ==
  [b EXCEPT !.inv[i].status = "void", !.inv[i].due = "none"]

\* A faulty variant: a payment under way is taken for a paid one.
OnPaymentTransitionEager(b, k, from, to) ==
  LET i == CHOOSE j \in Invoices : b.inv[j].link = k
  IN IF \A j \in Invoices : b.inv[j].link # k THEN b
     ELSE IF to \in {"succeeded", "processing"} /\ PayableInvoice(b.inv[i].status)
     THEN MarkInvoicePaid(b, i, TRUE)
     ELSE b

(***************************************************************************)
(* onInvoicePaymentTransition, in the transaction that moves payment k     *)
(* from `from` to `to`.  It does nothing for a payment no invoice is       *)
(* linked to.  Every move to requires_payment_method here is a decline.    *)
(***************************************************************************)
OnPaymentTransition(b, k, from, to) ==
  LET i == CHOOSE j \in Invoices : b.inv[j].link = k
      open == b.inv[i].status = "open"
  IN IF \A j \in Invoices : b.inv[j].link # k THEN b
     ELSE IF to = "succeeded" /\ PayableInvoice(b.inv[i].status)
     THEN MarkInvoicePaid(b, i, TRUE)
     ELSE IF open /\ to = "requires_payment_method"
     THEN RecordFailedAttempt(b, i)
     ELSE IF open /\ to = "requires_action" /\ from # to
     THEN MarkSubscriptionPastDue(
            [b EXCEPT !.inv[i].attempts = @ + 1, !.inv[i].due = "none"], i)
     ELSE IF open /\ to = "canceled"
     THEN [b EXCEPT !.inv[i].link = 0]
     ELSE b

\* transitionIntent: the row by compare-and-swap, and the hook with it.
TransitionIntent(k, from, to) ==
  IF payment[k].status = from
  THEN /\ payment' = [payment EXCEPT ![k].status = to]
       /\ Commit(OnPaymentTransition(Rows, k, from, to))
  ELSE UNCHANGED <<payment, billing>>

-----------------------------------------------------------------------------
(* The acquirer, the payer and the drain.                                  *)

CardEvent(outcome) ==
  CASE outcome = "succeeded" -> "card_succeeded"
    [] outcome = "requires_action" -> "card_requires_action"
    [] outcome = "processing" -> "card_processing"
    [] outcome = "requires_payment_method" -> "card_failed"
    [] outcome = "canceled" -> "card_canceled"

Chargeable(k) ==
  /\ acquirer[k].status \in {"requires_payment_method", "requires_action"}
  /\ acquirer[k].tries < MaxTries

\* What the acquirer makes of payment k, and the event it sends of it.
AcquirerMoves(k, outcome, tries) ==
  /\ acquirer' = [acquirer EXCEPT ![k] = [status |-> outcome, tries |-> tries]]
  /\ events' = events \cup {[pay |-> k, kind |-> CardEvent(outcome), n |-> tries]}

Try(k, outcome) == AcquirerMoves(k, outcome, acquirer[k].tries + 1)

\* The payer confirms on-session a payment they were shown: its secret is all
\* that takes.
PayerConfirms(k) ==
  /\ payment[k].shown
  /\ Chargeable(k)
  /\ \E outcome \in Outcomes : Try(k, outcome)
  /\ UNCHANGED <<billing, payment, answers, job, requests, faults>>

\* A payment under way is decided.
AcquirerSettles(k) ==
  /\ acquirer[k].status = "processing"
  /\ \E outcome \in {"succeeded", "requires_payment_method"} :
       AcquirerMoves(k, outcome, acquirer[k].tries)
  /\ UNCHANGED <<billing, payment, answers, job, requests, faults>>

\* The payment is called off, and its row follows the event.
CancelPayment(k) ==
  /\ payment[k].shown
  /\ acquirer[k].status \in {"requires_payment_method", "requires_action"}
  /\ AcquirerMoves(k, "canceled", acquirer[k].tries)
  /\ UNCHANGED <<billing, payment, answers, job, requests, faults>>

\* The drain: an event that cannot act here is reconciled with what the
\* acquirer says now, and a decline is news though the status stays.  An event
\* neither can act on is kept, and so is one whose pass dies before it is
\* marked, or that another pass has read too.
ProcessProviderEvent(e) ==
  LET k == e.pay
      s == payment[k].status
      now == CardEvent(acquirer[k].status)
      heard == IF CanApply(s, e.kind, "card") THEN e.kind ELSE now
      again == heard # e.kind /\ s = "requires_payment_method" /\ now = "card_failed"
      news == /\ CanApply(s, heard, "card")
              /\ ~again
              /\ TargetStatusFor(heard) # s \/ heard = "card_failed"
      stuck == ~CanApply(s, heard, "card") /\ ~again
  IN /\ \/ ~stuck /\ events' = events \ {e} /\ UNCHANGED faults
        \/ stuck /\ UNCHANGED <<events, faults>>
        \/ /\ ~stuck /\ faults < MaxFaults
           /\ faults' = faults + 1
           /\ UNCHANGED events
     /\ IF news THEN TransitionIntent(k, s, TargetStatusFor(heard))
        ELSE UNCHANGED <<payment, billing>>
     /\ UNCHANGED <<acquirer, answers, job, requests>>

-----------------------------------------------------------------------------
(* One attempt, step by step.                                              *)

Goto(w, pc) == job' = [job EXCEPT ![w].pc = pc] /\ UNCHANGED invoice

\* The step is over: a scheduled one gives the row's lease back, whoever
\* holds it by now.
Finish(w, row) ==
  /\ job' = [job EXCEPT ![w] = Idle]
  /\ invoice' = [invoice EXCEPT ![job[w].inv] =
       [row EXCEPT !.leased = @ /\ ~job[w].auto]]

\* claimDueInvoices: due, and leased to nobody.
ClaimDueInvoice(w, i) ==
  /\ job[w].pc = "idle"
  /\ invoice[i].due = "now" /\ ~invoice[i].leased
  /\ invoice' = [invoice EXCEPT ![i].leased = TRUE]
  /\ job' = [job EXCEPT ![w] = [Idle EXCEPT !.pc = "step", !.inv = i,
                                            !.auto = TRUE]]
  /\ UNCHANGED <<subscription, payment, acquirer, answers, events, requests,
                 faults>>

\* POST /v1/invoices/:id/pay, and the first attempt of a new subscription (a
\* draft is finalized first, by FinalizeInvoice).
PayInvoice(w, i) ==
  /\ job[w].pc = "idle"
  /\ requests < MaxRequests
  /\ PayableInvoice(invoice[i].status)
  /\ requests' = requests + 1
  /\ job' = [job EXCEPT ![w] = [Idle EXCEPT !.pc = "attempt", !.inv = i]]
  /\ UNCHANGED <<billing, payment, acquirer, answers, events, faults>>

\* runInvoiceStep reads the row again: a due attempt goes on, a draft is
\* finalized (and is due at once), anything else due is cleared.
RunInvoiceStep(w) ==
  LET row == invoice[job[w].inv]
  IN /\ job[w].pc = "step"
     /\ IF row.due # "now" THEN Finish(w, row)
        ELSE IF row.status = "draft" THEN Finish(w, [row EXCEPT !.status = "open"])
        ELSE IF PayableInvoice(row.status) /\ ~row.exhausted
        THEN Goto(w, "attempt")
        ELSE Finish(w, [row EXCEPT !.due = "none"])
     /\ UNCHANGED <<subscription, payment, acquirer, answers, events, requests,
                    faults>>

\* attemptInvoicePayment reads the invoice once more, whatever its due instant.
AttemptInvoicePayment(w) ==
  LET row == invoice[job[w].inv]
  IN /\ job[w].pc = "attempt"
     /\ IF PayableInvoice(row.status)
        THEN /\ job' = [job EXCEPT ![w].pc = "intent", ![w].link = row.link,
                                   ![w].attempts = row.attempts]
             /\ UNCHANGED invoice
        ELSE Finish(w, row)
     /\ UNCHANGED <<subscription, payment, acquirer, answers, events, requests,
                    faults>>

\* No method is saved: the scheduler records a failed attempt, a request is
\* refused.
RecordMissingPaymentMethod(w) ==
  LET i == job[w].inv
      counted == IF job[w].auto /\ invoice[i].status = "open"
                 THEN RecordFailedAttempt(Rows, i) ELSE Rows
  IN /\ MayLackMethod
     /\ job[w].pc = "intent"
     /\ subscription' = counted.sub
     /\ Finish(w, counted.inv[i])
     /\ UNCHANGED <<payment, acquirer, answers, events, requests, faults>>

\* intentFor: the linked payment while it lives, or a new one.
IntentFor(w) ==
  LET k == job[w].link
      free == {p \in Payments : payment[p].status = "none"}
      alive == k # 0 /\ payment[k].status # "canceled"
      moving == alive /\ payment[k].status \in {"processing", "succeeded"}
  IN /\ job[w].pc = "intent"
     /\ \/ /\ alive /\ ~moving
           /\ job' = [job EXCEPT ![w].pc = "prepare", ![w].pay = k,
                                 ![w].seen = payment[k].status]
           /\ UNCHANGED <<invoice, payment, acquirer>>
        \/ /\ ~alive /\ free # {}
           /\ LET new == CHOOSE p \in free : \A q \in free : p <= q
              IN /\ payment' = [payment EXCEPT ![new] =
                      [status |-> "requires_payment_method", inv |-> job[w].inv,
                       shown |-> FALSE]]
                 /\ acquirer' = [acquirer EXCEPT ![new].status =
                                   "requires_payment_method"]
                 /\ job' = [job EXCEPT ![w].pc = "link", ![w].pay = new,
                                       ![w].seen = "requires_payment_method"]
           /\ UNCHANGED invoice
        \/ /\ moving \/ (~alive /\ free = {})      \* or MaxPayments is reached
           /\ Finish(w, invoice[job[w].inv])
           /\ UNCHANGED <<payment, acquirer>>
     /\ UNCHANGED <<subscription, answers, events, requests, faults>>

\* A faulty variant: the link is written over whatever is there.
MayLinkAlways(w) == TRUE

\* The compare-and-swap on the invoice's link.
MayLink(w) == invoice[job[w].inv].link = job[w].link

\* The new payment is linked, or retired when another attempt linked one.
LinkIntent(w) ==
  LET k == job[w].pay
  IN /\ job[w].pc = "link"
     /\ IF MayLink(w)
        THEN /\ invoice' = [invoice EXCEPT ![job[w].inv].link = k]
             /\ payment' = [payment EXCEPT ![k].shown = TRUE]
             /\ job' = [job EXCEPT ![w].pc = "prepare"]
             /\ UNCHANGED <<acquirer, events>>
        ELSE /\ payment' = [payment EXCEPT ![k].status = "canceled"]
             /\ AcquirerMoves(k, "canceled", acquirer[k].tries)
             /\ Finish(w, invoice[job[w].inv])
     /\ UNCHANGED <<subscription, answers, requests, faults>>

\* setIntentPaymentMethod: only while the payment stands where it was read.
Prepare(w) ==
  /\ job[w].pc = "prepare"
  /\ Goto(w, IF payment[job[w].pay].status = job[w].seen THEN "confirm"
             ELSE "settle")
  /\ UNCHANGED <<subscription, payment, acquirer, answers, events, requests,
                 faults>>

\* What the acquirer already answered to this invoice's attempt number.
Keyed(w) == {a \in answers : a.inv = job[w].inv /\ a.n = job[w].attempts + 1}

\* The charge: an answer replayed by its key, or a new one.  `heard` says
\* whether the answer comes back.
Confirm(w, heard) ==
  LET k == job[w].pay
      replayed == {a \in Keyed(w) : a.pay = k}
      got(answer) == /\ job' = [job EXCEPT
                          ![w].pc = IF heard THEN "apply" ELSE "defer",
                          ![w].answer = answer]
                     /\ UNCHANGED invoice
  IN /\ job[w].pc = "confirm"
     /\ \/ /\ \E a \in replayed : got(a.answer)
           /\ UNCHANGED <<acquirer, answers, events>>
        \/ /\ Keyed(w) = {} /\ Chargeable(k)
           /\ \E outcome \in Outcomes :
                /\ Try(k, outcome)
                /\ answers' = answers \cup
                     {[inv |-> job[w].inv, n |-> job[w].attempts + 1,
                       pay |-> k, answer |-> outcome]}
                /\ got(outcome)
        \/ /\ IF Keyed(w) = {} THEN ~Chargeable(k) ELSE replayed = {}
           /\ heard                    \* the acquirer refuses the call
           /\ Finish(w, invoice[job[w].inv])
           /\ UNCHANGED <<acquirer, answers, events>>
     /\ UNCHANGED <<subscription, payment, requests>>

ConfirmCard(w) == Confirm(w, TRUE) /\ UNCHANGED faults

LoseAnswer(w) ==
  /\ faults < MaxFaults
  /\ faults' = faults + 1
  /\ Confirm(w, FALSE)

\* An outage: the call never arrives.
Outage(w) ==
  /\ job[w].pc = "confirm"
  /\ faults < MaxFaults
  /\ faults' = faults + 1
  /\ Goto(w, "defer")
  /\ UNCHANGED <<subscription, payment, acquirer, answers, events, requests>>

\* applyProviderPaymentResult on the row as it was read.
ApplyAnswer(w) ==
  LET event == CardEvent(job[w].answer)
      to == TargetStatusFor(event)
      seen == job[w].seen
  IN /\ job[w].pc = "apply"
     /\ job' = [job EXCEPT ![w] = [Idle EXCEPT !.pc = "settle", !.inv = job[w].inv,
                                               !.auto = job[w].auto]]
     /\ IF CanApply(seen, event, "card") /\ (to # seen \/ event = "card_failed")
        THEN TransitionIntent(job[w].pay, seen, to)
        ELSE UNCHANGED <<payment, billing>>
     /\ UNCHANGED <<acquirer, answers, events, requests, faults>>

\* settleAttemptSchedule: what the payment's own outcome did not reschedule
\* is left to it.
SettleAttemptSchedule(w) ==
  LET row == invoice[job[w].inv]
  IN /\ job[w].pc = "settle"
     /\ Finish(w, IF row.status = "open" /\ row.due = "now"
                  THEN [row EXCEPT !.due = "none"] ELSE row)
     /\ UNCHANGED <<subscription, payment, acquirer, answers, events, requests,
                    faults>>

\* deferAttempt: try later, without counting an attempt.
DeferAttempt(w) ==
  /\ job[w].pc = "defer"
  /\ Finish(w, [invoice[job[w].inv] EXCEPT !.due = "later"])
  /\ UNCHANGED <<subscription, payment, acquirer, answers, events, requests,
                 faults>>

Crash(w) ==
  /\ job[w].pc # "idle"
  /\ faults < MaxFaults
  /\ faults' = faults + 1
  /\ job' = [job EXCEPT ![w] = Idle]
  /\ UNCHANGED <<billing, payment, acquirer, answers, events, requests>>

-----------------------------------------------------------------------------
(* Time.                                                                   *)

\* A faulty variant: a dead task keeps its rows.
LeaseLapsesNever(i) == FALSE

LeaseLapses(i) ==
  /\ invoice[i].leased
  /\ invoice' = [invoice EXCEPT ![i].leased = FALSE]
  /\ UNCHANGED <<subscription, payment, acquirer, answers, events, job,
                 requests, faults>>

FallsDue(i) ==
  /\ invoice[i].due = "later"
  /\ invoice' = [invoice EXCEPT ![i].due = "now"]
  /\ UNCHANGED <<subscription, payment, acquirer, answers, events, job,
                 requests, faults>>

\* The period ends: the next invoice is drafted.  Dunning gave up on an
\* unpaid subscription, so its invoice stays a draft.
Renew ==
  LET next == subscription.latest + 1
  IN /\ subscription.status \in {"active", "past_due", "unpaid"}
     /\ next \in Invoices
     /\ subscription' = [subscription EXCEPT !.latest = next]
     /\ invoice' = [invoice EXCEPT ![next].status = "draft",
          ![next].due = IF subscription.status = "unpaid" THEN "none"
                        ELSE "later"]
     /\ UNCHANGED <<payment, acquirer, answers, events, job, requests, faults>>

\* A first invoice unpaid in time expires the subscription.
ExpireIncomplete ==
  LET i == subscription.latest
      gone == TransitionSubscription(Rows, "incomplete_expired")
  IN /\ subscription.status = "incomplete"
     /\ Commit(IF PayableInvoice(invoice[i].status) THEN VoidInvoiceIn(gone, i)
               ELSE gone)
     /\ UNCHANGED <<payment, acquirer, answers, events, job, requests, faults>>

-----------------------------------------------------------------------------
(* The merchant and the payer.                                             *)

\* A draft the engine advances is due at once, one it does not is never due.
FinalizeInvoice(i) ==
  /\ invoice[i].status = "draft"
  /\ invoice' = [invoice EXCEPT ![i].status = "open",
                                ![i].due = IF @ = "none" THEN "none" ELSE "now"]
  /\ UNCHANGED <<subscription, payment, acquirer, answers, events, job,
                 requests, faults>>

VoidInvoice(i) ==
  /\ PayableInvoice(invoice[i].status)
  /\ Commit(VoidInvoiceIn(Rows, i))
  /\ UNCHANGED <<payment, acquirer, answers, events, job, requests, faults>>

MarkInvoiceUncollectible(i) ==
  /\ invoice[i].status = "open"
  /\ invoice' = [invoice EXCEPT ![i].status = "uncollectible", ![i].due = "none"]
  /\ UNCHANGED <<subscription, payment, acquirer, answers, events, job,
                 requests, faults>>

PaidOutOfBand(i) ==
  /\ PayableInvoice(invoice[i].status)
  /\ Commit(MarkInvoicePaid(Rows, i, FALSE))
  /\ UNCHANGED <<payment, acquirer, answers, events, job, requests, faults>>

CancelSubscriptionNow ==
  /\ ~SubscriptionIsTerminal(subscription.status)
  /\ Commit(TransitionSubscription(Rows, "canceled"))
  /\ UNCHANGED <<payment, acquirer, answers, events, job, requests, faults>>

-----------------------------------------------------------------------------

Attempt(w) ==
  \/ RunInvoiceStep(w) \/ AttemptInvoicePayment(w) \/ IntentFor(w)
  \/ LinkIntent(w) \/ Prepare(w) \/ ConfirmCard(w) \/ ApplyAnswer(w)
  \/ SettleAttemptSchedule(w) \/ DeferAttempt(w)

Next ==
  \/ \E w \in Workers :
       \/ Attempt(w) \/ RecordMissingPaymentMethod(w)
       \/ LoseAnswer(w) \/ Outage(w) \/ Crash(w)
       \/ \E i \in Invoices : ClaimDueInvoice(w, i) \/ PayInvoice(w, i)
  \/ \E k \in Payments : PayerConfirms(k) \/ AcquirerSettles(k) \/ CancelPayment(k)
  \/ \E e \in events : ProcessProviderEvent(e)
  \/ \E i \in Invoices : \/ LeaseLapses(i) \/ FallsDue(i) \/ VoidInvoice(i)
                         \/ MarkInvoiceUncollectible(i) \/ PaidOutOfBand(i)
                         \/ FinalizeInvoice(i)
  \/ Renew \/ ExpireIncomplete \/ CancelSubscriptionNow

Spec == Init /\ [][Next]_vars

\* Workers keep working, every process's scheduler and drain pass again and
\* again, and time goes on: an instant arrives, a lease runs out, and the
\* acquirer decides what it holds under way.
Fairness ==
  /\ \A k \in Payments : WF_vars(AcquirerSettles(k))
  /\ \A k \in Payments : WF_vars(\E e \in events : e.pay = k /\ ProcessProviderEvent(e))
  /\ \A w \in Workers :
       /\ WF_vars(Attempt(w))
       /\ \A i \in Invoices : WF_vars(ClaimDueInvoice(w, i))
  /\ \A i \in Invoices : WF_vars(LeaseLapses(i)) /\ WF_vars(FallsDue(i))

FairSpec == Spec /\ Fairness

-----------------------------------------------------------------------------
(* Properties.                                                             *)

TypeOK ==
  /\ subscription \in [status : DOMAIN SubscriptionAllowed, latest : Invoices]
  /\ invoice \in [Invoices ->
       [status : {"none", "draft", "open", "paid", "void", "uncollectible"},
        link : 0..MaxPayments, attempts : Nat, due : Instants,
        exhausted : BOOLEAN, leased : BOOLEAN, outOfBand : BOOLEAN]]
  /\ payment \in [Payments -> [status : Statuses \cup {"none"},
                               inv : Invoices, shown : BOOLEAN]]
  /\ \A k \in Payments : acquirer[k].status \in Statuses \cup {"none"}
  /\ \A e \in events : e.pay \in Payments /\ e.kind \in CardEvents

\* However many attempts run at once - two tasks after a lease ran out, a
\* request beside the scheduler, the payer beside both - one invoice is
\* charged at most once.
ChargedOnce ==
  \A i \in Invoices :
    Cardinality({k \in Payments : /\ payment[k].inv = i
                                  /\ acquirer[k].status = "succeeded"}) <= 1

\* An invoice is paid by a charge the acquirer took, or out of band.
PaidIsCharged ==
  \A i \in Invoices :
    invoice[i].status = "paid" =>
      \/ invoice[i].outOfBand
      \/ \E k \in Payments : /\ invoice[i].link = k
                             /\ acquirer[k].status = "succeeded"

\* While the latest invoice is paid, however late and from whatever state of
\* dunning, the subscription is not waiting for it.
PaidRestores ==
  invoice[subscription.latest].status = "paid" =>
    subscription.status \notin {"incomplete", "past_due", "unpaid"}

\* The model ran out of payments or of tries, which the code does not.
BoundReached ==
  \/ \A k \in Payments :
       \/ payment[k].status = "canceled"
       \/ payment[k].status # "none" /\ \A i \in Invoices : invoice[i].link # k
  \/ \E k \in Payments : acquirer[k].tries = MaxTries

\* Dunning ends: an open invoice that falls due is attempted or deferred
\* until no instant of it is due, whichever worker dies holding it.
DunningEnds ==
  \A i \in Invoices :
    invoice[i].status = "open" /\ invoice[i].due # "none" ~>
      invoice[i].status # "open" \/ invoice[i].due = "none" \/ BoundReached

\* services/billingEngine/subscriptions.ts:856: once the 23 hours of an incomplete
\* subscription are over "the first invoice is voided and its payment retired":
\* nobody can complete a payment its void invoice still links.
FirstPaymentRetired ==
  subscription.status = "incomplete_expired" =>
    \A k \in Payments : invoice[1].status = "void" /\ invoice[1].link = k =>
      acquirer[k].status \notin {"requires_payment_method", "requires_action"}

\* docs/adr/0018: dunning retries on the merchant's schedule "after each
\* failed attempt", then runs the final action: an invoice given up on (its
\* method saved) was tried once more than there are retries.
GivesUpAfterSchedule ==
  \A i \in Invoices : invoice[i].exhausted =>
    \/ MayLackMethod
    \/ Cardinality({t \in Payments \X (1..MaxTries) :
                      /\ payment[t[1]].inv = i
                      /\ t[2] <= acquirer[t[1]].tries}) > Retries

\* services/billingEngine/scheduler.ts:12-22: every step "acts only if the
\* obligation is still due", so two workers that both claimed a row "produce
\* one outcome": what the scheduler charges is due.
ChargesOnlyWhenDue ==
  [][\A w \in Workers :
       job[w].auto /\ job[w].pc = "confirm" /\ job'[w].pc # "confirm"
                   /\ answers' # answers =>
         invoice[job[w].inv].due = "now"]_vars
=============================================================================
