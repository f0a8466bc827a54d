------------------------------ MODULE MCServices ------------------------------
(***************************************************************************)
(* What happens around a payment - its dispute, the terminal that collects *)
(* it, the invoice it is for, the sellers it is settled to, the webhooks   *)
(* that tell of it - checked side by side: the components share no row, so *)
(* `focus` says which one a behaviour is of, and the variables of the      *)
(* others are Off.  The state space is the sum of theirs.  A component     *)
(* stands here under each set of bounds at which it does something the     *)
(* others do not reach.                                                    *)
(***************************************************************************)
EXTENDS Naturals, TLC

CONSTANTS
  Tasks,   \* two interchangeable tasks of the backend
  Off      \* the value of a variable the focus does not have

VARIABLES
  focus,
  dispute, network, news, inbox, processed, aborts,
  action, started, device, paid, known,
  subscription, invoice, payment, acquirer, answers, events, requests,
  transfer, sent, refused, reversal, taken, unread, outside, misread,
  recorded, delivery, endpoint, pass, accepted, overrun,
  told, job, faults

DisputeVars == <<dispute, network, news, inbox, processed, aborts>>
ReaderVars == <<action, started, device, paid, known>>
BillingVars == <<subscription, invoice, payment, acquirer, answers, events, requests>>
SettlingVars ==
  <<transfer, sent, refused, reversal, taken, unread, outside, misread>>
OutboxVars == <<recorded, delivery, endpoint, pass, accepted, overrun>>

NoDispute ==
  /\ dispute = Off /\ network = Off /\ news = Off /\ inbox = Off
  /\ processed = Off /\ aborts = Off
NoReader ==
  action = Off /\ started = Off /\ device = Off /\ paid = Off /\ known = Off
NoBilling ==
  /\ subscription = Off /\ invoice = Off /\ payment = Off /\ acquirer = Off
  /\ answers = Off /\ events = Off /\ requests = Off
NoSettling ==
  /\ transfer = Off /\ sent = Off /\ refused = Off /\ reversal = Off
  /\ taken = Off /\ unread = Off /\ outside = Off /\ misread = Off
NoOutbox ==
  /\ recorded = Off /\ delivery = Off /\ endpoint = Off /\ pass = Off
  /\ accepted = Off /\ overrun = Off

-----------------------------------------------------------------------------
\* Deliveries that overtake one another, two drains and the merchant.
RacedDispute == INSTANCE Disputes WITH
  Drains <- Tasks, Requests <- {"request"}, Reordered <- TRUE, MaxNews <- 2, MaxAborts <- 1

\* A longer history, one drain.
LongDispute == INSTANCE Disputes WITH
  Drains <- {"drain"}, Requests <- {"request"}, Reordered <- TRUE, MaxNews <- 3, MaxAborts <- 1

\* One reader that fails, and two that want one payment.
Reader == INSTANCE TerminalReader WITH
  Readers <- {"r1"}, Payments <- {"p1"}, Workers <- Tasks, MaxAttempts <- 2, MaxFaults <- 1
TwoReaders == INSTANCE TerminalReader WITH
  Readers <- {"r1", "r2"}, Payments <- {"p1"}, Workers <- Tasks, MaxAttempts <- 2,
  MaxFaults <- 0

\* A renewal that two tasks collect; a first invoice, and a renewal, with
\* everything that can happen to one charge.
Renewal == INSTANCE InvoiceCollection WITH
  Workers <- Tasks, MaxInvoices <- 1, MaxPayments <- 2, MaxTries <- 1,
  MaxRequests <- 0, MaxFaults <- 0, Retries <- 0, MayLackMethod <- FALSE,
  Outcomes <- {"succeeded", "requires_payment_method"}, FinalAction <- "unpaid",
  InvoiceAction <- "mark_uncollectible", FirstReason <- "subscription_cycle"
FirstInvoice == INSTANCE InvoiceCollection WITH
  Workers <- {"task"}, MaxInvoices <- 2, MaxPayments <- 1, MaxTries <- 1,
  MaxRequests <- 1, MaxFaults <- 1, Retries <- 1, MayLackMethod <- FALSE,
  Outcomes <- {"succeeded", "requires_action", "processing", "requires_payment_method"},
  FinalAction <- "unpaid", InvoiceAction <- "mark_uncollectible",
  FirstReason <- "subscription_create"
Dunning == INSTANCE InvoiceCollection WITH
  Workers <- {"task"}, MaxInvoices <- 1, MaxPayments <- 1, MaxTries <- 1,
  MaxRequests <- 1, MaxFaults <- 1, Retries <- 1, MayLackMethod <- TRUE,
  Outcomes <- {"succeeded", "requires_action", "processing", "requires_payment_method"},
  FinalAction <- "cancel", InvoiceAction <- "leave_open",
  FirstReason <- "subscription_cycle"

\* Two settlements of one payment - one for a seller or another - and a reversal, by
\* two requests, while one more reversal is made at the acquirer itself, and one
\* call fails, is refused for itself, or loses its answer.
Settling == INSTANCE Transfers WITH
  Workers <- Tasks, Refs <- {"order1", "order2"}, ReversalRefs <- {"reversal"},
  Sellers <- [r \in {"order1", "order2"} |->
                IF r = "order1" THEN {"seller", "other"} ELSE {"seller"}],
  Charge <- 2, Amounts <- {1, 2}, MaxOutside <- 1, MaxFaults <- 1

\* One event, its delivery and one more that a merchant asks for, two dispatchers,
\* whose leases may run out under them (that one dies is in MCProgress).
Outbox == INSTANCE WebhookOutbox WITH
  Events <- {"event"}, Endpoints <- {"endpoint"}, Passes <- Tasks,
  ScheduleLength <- 1, BatchSize <- 2, MaxRedeliveries <- 1, MaxFaults <- 0

\* The bounds of each component are ones its assumption allows.
ASSUME BoundsAssumption ==
  /\ RacedDispute!DisputeBounds /\ LongDispute!DisputeBounds
  /\ Reader!TerminalBounds /\ TwoReaders!TerminalBounds
  /\ Renewal!CollectionBounds /\ FirstInvoice!CollectionBounds /\ Dunning!CollectionBounds
  /\ Settling!TransferBounds /\ Outbox!OutboxBounds

-----------------------------------------------------------------------------
Init ==
  \/ /\ NoReader /\ NoBilling /\ NoSettling /\ NoOutbox /\ faults = Off
     /\ \/ focus = "RacedDispute" /\ RacedDispute!Init
        \/ focus = "LongDispute" /\ LongDispute!Init
  \/ /\ NoDispute /\ NoBilling /\ NoSettling /\ NoOutbox
     /\ \/ focus = "Reader" /\ Reader!Init
        \/ focus = "TwoReaders" /\ TwoReaders!Init
  \/ /\ NoDispute /\ NoReader /\ NoSettling /\ NoOutbox /\ told = Off
     /\ \/ focus = "Renewal" /\ Renewal!Init
        \/ focus = "FirstInvoice" /\ FirstInvoice!Init
        \/ focus = "Dunning" /\ Dunning!Init
  \/ /\ NoDispute /\ NoReader /\ NoBilling /\ NoOutbox /\ told = Off
     /\ focus = "Settling" /\ Settling!Init
  \/ /\ NoDispute /\ NoReader /\ NoBilling /\ NoSettling /\ told = Off /\ job = Off
     /\ focus = "Outbox" /\ Outbox!Init

DisputeNext ==
  /\ UNCHANGED <<focus, ReaderVars, BillingVars, SettlingVars, OutboxVars, faults>>
  /\ \/ focus = "RacedDispute" /\ RacedDispute!Next
     \/ focus = "LongDispute" /\ LongDispute!Next

ReaderNext ==
  /\ UNCHANGED <<focus, DisputeVars, BillingVars, SettlingVars, OutboxVars>>
  /\ \/ focus = "Reader" /\ Reader!Next
     \/ focus = "TwoReaders" /\ TwoReaders!Next

BillingNext ==
  /\ UNCHANGED <<focus, DisputeVars, ReaderVars, SettlingVars, OutboxVars, told>>
  /\ \/ focus = "Renewal" /\ Renewal!Next
     \/ focus = "FirstInvoice" /\ FirstInvoice!Next
     \/ focus = "Dunning" /\ Dunning!Next

SettlingNext ==
  /\ UNCHANGED <<focus, DisputeVars, ReaderVars, BillingVars, OutboxVars, told>>
  /\ focus = "Settling" /\ Settling!Next

OutboxNext ==
  /\ UNCHANGED <<focus, DisputeVars, ReaderVars, BillingVars, SettlingVars, told, job>>
  /\ focus = "Outbox" /\ Outbox!Next

Next == DisputeNext \/ ReaderNext \/ BillingNext \/ SettlingNext \/ OutboxNext

vars ==
  <<focus, DisputeVars, ReaderVars, BillingVars, SettlingVars, OutboxVars, told, job,
    faults>>

Spec == Init /\ [][Next]_vars

TaskSymmetry == Permutations(Tasks)

-----------------------------------------------------------------------------
TypeOK ==
  CASE focus = "RacedDispute" -> RacedDispute!TypeOK
    [] focus = "LongDispute"  -> LongDispute!TypeOK
    [] focus = "Reader"       -> Reader!TypeOK
    [] focus = "TwoReaders"   -> TwoReaders!TypeOK
    [] focus = "Renewal"      -> Renewal!TypeOK
    [] focus = "FirstInvoice" -> FirstInvoice!TypeOK
    [] focus = "Dunning"      -> Dunning!TypeOK
    [] focus = "Settling"     -> Settling!TypeOK
    [] focus = "Outbox"       -> Outbox!TypeOK

\* The merchant is told once that there is a dispute, and of every status its
\* row takes, however many tasks drain its first events and in whatever order;
\* and the row never claims more than the network has: an outcome it did not
\* decide, an answer it did not get.
DisputeIsToldTruly ==
  /\ focus = "RacedDispute" =>
       /\ RacedDispute!CreatedToldOnce /\ RacedDispute!StatusWasTold
       /\ RacedDispute!OutcomeIsTrue /\ RacedDispute!AnsweredIsTrue
  /\ focus = "LongDispute" =>
       /\ LongDispute!CreatedToldOnce /\ LongDispute!StatusWasTold
       /\ LongDispute!OutcomeIsTrue /\ LongDispute!AnsweredIsTrue

\* An attempt at a reader has one outcome, told once, whoever settles it -
\* request, event or sweep - "succeeded" is of a payment the provider took, and
\* one reader at a time collects a payment.
AttemptEndsOnce ==
  /\ focus = "Reader" => Reader!SettledOnce /\ Reader!SuccessWasTaken
  /\ focus = "TwoReaders" =>
       TwoReaders!SettledOnce /\ TwoReaders!SuccessWasTaken /\ TwoReaders!OneCollector

\* One invoice is charged once: two tasks after a lapsed lease, a request
\* beside the scheduler, the payer beside both.
ChargedOnce ==
  /\ focus = "Renewal" => Renewal!ChargedOnce
  /\ focus = "FirstInvoice" => FirstInvoice!ChargedOnce
  /\ focus = "Dunning" => Dunning!ChargedOnce

\* An invoice is paid by a charge the acquirer took, or out of band, and however
\* late the latest one is paid, it leaves no subscription waiting.
PaidIsSettled ==
  /\ focus = "Renewal" => Renewal!PaidIsCharged /\ Renewal!PaidRestores
  /\ focus = "FirstInvoice" => FirstInvoice!PaidIsCharged /\ FirstInvoice!PaidRestores
  /\ focus = "Dunning" => Dunning!PaidIsCharged /\ Dunning!PaidRestores

\* The sellers of one payment hold no more than it brought in, whoever settles
\* them at once, whatever answers are lost and whatever is taken back: settlements
\* apart whose refusal was recorded though it was of no more than a call.
WithinPayment == focus = "Settling" => Settling!WithinPayment

\* A settlement's row says of what came back what the acquirer says, no more and
\* nothing less once its announcements were read; a reversal says how it ended,
\* unless it ended on a refusal to read the total.
ReversedIsTrue ==
  focus = "Settling" => Settling!ReversedIsTrue /\ Settling!ReversalIsTrue

\* A delivery is given up only when its whole schedule has been tried: not sooner,
\* however the passes that counted its attempts were interleaved.
DeadMeansTried == focus = "Outbox" => Outbox!DeadMeansTried

\* claimDueDeliveries: no two passes are to attempt the same delivery, unless its
\* lease ran out under the one that held it.
OneClaimant == focus = "Outbox" => Outbox!OneClaimant

\* A delivery that ended, as delivered or given up, is not taken up again, where its
\* lease never ran out under a pass.
EndedStaysEnded ==
  [][focus = "Outbox" =>
       \A d \in Outbox!Ids \ overrun : delivery[d].status \in Outbox!Ended =>
         delivery'[d].status \in {delivery[d].status, "deleted"}]_vars
=============================================================================
