------------------------------ MODULE MCProgress ------------------------------
(***************************************************************************)
(* What must eventually happen - to a due order, an invoice in dunning, a  *)
(* FairCoin payment, a webhook - under the fairness each component states, *)
(* checked side by side: `focus` says which one a behaviour is of, and the *)
(* variables of the others are Off.  The state space is the sum of theirs. *)
(***************************************************************************)
EXTENDS Integers, TLC

CONSTANT Off   \* the value of a variable the focus does not have

VARIABLES
  focus,
  row, net, key, tx, pays, reorgs, memory,
  session, redeemed, due, told,
  subscription, invoice, answers, events, requests,
  payment, acquirer, job, faults,
  recorded, delivery, endpoint, pass, accepted, overrun

FairVars == <<row, net, key, tx, pays, reorgs, memory>>
OrderVars == <<session, redeemed, due, told>>
BillingVars == <<subscription, invoice, answers, events, requests>>
CardVars == <<payment, acquirer>>
OutboxVars == <<recorded, delivery, endpoint, pass, accepted, overrun>>

vars == <<focus, FairVars, OrderVars, BillingVars, CardVars, OutboxVars, job, faults>>

NoFair ==
  /\ row = Off /\ net = Off /\ key = Off /\ tx = Off
  /\ pays = Off /\ reorgs = Off /\ memory = Off
NoOrder == session = Off /\ redeemed = Off /\ due = Off /\ told = Off
NoBilling ==
  /\ subscription = Off /\ invoice = Off /\ answers = Off /\ events = Off
  /\ requests = Off
NoCard == payment = Off /\ acquirer = Off
NoOutbox ==
  /\ recorded = Off /\ delivery = Off /\ endpoint = Off /\ pass = Off
  /\ accepted = Off /\ overrun = Off

Watcher == INSTANCE FairSettlement WITH
  Tasks <- {"task"}, Overlap <- 1, Threshold <- 2, Depth <- 3, Indexed <- TRUE,
  MaxReorgs <- 1, MaxFaults <- 1

Order == INSTANCE CheckoutSession WITH
  Sessions <- {"s1"}, Workers <- {"task"}, Methods <- {"card", "faircoin"},
  MaxRedemptions <- 1, MaxQuotes <- 1, MaxWrites <- 5, MaxFaults <- 1

Dunning == INSTANCE InvoiceCollection WITH
  Workers <- {"task"}, MaxInvoices <- 1, MaxPayments <- 1, MaxTries <- 2,
  MaxRequests <- 0, MaxFaults <- 1, Retries <- 0, MayLackMethod <- FALSE,
  Outcomes <- {"requires_payment_method"}, FinalAction <- "unpaid",
  InvoiceAction <- "mark_uncollectible", FirstReason <- "subscription_cycle"

Outbox == INSTANCE WebhookOutbox WITH
  Events <- {"event"}, Endpoints <- {"endpoint"}, Passes <- {"p1", "p2"},
  ScheduleLength <- 1, BatchSize <- 2, MaxRedeliveries <- 0, MaxFaults <- 1

-----------------------------------------------------------------------------
Init ==
  \/ /\ focus = "Watcher" /\ Watcher!Init
     /\ NoOrder /\ NoBilling /\ NoCard /\ NoOutbox
  \/ /\ focus = "Order" /\ Order!Init
     /\ NoFair /\ NoBilling /\ NoOutbox
  \/ /\ focus = "Dunning" /\ Dunning!Init
     /\ NoFair /\ NoOrder /\ NoOutbox
  \/ /\ focus = "Outbox" /\ Outbox!Init
     /\ NoFair /\ NoOrder /\ NoBilling /\ NoCard /\ job = Off

\* A step of one component leaves the others alone.
InWatcher(A) ==
  focus = "Watcher" /\ A /\ UNCHANGED <<focus, OrderVars, BillingVars, CardVars, OutboxVars>>
InOrder(A) ==
  focus = "Order" /\ A /\ UNCHANGED <<focus, FairVars, BillingVars, OutboxVars>>
InDunning(A) ==
  focus = "Dunning" /\ A /\ UNCHANGED <<focus, FairVars, OrderVars, OutboxVars>>
InOutbox(A) ==
  /\ focus = "Outbox" /\ A
  /\ UNCHANGED <<focus, FairVars, OrderVars, BillingVars, CardVars, job>>

Next ==
  \/ InWatcher(Watcher!Next)
  \/ InOrder(Order!Next)
  \/ InDunning(Dunning!Next)
  \/ InOutbox(Outbox!Next)

\* The Fairness of each component, of its steps here.
Fairness ==
  /\ \A c \in Watcher!Checks :
       /\ WF_vars(InWatcher(Watcher!StartCheck(c)))
       /\ WF_vars(InWatcher(Watcher!CheckStep(c)))
  /\ WF_vars(InWatcher(Watcher!TimePasses("task")))
  /\ WF_vars(InWatcher(Watcher!RowAges))
  /\ WF_vars(InWatcher(Watcher!Mine))
  /\ WF_vars(InOrder(Order!Confirm("task") \/ Order!Expire("task")))
  /\ WF_vars(InOrder(Order!ExpireDueSessions("s1")))
  /\ \A id \in Order!Ids :
       /\ WF_vars(InOrder(Order!QuoteLapses(id)))
       /\ WF_vars(InOrder(Order!CardExpires(id)))
       /\ WF_vars(InOrder(Order!CardReported(id)))
  /\ \A k \in Dunning!Payments :
       /\ WF_vars(InDunning(Dunning!AcquirerSettles(k)))
       /\ WF_vars(InDunning(\E e \in events :
                              e.pay = k /\ Dunning!ProcessProviderEvent(e)))
  /\ WF_vars(InDunning(Dunning!Attempt("task")))
  /\ \A i \in Dunning!Invoices :
       /\ WF_vars(InDunning(Dunning!ClaimDueInvoice("task", i)))
       /\ WF_vars(InDunning(Dunning!LeaseLapses(i)))
       /\ WF_vars(InDunning(Dunning!FallsDue(i)))
  /\ \A p \in {"p1", "p2"} : WF_vars(InOutbox(Outbox!Step(p)))
  /\ \A d \in Outbox!Ids :
       /\ WF_vars(InOutbox(Outbox!BackoffEnds(d)))
       /\ WF_vars(InOutbox(Outbox!LeaseLapses(d)))
       /\ SF_vars(InOutbox(\E p \in {"p1", "p2"} :
                              Outbox!ClaimDueDeliveries(p) /\ d \in Outbox!Holds(p)'))

Spec == Init /\ [][Next]_vars /\ Fairness

-----------------------------------------------------------------------------
\* A FairCoin payment that is on the chain to stay comes to be settled, also
\* when the payer reported another transaction, and over one restart, one bad
\* reading and one reorganisation.
PaidSettles ==
  focus = "Watcher" /\ Watcher!Settleable ~> focus = "Watcher" /\ row.status = "succeeded"

\* A FairCoin payment the chain dropped for good does not stay settled.
UndoneIsNoticed ==
  <>[](focus = "Watcher" /\ tx.depth = -1)
    => <>[](focus = "Watcher" /\ row.status # "succeeded")

\* An order past its deadline does not stay open: expired with its payment
\* called off, or complete because that payment was taken.
DueOrderEnds ==
  focus = "Order" /\ "s1" \in due ~> focus = "Order" /\ session["s1"].status # "open"

\* Dunning ends: an open invoice that falls due is attempted or deferred until
\* no instant of it is due, whichever task dies holding it.
DunningEnds ==
  focus = "Dunning" /\ invoice[1].status = "open" /\ invoice[1].due # "none"
    ~> /\ focus = "Dunning"
       /\ invoice[1].status # "open" \/ invoice[1].due = "none" \/ Dunning!BoundReached

\* No delivery is forgotten: dispatchers may die mid-attempt, endpoints may fail,
\* be disabled or move, and each pending delivery still ends.
DeliveriesEnd ==
  \A d \in Outbox!Ids :
    focus = "Outbox" /\ delivery[d].status = "pending"
      ~> focus = "Outbox" /\ delivery[d].status # "pending"
=============================================================================
