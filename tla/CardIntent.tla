------------------------------ MODULE CardIntent ------------------------------
(***************************************************************************)
(* One card payment intent: the row Peable keeps, the payment the acquirer *)
(* keeps, and everything that moves either of them.                        *)
(*                                                                         *)
(* The row moves only by a compare-and-swap from a status some handler     *)
(* read earlier, across at least one network round trip.  The acquirer's   *)
(* payment moves by the payer's browser, by the bank, and by Peable's own  *)
(* calls.  The two are joined by events delivered at least once and in any *)
(* order, by reading the acquirer again, and by the answers to Peable's    *)
(* calls.  Workers are the concurrent executions that do this: request     *)
(* handlers, expiry sweeps and event drains of every task of the gateway.  *)
(* One action is the code between two awaits of one worker.                *)
(***************************************************************************)
EXTENDS Naturals, Sequences, IntentState

CONSTANTS
  Workers,         \* concurrent handlers, sweeps and drains
  CaptureMethods,  \* the capture_method a payment may have
  SavedMethods,    \* whether it may be created with a saved payment method
  CaptureAmounts,  \* what a merchant may ask to capture: "part", "full"
  MaxAttempts,     \* bound: confirmations the payer and the merchant start
  MaxAborts        \* bound: crashes, lost answers and provider outages

ASSUME BoundsAssumption == MaxAttempts \in Nat /\ MaxAborts \in Nat
ASSUME TermsAssumption ==
  /\ CaptureMethods \subseteq {"automatic", "manual"}
  /\ SavedMethods \subseteq BOOLEAN
  /\ CaptureAmounts \subseteq {"part", "full"}

VARIABLES
  \* the row of payment_intents, and the events committed with it
  status, linked, charged, received, outcomes,
  captureMethod, saved,   \* its terms
  due,             \* expires_at has passed
  closedLocally,   \* history: canceled without a provider call
  \* the acquirer's payment (external): its status and the amount it captured
  pp, taken,
  events,          \* the acquirer's events, in the order it made them
  processed,       \* those a drain has marked
  job,             \* what each worker is doing, with what it has read
  attempts, aborts

row == <<status, linked, charged, received, outcomes, captureMethod, saved>>
provider == <<pp, taken, events, processed>>
vars == <<row, due, closedLocally, provider, job, attempts, aborts>>

Amounts == {"none", "part", "full"}
Pcs == {"idle", "create", "create_confirm", "resume", "link", "confirm",
        "capture", "calloff", "close", "ask", "reread", "apply", "read",
        "interpret", "mark"}

(***************************************************************************)
(* What an execution holds between two awaits: where it is, the status it  *)
(* read, the acquirer's answer, the amount it captures, and the event it   *)
(* is processing (0 when it is not a drain).                               *)
(***************************************************************************)
Job(pc, from, res, amt, ev) ==
  [pc |-> pc, from |-> from, res |-> res, amt |-> amt, ev |-> ev]

Idle == Job("idle", "none", "none", "none", 0)

Init ==
  /\ status = "none" /\ linked = FALSE /\ charged = FALSE
  /\ received = "none" /\ outcomes = <<>>
  /\ captureMethod \in CaptureMethods /\ saved \in SavedMethods
  /\ due = FALSE /\ closedLocally = FALSE
  /\ pp = "none" /\ taken = "none" /\ events = <<>> /\ processed = {}
  /\ job = [w \in Workers |-> Idle]
  /\ attempts = 0 /\ aborts = 0

-----------------------------------------------------------------------------
\* Workers.

Start(w, j) == job[w] = Idle /\ job' = [job EXCEPT ![w] = j]
At(w, pc) == job[w].pc = pc
Go(w, j) == job' = [job EXCEPT ![w] = j]
Finish(w) == Go(w, Idle)

\* A handled event is still to be marked; every other operation is over.
Done(w) ==
  IF job[w].ev # 0
  THEN Go(w, Job("mark", "none", "none", "none", job[w].ev))
  ELSE Finish(w)

-----------------------------------------------------------------------------
(***************************************************************************)
(* The row's one door: updateIntentState's compare-and-swap and what       *)
(* transitionIntent commits with it.                                       *)
(***************************************************************************)
\* A faulty variant: the write is not conditional on the status read.
UpdateIntentStateBlindly(from, to, amount) ==
  /\ status' = to
  /\ received' = IF to = "succeeded" THEN amount ELSE "none"
  /\ UNCHANGED <<linked, captureMethod, saved>>

UpdateIntentState(from, to, amount) ==
  /\ status = from
  /\ status' = to
  /\ received' = IF to = "succeeded" THEN amount ELSE "none"
  /\ UNCHANGED <<linked, captureMethod, saved>>

\* A faulty variant: every change of status is told as an ending.
TransitionIntentLoudly(from, to, amount) ==
  /\ UpdateIntentState(from, to, amount)
  /\ charged' = (charged \/ to \in {"requires_capture", "succeeded"})
  /\ outcomes' = IF to # from THEN Append(outcomes, to) ELSE outcomes

TransitionIntent(from, to, amount) ==
  /\ UpdateIntentState(from, to, amount)
  /\ charged' = (charged \/ to \in {"requires_capture", "succeeded"})
  /\ outcomes' = IF to \in TerminalStatuses /\ to # from
                 THEN Append(outcomes, to) ELSE outcomes

-----------------------------------------------------------------------------
\* The acquirer (external): where an attempt may lead, and what it announces.

AttemptResults ==
  {"requires_action", "processing", "failed"}
    \cup {IF captureMethod = "manual" THEN "requires_capture" ELSE "succeeded"}

StatusOf(result) ==
  IF result = "failed" THEN "requires_payment_method" ELSE result

IntentEventFor(result) ==
  CASE result = "succeeded"        -> "card_succeeded"
    [] result = "failed"           -> "card_failed"
    [] result = "canceled"         -> "card_canceled"
    [] result = "processing"       -> "card_processing"
    [] result = "requires_action"  -> "card_requires_action"
    [] result = "requires_capture" -> "card_requires_capture"

ProviderMoves(result, amount) ==
  /\ pp' = StatusOf(result)
  /\ taken' = IF result = "succeeded" THEN amount ELSE taken
  /\ events' = Append(events, IntentEventFor(result))
  /\ UNCHANGED processed

Confirmable ==
  {"requires_payment_method", "requires_confirmation", "requires_action"}

\* The payer confirms in the browser, or answers the challenge.
PayerActs ==
  /\ linked
  /\ \/ /\ pp \in Confirmable
        /\ attempts < MaxAttempts
        /\ attempts' = attempts + 1
        /\ \E r \in AttemptResults : ProviderMoves(r, "full")
     \/ /\ pp = "requires_action"
        /\ \E r \in AttemptResults \ {"requires_action"} :
             ProviderMoves(r, "full")
        /\ UNCHANGED attempts
  /\ UNCHANGED <<row, due, closedLocally, job, aborts>>

\* The bank decides an asynchronous attempt.
BankAnswers ==
  /\ pp = "processing"
  /\ \E r \in AttemptResults \ {"requires_action", "processing"} :
       ProviderMoves(r, "full")
  /\ UNCHANGED <<row, due, closedLocally, job, attempts, aborts>>

\* A held authorization that nobody captured is released.
HoldLapses ==
  /\ pp = "requires_capture"
  /\ ProviderMoves("canceled", "none")
  /\ UNCHANGED <<row, due, closedLocally, job, attempts, aborts>>

-----------------------------------------------------------------------------
\* createIntent: the row first, then the acquirer's payment, then the link.

Create(w) ==
  /\ status = "none"
  /\ status' = IF saved THEN "requires_confirmation"
                        ELSE "requires_payment_method"
  /\ \/ /\ Start(w, Job("create", status', "none", "none", 0))
        /\ UNCHANGED attempts
     \/ /\ saved
        /\ Start(w, Job("create_confirm", status', "none", "none", 0))
        /\ attempts' = attempts + 1
  /\ UNCHANGED <<linked, charged, received, outcomes, captureMethod, saved, due,
                 closedLocally, provider, aborts>>

\* A replay of the Idempotency-Key finds the row unlinked and resumes.
Resume(w) ==
  /\ status # "none" /\ ~linked
  /\ Start(w, Job("resume", "none", "none", "none", 0))
  /\ UNCHANGED <<row, due, closedLocally, provider, attempts, aborts>>

(***************************************************************************)
(* provider.createPayment under the key pay:<id>: one payment, however     *)
(* often it is asked for.  A confirming create is a different request, so  *)
(* the acquirer refuses it once the payment exists.                        *)
(***************************************************************************)
AttachProviderPayment(w) ==
  /\ \/ /\ At(w, "create_confirm") /\ pp = "none"
        /\ \E r \in AttemptResults :
             /\ ProviderMoves(r, "full")
             /\ Go(w, Job("link", job[w].from, StatusOf(r), "none", 0))
     \/ /\ At(w, "create_confirm") /\ pp # "none"
        /\ Finish(w)
        /\ UNCHANGED provider
     \/ /\ At(w, "create") \/ At(w, "resume")
        /\ pp' = IF pp # "none" THEN pp
                 ELSE IF saved /\ At(w, "create") THEN "requires_confirmation"
                 ELSE "requires_payment_method"
        /\ Go(w, Job("link", "none", "none", "none", 0))
        /\ UNCHANGED <<taken, events, processed>>
  /\ UNCHANGED <<row, due, closedLocally, attempts, aborts>>

\* linkProviderObject, and the answer of a confirming create applied.
LinkProviderObject(w) ==
  /\ At(w, "link")
  /\ linked' = TRUE
  /\ IF job[w].res = "none" THEN Finish(w)
     ELSE Go(w, [job[w] EXCEPT !.pc = "apply"])
  /\ UNCHANGED <<status, charged, received, outcomes, captureMethod, saved, due,
                 closedLocally, provider, attempts, aborts>>

-----------------------------------------------------------------------------
(***************************************************************************)
(* applyProviderPaymentResult: a provider answer becomes a transition from *)
(* the status the caller read.  Irreconcilable and stale answers write     *)
(* nothing; a stale one counts as agreed.                                  *)
(***************************************************************************)
EventForProviderStatus(s) ==
  CASE s = "requires_payment_method" -> "card_requires_payment_method"
    [] s = "requires_confirmation"   -> "card_requires_confirmation"
    [] s = "requires_action"         -> "card_requires_action"
    [] s = "processing"              -> "card_processing"
    [] s = "requires_capture"        -> "card_requires_capture"
    [] s = "succeeded"               -> "card_succeeded"
    [] s = "canceled"                -> "card_canceled"

AmountOf(j) == IF j.amt = "none" THEN "full" ELSE j.amt

ApplyProviderPaymentResult(w) ==
  LET j == job[w]
      event == EventForProviderStatus(j.res)
  IN
  /\ At(w, "apply")
  /\ \/ /\ ~CanApply(j.from, event, "card")
        /\ Finish(w)
        /\ UNCHANGED row
     \/ /\ CanApply(j.from, event, "card")
        /\ j.from = j.res \/ status # j.from
        /\ Done(w)
        /\ UNCHANGED row
     \/ /\ CanApply(j.from, event, "card")
        /\ j.from # j.res
        /\ TransitionIntent(j.from, j.res, AmountOf(j))
        /\ Done(w)
  /\ UNCHANGED <<due, closedLocally, provider, attempts, aborts>>

\* reconcileIntentWithProvider: read the acquirer, read the row again, apply.
AskProvider(w) ==
  /\ At(w, "ask")
  /\ Go(w, Job("reread", "none", pp, "none", job[w].ev))
  /\ UNCHANGED <<row, due, closedLocally, provider, attempts, aborts>>

RereadRow(w) ==
  /\ At(w, "reread")
  /\ IF status = "requires_payment_method" /\ job[w].res = status
     THEN Done(w)
     ELSE Go(w, [job[w] EXCEPT !.pc = "apply", !.from = status])
  /\ UNCHANGED <<row, due, closedLocally, provider, attempts, aborts>>

-----------------------------------------------------------------------------
\* POST /v1/payment_intents/:id/confirm with a saved payment method.

\* Up to setIntentPaymentMethod, itself a compare-and-swap on the status read.
Confirm(w) ==
  /\ status \in Confirmable /\ linked
  /\ attempts < MaxAttempts
  /\ attempts' = attempts + 1
  /\ Start(w, Job("confirm", status, "none", "none", 0))
  /\ UNCHANGED <<row, due, closedLocally, provider, aborts>>

ConfirmAtProvider(w) ==
  /\ At(w, "confirm")
  /\ \/ /\ pp \in Confirmable
        /\ \E r \in AttemptResults :
             /\ ProviderMoves(r, "full")
             /\ Go(w, Job("apply", job[w].from, StatusOf(r), "none", 0))
     \/ /\ pp \notin Confirmable
        /\ Finish(w)
        /\ UNCHANGED provider
  /\ UNCHANGED <<row, due, closedLocally, attempts, aborts>>

-----------------------------------------------------------------------------
\* POST /v1/payment_intents/:id/capture, in full or in part.

Capture(w) ==
  /\ status = "requires_capture" /\ linked
  /\ \E a \in CaptureAmounts :
       Start(w, Job("capture", status, "none", a, 0))
  /\ UNCHANGED <<row, due, closedLocally, provider, attempts, aborts>>

\* One capture per payment (key capture:<id>): a repeat gets the same answer.
CaptureAtProvider(w) ==
  LET a == job[w].amt
      repeat == pp = "succeeded" /\ taken = a
      answered == [job[w] EXCEPT !.pc = "apply", !.res = "succeeded"]
  IN
  /\ At(w, "capture")
  /\ \/ pp = "requires_capture" /\ ProviderMoves("succeeded", a) /\ Go(w, answered)
     \/ repeat /\ Go(w, answered) /\ UNCHANGED provider
     \/ /\ pp # "requires_capture" /\ ~repeat
        /\ Finish(w)
        /\ UNCHANGED provider
  /\ UNCHANGED <<row, due, closedLocally, attempts, aborts>>

-----------------------------------------------------------------------------
(***************************************************************************)
(* A merchant's cancel and the sweeper's expiry: call the payment off at   *)
(* the acquirer first, close the row second.  An unlinked row has nothing  *)
(* to call off.                                                            *)
(***************************************************************************)
CallOff(w) ==
  Start(w, Job(IF linked THEN "calloff" ELSE "close", status, "none", "none", 0))

Cancel(w) ==
  /\ status \in Cancellable
  /\ CallOff(w)
  /\ UNCHANGED <<row, due, closedLocally, provider, attempts, aborts>>

\* A faulty variant: only rows nobody has tried to pay expire.
ExpireUntried(w) ==
  /\ due /\ status = "requires_payment_method"
  /\ CallOff(w)
  /\ UNCHANGED <<row, due, closedLocally, provider, attempts, aborts>>

Expire(w) ==
  /\ due /\ status \in ExpirableStatuses
  /\ CallOff(w)
  /\ UNCHANGED <<row, due, closedLocally, provider, attempts, aborts>>

\* A faulty variant: a payment in flight is taken for called off.
CancelAtProviderInFlight(w) ==
  LET calledOff == [job[w] EXCEPT !.pc = "close", !.res = "canceled"] IN
  /\ At(w, "calloff")
  /\ \/ /\ pp \in Cancellable
        /\ ProviderMoves("canceled", "none") /\ Go(w, calledOff)
     \/ pp \in {"canceled", "processing"} /\ Go(w, calledOff) /\ UNCHANGED provider
     \/ /\ pp = "succeeded"
        /\ Go(w, Job("ask", "none", "none", "none", 0))
        /\ UNCHANGED provider
  /\ UNCHANGED <<row, due, closedLocally, attempts, aborts>>

CancelAtProvider(w) ==
  LET calledOff == [job[w] EXCEPT !.pc = "close", !.res = "canceled"] IN
  /\ At(w, "calloff")
  /\ \/ /\ pp \in Cancellable
        /\ ProviderMoves("canceled", "none") /\ Go(w, calledOff)
     \/ pp = "canceled" /\ Go(w, calledOff) /\ UNCHANGED provider
     \/ /\ pp = "succeeded"            \* settled: the payer was first
        /\ Go(w, Job("ask", "none", "none", "none", 0))
        /\ UNCHANGED provider
     \/ /\ pp = "processing"           \* in flight: not now
        /\ Finish(w)
        /\ UNCHANGED provider
  /\ UNCHANGED <<row, due, closedLocally, attempts, aborts>>

CloseRow(w) ==
  /\ At(w, "close")
  /\ \/ /\ TransitionIntent(job[w].from, "canceled", "none")
        /\ closedLocally' = (job[w].res # "canceled")
     \/ /\ status # job[w].from
        /\ UNCHANGED <<row, closedLocally>>
  /\ Finish(w)
  /\ UNCHANGED <<due, provider, attempts, aborts>>

-----------------------------------------------------------------------------
\* The stored events and their drain.

\* A drain's batch holds an event nobody had processed when it was read.
FetchEvent(w, e) ==
  /\ e \in DOMAIN events \ processed
  /\ Start(w, Job("read", "none", "none", "none", e))
  /\ UNCHANGED <<row, due, closedLocally, provider, attempts, aborts>>

\* No row claims the object yet: the event stays for a later pass.
FindIntentByProviderObject(w) ==
  /\ At(w, "read")
  /\ IF linked
     THEN Go(w, [job[w] EXCEPT !.pc = "interpret", !.from = status])
     ELSE Finish(w)
  /\ UNCHANGED <<row, due, closedLocally, provider, attempts, aborts>>

\* A faulty variant: an event that lost its compare-and-swap is marked.
ProcessProviderEventOnce(w) ==
  LET j == job[w]
      event == events[j.ev]
      target == TargetStatusFor(event)
  IN
  /\ At(w, "interpret")
  /\ IF CanApply(j.from, event, "card")
     THEN /\ IF status = j.from THEN TransitionIntent(j.from, target, "full")
                                ELSE UNCHANGED row
          /\ Done(w)
     ELSE /\ Go(w, Job("ask", "none", "none", "none", j.ev))
          /\ UNCHANGED row
  /\ UNCHANGED <<due, closedLocally, provider, attempts, aborts>>

ProcessProviderEvent(w) ==
  LET j == job[w]
      event == events[j.ev]
      target == TargetStatusFor(event)
  IN
  /\ At(w, "interpret")
  /\ \/ /\ ~CanApply(j.from, event, "card")
        /\ Go(w, Job("ask", "none", "none", "none", j.ev))
        /\ UNCHANGED row
     \/ /\ CanApply(j.from, event, "card")
        /\ target = j.from /\ event # "card_failed"
        /\ Done(w)
        /\ UNCHANGED row
     \/ /\ CanApply(j.from, event, "card")
        /\ target # j.from \/ event = "card_failed"
        /\ \/ TransitionIntent(j.from, target, "full") /\ Done(w)
           \/ status # j.from /\ Finish(w) /\ UNCHANGED row
  /\ UNCHANGED <<due, closedLocally, provider, attempts, aborts>>

MarkProviderEventProcessed(w) ==
  /\ At(w, "mark")
  /\ processed' = processed \cup {job[w].ev}
  /\ Finish(w)
  /\ UNCHANGED <<row, due, closedLocally, pp, taken, events, attempts, aborts>>

-----------------------------------------------------------------------------

ClockPasses ==
  /\ status # "none" /\ ~due
  /\ due' = TRUE
  /\ UNCHANGED <<row, closedLocally, provider, job, attempts, aborts>>

\* A task dies, an answer is lost, or the acquirer is down: the operation ends
\* where it was, with whatever it had done.
Abort(w) ==
  /\ job[w] # Idle
  /\ aborts < MaxAborts
  /\ aborts' = aborts + 1
  /\ Finish(w)
  /\ UNCHANGED <<row, due, closedLocally, provider, attempts>>

Step(w) ==
  \/ AttachProviderPayment(w) \/ LinkProviderObject(w) \/ ApplyProviderPaymentResult(w)
  \/ AskProvider(w) \/ RereadRow(w) \/ ConfirmAtProvider(w)
  \/ CaptureAtProvider(w) \/ CancelAtProvider(w)
  \/ CloseRow(w) \/ FindIntentByProviderObject(w) \/ ProcessProviderEvent(w)
  \/ MarkProviderEventProcessed(w)

Request(w) ==
  \/ Create(w) \/ Resume(w) \/ Confirm(w) \/ Capture(w) \/ Cancel(w)
  \/ Expire(w)

Next ==
  \/ \E w \in Workers : Step(w) \/ Request(w) \/ Abort(w)
  \/ \E w \in Workers, e \in DOMAIN events : FetchEvent(w, e)
  \/ PayerActs \/ BankAnswers \/ HoldLapses \/ ClockPasses

Spec == Init /\ [][Next]_vars

(***************************************************************************)
(* What the gateway's scheduling gives: an execution that started goes on, *)
(* the acquirer redelivers until an event is stored and decides what it is *)
(* processing, every pass of a drain tries each event of its batch, and    *)
(* every sweep tries each due row.                                         *)
(***************************************************************************)
EventIds == 1..(3 * MaxAttempts + 1)

Fairness ==
  /\ \A w \in Workers : WF_vars(Step(w))
  /\ \A e \in EventIds : SF_vars(\E w \in Workers : FetchEvent(w, e))
  /\ SF_vars(\E w \in Workers : Expire(w))
  /\ WF_vars(BankAnswers)

FairSpec == Spec /\ Fairness

-----------------------------------------------------------------------------
JobType ==
  [pc : Pcs, from : Statuses \cup {"none"},
   res : Statuses \cup {"none"}, amt : Amounts, ev : Nat]

TypeOK ==
  /\ status \in Statuses \cup {"none"}
  /\ linked \in BOOLEAN /\ charged \in BOOLEAN
  /\ received \in Amounts /\ taken \in Amounts
  /\ outcomes \in Seq(TerminalStatuses)
  /\ captureMethod \in CaptureMethods /\ saved \in SavedMethods
  /\ due \in BOOLEAN /\ closedLocally \in BOOLEAN
  /\ pp \in Statuses \cup {"none"}
  /\ events \in Seq(CardEvents) /\ processed \subseteq DOMAIN events
  /\ job \in [Workers -> JobType]
  /\ attempts \in Nat /\ aborts \in Nat

(***************************************************************************)
(* The merchant hears of one ending, and of the one the row has: however   *)
(* many handlers, sweeps and drains raced to end the payment, outcomes is  *)
(* empty while it can still be paid and holds exactly its status after     *)
(* (updateIntentState, which used to let two contradicting outcomes out).  *)
(***************************************************************************)
OutcomeTold ==
  outcomes = IF status \in TerminalStatuses THEN <<status>> ELSE <<>>

(***************************************************************************)
(* Peable never says succeeded of a payment the acquirer did not take: the *)
(* status, the received amount and the ch_ row appear only after the money *)
(* moved, whichever of the event, the re-read or the answer said so.       *)
(***************************************************************************)
SucceededIsPaid ==
  status = "succeeded" => pp = "succeeded" /\ charged /\ received # "none"

(***************************************************************************)
(* A cancellation that went to the acquirer first, or came from it, leaves *)
(* no payment that can still complete (expirySweeper.ts,                   *)
(* routes/paymentIntents.ts: cancel at the PROVIDER first).                *)
(***************************************************************************)
CalledOffFirst ==
  status = "canceled" /\ ~closedLocally => pp = "canceled"

(***************************************************************************)
(* What the proofs need of the answers and events in flight: they say an   *)
(* ending only if the acquirer's payment has it, a closing worker started  *)
(* from a status that may be called off, and a drain holds a real event.   *)
(***************************************************************************)
EventsTruthful ==
  \A e \in DOMAIN events :
    /\ pp # "none"
    /\ events[e] = "card_succeeded" => pp = "succeeded"
    /\ events[e] = "card_canceled" => pp = "canceled"

JobTruthful(j, paid, stored) ==
  /\ j.res = "succeeded" => paid = "succeeded"
  /\ j.res = "canceled" => paid = "canceled"
  /\ j.pc = "ask" => paid # "none"
  /\ j.pc \in {"reread", "apply"} => j.res \in Statuses
  /\ j.pc \in {"calloff", "close"} => j.from \in Cancellable
  /\ j.pc \in {"read", "interpret", "mark"} => j.ev # 0
  /\ j.ev # 0 => j.ev \in stored

JobsTruthful ==
  \A w \in Workers : JobTruthful(job[w], pp, DOMAIN events)

IndInv ==
  /\ TypeOK /\ EventsTruthful /\ JobsTruthful
  /\ OutcomeTold /\ SucceededIsPaid /\ CalledOffFirst

\* No status leaves an ending: not a late event, a retry or a lost race.
TerminalIsFinal ==
  [][(status \in TerminalStatuses) => (status' = status)]_vars

\* The row and what the merchant is told follow the published lifecycle.
Lifecycle == INSTANCE PaymentLifecycle WITH status <- status, outcomes <- outcomes
ImplementsLifecycle == Lifecycle!Spec

(***************************************************************************)
(* Money that was taken is reported: whatever is lost, stale or reordered, *)
(* a linked payment the acquirer took ends as succeeded, unless the row    *)
(* was closed without asking (the open window of the two-step create).     *)
(***************************************************************************)
SettlementArrives ==
  (pp = "succeeded" /\ linked) ~> (status = "succeeded" \/ closedLocally)

\* A payment nobody completes does not stay open past its expiry.
ExpiryEnds ==
  (due /\ status \in ExpirableStatuses) ~> (status \notin ExpirableStatuses)

(***************************************************************************)
(* expirySweeper.ts: a row is closed only once the acquirer can no longer  *)
(* complete its payment, so nobody pays after the merchant was told.       *)
(***************************************************************************)
NeverPaidAfterCancel == status = "canceled" => pp # "succeeded"

(***************************************************************************)
(* payment-intent.mdx: amount_received is the captured amount once         *)
(* succeeded.                                                              *)
(***************************************************************************)
ReceivedIsTaken == status = "succeeded" => received = taken

(***************************************************************************)
(* intentReconciliation.ts: what the drain does is right in any order.     *)
(* With every event processed and no work in progress, a payment that was  *)
(* authorized is the merchant's to capture.                                *)
(***************************************************************************)
Quiet ==
  /\ linked
  /\ \A w \in Workers : job[w] = Idle
  /\ processed = DOMAIN events

HeldIsCapturable ==
  Quiet /\ pp = "requires_capture" /\ ~closedLocally
    => status = "requires_capture"
=============================================================================
