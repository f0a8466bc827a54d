-------------------------- MODULE MCServices_proofs --------------------------
(***************************************************************************)
(* What AfterPayment_proofs and Collection_proofs prove for any constants, *)
(* carried over to the specification that MCServices has TLC check, as     *)
(* MCPayments_proofs does for MCPayments: `...Is` says that a component's  *)
(* definitions are those of an instance with its constants, `...Runs` that *)
(* a behaviour is the instance's or never has that focus.                  *)
(***************************************************************************)
EXTENDS MCServices, FiniteSetTheorems, TLAPS

\* RacedDispute and Settling.
After == INSTANCE AfterPayment_proofs WITH
  Drains <- Tasks, Requests <- {"request"}, Reordered <- TRUE, MaxNews <- 2, MaxAborts <- 1,
  Workers <- Tasks, Refs <- {"order1", "order2"}, ReversalRefs <- {"reversal"},
  Sellers <- [r \in {"order1", "order2"} |->
                IF r = "order1" THEN {"seller", "other"} ELSE {"seller"}],
  Charge <- 2, Amounts <- {1, 2}, MaxOutside <- 1, MaxFaults <- 1,
  Events <- {"event"}, Endpoints <- {"endpoint"}, Passes <- Tasks,
  ScheduleLength <- 1, BatchSize <- 2, MaxRedeliveries <- 1

\* LongDispute and Outbox.
LongAfter == INSTANCE AfterPayment_proofs WITH
  Drains <- {"drain"}, Requests <- {"request"}, Reordered <- TRUE, MaxNews <- 3,
  MaxAborts <- 1,
  Workers <- Tasks, Refs <- {"order1", "order2"}, ReversalRefs <- {"reversal"},
  Sellers <- [r \in {"order1", "order2"} |->
                IF r = "order1" THEN {"seller", "other"} ELSE {"seller"}],
  Charge <- 2, Amounts <- {1, 2}, MaxOutside <- 1, MaxFaults <- 0,
  Events <- {"event"}, Endpoints <- {"endpoint"}, Passes <- Tasks,
  ScheduleLength <- 1, BatchSize <- 2, MaxRedeliveries <- 1

\* Reader.
Reading == INSTANCE Collection_proofs WITH
  Readers <- {"r1"}, DeskPayments <- {"p1"}, MaxAttempts <- 2, Workers <- Tasks,
  MaxFaults <- 1,
  MaxInvoices <- 1, MaxPayments <- 2, MaxTries <- 1,
  MaxRequests <- 0, Retries <- 0, MayLackMethod <- FALSE,
  Outcomes <- {"succeeded", "requires_payment_method"}, FinalAction <- "unpaid",
  InvoiceAction <- "mark_uncollectible", FirstReason <- "subscription_cycle"

\* TwoReaders and Renewal.
Renewing == INSTANCE Collection_proofs WITH
  Readers <- {"r1", "r2"}, DeskPayments <- {"p1"}, MaxAttempts <- 2, Workers <- Tasks,
  MaxFaults <- 0,
  MaxInvoices <- 1, MaxPayments <- 2, MaxTries <- 1,
  MaxRequests <- 0, Retries <- 0, MayLackMethod <- FALSE,
  Outcomes <- {"succeeded", "requires_payment_method"}, FinalAction <- "unpaid",
  InvoiceAction <- "mark_uncollectible", FirstReason <- "subscription_cycle"

\* FirstInvoice.
Subscribing == INSTANCE Collection_proofs WITH
  Readers <- {}, DeskPayments <- {}, MaxAttempts <- 0,
  Workers <- {"task"}, MaxInvoices <- 2, MaxPayments <- 1, MaxTries <- 1,
  MaxRequests <- 1, MaxFaults <- 1, Retries <- 1, MayLackMethod <- FALSE,
  Outcomes <- {"succeeded", "requires_action", "processing", "requires_payment_method"},
  FinalAction <- "unpaid", InvoiceAction <- "mark_uncollectible",
  FirstReason <- "subscription_create"

\* Dunning.
Dunned == INSTANCE Collection_proofs WITH
  Readers <- {}, DeskPayments <- {}, MaxAttempts <- 0,
  Workers <- {"task"}, MaxInvoices <- 1, MaxPayments <- 1, MaxTries <- 1,
  MaxRequests <- 1, MaxFaults <- 1, Retries <- 1, MayLackMethod <- TRUE,
  Outcomes <- {"succeeded", "requires_action", "processing", "requires_payment_method"},
  FinalAction <- "cancel", InvoiceAction <- "leave_open",
  FirstReason <- "subscription_cycle"

-----------------------------------------------------------------------------
(* The components are the instances.                                       *)

LEMMA RacedDisputeIs ==
  /\ RacedDispute!DisputeBounds <=> After!Disp!DisputeBounds
  /\ RacedDispute!Init <=> After!Disp!Init
  /\ RacedDispute!Next <=> After!Disp!Next
  /\ RacedDispute!TypeOK <=> After!Disp!TypeOK
  /\ RacedDispute!CreatedToldOnce <=> After!Disp!CreatedToldOnce
  /\ RacedDispute!StatusWasTold <=> After!Disp!StatusWasTold
  /\ RacedDispute!OutcomeIsTrue <=> After!Disp!OutcomeIsTrue
  /\ RacedDispute!AnsweredIsTrue <=> After!Disp!AnsweredIsTrue
BY Zenon DEF RacedDispute!DisputeBounds, After!Disp!DisputeBounds, RacedDispute!Init,
  After!Disp!Init, RacedDispute!Next, After!Disp!Next, RacedDispute!TypeOK,
  After!Disp!TypeOK, RacedDispute!CreatedToldOnce, After!Disp!CreatedToldOnce,
  RacedDispute!StatusWasTold, After!Disp!StatusWasTold, RacedDispute!OutcomeIsTrue,
  After!Disp!OutcomeIsTrue, RacedDispute!AnsweredIsTrue, After!Disp!AnsweredIsTrue,
  RacedDispute!Workers, After!Disp!Workers, RacedDispute!Idle, After!Disp!Idle,
  RacedDispute!Opens, After!Disp!Opens, RacedDispute!MovesFunds,
  After!Disp!MovesFunds, RacedDispute!Reviews, After!Disp!Reviews,
  RacedDispute!Decides, After!Disp!Decides, RacedDispute!Ingest, After!Disp!Ingest,
  RacedDispute!DrainStep, After!Disp!DrainStep, RacedDispute!StartRequest,
  After!Disp!StartRequest, RacedDispute!RequestStep, After!Disp!RequestStep,
  RacedDispute!Abort, After!Disp!Abort, RacedDispute!DisputeStatuses,
  After!Disp!DisputeStatuses, RacedDispute!EventTypes, After!Disp!EventTypes,
  RacedDispute!Stored, After!Disp!Stored, RacedDispute!Pcs, After!Disp!Pcs,
  RacedDispute!Outcomes, After!Disp!Outcomes, RacedDispute!Job, After!Disp!Job,
  RacedDispute!Announces, After!Disp!Announces, RacedDispute!table, After!Disp!table,
  RacedDispute!outside, After!Disp!outside, RacedDispute!StartPass,
  After!Disp!StartPass, RacedDispute!ReadDispute, After!Disp!ReadDispute,
  RacedDispute!ReadBefore, After!Disp!ReadBefore, RacedDispute!UpsertDispute,
  After!Disp!UpsertDispute, RacedDispute!MarkProcessed, After!Disp!MarkProcessed,
  RacedDispute!At, After!Disp!At, RacedDispute!Answerable, After!Disp!Answerable,
  RacedDispute!Go, After!Disp!Go, RacedDispute!StageDraft, After!Disp!StageDraft,
  RacedDispute!RecordDraft, After!Disp!RecordDraft, RacedDispute!SubmitEvidence,
  After!Disp!SubmitEvidence, RacedDispute!RecordSubmission,
  After!Disp!RecordSubmission, RacedDispute!AcceptAtNetwork,
  After!Disp!AcceptAtNetwork, RacedDispute!CloseDisputeAsLost,
  After!Disp!CloseDisputeAsLost, RacedDispute!EventStatus, After!Disp!EventStatus,
  RacedDispute!Event, After!Disp!Event, RacedDispute!Skip, After!Disp!Skip,
  RacedDispute!DisputeNews, After!Disp!DisputeNews, RacedDispute!Tell,
  After!Disp!Tell, RacedDispute!Place, After!Disp!Place, RacedDispute!StatusForEvent,
  After!Disp!StatusForEvent

LEMMA RacedDisputeRuns == Spec => []~(focus = "RacedDispute") \/ After!Disp!Spec
<1>1. Init /\ focus = "RacedDispute" => After!Disp!Init BY RacedDisputeIs DEF Init
<1>2. focus = "RacedDispute" /\ [Next]_vars
        => [After!Disp!Next]_(After!Disp!vars) /\ (focus = "RacedDispute")'
  BY RacedDisputeIs DEF Next, DisputeNext, ReaderNext, BillingNext, SettlingNext, OutboxNext,
    vars,
     DisputeVars, ReaderVars, BillingVars, SettlingVars, OutboxVars,
     After!Disp!vars
<1>3. ~(focus = "RacedDispute") /\ [Next]_vars => ~(focus = "RacedDispute")'
  BY DEF Next, DisputeNext, ReaderNext, BillingNext, SettlingNext, OutboxNext, vars
<1> QED BY <1>1, <1>2, <1>3, PTL DEF Spec, After!Disp!Spec

LEMMA LongDisputeIs ==
  /\ LongDispute!DisputeBounds <=> LongAfter!Disp!DisputeBounds
  /\ LongDispute!Init <=> LongAfter!Disp!Init
  /\ LongDispute!Next <=> LongAfter!Disp!Next
  /\ LongDispute!TypeOK <=> LongAfter!Disp!TypeOK
  /\ LongDispute!CreatedToldOnce <=> LongAfter!Disp!CreatedToldOnce
  /\ LongDispute!StatusWasTold <=> LongAfter!Disp!StatusWasTold
  /\ LongDispute!OutcomeIsTrue <=> LongAfter!Disp!OutcomeIsTrue
  /\ LongDispute!AnsweredIsTrue <=> LongAfter!Disp!AnsweredIsTrue
BY Zenon DEF LongDispute!DisputeBounds, LongAfter!Disp!DisputeBounds,
  LongDispute!Init, LongAfter!Disp!Init, LongDispute!Next, LongAfter!Disp!Next,
  LongDispute!TypeOK, LongAfter!Disp!TypeOK, LongDispute!CreatedToldOnce,
  LongAfter!Disp!CreatedToldOnce, LongDispute!StatusWasTold,
  LongAfter!Disp!StatusWasTold, LongDispute!OutcomeIsTrue,
  LongAfter!Disp!OutcomeIsTrue, LongDispute!AnsweredIsTrue,
  LongAfter!Disp!AnsweredIsTrue, LongDispute!Workers, LongAfter!Disp!Workers,
  LongDispute!Idle, LongAfter!Disp!Idle, LongDispute!Opens, LongAfter!Disp!Opens,
  LongDispute!MovesFunds, LongAfter!Disp!MovesFunds, LongDispute!Reviews,
  LongAfter!Disp!Reviews, LongDispute!Decides, LongAfter!Disp!Decides,
  LongDispute!Ingest, LongAfter!Disp!Ingest, LongDispute!DrainStep,
  LongAfter!Disp!DrainStep, LongDispute!StartRequest, LongAfter!Disp!StartRequest,
  LongDispute!RequestStep, LongAfter!Disp!RequestStep, LongDispute!Abort,
  LongAfter!Disp!Abort, LongDispute!DisputeStatuses, LongAfter!Disp!DisputeStatuses,
  LongDispute!EventTypes, LongAfter!Disp!EventTypes, LongDispute!Stored,
  LongAfter!Disp!Stored, LongDispute!Pcs, LongAfter!Disp!Pcs, LongDispute!Outcomes,
  LongAfter!Disp!Outcomes, LongDispute!Job, LongAfter!Disp!Job,
  LongDispute!Announces, LongAfter!Disp!Announces, LongDispute!table,
  LongAfter!Disp!table, LongDispute!outside, LongAfter!Disp!outside,
  LongDispute!StartPass, LongAfter!Disp!StartPass, LongDispute!ReadDispute,
  LongAfter!Disp!ReadDispute, LongDispute!ReadBefore, LongAfter!Disp!ReadBefore,
  LongDispute!UpsertDispute, LongAfter!Disp!UpsertDispute, LongDispute!MarkProcessed,
  LongAfter!Disp!MarkProcessed, LongDispute!At, LongAfter!Disp!At,
  LongDispute!Answerable, LongAfter!Disp!Answerable, LongDispute!Go,
  LongAfter!Disp!Go, LongDispute!StageDraft, LongAfter!Disp!StageDraft,
  LongDispute!RecordDraft, LongAfter!Disp!RecordDraft, LongDispute!SubmitEvidence,
  LongAfter!Disp!SubmitEvidence, LongDispute!RecordSubmission,
  LongAfter!Disp!RecordSubmission, LongDispute!AcceptAtNetwork,
  LongAfter!Disp!AcceptAtNetwork, LongDispute!CloseDisputeAsLost,
  LongAfter!Disp!CloseDisputeAsLost, LongDispute!EventStatus,
  LongAfter!Disp!EventStatus, LongDispute!Event, LongAfter!Disp!Event,
  LongDispute!Skip, LongAfter!Disp!Skip, LongDispute!DisputeNews,
  LongAfter!Disp!DisputeNews, LongDispute!Tell, LongAfter!Disp!Tell,
  LongDispute!Place, LongAfter!Disp!Place, LongDispute!StatusForEvent,
  LongAfter!Disp!StatusForEvent

LEMMA LongDisputeRuns == Spec => []~(focus = "LongDispute") \/ LongAfter!Disp!Spec
<1>1. Init /\ focus = "LongDispute" => LongAfter!Disp!Init BY ZenonT(60), LongDisputeIs DEF Init
<1>2. focus = "LongDispute" /\ [Next]_vars
        => [LongAfter!Disp!Next]_(LongAfter!Disp!vars) /\ (focus = "LongDispute")'
  BY LongDisputeIs DEF Next, DisputeNext, ReaderNext, BillingNext, SettlingNext, OutboxNext,
    vars,
     DisputeVars, ReaderVars, BillingVars, SettlingVars, OutboxVars,
     LongAfter!Disp!vars
<1>3. ~(focus = "LongDispute") /\ [Next]_vars => ~(focus = "LongDispute")'
  BY DEF Next, DisputeNext, ReaderNext, BillingNext, SettlingNext, OutboxNext, vars
<1> QED BY <1>1, <1>2, <1>3, PTL DEF Spec, LongAfter!Disp!Spec

LEMMA ReaderIs ==
  /\ Reader!TerminalBounds <=> Reading!Desk!TerminalBounds
  /\ Reader!Init <=> Reading!Desk!Init
  /\ Reader!Next <=> Reading!Desk!Next
  /\ Reader!TypeOK <=> Reading!Desk!TypeOK
  /\ Reader!SettledOnce <=> Reading!Desk!SettledOnce
  /\ Reader!SuccessWasTaken <=> Reading!Desk!SuccessWasTaken
BY Zenon DEF Reader!TerminalBounds, Reading!Desk!TerminalBounds, Reader!Init,
  Reading!Desk!Init, Reader!Next, Reading!Desk!Next, Reader!TypeOK,
  Reading!Desk!TypeOK, Reader!SettledOnce, Reading!Desk!SettledOnce,
  Reader!SuccessWasTaken, Reading!Desk!SuccessWasTaken, Reader!NoAction,
  Reading!Desk!NoAction, Reader!NoCollection, Reading!Desk!NoCollection,
  Reader!Outcomes, Reading!Desk!Outcomes, Reader!Idle, Reading!Desk!Idle,
  Reader!Step, Reading!Desk!Step, Reader!Taps, Reading!Desk!Taps,
  Reader!DeviceResets, Reading!Desk!DeviceResets, Reader!PaymentReported,
  Reading!Desk!PaymentReported, Reader!ClaimAges, Reading!Desk!ClaimAges, Reader!Pcs,
  Reading!Desk!Pcs, Reader!StartCollection, Reading!Desk!StartCollection,
  Reader!ReadBefore, Reading!Desk!ReadBefore, Reader!ClaimReaderAction,
  Reading!Desk!ClaimReaderAction, Reader!ClaimRefused, Reading!Desk!ClaimRefused,
  Reader!SendCollection, Reading!Desk!SendCollection, Reader!SendCollectionLost,
  Reading!Desk!SendCollectionLost, Reader!ReleaseReaderAction,
  Reading!Desk!ReleaseReaderAction, Reader!AcknowledgeReaderAction,
  Reading!Desk!AcknowledgeReaderAction, Reader!StartReconcile,
  Reading!Desk!StartReconcile, Reader!AskReader, Reading!Desk!AskReader,
  Reader!CancelReaderAction, Reading!Desk!CancelReaderAction, Reader!RefreshDevice,
  Reading!Desk!RefreshDevice, Reader!PaymentWasTaken, Reading!Desk!PaymentWasTaken,
  Reader!PaymentUnreadable, Reading!Desk!PaymentUnreadable,
  Reader!SettleReaderAction, Reading!Desk!SettleReaderAction, Reader!Abort,
  Reading!Desk!Abort, Reader!Fault, Reading!Desk!Fault, Reader!provider,
  Reading!Desk!provider, Reader!InProgress, Reading!Desk!InProgress, Reader!Reader,
  Reading!Desk!Reader, Reader!At, Reading!Desk!At, Reader!Go, Reading!Desk!Go,
  Reader!CollectedElsewhere, Reading!Desk!CollectedElsewhere, Reader!AboutThis,
  Reading!Desk!AboutThis, Reader!Settleable, Reading!Desk!Settleable

LEMMA ReaderRuns == Spec => []~(focus = "Reader") \/ Reading!Desk!Spec
<1>1. Init /\ focus = "Reader" => Reading!Desk!Init BY ReaderIs DEF Init
<1>2. focus = "Reader" /\ [Next]_vars
        => [Reading!Desk!Next]_(Reading!Desk!vars) /\ (focus = "Reader")'
  BY ReaderIs DEF Next, DisputeNext, ReaderNext, BillingNext, SettlingNext, OutboxNext, vars,
     DisputeVars, ReaderVars, BillingVars, SettlingVars, OutboxVars,
     Reading!Desk!vars
<1>3. ~(focus = "Reader") /\ [Next]_vars => ~(focus = "Reader")'
  BY DEF Next, DisputeNext, ReaderNext, BillingNext, SettlingNext, OutboxNext, vars
<1> QED BY <1>1, <1>2, <1>3, PTL DEF Spec, Reading!Desk!Spec

LEMMA TwoReadersIs ==
  /\ TwoReaders!TerminalBounds <=> Renewing!Desk!TerminalBounds
  /\ TwoReaders!Init <=> Renewing!Desk!Init
  /\ TwoReaders!Next <=> Renewing!Desk!Next
  /\ TwoReaders!TypeOK <=> Renewing!Desk!TypeOK
  /\ TwoReaders!SettledOnce <=> Renewing!Desk!SettledOnce
  /\ TwoReaders!SuccessWasTaken <=> Renewing!Desk!SuccessWasTaken
  /\ TwoReaders!OneCollector <=> Renewing!Desk!OneCollector
BY Zenon DEF TwoReaders!TerminalBounds, Renewing!Desk!TerminalBounds,
  TwoReaders!Init, Renewing!Desk!Init, TwoReaders!Next, Renewing!Desk!Next,
  TwoReaders!TypeOK, Renewing!Desk!TypeOK, TwoReaders!SettledOnce,
  Renewing!Desk!SettledOnce, TwoReaders!SuccessWasTaken,
  Renewing!Desk!SuccessWasTaken, TwoReaders!OneCollector, Renewing!Desk!OneCollector,
  TwoReaders!NoAction, Renewing!Desk!NoAction, TwoReaders!NoCollection,
  Renewing!Desk!NoCollection, TwoReaders!Outcomes, Renewing!Desk!Outcomes,
  TwoReaders!Idle, Renewing!Desk!Idle, TwoReaders!Step, Renewing!Desk!Step,
  TwoReaders!Taps, Renewing!Desk!Taps, TwoReaders!DeviceResets,
  Renewing!Desk!DeviceResets, TwoReaders!PaymentReported,
  Renewing!Desk!PaymentReported, TwoReaders!ClaimAges, Renewing!Desk!ClaimAges,
  TwoReaders!Pcs, Renewing!Desk!Pcs, TwoReaders!InProgress, Renewing!Desk!InProgress,
  TwoReaders!StartCollection, Renewing!Desk!StartCollection, TwoReaders!ReadBefore,
  Renewing!Desk!ReadBefore, TwoReaders!ClaimReaderAction,
  Renewing!Desk!ClaimReaderAction, TwoReaders!ClaimRefused,
  Renewing!Desk!ClaimRefused, TwoReaders!SendCollection,
  Renewing!Desk!SendCollection, TwoReaders!SendCollectionLost,
  Renewing!Desk!SendCollectionLost, TwoReaders!ReleaseReaderAction,
  Renewing!Desk!ReleaseReaderAction, TwoReaders!AcknowledgeReaderAction,
  Renewing!Desk!AcknowledgeReaderAction, TwoReaders!StartReconcile,
  Renewing!Desk!StartReconcile, TwoReaders!AskReader, Renewing!Desk!AskReader,
  TwoReaders!CancelReaderAction, Renewing!Desk!CancelReaderAction,
  TwoReaders!RefreshDevice, Renewing!Desk!RefreshDevice, TwoReaders!PaymentWasTaken,
  Renewing!Desk!PaymentWasTaken, TwoReaders!PaymentUnreadable,
  Renewing!Desk!PaymentUnreadable, TwoReaders!SettleReaderAction,
  Renewing!Desk!SettleReaderAction, TwoReaders!Abort, Renewing!Desk!Abort,
  TwoReaders!Fault, Renewing!Desk!Fault, TwoReaders!provider, Renewing!Desk!provider,
  TwoReaders!Reader, Renewing!Desk!Reader, TwoReaders!At, Renewing!Desk!At,
  TwoReaders!Go, Renewing!Desk!Go, TwoReaders!CollectedElsewhere,
  Renewing!Desk!CollectedElsewhere, TwoReaders!AboutThis, Renewing!Desk!AboutThis,
  TwoReaders!Settleable, Renewing!Desk!Settleable

LEMMA TwoReadersRuns == Spec => []~(focus = "TwoReaders") \/ Renewing!Desk!Spec
<1>1. Init /\ focus = "TwoReaders" => Renewing!Desk!Init BY TwoReadersIs DEF Init
<1>2. focus = "TwoReaders" /\ [Next]_vars
        => [Renewing!Desk!Next]_(Renewing!Desk!vars) /\ (focus = "TwoReaders")'
  BY TwoReadersIs DEF Next, DisputeNext, ReaderNext, BillingNext, SettlingNext, OutboxNext,
    vars,
     DisputeVars, ReaderVars, BillingVars, SettlingVars, OutboxVars,
     Renewing!Desk!vars
<1>3. ~(focus = "TwoReaders") /\ [Next]_vars => ~(focus = "TwoReaders")'
  BY DEF Next, DisputeNext, ReaderNext, BillingNext, SettlingNext, OutboxNext, vars
<1> QED BY <1>1, <1>2, <1>3, PTL DEF Spec, Renewing!Desk!Spec

LEMMA RenewalIs ==
  /\ Renewal!CollectionBounds <=> Renewing!CollectionBounds
  /\ Renewal!Init <=> Renewing!Init
  /\ Renewal!Next <=> Renewing!Next
  /\ Renewal!TypeOK <=> Renewing!TypeOK
  /\ Renewal!ChargedOnce <=> Renewing!ChargedOnce
  /\ Renewal!PaidIsCharged <=> Renewing!PaidIsCharged
  /\ Renewal!PaidRestores <=> Renewing!PaidRestores
<1>1. Renewal!CollectionBounds <=> Renewing!CollectionBounds
    BY Zenon DEF Renewal!CollectionBounds, Renewing!CollectionBounds
<1>2. Renewal!Init <=> Renewing!Init
    BY ZenonT(60) DEF Renewal!Init, Renewing!Init, Renewal!Invoices, Renewing!Invoices,
    Renewal!NoInvoice, Renewing!NoInvoice, Renewal!Payments, Renewing!Payments,
    Renewal!Idle, Renewing!Idle
<1>3. Renewal!Next <=> Renewing!Next
  <2>1. \A b, to :
          Renewal!TransitionSubscription(b, to) = Renewing!TransitionSubscription(b, to)
    BY Zenon DEF Renewal!TransitionSubscription, Renewing!TransitionSubscription,
      Renewal!SubscriptionMayMove, Renewing!SubscriptionMayMove,
      Renewal!SubscriptionAllowed, Renewing!SubscriptionAllowed
  <2>2. \A b, i :
          Renewal!MarkSubscriptionPastDue(b, i) = Renewing!MarkSubscriptionPastDue(b, i)
    BY <2>1 DEF Renewal!MarkSubscriptionPastDue, Renewing!MarkSubscriptionPastDue,
      Renewal!Reason, Renewing!Reason
  <2>3. \A b, i :
          Renewal!RunFinalDunningAction(b, i) = Renewing!RunFinalDunningAction(b, i)
    BY <2>1 DEF Renewal!RunFinalDunningAction, Renewing!RunFinalDunningAction
  <2>4. \A b, i :
          Renewal!RecordFailedAttempt(b, i) = Renewing!RecordFailedAttempt(b, i)
    <3> SUFFICES ASSUME NEW b, NEW i
                 PROVE  Renewal!RecordFailedAttempt(b, i)
                          = Renewing!RecordFailedAttempt(b, i)
      OBVIOUS
    <3> DEFINE dunned == Renewal!Reason(i) # "subscription_create"
               again == dunned /\ b.inv[i].attempts + 1 <= 0
               row == [b EXCEPT !.inv[i].attempts = b.inv[i].attempts + 1,
                                !.inv[i].due = IF again THEN "later" ELSE "none"]
               counted == Renewal!MarkSubscriptionPastDue(row, i)
               countedToo == Renewing!MarkSubscriptionPastDue(row, i)
               spent == dunned /\ ~again
    <3>1. counted = countedToo
      BY Zenon, <2>2
    <3>2. Renewal!RunFinalDunningAction(counted, i)
            = Renewing!RunFinalDunningAction(counted, i)
      BY Zenon, <2>3
    <3>3. Renewal!RecordFailedAttempt(b, i)
            = IF spent THEN Renewal!RunFinalDunningAction(counted, i) ELSE counted
      BY ZenonT(60) DEF Renewal!RecordFailedAttempt
    <3>4. Renewing!RecordFailedAttempt(b, i)
            = IF spent THEN Renewing!RunFinalDunningAction(countedToo, i)
              ELSE countedToo
      BY ZenonT(60) DEF Renewing!RecordFailedAttempt, Renewal!Reason, Renewing!Reason
    <3> HIDE DEF counted, countedToo, spent
    <3> QED BY <3>1, <3>2, <3>3, <3>4
  <2>5. \A b, i : Renewal!ActivateOnPayment(b, i) = Renewing!ActivateOnPayment(b, i)
    BY Zenon DEF Renewal!ActivateOnPayment, Renewing!ActivateOnPayment,
      Renewal!TransitionSubscription, Renewing!TransitionSubscription,
      Renewal!SubscriptionMayMove, Renewing!SubscriptionMayMove,
      Renewal!SubscriptionAllowed, Renewing!SubscriptionAllowed
  <2>6. \A b, k, from, to :
          Renewal!OnPaymentTransition(b, k, from, to)
            = Renewing!OnPaymentTransition(b, k, from, to)
    <3> SUFFICES ASSUME NEW b, NEW k, NEW from, NEW to
                 PROVE  Renewal!OnPaymentTransition(b, k, from, to)
                          = Renewing!OnPaymentTransition(b, k, from, to)
      OBVIOUS
    <3> DEFINE i == CHOOSE j \in Renewal!Invoices : b.inv[j].link = k
               open == b.inv[i].status = "open"
               waiting == [b EXCEPT !.inv[i].attempts = b.inv[i].attempts + 1,
                                    !.inv[i].due = "none"]
               freed == [b EXCEPT !.inv[i].link = 0]
               notLinked == \A j \in Renewal!Invoices : b.inv[j].link # k
               pays == to = "succeeded" /\ Renewal!PayableInvoice(b.inv[i].status)
               declines == open /\ to = "requires_payment_method"
               asks == open /\ to = "requires_action" /\ from # to
               cancels == open /\ to = "canceled"
               settled == Renewal!MarkInvoicePaid(b, i, TRUE)
               settledToo == Renewing!MarkInvoicePaid(b, i, TRUE)
    <3>1. settled = settledToo
      <4> DEFINE marked == [b EXCEPT !.inv[i] = Renewal!PaidRow(b.inv[i], TRUE)]
      <4>1. settled = Renewal!ActivateOnPayment(marked, i)
        BY ZenonT(60) DEF Renewal!MarkInvoicePaid
      <4>2. settledToo = Renewing!ActivateOnPayment(marked, i)
        BY ZenonT(60) DEF Renewing!MarkInvoicePaid, Renewal!PaidRow, Renewing!PaidRow
      <4> HIDE DEF marked
      <4> QED BY ZenonT(60), <2>5, <4>1, <4>2
    <3>2. Renewal!RecordFailedAttempt(b, i) = Renewing!RecordFailedAttempt(b, i)
      BY Zenon, <2>4
    <3>3. Renewal!MarkSubscriptionPastDue(waiting, i)
            = Renewing!MarkSubscriptionPastDue(waiting, i)
      BY Zenon, <2>2
    <3>4. Renewal!OnPaymentTransition(b, k, from, to)
            = IF notLinked THEN b
              ELSE IF pays THEN settled
              ELSE IF declines THEN Renewal!RecordFailedAttempt(b, i)
              ELSE IF asks THEN Renewal!MarkSubscriptionPastDue(waiting, i)
              ELSE IF cancels THEN freed ELSE b
      BY ZenonT(60) DEF Renewal!OnPaymentTransition
    <3>5. Renewing!OnPaymentTransition(b, k, from, to)
            = IF notLinked THEN b
              ELSE IF pays THEN settledToo
              ELSE IF declines THEN Renewing!RecordFailedAttempt(b, i)
              ELSE IF asks THEN Renewing!MarkSubscriptionPastDue(waiting, i)
              ELSE IF cancels THEN freed ELSE b
      BY ZenonT(60) DEF Renewing!OnPaymentTransition, Renewal!Invoices, Renewing!Invoices,
        Renewal!PayableInvoice, Renewing!PayableInvoice
    <3> HIDE DEF i, waiting, freed, notLinked, pays, declines, asks, cancels, settled,
      settledToo
    <3> QED BY <3>1, <3>2, <3>3, <3>4, <3>5
  <2>7. \A k, from, to :
          Renewal!TransitionIntent(k, from, to) <=> Renewing!TransitionIntent(k, from, to)
    BY <2>6 DEF Renewal!TransitionIntent, Renewing!TransitionIntent, Renewal!Commit,
      Renewing!Commit, Renewal!Rows, Renewing!Rows, Renewal!billing, Renewing!billing
  <2>8. \A s, k, r : Renewal!CanApply(s, k, r) <=> Renewing!CanApply(s, k, r)
    BY ZenonT(60) DEF Renewal!CanApply, Renewing!CanApply, Renewal!RailsOf,
      Renewing!RailsOf, Renewal!TargetStatusFor, Renewing!TargetStatusFor,
      Renewal!LegalSources, Renewing!LegalSources, Renewal!IsValidStatusTransition,
      Renewing!IsValidStatusTransition, Renewal!ChainEvents, Renewing!ChainEvents,
      Renewal!CardEvents, Renewing!CardEvents, Renewal!Rails, Renewing!Rails,
      Renewal!ExpirableStatuses, Renewing!ExpirableStatuses, Renewal!Cancellable,
      Renewing!Cancellable, Renewal!Allowed, Renewing!Allowed, Renewal!Statuses,
      Renewing!Statuses
  <2>9. \A k : Renewal!TargetStatusFor(k) = Renewing!TargetStatusFor(k)
    BY Zenon DEF Renewal!TargetStatusFor, Renewing!TargetStatusFor
  <2>10. \A o : Renewal!CardEvent(o) = Renewing!CardEvent(o)
    BY Zenon DEF Renewal!CardEvent, Renewing!CardEvent
  <2>11. \A w : Renewal!ApplyAnswer(w) <=> Renewing!ApplyAnswer(w)
    BY <2>7, <2>8, <2>9, <2>10 DEF Renewal!ApplyAnswer, Renewing!ApplyAnswer,
      Renewal!Idle, Renewing!Idle, Renewal!billing, Renewing!billing
  <2>12. \A w :
          Renewal!RecordMissingPaymentMethod(w) <=> Renewing!RecordMissingPaymentMethod(w)
    BY ZenonT(60), <2>4 DEF Renewal!RecordMissingPaymentMethod,
      Renewing!RecordMissingPaymentMethod, Renewal!Rows, Renewing!Rows,
      Renewal!Finish, Renewing!Finish, Renewal!Idle, Renewing!Idle
  <2>13. \A e : Renewal!ProcessProviderEvent(e) <=> Renewing!ProcessProviderEvent(e)
    BY <2>7, <2>8, <2>9, <2>10 DEF Renewal!ProcessProviderEvent,
      Renewing!ProcessProviderEvent, Renewal!billing, Renewing!billing
  <2>14. \A w : Renewal!IntentFor(w) <=> Renewing!IntentFor(w)
    BY Zenon DEF Renewal!IntentFor, Renewing!IntentFor, Renewal!Payments,
      Renewing!Payments, Renewal!Finish, Renewing!Finish, Renewal!Idle, Renewing!Idle
  <2>15. \A w : Renewal!LinkIntent(w) <=> Renewing!LinkIntent(w)
    BY Zenon DEF Renewal!LinkIntent, Renewing!LinkIntent, Renewal!MayLink,
      Renewing!MayLink, Renewal!AcquirerMoves, Renewing!AcquirerMoves,
      Renewal!Finish, Renewing!Finish, Renewal!CardEvent, Renewing!CardEvent,
      Renewal!Idle, Renewing!Idle
  <2>16. \A w, h : Renewal!Confirm(w, h) <=> Renewing!Confirm(w, h)
    BY ZenonT(60) DEF Renewal!Confirm, Renewing!Confirm, Renewal!Keyed, Renewing!Keyed,
      Renewal!Chargeable, Renewing!Chargeable, Renewal!Try, Renewing!Try,
      Renewal!Finish, Renewing!Finish, Renewal!AcquirerMoves, Renewing!AcquirerMoves,
      Renewal!Idle, Renewing!Idle, Renewal!CardEvent, Renewing!CardEvent
  <2>17. \A w : Renewal!RunInvoiceStep(w) <=> Renewing!RunInvoiceStep(w)
    BY Zenon DEF Renewal!RunInvoiceStep, Renewing!RunInvoiceStep, Renewal!Finish,
      Renewing!Finish, Renewal!PayableInvoice, Renewing!PayableInvoice, Renewal!Goto,
      Renewing!Goto, Renewal!Idle, Renewing!Idle
  <2>18. \A w : Renewal!AttemptInvoicePayment(w) <=> Renewing!AttemptInvoicePayment(w)
    BY Zenon DEF Renewal!AttemptInvoicePayment, Renewing!AttemptInvoicePayment,
      Renewal!PayableInvoice, Renewing!PayableInvoice, Renewal!Finish,
      Renewing!Finish, Renewal!Idle, Renewing!Idle
  <2>19. \A w : Renewal!SettleAttemptSchedule(w) <=> Renewing!SettleAttemptSchedule(w)
    BY Zenon DEF Renewal!SettleAttemptSchedule, Renewing!SettleAttemptSchedule,
      Renewal!Finish, Renewing!Finish, Renewal!Idle, Renewing!Idle
  <2>20. \A w : Renewal!DeferAttempt(w) <=> Renewing!DeferAttempt(w)
    BY Zenon DEF Renewal!DeferAttempt, Renewing!DeferAttempt, Renewal!Finish,
      Renewing!Finish, Renewal!Idle, Renewing!Idle
  <2>21. Renewal!ExpireIncomplete <=> Renewing!ExpireIncomplete
    BY Zenon DEF Renewal!ExpireIncomplete, Renewing!ExpireIncomplete,
      Renewal!TransitionSubscription, Renewing!TransitionSubscription, Renewal!Rows,
      Renewing!Rows, Renewal!Commit, Renewing!Commit, Renewal!PayableInvoice,
      Renewing!PayableInvoice, Renewal!VoidInvoiceIn, Renewing!VoidInvoiceIn,
      Renewal!SubscriptionMayMove, Renewing!SubscriptionMayMove,
      Renewal!SubscriptionAllowed, Renewing!SubscriptionAllowed
  <2>22. Renewal!CancelSubscriptionNow <=> Renewing!CancelSubscriptionNow
    BY Zenon DEF Renewal!CancelSubscriptionNow, Renewing!CancelSubscriptionNow,
      Renewal!SubscriptionIsTerminal, Renewing!SubscriptionIsTerminal,
      Renewal!Commit, Renewing!Commit, Renewal!TransitionSubscription,
      Renewing!TransitionSubscription, Renewal!Rows, Renewing!Rows,
      Renewal!SubscriptionAllowed, Renewing!SubscriptionAllowed,
      Renewal!SubscriptionMayMove, Renewing!SubscriptionMayMove
  <2>23. \A i : Renewal!PaidOutOfBand(i) <=> Renewing!PaidOutOfBand(i)
    BY Zenon DEF Renewal!PaidOutOfBand, Renewing!PaidOutOfBand,
      Renewal!PayableInvoice, Renewing!PayableInvoice, Renewal!Commit,
      Renewing!Commit, Renewal!MarkInvoicePaid, Renewing!MarkInvoicePaid,
      Renewal!Rows, Renewing!Rows, Renewal!ActivateOnPayment,
      Renewing!ActivateOnPayment, Renewal!PaidRow, Renewing!PaidRow,
      Renewal!TransitionSubscription, Renewing!TransitionSubscription,
      Renewal!SubscriptionMayMove, Renewing!SubscriptionMayMove,
      Renewal!SubscriptionAllowed, Renewing!SubscriptionAllowed
  <2>24. \A i : Renewal!FinalizeInvoice(i) <=> Renewing!FinalizeInvoice(i)
    BY Zenon DEF Renewal!FinalizeInvoice, Renewing!FinalizeInvoice
  <2> QED
    BY ZenonT(60), <2>11, <2>12, <2>13, <2>14, <2>15, <2>16, <2>17, <2>18, <2>19, <2>20, <2>21,
      <2>22, <2>23, <2>24 DEF Renewal!Next, Renewing!Next, Renewal!Attempt,
      Renewing!Attempt, Renewal!LoseAnswer, Renewing!LoseAnswer, Renewal!Outage,
      Renewing!Outage, Renewal!Crash, Renewing!Crash, Renewal!Invoices,
      Renewing!Invoices, Renewal!ClaimDueInvoice, Renewing!ClaimDueInvoice,
      Renewal!PayInvoice, Renewing!PayInvoice, Renewal!Payments, Renewing!Payments,
      Renewal!PayerConfirms, Renewing!PayerConfirms, Renewal!AcquirerSettles,
      Renewing!AcquirerSettles, Renewal!CancelPayment, Renewing!CancelPayment,
      Renewal!LeaseLapses, Renewing!LeaseLapses, Renewal!FallsDue, Renewing!FallsDue,
      Renewal!VoidInvoice, Renewing!VoidInvoice, Renewal!MarkInvoiceUncollectible,
      Renewing!MarkInvoiceUncollectible, Renewal!Renew, Renewing!Renew,
      Renewal!Prepare, Renewing!Prepare, Renewal!ConfirmCard, Renewing!ConfirmCard,
      Renewal!Goto, Renewing!Goto, Renewal!Idle, Renewing!Idle, Renewal!billing,
      Renewing!billing, Renewal!PayableInvoice, Renewing!PayableInvoice,
      Renewal!Chargeable, Renewing!Chargeable, Renewal!Try, Renewing!Try,
      Renewal!AcquirerMoves, Renewing!AcquirerMoves, Renewal!Commit, Renewing!Commit,
      Renewal!VoidInvoiceIn, Renewing!VoidInvoiceIn, Renewal!Rows, Renewing!Rows,
      Renewal!CardEvent, Renewing!CardEvent
<1>4. Renewal!TypeOK <=> Renewing!TypeOK
    BY Zenon DEF Renewal!TypeOK, Renewing!TypeOK, Renewal!SubscriptionAllowed,
    Renewing!SubscriptionAllowed, Renewal!Invoices, Renewing!Invoices,
    Renewal!Instants, Renewing!Instants, Renewal!Payments, Renewing!Payments,
    Renewal!Statuses, Renewing!Statuses, Renewal!CardEvents, Renewing!CardEvents
<1>5. Renewal!ChargedOnce <=> Renewing!ChargedOnce
    BY Zenon DEF Renewal!ChargedOnce, Renewing!ChargedOnce, Renewal!Invoices,
    Renewing!Invoices, Renewal!Cardinality, Renewing!Cardinality, Renewal!Payments,
    Renewing!Payments
<1>6. Renewal!PaidIsCharged <=> Renewing!PaidIsCharged
    BY Zenon DEF Renewal!PaidIsCharged, Renewing!PaidIsCharged, Renewal!Invoices,
    Renewing!Invoices, Renewal!Payments, Renewing!Payments
<1>7. Renewal!PaidRestores <=> Renewing!PaidRestores
    BY Zenon DEF Renewal!PaidRestores, Renewing!PaidRestores
<1> QED BY <1>1, <1>2, <1>3, <1>4, <1>5, <1>6, <1>7

LEMMA RenewalRuns == Spec => []~(focus = "Renewal") \/ Renewing!Spec
<1>1. Init /\ focus = "Renewal" => Renewing!Init BY RenewalIs DEF Init
<1>2. focus = "Renewal" /\ [Next]_vars
        => [Renewing!Next]_(Renewing!vars) /\ (focus = "Renewal")'
  BY RenewalIs DEF Next, DisputeNext, ReaderNext, BillingNext, SettlingNext, OutboxNext, vars,
     DisputeVars, ReaderVars, BillingVars, SettlingVars, OutboxVars,
     Renewing!vars
<1>3. ~(focus = "Renewal") /\ [Next]_vars => ~(focus = "Renewal")'
  BY DEF Next, DisputeNext, ReaderNext, BillingNext, SettlingNext, OutboxNext, vars
<1> QED BY <1>1, <1>2, <1>3, PTL DEF Spec, Renewing!Spec

LEMMA FirstInvoiceIs ==
  /\ FirstInvoice!CollectionBounds <=> Subscribing!CollectionBounds
  /\ FirstInvoice!Init <=> Subscribing!Init
  /\ FirstInvoice!Next <=> Subscribing!Next
  /\ FirstInvoice!TypeOK <=> Subscribing!TypeOK
  /\ FirstInvoice!ChargedOnce <=> Subscribing!ChargedOnce
  /\ FirstInvoice!PaidIsCharged <=> Subscribing!PaidIsCharged
  /\ FirstInvoice!PaidRestores <=> Subscribing!PaidRestores
<1>1. FirstInvoice!CollectionBounds <=> Subscribing!CollectionBounds
    BY Zenon DEF FirstInvoice!CollectionBounds, Subscribing!CollectionBounds
<1>2. FirstInvoice!Init <=> Subscribing!Init
    BY ZenonT(60) DEF FirstInvoice!Init, Subscribing!Init, FirstInvoice!Invoices,
    Subscribing!Invoices, FirstInvoice!NoInvoice, Subscribing!NoInvoice,
    FirstInvoice!Payments, Subscribing!Payments, FirstInvoice!Idle, Subscribing!Idle
<1>3. FirstInvoice!Next <=> Subscribing!Next
  <2>1. \A b, to :
          FirstInvoice!TransitionSubscription(b, to)
            = Subscribing!TransitionSubscription(b, to)
    BY Zenon DEF FirstInvoice!TransitionSubscription,
      Subscribing!TransitionSubscription, FirstInvoice!SubscriptionMayMove,
      Subscribing!SubscriptionMayMove, FirstInvoice!SubscriptionAllowed,
      Subscribing!SubscriptionAllowed
  <2>2. \A b, i :
          FirstInvoice!MarkSubscriptionPastDue(b, i)
            = Subscribing!MarkSubscriptionPastDue(b, i)
    BY <2>1 DEF FirstInvoice!MarkSubscriptionPastDue,
      Subscribing!MarkSubscriptionPastDue, FirstInvoice!Reason, Subscribing!Reason
  <2>3. \A b, i :
          FirstInvoice!RunFinalDunningAction(b, i) = Subscribing!RunFinalDunningAction(b, i)
    BY <2>1 DEF FirstInvoice!RunFinalDunningAction, Subscribing!RunFinalDunningAction
  <2>4. \A b, i :
          FirstInvoice!RecordFailedAttempt(b, i) = Subscribing!RecordFailedAttempt(b, i)
    <3> SUFFICES ASSUME NEW b, NEW i
                 PROVE  FirstInvoice!RecordFailedAttempt(b, i)
                          = Subscribing!RecordFailedAttempt(b, i)
      OBVIOUS
    <3> DEFINE dunned == FirstInvoice!Reason(i) # "subscription_create"
               again == dunned /\ b.inv[i].attempts + 1 <= 1
               row == [b EXCEPT !.inv[i].attempts = b.inv[i].attempts + 1,
                                !.inv[i].due = IF again THEN "later" ELSE "none"]
               counted == FirstInvoice!MarkSubscriptionPastDue(row, i)
               countedToo == Subscribing!MarkSubscriptionPastDue(row, i)
               spent == dunned /\ ~again
    <3>1. counted = countedToo
      BY Zenon, <2>2
    <3>2. FirstInvoice!RunFinalDunningAction(counted, i)
            = Subscribing!RunFinalDunningAction(counted, i)
      BY Zenon, <2>3
    <3>3. FirstInvoice!RecordFailedAttempt(b, i)
            = IF spent THEN FirstInvoice!RunFinalDunningAction(counted, i) ELSE counted
      BY ZenonT(60) DEF FirstInvoice!RecordFailedAttempt
    <3>4. Subscribing!RecordFailedAttempt(b, i)
            = IF spent THEN Subscribing!RunFinalDunningAction(countedToo, i)
              ELSE countedToo
      BY ZenonT(60) DEF Subscribing!RecordFailedAttempt, FirstInvoice!Reason, Subscribing!Reason
    <3> HIDE DEF counted, countedToo, spent
    <3> QED BY <3>1, <3>2, <3>3, <3>4
  <2>5. \A b, i : FirstInvoice!ActivateOnPayment(b, i) = Subscribing!ActivateOnPayment(b, i)
    BY Zenon DEF FirstInvoice!ActivateOnPayment, Subscribing!ActivateOnPayment,
      FirstInvoice!TransitionSubscription, Subscribing!TransitionSubscription,
      FirstInvoice!SubscriptionMayMove, Subscribing!SubscriptionMayMove,
      FirstInvoice!SubscriptionAllowed, Subscribing!SubscriptionAllowed
  <2>6. \A b, k, from, to :
          FirstInvoice!OnPaymentTransition(b, k, from, to)
            = Subscribing!OnPaymentTransition(b, k, from, to)
    <3> SUFFICES ASSUME NEW b, NEW k, NEW from, NEW to
                 PROVE  FirstInvoice!OnPaymentTransition(b, k, from, to)
                          = Subscribing!OnPaymentTransition(b, k, from, to)
      OBVIOUS
    <3> DEFINE i == CHOOSE j \in FirstInvoice!Invoices : b.inv[j].link = k
               open == b.inv[i].status = "open"
               waiting == [b EXCEPT !.inv[i].attempts = b.inv[i].attempts + 1,
                                    !.inv[i].due = "none"]
               freed == [b EXCEPT !.inv[i].link = 0]
               notLinked == \A j \in FirstInvoice!Invoices : b.inv[j].link # k
               pays == to = "succeeded" /\ FirstInvoice!PayableInvoice(b.inv[i].status)
               declines == open /\ to = "requires_payment_method"
               asks == open /\ to = "requires_action" /\ from # to
               cancels == open /\ to = "canceled"
               settled == FirstInvoice!MarkInvoicePaid(b, i, TRUE)
               settledToo == Subscribing!MarkInvoicePaid(b, i, TRUE)
    <3>1. settled = settledToo
      <4> DEFINE marked == [b EXCEPT !.inv[i] = FirstInvoice!PaidRow(b.inv[i], TRUE)]
      <4>1. settled = FirstInvoice!ActivateOnPayment(marked, i)
        BY ZenonT(60) DEF FirstInvoice!MarkInvoicePaid
      <4>2. settledToo = Subscribing!ActivateOnPayment(marked, i)
        BY ZenonT(60) DEF Subscribing!MarkInvoicePaid, FirstInvoice!PaidRow, Subscribing!PaidRow
      <4> HIDE DEF marked
      <4> QED BY Zenon, <2>5, <4>1, <4>2
    <3>2. FirstInvoice!RecordFailedAttempt(b, i) = Subscribing!RecordFailedAttempt(b, i)
      BY Zenon, <2>4
    <3>3. FirstInvoice!MarkSubscriptionPastDue(waiting, i)
            = Subscribing!MarkSubscriptionPastDue(waiting, i)
      BY Zenon, <2>2
    <3>4. FirstInvoice!OnPaymentTransition(b, k, from, to)
            = IF notLinked THEN b
              ELSE IF pays THEN settled
              ELSE IF declines THEN FirstInvoice!RecordFailedAttempt(b, i)
              ELSE IF asks THEN FirstInvoice!MarkSubscriptionPastDue(waiting, i)
              ELSE IF cancels THEN freed ELSE b
      BY ZenonT(60) DEF FirstInvoice!OnPaymentTransition
    <3>5. Subscribing!OnPaymentTransition(b, k, from, to)
            = IF notLinked THEN b
              ELSE IF pays THEN settledToo
              ELSE IF declines THEN Subscribing!RecordFailedAttempt(b, i)
              ELSE IF asks THEN Subscribing!MarkSubscriptionPastDue(waiting, i)
              ELSE IF cancels THEN freed ELSE b
      BY ZenonT(60) DEF Subscribing!OnPaymentTransition, FirstInvoice!Invoices,
        Subscribing!Invoices,
        FirstInvoice!PayableInvoice, Subscribing!PayableInvoice
    <3> HIDE DEF i, waiting, freed, notLinked, pays, declines, asks, cancels, settled,
      settledToo
    <3> QED BY <3>1, <3>2, <3>3, <3>4, <3>5
  <2>7. \A k, from, to :
          FirstInvoice!TransitionIntent(k, from, to)
            <=> Subscribing!TransitionIntent(k, from, to)
    BY <2>6 DEF FirstInvoice!TransitionIntent, Subscribing!TransitionIntent,
      FirstInvoice!Commit, Subscribing!Commit, FirstInvoice!Rows, Subscribing!Rows,
      FirstInvoice!billing, Subscribing!billing
  <2>8. \A s, k, r : FirstInvoice!CanApply(s, k, r) <=> Subscribing!CanApply(s, k, r)
    BY ZenonT(60) DEF FirstInvoice!CanApply, Subscribing!CanApply, FirstInvoice!RailsOf,
      Subscribing!RailsOf, FirstInvoice!TargetStatusFor, Subscribing!TargetStatusFor,
      FirstInvoice!LegalSources, Subscribing!LegalSources,
      FirstInvoice!IsValidStatusTransition, Subscribing!IsValidStatusTransition,
      FirstInvoice!ChainEvents, Subscribing!ChainEvents, FirstInvoice!CardEvents,
      Subscribing!CardEvents, FirstInvoice!Rails, Subscribing!Rails,
      FirstInvoice!ExpirableStatuses, Subscribing!ExpirableStatuses,
      FirstInvoice!Cancellable, Subscribing!Cancellable, FirstInvoice!Allowed,
      Subscribing!Allowed, FirstInvoice!Statuses, Subscribing!Statuses
  <2>9. \A k : FirstInvoice!TargetStatusFor(k) = Subscribing!TargetStatusFor(k)
    BY Zenon DEF FirstInvoice!TargetStatusFor, Subscribing!TargetStatusFor
  <2>10. \A o : FirstInvoice!CardEvent(o) = Subscribing!CardEvent(o)
    BY Zenon DEF FirstInvoice!CardEvent, Subscribing!CardEvent
  <2>11. \A w : FirstInvoice!ApplyAnswer(w) <=> Subscribing!ApplyAnswer(w)
    BY <2>7, <2>8, <2>9, <2>10 DEF FirstInvoice!ApplyAnswer, Subscribing!ApplyAnswer,
      FirstInvoice!Idle, Subscribing!Idle, FirstInvoice!billing, Subscribing!billing
  <2>12. \A w :
          FirstInvoice!RecordMissingPaymentMethod(w)
            <=> Subscribing!RecordMissingPaymentMethod(w)
    BY ZenonT(60), <2>4 DEF FirstInvoice!RecordMissingPaymentMethod,
      Subscribing!RecordMissingPaymentMethod, FirstInvoice!Rows, Subscribing!Rows,
      FirstInvoice!Finish, Subscribing!Finish, FirstInvoice!Idle, Subscribing!Idle
  <2>13. \A e :
          FirstInvoice!ProcessProviderEvent(e) <=> Subscribing!ProcessProviderEvent(e)
    BY <2>7, <2>8, <2>9, <2>10 DEF FirstInvoice!ProcessProviderEvent,
      Subscribing!ProcessProviderEvent, FirstInvoice!billing, Subscribing!billing
  <2>14. \A w : FirstInvoice!IntentFor(w) <=> Subscribing!IntentFor(w)
    BY Zenon DEF FirstInvoice!IntentFor, Subscribing!IntentFor,
      FirstInvoice!Payments, Subscribing!Payments, FirstInvoice!Finish,
      Subscribing!Finish, FirstInvoice!Idle, Subscribing!Idle
  <2>15. \A w : FirstInvoice!LinkIntent(w) <=> Subscribing!LinkIntent(w)
    BY Zenon DEF FirstInvoice!LinkIntent, Subscribing!LinkIntent,
      FirstInvoice!MayLink, Subscribing!MayLink, FirstInvoice!AcquirerMoves,
      Subscribing!AcquirerMoves, FirstInvoice!Finish, Subscribing!Finish,
      FirstInvoice!CardEvent, Subscribing!CardEvent, FirstInvoice!Idle,
      Subscribing!Idle
  <2>16. \A w, h : FirstInvoice!Confirm(w, h) <=> Subscribing!Confirm(w, h)
    BY ZenonT(60) DEF FirstInvoice!Confirm, Subscribing!Confirm, FirstInvoice!Keyed,
      Subscribing!Keyed, FirstInvoice!Chargeable, Subscribing!Chargeable,
      FirstInvoice!Try, Subscribing!Try, FirstInvoice!Finish, Subscribing!Finish,
      FirstInvoice!AcquirerMoves, Subscribing!AcquirerMoves, FirstInvoice!Idle,
      Subscribing!Idle, FirstInvoice!CardEvent, Subscribing!CardEvent
  <2>17. \A w : FirstInvoice!RunInvoiceStep(w) <=> Subscribing!RunInvoiceStep(w)
    BY Zenon DEF FirstInvoice!RunInvoiceStep, Subscribing!RunInvoiceStep,
      FirstInvoice!Finish, Subscribing!Finish, FirstInvoice!PayableInvoice,
      Subscribing!PayableInvoice, FirstInvoice!Goto, Subscribing!Goto,
      FirstInvoice!Idle, Subscribing!Idle
  <2>18. \A w :
          FirstInvoice!AttemptInvoicePayment(w) <=> Subscribing!AttemptInvoicePayment(w)
    BY Zenon DEF FirstInvoice!AttemptInvoicePayment,
      Subscribing!AttemptInvoicePayment, FirstInvoice!PayableInvoice,
      Subscribing!PayableInvoice, FirstInvoice!Finish, Subscribing!Finish,
      FirstInvoice!Idle, Subscribing!Idle
  <2>19. \A w :
          FirstInvoice!SettleAttemptSchedule(w) <=> Subscribing!SettleAttemptSchedule(w)
    BY Zenon DEF FirstInvoice!SettleAttemptSchedule,
      Subscribing!SettleAttemptSchedule, FirstInvoice!Finish, Subscribing!Finish,
      FirstInvoice!Idle, Subscribing!Idle
  <2>20. \A w : FirstInvoice!DeferAttempt(w) <=> Subscribing!DeferAttempt(w)
    BY Zenon DEF FirstInvoice!DeferAttempt, Subscribing!DeferAttempt,
      FirstInvoice!Finish, Subscribing!Finish, FirstInvoice!Idle, Subscribing!Idle
  <2>21. FirstInvoice!ExpireIncomplete <=> Subscribing!ExpireIncomplete
    BY Zenon DEF FirstInvoice!ExpireIncomplete, Subscribing!ExpireIncomplete,
      FirstInvoice!TransitionSubscription, Subscribing!TransitionSubscription,
      FirstInvoice!Rows, Subscribing!Rows, FirstInvoice!Commit, Subscribing!Commit,
      FirstInvoice!PayableInvoice, Subscribing!PayableInvoice,
      FirstInvoice!VoidInvoiceIn, Subscribing!VoidInvoiceIn,
      FirstInvoice!SubscriptionMayMove, Subscribing!SubscriptionMayMove,
      FirstInvoice!SubscriptionAllowed, Subscribing!SubscriptionAllowed
  <2>22. FirstInvoice!CancelSubscriptionNow <=> Subscribing!CancelSubscriptionNow
    BY Zenon DEF FirstInvoice!CancelSubscriptionNow,
      Subscribing!CancelSubscriptionNow, FirstInvoice!SubscriptionIsTerminal,
      Subscribing!SubscriptionIsTerminal, FirstInvoice!Commit, Subscribing!Commit,
      FirstInvoice!TransitionSubscription, Subscribing!TransitionSubscription,
      FirstInvoice!Rows, Subscribing!Rows, FirstInvoice!SubscriptionAllowed,
      Subscribing!SubscriptionAllowed, FirstInvoice!SubscriptionMayMove,
      Subscribing!SubscriptionMayMove
  <2>23. \A i : FirstInvoice!PaidOutOfBand(i) <=> Subscribing!PaidOutOfBand(i)
    BY Zenon DEF FirstInvoice!PaidOutOfBand, Subscribing!PaidOutOfBand,
      FirstInvoice!PayableInvoice, Subscribing!PayableInvoice, FirstInvoice!Commit,
      Subscribing!Commit, FirstInvoice!MarkInvoicePaid, Subscribing!MarkInvoicePaid,
      FirstInvoice!Rows, Subscribing!Rows, FirstInvoice!ActivateOnPayment,
      Subscribing!ActivateOnPayment, FirstInvoice!PaidRow, Subscribing!PaidRow,
      FirstInvoice!TransitionSubscription, Subscribing!TransitionSubscription,
      FirstInvoice!SubscriptionMayMove, Subscribing!SubscriptionMayMove,
      FirstInvoice!SubscriptionAllowed, Subscribing!SubscriptionAllowed
  <2>24. \A i : FirstInvoice!FinalizeInvoice(i) <=> Subscribing!FinalizeInvoice(i)
    BY Zenon DEF FirstInvoice!FinalizeInvoice, Subscribing!FinalizeInvoice
  <2> QED
    BY ZenonT(60), <2>11, <2>12, <2>13, <2>14, <2>15, <2>16, <2>17, <2>18, <2>19, <2>20, <2>21,
      <2>22, <2>23, <2>24 DEF FirstInvoice!Next, Subscribing!Next, FirstInvoice!Attempt,
      Subscribing!Attempt, FirstInvoice!LoseAnswer, Subscribing!LoseAnswer,
      FirstInvoice!Outage, Subscribing!Outage, FirstInvoice!Crash, Subscribing!Crash,
      FirstInvoice!Invoices, Subscribing!Invoices, FirstInvoice!ClaimDueInvoice,
      Subscribing!ClaimDueInvoice, FirstInvoice!PayInvoice, Subscribing!PayInvoice,
      FirstInvoice!Payments, Subscribing!Payments, FirstInvoice!PayerConfirms,
      Subscribing!PayerConfirms, FirstInvoice!AcquirerSettles,
      Subscribing!AcquirerSettles, FirstInvoice!CancelPayment,
      Subscribing!CancelPayment, FirstInvoice!LeaseLapses, Subscribing!LeaseLapses,
      FirstInvoice!FallsDue, Subscribing!FallsDue, FirstInvoice!VoidInvoice,
      Subscribing!VoidInvoice, FirstInvoice!MarkInvoiceUncollectible,
      Subscribing!MarkInvoiceUncollectible, FirstInvoice!Renew, Subscribing!Renew,
      FirstInvoice!Prepare, Subscribing!Prepare, FirstInvoice!ConfirmCard,
      Subscribing!ConfirmCard, FirstInvoice!Goto, Subscribing!Goto,
      FirstInvoice!Idle, Subscribing!Idle, FirstInvoice!billing, Subscribing!billing,
      FirstInvoice!PayableInvoice, Subscribing!PayableInvoice,
      FirstInvoice!Chargeable, Subscribing!Chargeable, FirstInvoice!Try,
      Subscribing!Try, FirstInvoice!AcquirerMoves, Subscribing!AcquirerMoves,
      FirstInvoice!Commit, Subscribing!Commit, FirstInvoice!VoidInvoiceIn,
      Subscribing!VoidInvoiceIn, FirstInvoice!Rows, Subscribing!Rows,
      FirstInvoice!CardEvent, Subscribing!CardEvent
<1>4. FirstInvoice!TypeOK <=> Subscribing!TypeOK
    BY Zenon DEF FirstInvoice!TypeOK, Subscribing!TypeOK,
    FirstInvoice!SubscriptionAllowed, Subscribing!SubscriptionAllowed,
    FirstInvoice!Invoices, Subscribing!Invoices, FirstInvoice!Instants,
    Subscribing!Instants, FirstInvoice!Payments, Subscribing!Payments,
    FirstInvoice!Statuses, Subscribing!Statuses, FirstInvoice!CardEvents,
    Subscribing!CardEvents
<1>5. FirstInvoice!ChargedOnce <=> Subscribing!ChargedOnce
    BY Zenon DEF FirstInvoice!ChargedOnce, Subscribing!ChargedOnce,
    FirstInvoice!Invoices, Subscribing!Invoices, FirstInvoice!Cardinality,
    Subscribing!Cardinality, FirstInvoice!Payments, Subscribing!Payments
<1>6. FirstInvoice!PaidIsCharged <=> Subscribing!PaidIsCharged
    BY Zenon DEF FirstInvoice!PaidIsCharged, Subscribing!PaidIsCharged,
    FirstInvoice!Invoices, Subscribing!Invoices, FirstInvoice!Payments,
    Subscribing!Payments
<1>7. FirstInvoice!PaidRestores <=> Subscribing!PaidRestores
    BY Zenon DEF FirstInvoice!PaidRestores, Subscribing!PaidRestores
<1> QED BY <1>1, <1>2, <1>3, <1>4, <1>5, <1>6, <1>7

LEMMA FirstInvoiceRuns == Spec => []~(focus = "FirstInvoice") \/ Subscribing!Spec
<1>1. Init /\ focus = "FirstInvoice" => Subscribing!Init BY FirstInvoiceIs DEF Init
<1>2. focus = "FirstInvoice" /\ [Next]_vars
        => [Subscribing!Next]_(Subscribing!vars) /\ (focus = "FirstInvoice")'
  BY FirstInvoiceIs DEF Next, DisputeNext, ReaderNext, BillingNext, SettlingNext, OutboxNext,
    vars,
     DisputeVars, ReaderVars, BillingVars, SettlingVars, OutboxVars,
     Subscribing!vars
<1>3. ~(focus = "FirstInvoice") /\ [Next]_vars => ~(focus = "FirstInvoice")'
  BY DEF Next, DisputeNext, ReaderNext, BillingNext, SettlingNext, OutboxNext, vars
<1> QED BY <1>1, <1>2, <1>3, PTL DEF Spec, Subscribing!Spec

LEMMA DunningIs ==
  /\ Dunning!CollectionBounds <=> Dunned!CollectionBounds
  /\ Dunning!Init <=> Dunned!Init
  /\ Dunning!Next <=> Dunned!Next
  /\ Dunning!TypeOK <=> Dunned!TypeOK
  /\ Dunning!ChargedOnce <=> Dunned!ChargedOnce
  /\ Dunning!PaidIsCharged <=> Dunned!PaidIsCharged
  /\ Dunning!PaidRestores <=> Dunned!PaidRestores
<1>1. Dunning!CollectionBounds <=> Dunned!CollectionBounds
    BY Zenon DEF Dunning!CollectionBounds, Dunned!CollectionBounds
<1>2. Dunning!Init <=> Dunned!Init
    BY ZenonT(60) DEF Dunning!Init, Dunned!Init, Dunning!Invoices, Dunned!Invoices,
    Dunning!NoInvoice, Dunned!NoInvoice, Dunning!Payments, Dunned!Payments,
    Dunning!Idle, Dunned!Idle
<1>3. Dunning!Next <=> Dunned!Next
  <2>1. \A b, to :
          Dunning!TransitionSubscription(b, to) = Dunned!TransitionSubscription(b, to)
    BY Zenon DEF Dunning!TransitionSubscription, Dunned!TransitionSubscription,
      Dunning!SubscriptionMayMove, Dunned!SubscriptionMayMove,
      Dunning!SubscriptionAllowed, Dunned!SubscriptionAllowed
  <2>2. \A b, i :
          Dunning!MarkSubscriptionPastDue(b, i) = Dunned!MarkSubscriptionPastDue(b, i)
    BY <2>1 DEF Dunning!MarkSubscriptionPastDue, Dunned!MarkSubscriptionPastDue,
      Dunning!Reason, Dunned!Reason
  <2>3. \A b, i : Dunning!RunFinalDunningAction(b, i) = Dunned!RunFinalDunningAction(b, i)
    BY <2>1 DEF Dunning!RunFinalDunningAction, Dunned!RunFinalDunningAction
  <2>4. \A b, i :
          Dunning!RecordFailedAttempt(b, i) = Dunned!RecordFailedAttempt(b, i)
    <3> SUFFICES ASSUME NEW b, NEW i
                 PROVE  Dunning!RecordFailedAttempt(b, i)
                          = Dunned!RecordFailedAttempt(b, i)
      OBVIOUS
    <3> DEFINE dunned == Dunning!Reason(i) # "subscription_create"
               again == dunned /\ b.inv[i].attempts + 1 <= 1
               row == [b EXCEPT !.inv[i].attempts = b.inv[i].attempts + 1,
                                !.inv[i].due = IF again THEN "later" ELSE "none"]
               counted == Dunning!MarkSubscriptionPastDue(row, i)
               countedToo == Dunned!MarkSubscriptionPastDue(row, i)
               spent == dunned /\ ~again
    <3>1. counted = countedToo
      BY Zenon, <2>2
    <3>2. Dunning!RunFinalDunningAction(counted, i)
            = Dunned!RunFinalDunningAction(counted, i)
      BY Zenon, <2>3
    <3>3. Dunning!RecordFailedAttempt(b, i)
            = IF spent THEN Dunning!RunFinalDunningAction(counted, i) ELSE counted
      BY ZenonT(60) DEF Dunning!RecordFailedAttempt
    <3>4. Dunned!RecordFailedAttempt(b, i)
            = IF spent THEN Dunned!RunFinalDunningAction(countedToo, i)
              ELSE countedToo
      BY ZenonT(60) DEF Dunned!RecordFailedAttempt, Dunning!Reason, Dunned!Reason
    <3> HIDE DEF counted, countedToo, spent
    <3> QED BY <3>1, <3>2, <3>3, <3>4
  <2>5. \A b, i : Dunning!ActivateOnPayment(b, i) = Dunned!ActivateOnPayment(b, i)
    BY Zenon DEF Dunning!ActivateOnPayment, Dunned!ActivateOnPayment,
      Dunning!TransitionSubscription, Dunned!TransitionSubscription,
      Dunning!SubscriptionMayMove, Dunned!SubscriptionMayMove,
      Dunning!SubscriptionAllowed, Dunned!SubscriptionAllowed
  <2>6. \A b, k, from, to :
          Dunning!OnPaymentTransition(b, k, from, to)
            = Dunned!OnPaymentTransition(b, k, from, to)
    <3> SUFFICES ASSUME NEW b, NEW k, NEW from, NEW to
                 PROVE  Dunning!OnPaymentTransition(b, k, from, to)
                          = Dunned!OnPaymentTransition(b, k, from, to)
      OBVIOUS
    <3> DEFINE i == CHOOSE j \in Dunning!Invoices : b.inv[j].link = k
               open == b.inv[i].status = "open"
               waiting == [b EXCEPT !.inv[i].attempts = b.inv[i].attempts + 1,
                                    !.inv[i].due = "none"]
               freed == [b EXCEPT !.inv[i].link = 0]
               notLinked == \A j \in Dunning!Invoices : b.inv[j].link # k
               pays == to = "succeeded" /\ Dunning!PayableInvoice(b.inv[i].status)
               declines == open /\ to = "requires_payment_method"
               asks == open /\ to = "requires_action" /\ from # to
               cancels == open /\ to = "canceled"
               settled == Dunning!MarkInvoicePaid(b, i, TRUE)
               settledToo == Dunned!MarkInvoicePaid(b, i, TRUE)
    <3>1. settled = settledToo
      <4> DEFINE marked == [b EXCEPT !.inv[i] = Dunning!PaidRow(b.inv[i], TRUE)]
      <4>1. settled = Dunning!ActivateOnPayment(marked, i)
        BY ZenonT(60) DEF Dunning!MarkInvoicePaid
      <4>2. settledToo = Dunned!ActivateOnPayment(marked, i)
        BY ZenonT(60) DEF Dunned!MarkInvoicePaid, Dunning!PaidRow, Dunned!PaidRow
      <4> HIDE DEF marked
      <4> QED BY Zenon, <2>5, <4>1, <4>2
    <3>2. Dunning!RecordFailedAttempt(b, i) = Dunned!RecordFailedAttempt(b, i)
      BY Zenon, <2>4
    <3>3. Dunning!MarkSubscriptionPastDue(waiting, i)
            = Dunned!MarkSubscriptionPastDue(waiting, i)
      BY Zenon, <2>2
    <3>4. Dunning!OnPaymentTransition(b, k, from, to)
            = IF notLinked THEN b
              ELSE IF pays THEN settled
              ELSE IF declines THEN Dunning!RecordFailedAttempt(b, i)
              ELSE IF asks THEN Dunning!MarkSubscriptionPastDue(waiting, i)
              ELSE IF cancels THEN freed ELSE b
      BY ZenonT(60) DEF Dunning!OnPaymentTransition
    <3>5. Dunned!OnPaymentTransition(b, k, from, to)
            = IF notLinked THEN b
              ELSE IF pays THEN settledToo
              ELSE IF declines THEN Dunned!RecordFailedAttempt(b, i)
              ELSE IF asks THEN Dunned!MarkSubscriptionPastDue(waiting, i)
              ELSE IF cancels THEN freed ELSE b
      BY ZenonT(60) DEF Dunned!OnPaymentTransition, Dunning!Invoices, Dunned!Invoices,
        Dunning!PayableInvoice, Dunned!PayableInvoice
    <3> HIDE DEF i, waiting, freed, notLinked, pays, declines, asks, cancels, settled,
      settledToo
    <3> QED BY <3>1, <3>2, <3>3, <3>4, <3>5
  <2>7. \A k, from, to :
          Dunning!TransitionIntent(k, from, to) <=> Dunned!TransitionIntent(k, from, to)
    BY <2>6 DEF Dunning!TransitionIntent, Dunned!TransitionIntent, Dunning!Commit,
      Dunned!Commit, Dunning!Rows, Dunned!Rows, Dunning!billing, Dunned!billing
  <2>8. \A s, k, r : Dunning!CanApply(s, k, r) <=> Dunned!CanApply(s, k, r)
    BY ZenonT(60) DEF Dunning!CanApply, Dunned!CanApply, Dunning!RailsOf, Dunned!RailsOf,
      Dunning!TargetStatusFor, Dunned!TargetStatusFor, Dunning!LegalSources,
      Dunned!LegalSources, Dunning!IsValidStatusTransition,
      Dunned!IsValidStatusTransition, Dunning!ChainEvents, Dunned!ChainEvents,
      Dunning!CardEvents, Dunned!CardEvents, Dunning!Rails, Dunned!Rails,
      Dunning!ExpirableStatuses, Dunned!ExpirableStatuses, Dunning!Cancellable,
      Dunned!Cancellable, Dunning!Allowed, Dunned!Allowed, Dunning!Statuses,
      Dunned!Statuses
  <2>9. \A k : Dunning!TargetStatusFor(k) = Dunned!TargetStatusFor(k)
    BY Zenon DEF Dunning!TargetStatusFor, Dunned!TargetStatusFor
  <2>10. \A o : Dunning!CardEvent(o) = Dunned!CardEvent(o)
    BY Zenon DEF Dunning!CardEvent, Dunned!CardEvent
  <2>11. \A w : Dunning!ApplyAnswer(w) <=> Dunned!ApplyAnswer(w)
    BY <2>7, <2>8, <2>9, <2>10 DEF Dunning!ApplyAnswer, Dunned!ApplyAnswer,
      Dunning!Idle, Dunned!Idle, Dunning!billing, Dunned!billing
  <2>12. \A w :
          Dunning!RecordMissingPaymentMethod(w) <=> Dunned!RecordMissingPaymentMethod(w)
    BY ZenonT(60), <2>4 DEF Dunning!RecordMissingPaymentMethod,
      Dunned!RecordMissingPaymentMethod, Dunning!Rows, Dunned!Rows, Dunning!Finish,
      Dunned!Finish, Dunning!Idle, Dunned!Idle
  <2>13. \A e : Dunning!ProcessProviderEvent(e) <=> Dunned!ProcessProviderEvent(e)
    BY <2>7, <2>8, <2>9, <2>10 DEF Dunning!ProcessProviderEvent,
      Dunned!ProcessProviderEvent, Dunning!billing, Dunned!billing
  <2>14. \A w : Dunning!IntentFor(w) <=> Dunned!IntentFor(w)
    BY Zenon DEF Dunning!IntentFor, Dunned!IntentFor, Dunning!Payments,
      Dunned!Payments, Dunning!Finish, Dunned!Finish, Dunning!Idle, Dunned!Idle
  <2>15. \A w : Dunning!LinkIntent(w) <=> Dunned!LinkIntent(w)
    BY Zenon DEF Dunning!LinkIntent, Dunned!LinkIntent, Dunning!MayLink,
      Dunned!MayLink, Dunning!AcquirerMoves, Dunned!AcquirerMoves, Dunning!Finish,
      Dunned!Finish, Dunning!CardEvent, Dunned!CardEvent, Dunning!Idle, Dunned!Idle
  <2>16. \A w, h : Dunning!Confirm(w, h) <=> Dunned!Confirm(w, h)
    BY ZenonT(60) DEF Dunning!Confirm, Dunned!Confirm, Dunning!Keyed, Dunned!Keyed,
      Dunning!Chargeable, Dunned!Chargeable, Dunning!Try, Dunned!Try, Dunning!Finish,
      Dunned!Finish, Dunning!AcquirerMoves, Dunned!AcquirerMoves, Dunning!Idle,
      Dunned!Idle, Dunning!CardEvent, Dunned!CardEvent
  <2>17. \A w : Dunning!RunInvoiceStep(w) <=> Dunned!RunInvoiceStep(w)
    BY Zenon DEF Dunning!RunInvoiceStep, Dunned!RunInvoiceStep, Dunning!Finish,
      Dunned!Finish, Dunning!PayableInvoice, Dunned!PayableInvoice, Dunning!Goto,
      Dunned!Goto, Dunning!Idle, Dunned!Idle
  <2>18. \A w : Dunning!AttemptInvoicePayment(w) <=> Dunned!AttemptInvoicePayment(w)
    BY Zenon DEF Dunning!AttemptInvoicePayment, Dunned!AttemptInvoicePayment,
      Dunning!PayableInvoice, Dunned!PayableInvoice, Dunning!Finish, Dunned!Finish,
      Dunning!Idle, Dunned!Idle
  <2>19. \A w : Dunning!SettleAttemptSchedule(w) <=> Dunned!SettleAttemptSchedule(w)
    BY Zenon DEF Dunning!SettleAttemptSchedule, Dunned!SettleAttemptSchedule,
      Dunning!Finish, Dunned!Finish, Dunning!Idle, Dunned!Idle
  <2>20. \A w : Dunning!DeferAttempt(w) <=> Dunned!DeferAttempt(w)
    BY Zenon DEF Dunning!DeferAttempt, Dunned!DeferAttempt, Dunning!Finish,
      Dunned!Finish, Dunning!Idle, Dunned!Idle
  <2>21. Dunning!ExpireIncomplete <=> Dunned!ExpireIncomplete
    BY Zenon DEF Dunning!ExpireIncomplete, Dunned!ExpireIncomplete,
      Dunning!TransitionSubscription, Dunned!TransitionSubscription, Dunning!Rows,
      Dunned!Rows, Dunning!Commit, Dunned!Commit, Dunning!PayableInvoice,
      Dunned!PayableInvoice, Dunning!VoidInvoiceIn, Dunned!VoidInvoiceIn,
      Dunning!SubscriptionMayMove, Dunned!SubscriptionMayMove,
      Dunning!SubscriptionAllowed, Dunned!SubscriptionAllowed
  <2>22. Dunning!CancelSubscriptionNow <=> Dunned!CancelSubscriptionNow
    BY Zenon DEF Dunning!CancelSubscriptionNow, Dunned!CancelSubscriptionNow,
      Dunning!SubscriptionIsTerminal, Dunned!SubscriptionIsTerminal, Dunning!Commit,
      Dunned!Commit, Dunning!TransitionSubscription, Dunned!TransitionSubscription,
      Dunning!Rows, Dunned!Rows, Dunning!SubscriptionAllowed,
      Dunned!SubscriptionAllowed, Dunning!SubscriptionMayMove,
      Dunned!SubscriptionMayMove
  <2>23. \A i : Dunning!PaidOutOfBand(i) <=> Dunned!PaidOutOfBand(i)
    BY Zenon DEF Dunning!PaidOutOfBand, Dunned!PaidOutOfBand, Dunning!PayableInvoice,
      Dunned!PayableInvoice, Dunning!Commit, Dunned!Commit, Dunning!MarkInvoicePaid,
      Dunned!MarkInvoicePaid, Dunning!Rows, Dunned!Rows, Dunning!ActivateOnPayment,
      Dunned!ActivateOnPayment, Dunning!PaidRow, Dunned!PaidRow,
      Dunning!TransitionSubscription, Dunned!TransitionSubscription,
      Dunning!SubscriptionMayMove, Dunned!SubscriptionMayMove,
      Dunning!SubscriptionAllowed, Dunned!SubscriptionAllowed
  <2>24. \A i : Dunning!FinalizeInvoice(i) <=> Dunned!FinalizeInvoice(i)
    BY Zenon DEF Dunning!FinalizeInvoice, Dunned!FinalizeInvoice
  <2> QED
    BY ZenonT(60), <2>11, <2>12, <2>13, <2>14, <2>15, <2>16, <2>17, <2>18, <2>19, <2>20, <2>21,
      <2>22, <2>23, <2>24 DEF Dunning!Next, Dunned!Next, Dunning!Attempt, Dunned!Attempt,
      Dunning!LoseAnswer, Dunned!LoseAnswer, Dunning!Outage, Dunned!Outage,
      Dunning!Crash, Dunned!Crash, Dunning!Invoices, Dunned!Invoices,
      Dunning!ClaimDueInvoice, Dunned!ClaimDueInvoice, Dunning!PayInvoice,
      Dunned!PayInvoice, Dunning!Payments, Dunned!Payments, Dunning!PayerConfirms,
      Dunned!PayerConfirms, Dunning!AcquirerSettles, Dunned!AcquirerSettles,
      Dunning!CancelPayment, Dunned!CancelPayment, Dunning!LeaseLapses,
      Dunned!LeaseLapses, Dunning!FallsDue, Dunned!FallsDue, Dunning!VoidInvoice,
      Dunned!VoidInvoice, Dunning!MarkInvoiceUncollectible,
      Dunned!MarkInvoiceUncollectible, Dunning!Renew, Dunned!Renew, Dunning!Prepare,
      Dunned!Prepare, Dunning!ConfirmCard, Dunned!ConfirmCard, Dunning!Goto,
      Dunned!Goto, Dunning!Idle, Dunned!Idle, Dunning!billing, Dunned!billing,
      Dunning!PayableInvoice, Dunned!PayableInvoice, Dunning!Chargeable,
      Dunned!Chargeable, Dunning!Try, Dunned!Try, Dunning!AcquirerMoves,
      Dunned!AcquirerMoves, Dunning!Commit, Dunned!Commit, Dunning!VoidInvoiceIn,
      Dunned!VoidInvoiceIn, Dunning!Rows, Dunned!Rows, Dunning!CardEvent,
      Dunned!CardEvent
<1>4. Dunning!TypeOK <=> Dunned!TypeOK
    BY Zenon DEF Dunning!TypeOK, Dunned!TypeOK, Dunning!SubscriptionAllowed,
    Dunned!SubscriptionAllowed, Dunning!Invoices, Dunned!Invoices, Dunning!Instants,
    Dunned!Instants, Dunning!Payments, Dunned!Payments, Dunning!Statuses,
    Dunned!Statuses, Dunning!CardEvents, Dunned!CardEvents
<1>5. Dunning!ChargedOnce <=> Dunned!ChargedOnce
    BY Zenon DEF Dunning!ChargedOnce, Dunned!ChargedOnce, Dunning!Invoices,
    Dunned!Invoices, Dunning!Cardinality, Dunned!Cardinality, Dunning!Payments,
    Dunned!Payments
<1>6. Dunning!PaidIsCharged <=> Dunned!PaidIsCharged
    BY Zenon DEF Dunning!PaidIsCharged, Dunned!PaidIsCharged, Dunning!Invoices,
    Dunned!Invoices, Dunning!Payments, Dunned!Payments
<1>7. Dunning!PaidRestores <=> Dunned!PaidRestores
    BY Zenon DEF Dunning!PaidRestores, Dunned!PaidRestores
<1> QED BY <1>1, <1>2, <1>3, <1>4, <1>5, <1>6, <1>7

LEMMA DunningRuns == Spec => []~(focus = "Dunning") \/ Dunned!Spec
<1>1. Init /\ focus = "Dunning" => Dunned!Init BY DunningIs DEF Init
<1>2. focus = "Dunning" /\ [Next]_vars => [Dunned!Next]_(Dunned!vars) /\ (focus = "Dunning")'
  BY DunningIs DEF Next, DisputeNext, ReaderNext, BillingNext, SettlingNext, OutboxNext, vars,
     DisputeVars, ReaderVars, BillingVars, SettlingVars, OutboxVars,
     Dunned!vars
<1>3. ~(focus = "Dunning") /\ [Next]_vars => ~(focus = "Dunning")'
  BY DEF Next, DisputeNext, ReaderNext, BillingNext, SettlingNext, OutboxNext, vars
<1> QED BY <1>1, <1>2, <1>3, PTL DEF Spec, Dunned!Spec

LEMMA SettlingIs ==
  /\ Settling!TransferBounds <=> After!TransferBounds
  /\ Settling!Init <=> After!Init
  /\ Settling!Next <=> After!Next
  /\ Settling!TypeOK <=> After!TypeOK
  /\ Settling!ReversedIsTrue <=> After!ReversedIsTrue
  /\ Settling!ReversalIsTrue <=> After!ReversalIsTrue
  /\ Settling!WithinPayment <=> After!WithinPayment
BY Zenon DEF Settling!TransferBounds, After!TransferBounds, Settling!Init,
  After!Init, Settling!Next, After!Next, Settling!TypeOK, After!TypeOK,
  Settling!ReversedIsTrue, After!ReversedIsTrue, Settling!ReversalIsTrue,
  After!ReversalIsTrue, Settling!NoTransfer, After!NoTransfer, Settling!NotSent,
  After!NotSent, Settling!NoReversal, After!NoReversal, Settling!Idle, After!Idle,
  Settling!AskTransfer, After!AskTransfer, Settling!FindTransfer, After!FindTransfer,
  Settling!InsertTransfer, After!InsertTransfer, Settling!SendTransfer,
  After!SendTransfer, Settling!SendTransferLost, After!SendTransferLost,
  Settling!MarkTransferPaid, After!MarkTransferPaid, Settling!MarkTransferFailed,
  After!MarkTransferFailed, Settling!AskReversal, After!AskReversal,
  Settling!SendReversal, After!SendReversal, Settling!ReadTotal, After!ReadTotal,
  Settling!MarkReversalSucceeded, After!MarkReversalSucceeded, Settling!ApplyTotal,
  After!ApplyTotal, Settling!MarkReversalFailed, After!MarkReversalFailed,
  Settling!RefusedForItself, After!RefusedForItself, Settling!Abort, After!Abort,
  Settling!HandleTransferEvent, After!HandleTransferEvent, Settling!ReversedOutside,
  After!ReversedOutside, Settling!TransferStatuses, After!TransferStatuses,
  Settling!Pcs, After!Pcs, Settling!At, After!At, Settling!Go, After!Go,
  Settling!acquirer, After!acquirer, Settling!Ref, After!Ref, Settling!Finish,
  After!Finish, Settling!Step, After!Step, Settling!CommittedTransfers,
  After!CommittedTransfers, Settling!Fault, After!Fault, Settling!Takes, After!Takes,
  Settling!ReversedTo, After!ReversedTo, Settling!NotReturned, After!NotReturned,
  Settling!WithinPayment, After!WithinPayment, Settling!AllSellers, After!AllSellers,
  Settling!SumFunctionOnSet, After!SumFunctionOnSet, Settling!FoldFunctionOnSet,
  After!FoldFunctionOnSet, Settling!MapThenFoldSet, After!MapThenFoldSet,
  Settling!StatusFor, After!StatusFor

LEMMA SettlingRuns == Spec => []~(focus = "Settling") \/ After!Spec
<1>1. Init /\ focus = "Settling" => After!Init BY SettlingIs DEF Init
<1>2. focus = "Settling" /\ [Next]_vars => [After!Next]_(After!vars) /\ (focus = "Settling")'
  BY SettlingIs DEF Next, DisputeNext, ReaderNext, BillingNext, SettlingNext, OutboxNext,
    vars,
     DisputeVars, ReaderVars, BillingVars, SettlingVars, OutboxVars,
     After!vars, After!acquirer
<1>3. ~(focus = "Settling") /\ [Next]_vars => ~(focus = "Settling")'
  BY DEF Next, DisputeNext, ReaderNext, BillingNext, SettlingNext, OutboxNext, vars
<1> QED BY <1>1, <1>2, <1>3, PTL DEF Spec, After!Spec

LEMMA OutboxIs ==
  /\ Outbox!OutboxBounds <=> LongAfter!Hook!OutboxBounds
  /\ Outbox!Init <=> LongAfter!Hook!Init
  /\ Outbox!Next <=> LongAfter!Hook!Next
  /\ Outbox!TypeOK <=> LongAfter!Hook!TypeOK
  /\ Outbox!DeadMeansTried <=> LongAfter!Hook!DeadMeansTried
  /\ Outbox!OneClaimant <=> LongAfter!Hook!OneClaimant
BY Zenon DEF Outbox!OutboxBounds, LongAfter!Hook!OutboxBounds, Outbox!Init,
  LongAfter!Hook!Init, Outbox!Next, LongAfter!Hook!Next, Outbox!TypeOK, LongAfter!Hook!TypeOK,
  Outbox!DeadMeansTried, LongAfter!Hook!DeadMeansTried, Outbox!OneClaimant,
  LongAfter!Hook!OneClaimant, Outbox!Ids, LongAfter!Hook!Ids, Outbox!NoRow, LongAfter!Hook!NoRow,
  Outbox!Idle, LongAfter!Hook!Idle, Outbox!RecordEvent, LongAfter!Hook!RecordEvent,
  Outbox!Redeliver, LongAfter!Hook!Redeliver, Outbox!BackoffEnds, LongAfter!Hook!BackoffEnds,
  Outbox!LeaseLapses, LongAfter!Hook!LeaseLapses, Outbox!UpdateEndpoint,
  LongAfter!Hook!UpdateEndpoint, Outbox!DeleteEndpoint, LongAfter!Hook!DeleteEndpoint,
  Outbox!FailingForDays, LongAfter!Hook!FailingForDays, Outbox!ClaimDueDeliveries,
  LongAfter!Hook!ClaimDueDeliveries, Outbox!Step, LongAfter!Hook!Step, Outbox!Fault,
  LongAfter!Hook!Fault, Outbox!RowType, LongAfter!Hook!RowType, Outbox!Claimed,
  LongAfter!Hook!Claimed, Outbox!NoClaim, LongAfter!Hook!NoClaim, Outbox!Outcomes,
  LongAfter!Hook!Outcomes, Outbox!Holds, LongAfter!Hook!Holds, Outbox!EndpointOf,
  LongAfter!Hook!EndpointOf, Outbox!NewRow, LongAfter!Hook!NewRow, Outbox!Claimable,
  LongAfter!Hook!Claimable, Outbox!Cardinality, LongAfter!Hook!Cardinality,
  Outbox!FindEndpointSigningTarget, LongAfter!Hook!FindEndpointSigningTarget,
  Outbox!DisableEndpoint, LongAfter!Hook!DisableEndpoint, Outbox!ReleaseDeliveryClaim,
  LongAfter!Hook!ReleaseDeliveryClaim, Outbox!AttemptDelivery,
  LongAfter!Hook!AttemptDelivery, Outbox!RecordDeliveryAttempt,
  LongAfter!Hook!RecordDeliveryAttempt, Outbox!RecordEndpointAttempt,
  LongAfter!Hook!RecordEndpointAttempt, Outbox!NextRow, LongAfter!Hook!NextRow,
  Outbox!AfterRow, LongAfter!Hook!AfterRow, Outbox!Ended, LongAfter!Hook!Ended,
  Outbox!Leases, LongAfter!Hook!Leases, Outbox!Write, LongAfter!Hook!Write,
  Outbox!StatusAfter, LongAfter!Hook!StatusAfter, Outbox!AttemptedRow,
  LongAfter!Hook!AttemptedRow, Outbox!ScheduleSpent, LongAfter!Hook!ScheduleSpent

LEMMA OutboxRuns == Spec => []~(focus = "Outbox") \/ LongAfter!Hook!Spec
<1>1. Init /\ focus = "Outbox" => LongAfter!Hook!Init BY OutboxIs DEF Init
<1>2. focus = "Outbox" /\ [Next]_vars
        => [LongAfter!Hook!Next]_(LongAfter!Hook!vars) /\ (focus = "Outbox")'
  BY OutboxIs DEF Next, DisputeNext, ReaderNext, BillingNext, SettlingNext, OutboxNext, vars,
     DisputeVars, ReaderVars, BillingVars, SettlingVars, OutboxVars,
     LongAfter!Hook!vars
<1>3. ~(focus = "Outbox") /\ [Next]_vars => ~(focus = "Outbox")'
  BY DEF Next, DisputeNext, ReaderNext, BillingNext, SettlingNext, OutboxNext, vars
<1> QED BY <1>1, <1>2, <1>3, PTL DEF Spec, LongAfter!Hook!Spec

-----------------------------------------------------------------------------
(* What the run checks.                                                    *)

\* A behaviour is of one component.
Foci ==
  {"RacedDispute", "LongDispute", "Reader", "TwoReaders", "Renewal", "FirstInvoice",
   "Dunning", "Settling", "Outbox"}

LEMMA FocusTyped == Spec => [](focus \in Foci)
<1>1. Init => focus \in Foci BY DEF Init, Foci
<1>2. focus \in Foci /\ [Next]_vars => (focus \in Foci)'
  BY DEF Next, DisputeNext, ReaderNext, BillingNext, SettlingNext, OutboxNext, vars
<1> QED BY <1>1, <1>2, PTL DEF Spec

\* Each component's rows, and what its tasks hold of them, stay what they may be.
THEOREM TypesHold == Spec => []TypeOK
<1>1. Spec => [](focus = "RacedDispute" => RacedDispute!TypeOK)
  <2>1. After!Disp!DisputeBounds BY BoundsAssumption, RacedDisputeIs
  <2>2. After!Disp!Spec => []After!Disp!TypeOK BY <2>1, After!DispTypesHold
  <2>3. After!Disp!TypeOK => RacedDispute!TypeOK
    BY RacedDisputeIs
  <2> QED BY <2>2, <2>3, RacedDisputeRuns, PTL
<1>2. Spec => [](focus = "LongDispute" => LongDispute!TypeOK)
  <2>1. LongAfter!Disp!DisputeBounds BY BoundsAssumption, LongDisputeIs
  <2>2. LongAfter!Disp!Spec => []LongAfter!Disp!TypeOK BY <2>1, LongAfter!DispTypesHold
  <2>3. LongAfter!Disp!TypeOK => LongDispute!TypeOK
    BY LongDisputeIs
  <2> QED BY <2>2, <2>3, LongDisputeRuns, PTL
<1>3. Spec => [](focus = "Reader" => Reader!TypeOK)
  <2>1. Reading!Desk!TerminalBounds BY BoundsAssumption, ReaderIs
  <2>2. Reading!Desk!Spec => []Reading!Desk!TypeOK BY <2>1, Reading!DeskTypesHold
  <2>3. Reading!Desk!TypeOK => Reader!TypeOK
    BY ReaderIs
  <2> QED BY <2>2, <2>3, ReaderRuns, PTL
<1>4. Spec => [](focus = "TwoReaders" => TwoReaders!TypeOK)
  <2>1. Renewing!Desk!TerminalBounds BY BoundsAssumption, TwoReadersIs
  <2>2. Renewing!Desk!Spec => []Renewing!Desk!TypeOK BY <2>1, Renewing!DeskTypesHold
  <2>3. Renewing!Desk!TypeOK => TwoReaders!TypeOK
    BY TwoReadersIs
  <2> QED BY <2>2, <2>3, TwoReadersRuns, PTL
<1>5. Spec => [](focus = "Renewal" => Renewal!TypeOK)
  <2>1. Renewing!CollectionBounds BY BoundsAssumption, RenewalIs
  <2>2. Renewing!Spec => []Renewing!TypeOK BY <2>1, Renewing!TypesHold
  <2>3. Renewing!TypeOK => Renewal!TypeOK
    BY RenewalIs
  <2> QED BY <2>2, <2>3, RenewalRuns, PTL
<1>6. Spec => [](focus = "FirstInvoice" => FirstInvoice!TypeOK)
  <2>1. Subscribing!CollectionBounds BY BoundsAssumption, FirstInvoiceIs
  <2>2. Subscribing!Spec => []Subscribing!TypeOK BY <2>1, Subscribing!TypesHold
  <2>3. Subscribing!TypeOK => FirstInvoice!TypeOK
    BY FirstInvoiceIs
  <2> QED BY <2>2, <2>3, FirstInvoiceRuns, PTL
<1>7. Spec => [](focus = "Dunning" => Dunning!TypeOK)
  <2>1. Dunned!CollectionBounds BY BoundsAssumption, DunningIs
  <2>2. Dunned!Spec => []Dunned!TypeOK BY <2>1, Dunned!TypesHold
  <2>3. Dunned!TypeOK => Dunning!TypeOK
    BY DunningIs
  <2> QED BY <2>2, <2>3, DunningRuns, PTL
<1>8. Spec => [](focus = "Settling" => Settling!TypeOK)
  <2>1. After!TransferBounds BY BoundsAssumption, SettlingIs
  <2>2. After!Spec => []After!TypeOK BY <2>1, After!TypesHold
  <2>3. After!TypeOK => Settling!TypeOK
    BY SettlingIs
  <2> QED BY <2>2, <2>3, SettlingRuns, PTL
<1>9. Spec => [](focus = "Outbox" => Outbox!TypeOK)
  <2>1. LongAfter!Hook!OutboxBounds BY BoundsAssumption, OutboxIs
  <2>2. LongAfter!Hook!Spec => []LongAfter!Hook!TypeOK BY <2>1, LongAfter!HookTypesHold
  <2>3. LongAfter!Hook!TypeOK => Outbox!TypeOK
    BY OutboxIs
  <2> QED BY <2>2, <2>3, OutboxRuns, PTL
<1>10. /\ focus = "RacedDispute" => RacedDispute!TypeOK
       /\ focus = "LongDispute" => LongDispute!TypeOK
       /\ focus = "Reader" => Reader!TypeOK
       /\ focus = "TwoReaders" => TwoReaders!TypeOK
       /\ focus = "Renewal" => Renewal!TypeOK
       /\ focus = "FirstInvoice" => FirstInvoice!TypeOK
       /\ focus = "Dunning" => Dunning!TypeOK
       /\ focus = "Settling" => Settling!TypeOK
       /\ focus = "Outbox" => Outbox!TypeOK
       /\ focus \in Foci
       => TypeOK
  BY DEF TypeOK, Foci
<1> QED BY <1>1, <1>2, <1>3, <1>4, <1>5, <1>6, <1>7, <1>8, <1>9, FocusTyped, <1>10, PTL

\* However many tasks drain a dispute's events and in whatever order, the merchant
\* is told once that it exists and of each status its row takes, and the row claims
\* no more than the network has.
THEOREM DisputesAreToldTruly == Spec => []DisputeIsToldTruly
<1>1. Spec =>
      [](focus = "RacedDispute" =>
           /\ RacedDispute!CreatedToldOnce
           /\ RacedDispute!StatusWasTold
           /\ RacedDispute!OutcomeIsTrue
           /\ RacedDispute!AnsweredIsTrue)
  <2>1. After!Disp!DisputeBounds BY BoundsAssumption, RacedDisputeIs
  <2>2. After!Disp!Spec => []After!Disp!CreatedToldOnce BY <2>1, After!CreatedToldOnceHolds
  <2>3. After!Disp!Spec => []After!Disp!StatusWasTold BY <2>1, After!StatusWasToldHolds
  <2>4. After!Disp!Spec => []After!Disp!OutcomeIsTrue BY <2>1, After!OutcomeIsTrueHolds
  <2>5. After!Disp!Spec => []After!Disp!AnsweredIsTrue BY <2>1, After!AnsweredIsTrueHolds
  <2>6. After!Disp!CreatedToldOnce /\ After!Disp!StatusWasTold /\ After!Disp!OutcomeIsTrue
          /\ After!Disp!AnsweredIsTrue
      => RacedDispute!CreatedToldOnce /\ RacedDispute!StatusWasTold
        /\ RacedDispute!OutcomeIsTrue /\ RacedDispute!AnsweredIsTrue
    BY RacedDisputeIs
  <2> QED BY <2>2, <2>3, <2>4, <2>5, <2>6, RacedDisputeRuns, PTL
<1>2. Spec =>
      [](focus = "LongDispute" =>
           /\ LongDispute!CreatedToldOnce
           /\ LongDispute!StatusWasTold
           /\ LongDispute!OutcomeIsTrue
           /\ LongDispute!AnsweredIsTrue)
  <2>1. LongAfter!Disp!DisputeBounds BY BoundsAssumption, LongDisputeIs
  <2>2. LongAfter!Disp!Spec => []LongAfter!Disp!CreatedToldOnce
    BY <2>1, LongAfter!CreatedToldOnceHolds
  <2>3. LongAfter!Disp!Spec => []LongAfter!Disp!StatusWasTold
    BY <2>1, LongAfter!StatusWasToldHolds
  <2>4. LongAfter!Disp!Spec => []LongAfter!Disp!OutcomeIsTrue
    BY <2>1, LongAfter!OutcomeIsTrueHolds
  <2>5. LongAfter!Disp!Spec => []LongAfter!Disp!AnsweredIsTrue
    BY <2>1, LongAfter!AnsweredIsTrueHolds
  <2>6. LongAfter!Disp!CreatedToldOnce /\ LongAfter!Disp!StatusWasTold
          /\ LongAfter!Disp!OutcomeIsTrue /\ LongAfter!Disp!AnsweredIsTrue
      => LongDispute!CreatedToldOnce /\ LongDispute!StatusWasTold
        /\ LongDispute!OutcomeIsTrue /\ LongDispute!AnsweredIsTrue
    BY LongDisputeIs
  <2> QED BY <2>2, <2>3, <2>4, <2>5, <2>6, LongDisputeRuns, PTL
<1>3. /\ focus = "RacedDispute"
           => RacedDispute!CreatedToldOnce /\ RacedDispute!StatusWasTold
             /\ RacedDispute!OutcomeIsTrue /\ RacedDispute!AnsweredIsTrue
      /\ focus = "LongDispute"
           => LongDispute!CreatedToldOnce /\ LongDispute!StatusWasTold
             /\ LongDispute!OutcomeIsTrue /\ LongDispute!AnsweredIsTrue
      => DisputeIsToldTruly
  BY DEF DisputeIsToldTruly
<1> QED BY <1>1, <1>2, <1>3, PTL

\* An attempt at a reader has one outcome, told once, a success was taken, and one
\* reader at a time collects a payment.
THEOREM AttemptsEndOnce == Spec => []AttemptEndsOnce
<1>1. Spec => [](focus = "Reader" => Reader!SettledOnce /\ Reader!SuccessWasTaken)
  <2>1. Reading!Desk!TerminalBounds BY BoundsAssumption, ReaderIs
  <2>2. Reading!Desk!Spec => []Reading!Desk!SettledOnce BY <2>1, Reading!AttemptsSettleOnce
  <2>3. Reading!Desk!Spec => []Reading!Desk!SuccessWasTaken
    BY <2>1, Reading!SuccessesWereTaken
  <2>4. Reading!Desk!SettledOnce /\ Reading!Desk!SuccessWasTaken
          => Reader!SettledOnce /\ Reader!SuccessWasTaken
    BY ReaderIs
  <2> QED BY <2>2, <2>3, <2>4, ReaderRuns, PTL
<1>2. Spec =>
      [](focus = "TwoReaders" =>
           TwoReaders!SettledOnce /\ TwoReaders!SuccessWasTaken /\ TwoReaders!OneCollector)
  <2>1. Renewing!Desk!TerminalBounds BY BoundsAssumption, TwoReadersIs
  <2>2. Renewing!Desk!Spec => []Renewing!Desk!SettledOnce BY <2>1, Renewing!AttemptsSettleOnce
  <2>3. Renewing!Desk!Spec => []Renewing!Desk!SuccessWasTaken
    BY <2>1, Renewing!SuccessesWereTaken
  <2>4. Renewing!Desk!Spec => []Renewing!Desk!OneCollector BY <2>1, Renewing!CollectedByOne
  <2>5. Renewing!Desk!SettledOnce /\ Renewing!Desk!SuccessWasTaken
          /\ Renewing!Desk!OneCollector
      => TwoReaders!SettledOnce /\ TwoReaders!SuccessWasTaken /\ TwoReaders!OneCollector
    BY TwoReadersIs
  <2> QED BY <2>2, <2>3, <2>4, <2>5, TwoReadersRuns, PTL
<1>3. /\ focus = "Reader" => Reader!SettledOnce /\ Reader!SuccessWasTaken
      /\ focus = "TwoReaders"
           => TwoReaders!SettledOnce /\ TwoReaders!SuccessWasTaken /\ TwoReaders!OneCollector
      => AttemptEndsOnce
  BY DEF AttemptEndsOnce
<1> QED BY <1>1, <1>2, <1>3, PTL

\* One invoice is charged once, whoever attempts it and after whichever lapsed lease.
THEOREM InvoicesAreChargedOnce == Spec => []ChargedOnce
<1>1. Spec => [](focus = "Renewal" => Renewal!ChargedOnce)
  <2>1. Renewing!CollectionBounds BY BoundsAssumption, RenewalIs
  <2>2. Renewing!Spec => []Renewing!ChargedOnce BY <2>1, Renewing!OneInvoiceOneCharge
  <2>3. Renewing!ChargedOnce => Renewal!ChargedOnce
    BY RenewalIs
  <2> QED BY <2>2, <2>3, RenewalRuns, PTL
<1>2. Spec => [](focus = "FirstInvoice" => FirstInvoice!ChargedOnce)
  <2>1. Subscribing!CollectionBounds BY BoundsAssumption, FirstInvoiceIs
  <2>2. Subscribing!Spec => []Subscribing!ChargedOnce BY <2>1, Subscribing!OneInvoiceOneCharge
  <2>3. Subscribing!ChargedOnce => FirstInvoice!ChargedOnce
    BY FirstInvoiceIs
  <2> QED BY <2>2, <2>3, FirstInvoiceRuns, PTL
<1>3. Spec => [](focus = "Dunning" => Dunning!ChargedOnce)
  <2>1. Dunned!CollectionBounds BY BoundsAssumption, DunningIs
  <2>2. Dunned!Spec => []Dunned!ChargedOnce BY <2>1, Dunned!OneInvoiceOneCharge
  <2>3. Dunned!ChargedOnce => Dunning!ChargedOnce
    BY DunningIs
  <2> QED BY <2>2, <2>3, DunningRuns, PTL
<1>4. /\ focus = "Renewal" => Renewal!ChargedOnce
      /\ focus = "FirstInvoice" => FirstInvoice!ChargedOnce
      /\ focus = "Dunning" => Dunning!ChargedOnce
      => ChargedOnce
  BY DEF ChargedOnce
<1> QED BY <1>1, <1>2, <1>3, <1>4, PTL

\* A paid invoice was charged or paid out of band, and the latest one, however late
\* it is paid, leaves no subscription waiting for it.
THEOREM PaidInvoicesAreSettled == Spec => []PaidIsSettled
<1>1. Spec => [](focus = "Renewal" => Renewal!PaidIsCharged /\ Renewal!PaidRestores)
  <2>1. Renewing!CollectionBounds BY BoundsAssumption, RenewalIs
  <2>2. Renewing!Spec => []Renewing!PaidIsCharged BY <2>1, Renewing!PaidWasCharged
  <2>3. Renewing!Spec => []Renewing!PaidRestores BY <2>1, Renewing!PaidInvoiceRestores
  <2>4. Renewing!PaidIsCharged /\ Renewing!PaidRestores
          => Renewal!PaidIsCharged /\ Renewal!PaidRestores
    BY RenewalIs
  <2> QED BY <2>2, <2>3, <2>4, RenewalRuns, PTL
<1>2. Spec =>
      [](focus = "FirstInvoice" =>
           FirstInvoice!PaidIsCharged /\ FirstInvoice!PaidRestores)
  <2>1. Subscribing!CollectionBounds BY BoundsAssumption, FirstInvoiceIs
  <2>2. Subscribing!Spec => []Subscribing!PaidIsCharged BY <2>1, Subscribing!PaidWasCharged
  <2>3. Subscribing!Spec => []Subscribing!PaidRestores
    BY <2>1, Subscribing!PaidInvoiceRestores
  <2>4. Subscribing!PaidIsCharged /\ Subscribing!PaidRestores
          => FirstInvoice!PaidIsCharged /\ FirstInvoice!PaidRestores
    BY FirstInvoiceIs
  <2> QED BY <2>2, <2>3, <2>4, FirstInvoiceRuns, PTL
<1>3. Spec => [](focus = "Dunning" => Dunning!PaidIsCharged /\ Dunning!PaidRestores)
  <2>1. Dunned!CollectionBounds BY BoundsAssumption, DunningIs
  <2>2. Dunned!Spec => []Dunned!PaidIsCharged BY <2>1, Dunned!PaidWasCharged
  <2>3. Dunned!Spec => []Dunned!PaidRestores BY <2>1, Dunned!PaidInvoiceRestores
  <2>4. Dunned!PaidIsCharged /\ Dunned!PaidRestores
          => Dunning!PaidIsCharged /\ Dunning!PaidRestores
    BY DunningIs
  <2> QED BY <2>2, <2>3, <2>4, DunningRuns, PTL
<1>4. /\ focus = "Renewal" => Renewal!PaidIsCharged /\ Renewal!PaidRestores
      /\ focus = "FirstInvoice" => FirstInvoice!PaidIsCharged /\ FirstInvoice!PaidRestores
      /\ focus = "Dunning" => Dunning!PaidIsCharged /\ Dunning!PaidRestores
      => PaidIsSettled
  BY DEF PaidIsSettled
<1> QED BY <1>1, <1>2, <1>3, <1>4, PTL

\* A settlement's row says of what came back what the acquirer says, and a reversal
\* ends as the acquirer ended it, or failed on a refusal to read the total.
THEOREM ReversalsAreTrue == Spec => []ReversedIsTrue
<1>1. Spec =>
      [](focus = "Settling" =>
           Settling!ReversedIsTrue /\ Settling!ReversalIsTrue)
  <2>1. After!TransferBounds BY BoundsAssumption, SettlingIs
  <2>2. After!Spec => []After!ReversedIsTrue BY <2>1, After!ReversedStaysTrue
  <2>3. After!Spec => []After!ReversalIsTrue BY <2>1, After!ReversalsStayTrue
  <2>4. After!ReversedIsTrue /\ After!ReversalIsTrue
          => Settling!ReversedIsTrue /\ Settling!ReversalIsTrue
    BY SettlingIs
  <2> QED BY <2>2, <2>3, <2>4, SettlingRuns, PTL
<1>2. /\ focus = "Settling" => Settling!ReversedIsTrue /\ Settling!ReversalIsTrue
      => ReversedIsTrue
  BY DEF ReversedIsTrue
<1> QED BY <1>1, <1>2, PTL

\* The references are finitely many, as the instance counts.
LEMMA ReferencesFinite == After!IsFiniteSet({"order1", "order2"})
<1>1. {"order1", "order2"} = {"order1"} \cup {"order2"} OBVIOUS
<1>2. IsFiniteSet({"order1"}) /\ IsFiniteSet({"order2"}) BY FS_Singleton
<1>3. IsFiniteSet({"order1", "order2"}) BY Zenon, <1>1, <1>2, FS_Union
<1> QED BY <1>3 DEF IsFiniteSet, After!IsFiniteSet

\* The sellers of one payment never hold more than it brought in, whichever seller a
\* request names and whichever calls are refused for themselves: settlements apart
\* whose refusal was of no more than a call.
THEOREM SettledWithinPayment == Spec => []WithinPayment
<1>1. Spec => [](focus = "Settling" => Settling!WithinPayment)
  <2>1. After!TransferBounds BY BoundsAssumption, SettlingIs
  <2>3. After!Spec => []After!WithinPayment
    BY <2>1, ReferencesFinite, After!SellersWithinPayment
  <2>4. After!WithinPayment => Settling!WithinPayment BY SettlingIs
  <2> QED BY <2>3, <2>4, SettlingRuns, PTL
<1> QED BY <1>1, PTL DEF WithinPayment

\* A delivery is given up only when its whole schedule has been tried.
THEOREM DeadWereTried == Spec => []DeadMeansTried
<1>1. Spec => [](focus = "Outbox" => Outbox!DeadMeansTried)
  <2>1. LongAfter!Hook!OutboxBounds BY BoundsAssumption, OutboxIs
  <2>2. LongAfter!Hook!Spec => []LongAfter!Hook!DeadMeansTried BY <2>1, LongAfter!DeadWereTried
  <2>3. LongAfter!Hook!DeadMeansTried => Outbox!DeadMeansTried
    BY OutboxIs
  <2> QED BY <2>2, <2>3, OutboxRuns, PTL
<1>2. /\ focus = "Outbox" => Outbox!DeadMeansTried
      => DeadMeansTried
  BY DEF DeadMeansTried
<1> QED BY <1>1, <1>2, PTL

\* claimDueDeliveries: no two passes attempt one delivery whose lease has not run out
\* under the one that held it.
THEOREM ClaimedByOne == Spec => []OneClaimant
<1>1. Spec => [](focus = "Outbox" => Outbox!OneClaimant)
  <2>1. LongAfter!Hook!OutboxBounds BY BoundsAssumption, OutboxIs
  <2>2. LongAfter!Hook!Spec => []LongAfter!Hook!OneClaimant BY <2>1, LongAfter!ClaimedByOne
  <2>3. LongAfter!Hook!OneClaimant => Outbox!OneClaimant
    BY OutboxIs
  <2> QED BY <2>2, <2>3, OutboxRuns, PTL
<1>2. /\ focus = "Outbox" => Outbox!OneClaimant
      => OneClaimant
  BY DEF OneClaimant
<1> QED BY <1>1, <1>2, PTL


\* A delivery that ended, as delivered or given up, is not taken up again.
Kept ==
  \A d \in Outbox!Ids \ overrun : delivery[d].status \in Outbox!Ended =>
    delivery'[d].status \in {delivery[d].status, "deleted"}

\* recordDeliveryAttempt and the redelivery a merchant asks for: an ended delivery
\* stays ended, where its lease never ran out under a pass.
THEOREM EndedForGood == Spec => EndedStaysEnded
<1>1. LongAfter!Hook!Spec => [][Kept]_(LongAfter!Hook!vars)
  <2>1. LongAfter!Hook!OutboxBounds BY BoundsAssumption, OutboxIs
  <2>2. LongAfter!Hook!Ids = Outbox!Ids /\ LongAfter!Hook!Ended = Outbox!Ended
    BY DEF LongAfter!Hook!Ids, Outbox!Ids, LongAfter!Hook!Ended, Outbox!Ended
  <2>3. [\A d \in LongAfter!Hook!Ids \ overrun : delivery[d].status \in LongAfter!Hook!Ended =>
           delivery'[d].status \in {delivery[d].status, "deleted"}]_(LongAfter!Hook!vars)
        => [Kept]_(LongAfter!Hook!vars)
    BY <2>2 DEF Kept
  <2>4. LongAfter!Hook!Spec => LongAfter!Hook!EndedStaysEnded BY <2>1, LongAfter!EndedForGood
  <2> QED BY <2>3, <2>4, PTL DEF LongAfter!Hook!EndedStaysEnded
<1>2. [Kept]_(LongAfter!Hook!vars) => [focus = "Outbox" => Kept]_vars
  BY DEF vars, OutboxVars, LongAfter!Hook!vars, Kept
<1>3. ~(focus = "Outbox") => [focus = "Outbox" => Kept]_vars OBVIOUS
<1>4. Spec => [][focus = "Outbox" => Kept]_vars
  BY <1>1, <1>2, <1>3, OutboxRuns, PTL
<1> QED BY <1>4 DEF EndedStaysEnded, Kept
=============================================================================
