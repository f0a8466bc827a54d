-------------------------- MODULE CardIntent_proofs --------------------------
(***************************************************************************)
(* CardIntent, proved for any number of workers, any bounds and any terms  *)
(* of the payment: the row never contradicts itself, never claims money    *)
(* the acquirer did not take, and implements the published lifecycle.      *)
(***************************************************************************)
EXTENDS CardIntent, TLAPS

(***************************************************************************)
(* applyEvent only walks edges of the table: an event that may act and     *)
(* changes the status leaves a status that had not ended.                  *)
(***************************************************************************)
LEMMA EventsWalkEdges ==
  ASSUME NEW from \in Statuses \cup {"none"}, NEW event \in CardEvents,
         CanApply(from, event, "card"), TargetStatusFor(event) # from
  PROVE  /\ from \in Statuses \ TerminalStatuses
         /\ TargetStatusFor(event) \in Allowed[from]
BY DEF CanApply, CardEvents, TargetStatusFor, LegalSources, Statuses,
       TerminalStatuses, IsValidStatusTransition, Cancellable,
       ExpirableStatuses

\* Every event has a target, and the acquirer's answers have an event.
LEMMA TargetsAreStatuses ==
  /\ \A event \in CardEvents : TargetStatusFor(event) \in Statuses
  /\ \A s \in Statuses : /\ EventForProviderStatus(s) \in CardEvents
                         /\ TargetStatusFor(EventForProviderStatus(s)) = s
BY DEF CardEvents, TargetStatusFor, Statuses, EventForProviderStatus

\* An event of the acquirer's that ends a row says how the payment ended.
LEMMA EndingEvents ==
  ASSUME NEW event \in CardEvents
  PROVE  /\ TargetStatusFor(event) = "succeeded" <=> event = "card_succeeded"
         /\ TargetStatusFor(event) = "canceled" <=> event = "card_canceled"
BY DEF CardEvents, TargetStatusFor

\* Every status an expiry or a cancel starts from may be canceled.
LEMMA CancellableEdges ==
  \A s \in Cancellable : /\ s \in Statuses \ TerminalStatuses
                         /\ "canceled" \in Allowed[s]
BY DEF Cancellable, ExpirableStatuses, Statuses, TerminalStatuses, Allowed

\* The edges of the table lead to statuses, and none leaves an ending.
LEMMA EdgesAreStatuses ==
  \A s \in Statuses : /\ Allowed[s] \subseteq Statuses
                      /\ s \in TerminalStatuses => Allowed[s] = {}
                      /\ s \notin Allowed[s]
BY DEF Statuses, Allowed, TerminalStatuses

\* Every entry of a sequence over a set is a member of the set.
LEMMA SeqElements ==
  ASSUME NEW S, NEW s \in Seq(S) PROVE \A e \in DOMAIN s : s[e] \in S
OBVIOUS

-----------------------------------------------------------------------------
(***************************************************************************)
(* What one compare-and-swap along an edge does to the row's invariants.   *)
(***************************************************************************)
RowTyped ==
  /\ status \in Statuses \cup {"none"} /\ linked \in BOOLEAN
  /\ charged \in BOOLEAN /\ received \in Amounts
  /\ outcomes \in Seq(TerminalStatuses)
  /\ captureMethod \in CaptureMethods /\ saved \in SavedMethods

\* A compare-and-swap along an edge, to succeeded only when the acquirer has the
\* money, keeps the row typed and its one ending told.
LEMMA CasKeepsRow ==
  ASSUME IndInv, NEW from, NEW to \in Statuses, NEW amount \in Amounts,
         TransitionIntent(from, to, amount),
         from # to => from \in Statuses /\ to \in Allowed[from],
         to = "succeeded" => pp = "succeeded" /\ amount # "none"
  PROVE  /\ RowTyped' /\ OutcomeTold'
         /\ status' = "succeeded" => pp = "succeeded" /\ charged' /\ received' # "none"
<1>1. CASE from = to
  <2>1. status' = status /\ outcomes' = outcomes
    BY <1>1 DEF TransitionIntent, UpdateIntentState
  <2>2. RowTyped'
    BY <1>1, <2>1 DEF TransitionIntent, UpdateIntentState, IndInv, TypeOK,
       RowTyped, Amounts
  <2> QED
    BY <1>1, <2>1, <2>2 DEF TransitionIntent, UpdateIntentState, IndInv, OutcomeTold
<1>2. CASE from # to
  <2>1. status = from /\ from \in Statuses \ TerminalStatuses /\ outcomes = <<>>
    BY <1>2, EdgesAreStatuses DEF TransitionIntent, UpdateIntentState, IndInv,
       OutcomeTold
  <2>2. outcomes' = IF to \in TerminalStatuses THEN <<to>> ELSE <<>>
    BY <1>2, <2>1 DEF TransitionIntent
  <2>3. RowTyped'
    BY <2>1, <2>2 DEF TransitionIntent, UpdateIntentState, IndInv, TypeOK,
       RowTyped, Amounts
  <2> QED
    BY <2>2, <2>3 DEF TransitionIntent, UpdateIntentState, OutcomeTold
<1> QED BY <1>1, <1>2

-----------------------------------------------------------------------------
\* What the acquirer announces is true, and stays so: its endings are final.

Results == AttemptResults \cup {"succeeded", "canceled"}

\* A result of the acquirer's names one status and one event, the same ending.
LEMMA ResultTypes ==
  ASSUME NEW r \in Results
  PROVE  /\ StatusOf(r) \in Statuses
         /\ IntentEventFor(r) \in CardEvents
         /\ IntentEventFor(r) = "card_succeeded" <=> r = "succeeded"
         /\ IntentEventFor(r) = "card_canceled" <=> r = "canceled"
         /\ r = "succeeded" <=> StatusOf(r) = "succeeded"
         /\ r = "canceled" <=> StatusOf(r) = "canceled"
BY DEF Results, AttemptResults, StatusOf, IntentEventFor, CardEvents, Statuses

ProviderTyped ==
  /\ pp \in Statuses \cup {"none"} /\ taken \in Amounts
  /\ events \in Seq(CardEvents) /\ processed \subseteq DOMAIN events

(***************************************************************************)
(* One move of the acquirer's payment, from a status that is not final,    *)
(* keeps every event true and forgets none.                                *)
(***************************************************************************)
LEMMA ProviderKeepsTruth ==
  ASSUME IndInv, NEW r \in Results, NEW amount \in Amounts,
         ProviderMoves(r, amount), pp \notin TerminalStatuses
  PROVE  /\ ProviderTyped' /\ EventsTruthful'
         /\ DOMAIN events \subseteq DOMAIN events'
         /\ pp' = StatusOf(r) /\ pp' # "none"
<1> DEFINE new == IntentEventFor(r)
<1>1. events \in Seq(CardEvents) /\ processed \subseteq DOMAIN events
  BY DEF IndInv, TypeOK
<1>2. new \in CardEvents
  BY ResultTypes
<1>3. events' = Append(events, new)
  BY DEF ProviderMoves
<1>4. /\ DOMAIN events = 1..Len(events) /\ Len(events) \in Nat
      /\ DOMAIN events' = 1..(Len(events) + 1)
      /\ \A e \in DOMAIN events : events'[e] = events[e]
      /\ events'[Len(events) + 1] = new
  BY <1>1, <1>2, <1>3
<1>5. pp' = StatusOf(r) /\ pp' \in Statuses /\ pp' # "none"
  BY ResultTypes DEF ProviderMoves, Statuses
<1>6. ProviderTyped'
  BY <1>1, <1>2, <1>3, <1>4, <1>5 DEF ProviderTyped, ProviderMoves, IndInv, TypeOK
<1>7. EventsTruthful'
  <2> SUFFICES ASSUME NEW e \in DOMAIN events'
               PROVE  /\ events'[e] = "card_succeeded" => pp' = "succeeded"
                      /\ events'[e] = "card_canceled" => pp' = "canceled"
    BY <1>5 DEF EventsTruthful
  <2>1. CASE e \in DOMAIN events
    BY <2>1, <1>4 DEF IndInv, EventsTruthful, TerminalStatuses
  <2>2. CASE e = Len(events) + 1
    BY <2>2, <1>4, <1>5, ResultTypes
  <2> QED BY <2>1, <2>2, <1>4
<1> QED BY <1>4, <1>5, <1>6, <1>7

(***************************************************************************)
(* The workers that did not step keep what they hold, and it stays true.   *)
(***************************************************************************)
LEMMA OneJobMoves ==
  ASSUME IndInv, NEW w \in Workers, NEW j \in JobType,
         job' = [job EXCEPT ![w] = j], JobTruthful(j, pp', DOMAIN events'),
         pp \in TerminalStatuses => pp' = pp,
         pp # "none" => pp' # "none",
         DOMAIN events \subseteq DOMAIN events'
  PROVE  job' \in [Workers -> JobType] /\ JobsTruthful'
<1>1. job' \in [Workers -> JobType]
  BY DEF IndInv, TypeOK
<1>2. JobsTruthful'
  <2> SUFFICES ASSUME NEW v \in Workers PROVE JobTruthful(job'[v], pp', DOMAIN events')
    BY DEF JobsTruthful, JobTruthful
  <2>1. CASE v = w
    BY <2>1 DEF IndInv, TypeOK, JobTruthful
  <2>2. CASE v # w
    BY <2>2 DEF IndInv, TypeOK, JobsTruthful, JobTruthful, TerminalStatuses
  <2> QED BY <2>1, <2>2
<1> QED BY <1>1, <1>2

-----------------------------------------------------------------------------
(***************************************************************************)
(* The parts of the invariant an action disturbs, and how they combine.    *)
(***************************************************************************)
RowKept == RowTyped /\ OutcomeTold /\ SucceededIsPaid /\ CalledOffFirst
ProviderKept == ProviderTyped /\ EventsTruthful
JobsKept == job \in [Workers -> JobType] /\ JobsTruthful
CountersTyped ==
  due \in BOOLEAN /\ closedLocally \in BOOLEAN /\ attempts \in Nat /\ aborts \in Nat

\* The inductive invariant is the claims about the row, the acquirer, the jobs and
\* the counters: four parts a step may disturb separately.
LEMMA Parts ==
  /\ IndInv <=> RowKept /\ ProviderKept /\ JobsKept /\ CountersTyped
  /\ (RowKept /\ ProviderKept /\ JobsKept /\ CountersTyped)' => IndInv'
BY DEF IndInv, TypeOK, RowKept, RowTyped, ProviderKept, ProviderTyped,
       JobsKept, CountersTyped

\* A row nobody writes keeps its claims while the acquirer's endings are final.
LEMMA QuietRow ==
  ASSUME IndInv, UNCHANGED <<row, closedLocally>>,
         pp \in TerminalStatuses => pp' = pp
  PROVE  RowKept'
BY DEF IndInv, TypeOK, RowKept, RowTyped, row, OutcomeTold, SucceededIsPaid,
       CalledOffFirst, TerminalStatuses

\* An acquirer nobody asked anything keeps what it announced true.
LEMMA QuietProvider ==
  ASSUME IndInv, UNCHANGED provider
  PROVE  ProviderKept'
BY DEF IndInv, TypeOK, ProviderKept, ProviderTyped, provider, EventsTruthful

\* Jobs nobody moved stay truthful while the acquirer only goes forward.
LEMMA QuietJobs ==
  ASSUME IndInv, UNCHANGED job, pp \in TerminalStatuses => pp' = pp,
         pp # "none" => pp' # "none", DOMAIN events \subseteq DOMAIN events'
  PROVE  JobsKept'
BY DEF IndInv, TypeOK, JobsKept, JobsTruthful, JobTruthful, TerminalStatuses

\* A worker that goes idle holds nothing that could be false.
LEMMA IdleIsTruthful ==
  Idle \in JobType /\ \A p, D : JobTruthful(Idle, p, D)
BY DEF Idle, Job, JobType, JobTruthful, Pcs, Amounts

\* A drain that is done with its event goes on to mark it.
LEMMA DoneIsTruthful ==
  ASSUME IndInv, NEW w \in Workers, Done(w), UNCHANGED provider
  PROVE  JobsKept'
<1>1. CASE job[w].ev # 0
  <2> DEFINE j == Job("mark", "none", "none", "none", job[w].ev)
  <2>1. j \in JobType /\ JobTruthful(j, pp', DOMAIN events')
    BY <1>1 DEF Job, JobType, JobTruthful, Pcs, Amounts, IndInv, TypeOK,
       JobsTruthful, provider
  <2>2. job' = [job EXCEPT ![w] = j]
    BY <1>1 DEF Done, Go
  <2> QED
    BY <2>1, <2>2, OneJobMoves DEF JobsKept, provider
<1>2. CASE job[w].ev = 0
  <2>1. job' = [job EXCEPT ![w] = Idle] /\ JobTruthful(Idle, pp', DOMAIN events')
    BY <1>2, IdleIsTruthful DEF Done, Finish, Go, provider, JobTruthful
  <2> QED
    BY <2>1, IdleIsTruthful, OneJobMoves DEF JobsKept, provider
<1> QED BY <1>1, <1>2

\* A worker that finishes leaves every other job truthful and holds nothing itself.
LEMMA FinishIsTruthful ==
  ASSUME IndInv, NEW w \in Workers, Finish(w),
         pp \in TerminalStatuses => pp' = pp,
         pp # "none" => pp' # "none",
         DOMAIN events \subseteq DOMAIN events'
  PROVE  JobsKept'
BY IdleIsTruthful, OneJobMoves
  DEF JobsKept, Finish, Go

-----------------------------------------------------------------------------
\* A worker that only moves on keeps the invariant, if what it holds is true.
LEMMA WorkerMovesOn ==
  ASSUME IndInv, NEW w \in Workers, NEW j \in JobType, Go(w, j),
         JobTruthful(j, pp, DOMAIN events),
         UNCHANGED <<row, closedLocally, provider>>,
         due' \in BOOLEAN, attempts' \in Nat, aborts' \in Nat
  PROVE  IndInv'
<1>1. RowKept' /\ ProviderKept'
  BY QuietRow, QuietProvider DEF provider
<1>2. JobsKept'
  BY OneJobMoves DEF Go, JobsKept, provider
<1>3. CountersTyped'
  BY DEF CountersTyped, IndInv, TypeOK
<1> QED BY <1>1, <1>2, <1>3, Parts

\* A compare-and-swap keeps the row's claims, if what it writes is true.
LEMMA CasKeepsClaims ==
  ASSUME IndInv, NEW from, NEW to \in Statuses, NEW amount \in Amounts,
         TransitionIntent(from, to, amount), UNCHANGED provider,
         from # to => from \in Statuses /\ to \in Allowed[from],
         to = "succeeded" => pp = "succeeded" /\ amount # "none",
         to = "canceled" => pp = "canceled" \/ closedLocally'
  PROVE  RowKept'
<1>1. /\ RowTyped' /\ OutcomeTold'
      /\ status' = "succeeded" => pp = "succeeded" /\ charged' /\ received' # "none"
  BY CasKeepsRow
<1>2. SucceededIsPaid' /\ CalledOffFirst'
  BY <1>1 DEF SucceededIsPaid, CalledOffFirst, provider, TransitionIntent,
     UpdateIntentState
<1> QED BY <1>1, <1>2 DEF RowKept

\* A move of the acquirer's payment that Peable's worker asked for.
LEMMA AskedMove ==
  ASSUME IndInv, NEW w \in Workers, NEW r \in Results,
         NEW amount \in Amounts, ProviderMoves(r, amount),
         pp \notin TerminalStatuses,
         NEW j \in JobType, Go(w, j),
         JobTruthful(j, StatusOf(r), DOMAIN events),
         UNCHANGED <<row, due, closedLocally, attempts, aborts>>
  PROVE  IndInv'
<1>1. /\ ProviderTyped' /\ EventsTruthful'
      /\ DOMAIN events \subseteq DOMAIN events'
      /\ pp' = StatusOf(r) /\ pp' # "none"
  BY ProviderKeepsTruth
<1>2. JobTruthful(j, pp', DOMAIN events')
  BY <1>1 DEF JobTruthful
<1>3. JobsKept'
  BY <1>1, <1>2, OneJobMoves DEF Go, JobsKept
<1>4. RowKept'
  BY QuietRow
<1>5. CountersTyped'
  BY DEF CountersTyped, IndInv, TypeOK
<1> QED BY <1>1, <1>3, <1>4, <1>5, Parts DEF ProviderKept

\* A move of the acquirer's payment that nobody at Peable asked for.
LEMMA UnaskedMove ==
  ASSUME IndInv, NEW r \in Results, NEW amount \in Amounts,
         ProviderMoves(r, amount), pp \notin TerminalStatuses,
         UNCHANGED <<row, due, closedLocally, job, aborts>>, attempts' \in Nat
  PROVE  IndInv'
<1>1. /\ ProviderTyped' /\ EventsTruthful'
      /\ DOMAIN events \subseteq DOMAIN events' /\ pp' # "none"
  BY ProviderKeepsTruth
<1>2. RowKept' /\ JobsKept'
  BY <1>1, QuietRow, QuietJobs
<1>3. CountersTyped'
  BY DEF CountersTyped, IndInv, TypeOK
<1> QED BY <1>1, <1>2, <1>3, Parts DEF ProviderKept

\* A handler that has applied, or declined to apply, an answer or an event.
LEMMA HandledKeeps ==
  ASSUME IndInv, NEW w \in Workers, Done(w) \/ Finish(w), RowKept',
         UNCHANGED <<due, closedLocally, provider, attempts, aborts>>
  PROVE  IndInv'
<1>1. ProviderKept' /\ JobsKept'
  BY QuietProvider, DoneIsTruthful, FinishIsTruthful DEF provider
<1>2. CountersTyped'
  BY DEF CountersTyped, IndInv, TypeOK
<1> QED BY <1>1, <1>2, Parts

-----------------------------------------------------------------------------
\* One lemma per action that writes the row or asks the acquirer to move.

\* createIntent's first call to the acquirer, answered, unanswered or refused,
\* keeps the invariant.
LEMMA AttachKeeps ==
  ASSUME IndInv, NEW w \in Workers, AttachProviderPayment(w) PROVE IndInv'
<1> USE DEF Job, JobType, JobTruthful, Pcs, Amounts, Statuses
<1>1. job[w] \in JobType /\ JobTruthful(job[w], pp, DOMAIN events)
  BY DEF IndInv, TypeOK, JobsTruthful
<1>2. CASE /\ pp = "none"
           /\ \E r \in AttemptResults :
                /\ ProviderMoves(r, "full")
                /\ Go(w, Job("link", job[w].from, StatusOf(r), "none", 0))
           /\ UNCHANGED <<row, due, closedLocally, attempts, aborts>>
  <2>1. PICK r \in AttemptResults :
          /\ ProviderMoves(r, "full")
          /\ Go(w, Job("link", job[w].from, StatusOf(r), "none", 0))
    BY <1>2
  <2>2. r \in Results BY DEF Results
  <2> DEFINE j == Job("link", job[w].from, StatusOf(r), "none", 0)
  <2>3. j \in JobType /\ JobTruthful(j, StatusOf(r), DOMAIN events)
    BY <1>1, <2>2, ResultTypes
  <2> QED BY <1>2, <2>1, <2>2, <2>3, AskedMove DEF TerminalStatuses
<1>3. CASE /\ Finish(w) /\ UNCHANGED provider
           /\ UNCHANGED <<row, due, closedLocally, attempts, aborts>>
  BY <1>3, HandledKeeps, QuietRow DEF provider
<1>4. CASE /\ pp' = IF pp # "none" THEN pp
                    ELSE IF saved /\ At(w, "create") THEN "requires_confirmation"
                    ELSE "requires_payment_method"
           /\ Go(w, Job("link", "none", "none", "none", 0))
           /\ UNCHANGED <<taken, events, processed>>
           /\ UNCHANGED <<row, due, closedLocally, attempts, aborts>>
  <2> DEFINE j == Job("link", "none", "none", "none", 0)
  <2>1. ProviderKept'
    BY <1>4 DEF ProviderKept, ProviderTyped, EventsTruthful, IndInv, TypeOK
  <2>2. RowKept'
    BY <1>4, QuietRow DEF TerminalStatuses
  <2>3. job' = [job EXCEPT ![w] = j] /\ j \in JobType
        /\ JobTruthful(j, pp', DOMAIN events')
    BY <1>4 DEF Go
  <2>4. JobsKept'
    BY <1>4, <2>3, OneJobMoves DEF JobsKept, TerminalStatuses
  <2>5. CountersTyped'
    BY <1>4 DEF CountersTyped, IndInv, TypeOK
  <2> QED BY <2>1, <2>2, <2>4, <2>5, Parts
<1> QED BY <1>2, <1>3, <1>4 DEF AttachProviderPayment

\* Applying the acquirer's answer to the row keeps the invariant.
LEMMA ApplyKeeps ==
  ASSUME IndInv, NEW w \in Workers, ApplyProviderPaymentResult(w) PROVE IndInv'
<1> DEFINE j == job[w]
           event == EventForProviderStatus(j.res)
<1>1. j \in JobType /\ JobTruthful(j, pp, DOMAIN events) /\ j.res \in Statuses
  BY DEF IndInv, TypeOK, JobsTruthful, ApplyProviderPaymentResult, At, JobTruthful
<1>2. CASE UNCHANGED row
  BY <1>2, HandledKeeps, QuietRow DEF ApplyProviderPaymentResult, provider
<1>3. CASE /\ CanApply(j.from, event, "card") /\ j.from # j.res
           /\ TransitionIntent(j.from, j.res, AmountOf(j)) /\ Done(w)
  <2>1. event \in CardEvents /\ TargetStatusFor(event) = j.res
    BY <1>1, TargetsAreStatuses
  <2>2. j.from \in Statuses /\ j.res \in Allowed[j.from]
    BY <1>1, <1>3, <2>1, EventsWalkEdges DEF JobType
  <2>3. AmountOf(j) \in Amounts /\ AmountOf(j) # "none"
    BY <1>1 DEF AmountOf, JobType, Amounts
  <2>4. RowKept'
    BY <1>1, <1>3, <2>2, <2>3, CasKeepsClaims
       DEF ApplyProviderPaymentResult, JobTruthful
  <2> QED BY <1>3, <2>4, HandledKeeps DEF ApplyProviderPaymentResult
<1> QED BY <1>2, <1>3 DEF ApplyProviderPaymentResult

\* Processing one stored provider event keeps the invariant.
LEMMA EventKeeps ==
  ASSUME IndInv, NEW w \in Workers, ProcessProviderEvent(w) PROVE IndInv'
<1> DEFINE j == job[w]
           event == events[j.ev]
           target == TargetStatusFor(event)
<1>1. /\ j \in JobType /\ JobTruthful(j, pp, DOMAIN events)
      /\ j.ev \in DOMAIN events
  BY DEF IndInv, TypeOK, JobsTruthful, ProcessProviderEvent, At, JobTruthful
<1>2. event \in CardEvents /\ target \in Statuses
  <2>1. \A e \in DOMAIN events : events[e] \in CardEvents
    BY SeqElements DEF IndInv, TypeOK
  <2> HIDE DEF j
  <2>2. event \in CardEvents BY <1>1, <2>1
  <2> QED BY <2>2, TargetsAreStatuses
<1>3. /\ target = "succeeded" => pp = "succeeded"
      /\ target = "canceled" => pp = "canceled"
  BY <1>1, <1>2, EndingEvents DEF IndInv, EventsTruthful
<1>4. CASE Go(w, Job("ask", "none", "none", "none", j.ev)) /\ UNCHANGED row
  <2> DEFINE k == Job("ask", "none", "none", "none", j.ev)
  <2>1. k \in JobType /\ JobTruthful(k, pp, DOMAIN events)
    BY <1>1 DEF Job, JobType, JobTruthful, Pcs, Amounts, IndInv, EventsTruthful
  <2> QED
    BY <1>4, <2>1, WorkerMovesOn DEF ProcessProviderEvent, IndInv, TypeOK
<1>5. CASE (Done(w) \/ Finish(w)) /\ UNCHANGED row
  BY <1>5, HandledKeeps, QuietRow DEF ProcessProviderEvent, provider
<1>6. CASE /\ CanApply(j.from, event, "card")
           /\ TransitionIntent(j.from, target, "full") /\ Done(w)
  <2>1. j.from # target => j.from \in Statuses /\ target \in Allowed[j.from]
    BY <1>1, <1>2, <1>6, EventsWalkEdges DEF JobType
  <2>2. RowKept'
    BY <1>2, <1>3, <1>6, <2>1, CasKeepsClaims
       DEF ProcessProviderEvent, Amounts
  <2> QED BY <1>6, <2>2, HandledKeeps DEF ProcessProviderEvent
<1> QED BY <1>4, <1>5, <1>6 DEF ProcessProviderEvent

\* The local write that closes a canceled or expired row keeps the invariant.
LEMMA CloseKeeps ==
  ASSUME IndInv, NEW w \in Workers, CloseRow(w) PROVE IndInv'
<1>1. /\ job[w].from \in Cancellable
      /\ job[w].res = "canceled" => pp = "canceled"
  BY DEF IndInv, JobsTruthful, JobTruthful, CloseRow, At
<1>2. CASE UNCHANGED <<row, closedLocally>>
  BY <1>2, HandledKeeps, QuietRow DEF CloseRow, provider
<1>3. CASE /\ TransitionIntent(job[w].from, "canceled", "none")
           /\ closedLocally' = (job[w].res # "canceled")
  <2>1. RowKept'
    BY <1>1, <1>3, CancellableEdges, CasKeepsClaims DEF CloseRow, Statuses, Amounts
  <2>2. ProviderKept' /\ JobsKept'
    BY QuietProvider, FinishIsTruthful DEF CloseRow, provider
  <2>3. CountersTyped'
    BY <1>3 DEF CloseRow, CountersTyped, IndInv, TypeOK
  <2> QED BY <2>1, <2>2, <2>3, Parts
<1> QED BY <1>2, <1>3 DEF CloseRow

\* A confirmation at the acquirer keeps the invariant.
LEMMA ConfirmKeeps ==
  ASSUME IndInv, NEW w \in Workers, ConfirmAtProvider(w) PROVE IndInv'
<1>1. CASE /\ pp \in Confirmable
           /\ \E r \in AttemptResults :
                /\ ProviderMoves(r, "full")
                /\ Go(w, Job("apply", job[w].from, StatusOf(r), "none", 0))
  <2>1. PICK r \in AttemptResults :
          /\ ProviderMoves(r, "full")
          /\ Go(w, Job("apply", job[w].from, StatusOf(r), "none", 0))
    BY <1>1
  <2>2. r \in Results BY DEF Results
  <2> DEFINE j == Job("apply", job[w].from, StatusOf(r), "none", 0)
  <2>3. job[w] \in JobType
    BY DEF IndInv, TypeOK
  <2>4. j \in JobType /\ JobTruthful(j, StatusOf(r), DOMAIN events)
    BY <2>2, <2>3, ResultTypes DEF Job, JobType, JobTruthful, Pcs, Amounts
  <2> QED
    BY <1>1, <2>1, <2>2, <2>4, AskedMove
       DEF ConfirmAtProvider, Confirmable, TerminalStatuses, Amounts
<1>2. CASE Finish(w) /\ UNCHANGED provider
  BY <1>2, HandledKeeps, QuietRow DEF ConfirmAtProvider, provider
<1> QED BY <1>1, <1>2 DEF ConfirmAtProvider

\* A capture at the acquirer keeps the invariant.
LEMMA CaptureKeeps ==
  ASSUME IndInv, NEW w \in Workers, CaptureAtProvider(w) PROVE IndInv'
<1> DEFINE answered == [job[w] EXCEPT !.pc = "apply", !.res = "succeeded"]
<1>1. /\ job[w] \in JobType /\ JobTruthful(job[w], pp, DOMAIN events)
      /\ job[w].amt \in Amounts
  BY DEF IndInv, TypeOK, JobsTruthful, JobType
<1>2. answered \in JobType /\ JobTruthful(answered, "succeeded", DOMAIN events)
  BY ZenonT(60), <1>1 DEF JobType, JobTruthful, Pcs, Statuses
<1>3. CASE /\ pp = "requires_capture" /\ ProviderMoves("succeeded", job[w].amt)
           /\ Go(w, answered)
  BY <1>1, <1>2, <1>3, AskedMove
     DEF CaptureAtProvider, Results, StatusOf, TerminalStatuses
<1>4. CASE pp = "succeeded" /\ Go(w, answered) /\ UNCHANGED provider
  BY <1>2, <1>4, WorkerMovesOn DEF CaptureAtProvider, IndInv, TypeOK
<1>5. CASE Finish(w) /\ UNCHANGED provider
  BY <1>5, HandledKeeps, QuietRow DEF CaptureAtProvider, provider
<1> QED BY <1>3, <1>4, <1>5 DEF CaptureAtProvider

\* A cancellation at the acquirer keeps the invariant.
LEMMA CallOffKeeps ==
  ASSUME IndInv, NEW w \in Workers, CancelAtProvider(w) PROVE IndInv'
<1> DEFINE calledOff == [job[w] EXCEPT !.pc = "close", !.res = "canceled"]
<1>1. /\ job[w] \in JobType /\ JobTruthful(job[w], pp, DOMAIN events)
      /\ job[w].pc = "calloff"
  BY DEF IndInv, TypeOK, JobsTruthful, CancelAtProvider, At
<1>2. calledOff \in JobType /\ JobTruthful(calledOff, "canceled", DOMAIN events)
  BY <1>1 DEF JobType, JobTruthful, Pcs, Statuses
<1>3. CASE /\ pp \in Cancellable /\ ProviderMoves("canceled", "none")
           /\ Go(w, calledOff)
  BY <1>2, <1>3, AskedMove, CancellableEdges
     DEF CancelAtProvider, Results, StatusOf, Amounts
<1>4. CASE pp = "canceled" /\ Go(w, calledOff) /\ UNCHANGED provider
  BY <1>2, <1>4, WorkerMovesOn DEF CancelAtProvider, IndInv, TypeOK
<1>5. CASE /\ pp = "succeeded" /\ UNCHANGED provider
           /\ Go(w, Job("ask", "none", "none", "none", 0))
  <2> DEFINE j == Job("ask", "none", "none", "none", 0)
  <2>1. j \in JobType /\ JobTruthful(j, pp, DOMAIN events)
    BY <1>5 DEF Job, JobType, JobTruthful, Pcs, Amounts
  <2> QED BY <1>5, <2>1, WorkerMovesOn DEF CancelAtProvider, IndInv, TypeOK
<1>6. CASE Finish(w) /\ UNCHANGED provider
  BY <1>6, HandledKeeps, QuietRow DEF CancelAtProvider, provider
<1> QED BY <1>3, <1>4, <1>5, <1>6 DEF CancelAtProvider

-----------------------------------------------------------------------------
\* The invariant holds before the payment exists.
LEMMA InitHolds == ASSUME Init PROVE IndInv
<1>1. Idle \in JobType /\ \A p, D : JobTruthful(Idle, p, D)
  BY IdleIsTruthful
<1>2. <<>> \in Seq(TerminalStatuses) /\ DOMAIN <<>> = {}
      /\ <<>> \in Seq(CardEvents)
  OBVIOUS
<1>3. RowKept /\ ProviderKept
  BY <1>2 DEF Init, RowKept, RowTyped, OutcomeTold, SucceededIsPaid, CalledOffFirst,
     ProviderKept, ProviderTyped, EventsTruthful, Amounts, TerminalStatuses
<1>4. JobsKept
  BY <1>1 DEF Init, JobsKept, JobsTruthful, JobTruthful
<1>5. CountersTyped
  BY DEF Init, CountersTyped
<1> QED BY <1>3, <1>4, <1>5, Parts

\* Every step of every worker, of the acquirer and of the clock keeps the invariant.
LEMMA NextKeeps == ASSUME IndInv, [Next]_vars PROVE IndInv'
<1> USE DEF Job, JobType, JobTruthful, Pcs, Amounts
<1>1. /\ BoundsAssumption /\ TermsAssumption
      /\ due \in BOOLEAN /\ attempts \in Nat /\ aborts \in Nat
      /\ attempts + 1 \in Nat /\ aborts + 1 \in Nat
  BY BoundsAssumption, TermsAssumption DEF IndInv, TypeOK
<1>2. ASSUME NEW w \in Workers, Step(w) PROVE IndInv'
  <2> DEFINE j == job[w]
  <2>1. j \in JobType /\ JobTruthful(j, pp, DOMAIN events)
    BY DEF IndInv, TypeOK, JobsTruthful
  <2>2. CASE LinkProviderObject(w)
    <3>1. JobsKept'
      <4>1. CASE Finish(w)
        BY <2>2, <4>1, FinishIsTruthful DEF LinkProviderObject, provider
      <4>2. CASE Go(w, [j EXCEPT !.pc = "apply"]) /\ j.res # "none"
        BY <2>1, <2>2, <4>2, OneJobMoves
           DEF LinkProviderObject, provider, Go, JobsKept
      <4> QED BY <2>2, <4>1, <4>2 DEF LinkProviderObject
    <3>2. RowKept' /\ ProviderKept' /\ CountersTyped'
      BY <2>2, QuietProvider DEF LinkProviderObject, RowKept, RowTyped,
         OutcomeTold, SucceededIsPaid, CalledOffFirst, provider, IndInv, TypeOK,
         CountersTyped
    <3> QED BY <3>1, <3>2, Parts
  <2>3. CASE AskProvider(w)
    <3> DEFINE k == Job("reread", "none", pp, "none", j.ev)
    <3>1. k \in JobType /\ JobTruthful(k, pp, DOMAIN events)
      BY <2>1, <2>3 DEF AskProvider, At, IndInv, TypeOK
    <3> QED BY <2>3, <3>1, <1>1, WorkerMovesOn DEF AskProvider
  <2>4. CASE RereadRow(w)
    <3>1. CASE Done(w)
      BY <2>4, <3>1, HandledKeeps, QuietRow DEF RereadRow, provider
    <3>2. CASE Go(w, [j EXCEPT !.pc = "apply", !.from = status])
      <4> DEFINE k == [j EXCEPT !.pc = "apply", !.from = status]
      <4>1. k \in JobType /\ JobTruthful(k, pp, DOMAIN events)
        BY ZenonT(60), <2>1, <2>4 DEF RereadRow, At, IndInv, TypeOK
      <4> QED BY <2>4, <3>2, <4>1, <1>1, WorkerMovesOn DEF RereadRow
    <3> QED BY <2>4, <3>1, <3>2 DEF RereadRow
  <2>5. CASE FindIntentByProviderObject(w)
    <3>1. CASE Finish(w)
      BY <2>5, <3>1, HandledKeeps, QuietRow
         DEF FindIntentByProviderObject, provider
    <3>2. CASE Go(w, [j EXCEPT !.pc = "interpret", !.from = status])
      <4> DEFINE k == [j EXCEPT !.pc = "interpret", !.from = status]
      <4>1. k \in JobType /\ JobTruthful(k, pp, DOMAIN events)
        BY <2>1, <2>5 DEF FindIntentByProviderObject, At, IndInv, TypeOK
      <4> QED
        BY <2>5, <3>2, <4>1, <1>1, WorkerMovesOn DEF FindIntentByProviderObject
    <3> QED BY <2>5, <3>1, <3>2 DEF FindIntentByProviderObject
  <2>6. CASE MarkProviderEventProcessed(w)
    <3>1. ProviderKept' /\ DOMAIN events' = DOMAIN events
      <4>1. j.ev \in DOMAIN events
        BY <2>1, <2>6 DEF MarkProviderEventProcessed, At
      <4> QED
        BY <2>6, <4>1 DEF MarkProviderEventProcessed, ProviderKept,
           ProviderTyped, EventsTruthful, IndInv, TypeOK
    <3>2. JobsKept'
      BY <2>6, <3>1, FinishIsTruthful DEF MarkProviderEventProcessed
    <3>3. RowKept' /\ CountersTyped'
      BY <2>6, QuietRow DEF MarkProviderEventProcessed, CountersTyped, IndInv,
         TypeOK
    <3> QED BY <3>1, <3>2, <3>3, Parts
  <2> QED
    BY <1>2, <2>2, <2>3, <2>4, <2>5, <2>6, AttachKeeps, ApplyKeeps, EventKeeps,
       CloseKeeps, ConfirmKeeps, CaptureKeeps, CallOffKeeps DEF Step
<1>3. ASSUME NEW w \in Workers, Request(w) PROVE IndInv'
  <2>1. status \in Statuses \cup {"none"}
    BY DEF IndInv, TypeOK
  <2>2. CASE Create(w)
    <3> DEFINE j(pc) == Job(pc, status', "none", "none", 0)
    <3>1. status' \in {"requires_confirmation", "requires_payment_method"}
      BY <2>2 DEF Create
    <3>2. \A pc \in {"create", "create_confirm"} :
            j(pc) \in JobType /\ JobTruthful(j(pc), pp', DOMAIN events')
      BY <3>1 DEF Statuses
    <3>3. JobsKept'
      <4>1. PICK pc \in {"create", "create_confirm"} : Start(w, j(pc))
        BY <2>2 DEF Create
      <4>2. j(pc) \in JobType /\ JobTruthful(j(pc), pp', DOMAIN events')
        BY <3>2
      <4> HIDE DEF j
      <4> QED
        BY <2>2, <4>1, <4>2, OneJobMoves DEF Create, Start, provider, JobsKept
    <3>4. RowKept' /\ ProviderKept' /\ CountersTyped'
      BY <1>1, <2>2, <3>1, QuietProvider DEF Create, RowKept, RowTyped, OutcomeTold,
         SucceededIsPaid, CalledOffFirst, IndInv, TypeOK, CountersTyped,
         TerminalStatuses, Statuses, provider
    <3> QED BY <3>3, <3>4, Parts
  <2>3. CASE Resume(w)
    BY <1>1, <2>3, WorkerMovesOn DEF Resume, Start, Go
  <2>4. CASE Confirm(w)
    BY <1>1, <2>1, <2>4, WorkerMovesOn DEF Confirm, Start, Go
  <2>5. CASE Capture(w)
    <3>1. PICK a \in CaptureAmounts : Start(w, Job("capture", status, "none", a, 0))
      BY <2>5 DEF Capture
    <3>2. a \in Amounts
      BY <1>1 DEF TermsAssumption
    <3> QED BY <1>1, <2>1, <2>5, <3>1, <3>2, WorkerMovesOn DEF Capture, Start, Go
  <2>6. ASSUME CallOff(w), status \in Cancellable,
               UNCHANGED <<row, due, closedLocally, provider, attempts, aborts>>
        PROVE  IndInv'
    <3>1. PICK pc \in {"calloff", "close"} :
            Go(w, Job(pc, status, "none", "none", 0))
      BY <2>6 DEF CallOff, Start, Go
    <3>2. /\ Job(pc, status, "none", "none", 0) \in JobType
          /\ JobTruthful(Job(pc, status, "none", "none", 0), pp, DOMAIN events)
      BY <2>1, <2>6
    <3> QED BY <1>1, <2>6, <3>1, <3>2, WorkerMovesOn
  <2>7. CASE Cancel(w)
    BY <2>6, <2>7 DEF Cancel
  <2>8. CASE Expire(w)
    BY <2>6, <2>8 DEF Expire, Cancellable
  <2> QED BY <1>3, <2>2, <2>3, <2>4, <2>5, <2>7, <2>8 DEF Request
<1>4. ASSUME NEW w \in Workers, Abort(w) PROVE IndInv'
  <2>1. RowKept' /\ ProviderKept' /\ JobsKept'
    BY <1>4, QuietRow, QuietProvider, FinishIsTruthful DEF Abort, provider
  <2>2. CountersTyped'
    BY <1>1, <1>4 DEF Abort, CountersTyped, IndInv, TypeOK
  <2> QED BY <2>1, <2>2, Parts
<1>5. ASSUME NEW w \in Workers, NEW e \in DOMAIN events, FetchEvent(w, e)
      PROVE  IndInv'
  <2> DEFINE j == Job("read", "none", "none", "none", e)
  <2>1. e \in Nat \ {0}
    BY DEF IndInv, TypeOK
  <2>2. j \in JobType /\ JobTruthful(j, pp, DOMAIN events)
    BY <2>1
  <2> QED BY <1>1, <1>5, <2>2, WorkerMovesOn DEF FetchEvent, Start, Go
<1>6. CASE PayerActs
  <2>1. PICK r \in AttemptResults : ProviderMoves(r, "full")
    BY <1>6 DEF PayerActs
  <2> QED
    BY <1>1, <1>6, <2>1, UnaskedMove DEF PayerActs, Confirmable, TerminalStatuses,
       Results
<1>7. CASE BankAnswers
  <2>1. PICK r \in AttemptResults : ProviderMoves(r, "full")
    BY <1>7 DEF BankAnswers
  <2> QED
    BY <1>1, <1>7, <2>1, UnaskedMove DEF BankAnswers, TerminalStatuses, Results
<1>8. CASE HoldLapses
  BY <1>1, <1>8, UnaskedMove DEF HoldLapses, TerminalStatuses, Results
<1>9. CASE ClockPasses \/ UNCHANGED vars
  <2>1. RowKept' /\ ProviderKept'
    BY <1>9, QuietRow, QuietProvider DEF ClockPasses, vars, provider
  <2>2. JobsKept'
    BY <1>9, QuietJobs DEF ClockPasses, vars, provider
  <2>3. CountersTyped'
    BY <1>9 DEF ClockPasses, vars, CountersTyped, IndInv, TypeOK
  <2> QED BY <2>1, <2>2, <2>3, Parts
<1> QED
  BY <1>2, <1>3, <1>4, <1>5, <1>6, <1>7, <1>8, <1>9 DEF Next

-----------------------------------------------------------------------------
\* Whatever the workers, the acquirer and the clock do, the inductive invariant of
\* create, confirm, capture, cancel, expire and the drain holds.
THEOREM Invariance == Spec => []IndInv
BY InitHolds, NextKeeps, PTL DEF Spec

(***************************************************************************)
(* However many requests, sweeps and drains race over one payment, the row *)
(* is well formed and every execution holds what its code expects.         *)
(***************************************************************************)
THEOREM TypesHold == Spec => []TypeOK
<1>1. IndInv => TypeOK BY DEF IndInv
<1> QED BY Invariance, <1>1, PTL

(***************************************************************************)
(* One ending is told, and it is the row's: updateIntentState's            *)
(* compare-and-swap lets no second, contradicting outcome out.             *)
(***************************************************************************)
THEOREM OneOutcome == Spec => []OutcomeTold
<1>1. IndInv => OutcomeTold BY DEF IndInv
<1> QED BY Invariance, <1>1, PTL

(***************************************************************************)
(* A succeeded row was paid: no race, retry, stale answer or late event    *)
(* settles a payment whose money the acquirer did not take.                *)
(***************************************************************************)
THEOREM SucceededWasPaid == Spec => []SucceededIsPaid
<1>1. IndInv => SucceededIsPaid BY DEF IndInv
<1> QED BY Invariance, <1>1, PTL

(***************************************************************************)
(* A row canceled by way of the acquirer has a payment nobody can complete *)
(* any more.                                                               *)
(***************************************************************************)
THEOREM CanceledAtProvider == Spec => []CalledOffFirst
<1>1. IndInv => CalledOffFirst BY DEF IndInv
<1> QED BY Invariance, <1>1, PTL

-----------------------------------------------------------------------------
\* A compare-and-swap is one edge of the lifecycle, told if it is an ending.
LEMMA CasIsMove ==
  ASSUME IndInv, NEW from, NEW to \in Statuses, NEW amount,
         TransitionIntent(from, to, amount),
         from # to => from \in Statuses /\ to \in Allowed[from]
  PROVE  [Lifecycle!Next]_Lifecycle!vars
<1>1. CASE from = to
  BY <1>1 DEF TransitionIntent, UpdateIntentState, Lifecycle!vars
<1>2. CASE from # to
  BY <1>2 DEF TransitionIntent, UpdateIntentState, Lifecycle!Next,
     Lifecycle!Move, Lifecycle!IsValidStatusTransition, Lifecycle!Allowed,
     Lifecycle!Statuses, Lifecycle!TerminalStatuses, Allowed, Statuses,
     TerminalStatuses
<1> QED BY <1>1, <1>2

\* Every step of a card payment is one move of the published lifecycle, or none.
LEMMA StepIsLifecycleStep ==
  ASSUME IndInv, [Next]_vars PROVE [Lifecycle!Next]_Lifecycle!vars
<1>1. CASE UNCHANGED <<status, outcomes>>
  BY <1>1 DEF Lifecycle!vars
<1>2. ASSUME NEW w \in Workers, Create(w)
      PROVE  [Lifecycle!Next]_Lifecycle!vars
  BY <1>2 DEF Create, Lifecycle!Next, Lifecycle!Create, Lifecycle!ExpirableStatuses
<1>3. ASSUME NEW w \in Workers, ApplyProviderPaymentResult(w)
      PROVE  [Lifecycle!Next]_Lifecycle!vars
  <2> DEFINE j == job[w]
             event == EventForProviderStatus(j.res)
  <2>1. CASE UNCHANGED row
    BY <2>1, <1>1 DEF row
  <2>2. CASE /\ CanApply(j.from, event, "card") /\ j.from # j.res
             /\ TransitionIntent(j.from, j.res, AmountOf(j))
    <3>1. j \in JobType /\ j.res \in Statuses
      BY <1>3 DEF IndInv, TypeOK, JobsTruthful, ApplyProviderPaymentResult, At,
         JobTruthful
    <3>2. event \in CardEvents /\ TargetStatusFor(event) = j.res
      BY <3>1, TargetsAreStatuses
    <3>3. j.from \in Statuses /\ j.res \in Allowed[j.from]
      BY <2>2, <3>1, <3>2, EventsWalkEdges DEF JobType
    <3> QED BY <2>2, <3>1, <3>3, CasIsMove
  <2> QED BY <1>3, <2>1, <2>2 DEF ApplyProviderPaymentResult
<1>4. ASSUME NEW w \in Workers, ProcessProviderEvent(w)
      PROVE  [Lifecycle!Next]_Lifecycle!vars
  <2> DEFINE j == job[w]
             event == events[j.ev]
             target == TargetStatusFor(event)
  <2>1. CASE UNCHANGED row
    BY <2>1, <1>1 DEF row
  <2>2. CASE /\ CanApply(j.from, event, "card")
             /\ TransitionIntent(j.from, target, "full")
    <3>1. j \in JobType /\ j.ev \in DOMAIN events
      BY <1>4 DEF IndInv, TypeOK, JobsTruthful, ProcessProviderEvent, At,
         JobTruthful
    <3>2. event \in CardEvents /\ target \in Statuses
      <4>1. \A e \in DOMAIN events : events[e] \in CardEvents
        BY SeqElements DEF IndInv, TypeOK
      <4> HIDE DEF j
      <4>2. event \in CardEvents BY <3>1, <4>1
      <4> QED BY <4>2, TargetsAreStatuses
    <3>3. j.from # target => j.from \in Statuses /\ target \in Allowed[j.from]
      BY <2>2, <3>1, <3>2, EventsWalkEdges DEF JobType
    <3> QED BY <2>2, <3>2, <3>3, CasIsMove
  <2> QED BY <1>4, <2>1, <2>2 DEF ProcessProviderEvent
<1>5. ASSUME NEW w \in Workers, CloseRow(w)
      PROVE  [Lifecycle!Next]_Lifecycle!vars
  <2>1. job[w].from \in Cancellable
    BY <1>5 DEF IndInv, JobsTruthful, JobTruthful, CloseRow, At
  <2>2. CASE UNCHANGED row
    BY <2>2, <1>1 DEF row
  <2>3. CASE TransitionIntent(job[w].from, "canceled", "none")
    BY <2>1, <2>3, CancellableEdges, CasIsMove DEF Statuses
  <2> QED BY <1>5, <2>2, <2>3 DEF CloseRow
<1>6. ASSUME NEW w \in Workers, Step(w) PROVE [Lifecycle!Next]_Lifecycle!vars
  BY <1>1, <1>3, <1>4, <1>5, <1>6 DEF Step, AttachProviderPayment,
     LinkProviderObject, AskProvider, RereadRow, ConfirmAtProvider,
     CaptureAtProvider, CancelAtProvider, FindIntentByProviderObject,
     MarkProviderEventProcessed, row
<1>7. ASSUME NEW w \in Workers, Request(w) PROVE [Lifecycle!Next]_Lifecycle!vars
  BY <1>1, <1>2, <1>7 DEF Request, Resume, Confirm, Capture, Cancel, Expire, row
<1> QED
  BY <1>1, <1>6, <1>7 DEF Next, Abort, FetchEvent, PayerActs, BankAnswers,
     HoldLapses, ClockPasses, vars, row

(***************************************************************************)
(* The card rail keeps the published lifecycle: every step of any handler, *)
(* sweep or drain is one edge of the table, told once, or no step at all.  *)
(***************************************************************************)
THEOREM Refinement == Spec => ImplementsLifecycle
<1>1. Init => Lifecycle!Init
  BY DEF Init, Lifecycle!Init
<1>2. IndInv /\ [Next]_vars => [Lifecycle!Next]_Lifecycle!vars
  BY StepIsLifecycleStep
<1> QED BY Invariance, <1>1, <1>2, PTL DEF Spec, ImplementsLifecycle, Lifecycle!Spec

(***************************************************************************)
(* An ending is final: no late event, retry or lost race moves the row out *)
(* of succeeded or canceled.                                               *)
(***************************************************************************)
THEOREM EndingsAreFinal == Spec => TerminalIsFinal
<1>1. ASSUME IndInv, [Next]_vars, status \in TerminalStatuses
      PROVE  status' = status
  BY <1>1, StepIsLifecycleStep DEF Lifecycle!vars, Lifecycle!Next,
     Lifecycle!Create, Lifecycle!Move, Lifecycle!IsValidStatusTransition,
     Lifecycle!Allowed, Lifecycle!Statuses, TerminalStatuses
<1>2. IndInv /\ [Next]_vars
        => [(status \in TerminalStatuses) => (status' = status)]_vars
  BY <1>1
<1> QED BY Invariance, <1>2, PTL DEF Spec, TerminalIsFinal
=============================================================================
