------------------------------- MODULE Disputes -------------------------------
(***************************************************************************)
(* One dispute of one settled card payment.  The card network opens it,    *)
(* moves it and decides it; the gateway hears of that through provider     *)
(* events, drained by every task without a lease, and the merchant answers *)
(* it or accepts it meanwhile.  The dispute's row is the one row of the    *)
(* gateway that the drain writes without a compare-and-swap: an event's    *)
(* status is upserted whatever the row says by then.                       *)
(***************************************************************************)
EXTENDS Naturals, Sequences

CONSTANTS
  Drains,      \* tasks that drain provider events
  Requests,    \* concurrent requests of the merchant
  Reordered,   \* whether deliveries may overtake one another
  MaxNews,     \* bound: what the network announces
  MaxAborts    \* bound: executions that die

DisputeBounds == MaxNews \in Nat /\ MaxAborts \in Nat /\ Reordered \in BOOLEAN

VARIABLES
  dispute,     \* the row: its status ("none": no row) and whether it is answered
  network,     \* the network's dispute (external)
  news,        \* what it announced, in order (external)
  inbox,       \* provider_events: what has been stored, in order of arrival
  processed,   \* those marked processed
  told,        \* the merchant's events: how many new disputes, which statuses
  job,         \* what each execution holds
  aborts

vars == <<dispute, network, news, inbox, processed, told, job, aborts>>

Outcomes == {"won", "lost"}
DisputeStatuses == {"needs_response", "under_review"} \cup Outcomes
Workers == Drains \cup Requests
EventTypes == {"created", "updated", "closed", "funds"}
Pcs == {"idle", "scan", "before", "upsert", "mark", "draft", "record_draft",
        "submit", "claim", "accept", "close"}

Job(pc, todo, status, before) ==
  [pc |-> pc, todo |-> todo, status |-> status, before |-> before]
Idle == Job("idle", {}, "none", "none")

Init ==
  /\ dispute = [status |-> "none", submitted |-> FALSE]
  /\ network = [status |-> "none", answered |-> FALSE]
  /\ news = <<>> /\ inbox = <<>> /\ processed = {}
  /\ told = [openings |-> 0, statuses |-> {}]
  /\ job = [w \in Workers |-> Idle]
  /\ aborts = 0

At(w, pc) == job[w].pc = pc
Go(w, j) == job' = [job EXCEPT ![w] = j]
Tell(type, status) ==
  told' = [openings |-> told.openings + (IF type = "created" THEN 1 ELSE 0),
           statuses |-> told.statuses \cup {status}]
Announces(type, status) == news' = Append(news, [type |-> type, status |-> status])
table == <<inbox, processed>>
Stored == {inbox[p] : p \in 1..Len(inbox)}
outside == <<network, news>>

-----------------------------------------------------------------------------
\* The network and the way to the gateway (external).

Opens ==
  /\ network.status = "none"
  /\ network' = [network EXCEPT !.status = "needs_response"]
  /\ Announces("created", "needs_response")
  /\ UNCHANGED <<dispute, table, told, job, aborts>>

\* The money moves; the payload says the dispute's status, or nothing legible.
MovesFunds ==
  /\ network.status # "none" /\ Len(news) < MaxNews
  /\ \E s \in {network.status, "none"} : Announces("funds", s)
  /\ UNCHANGED <<dispute, network, table, told, job, aborts>>

Reviews ==
  /\ network.status = "needs_response" /\ network.answered /\ Len(news) < MaxNews
  /\ network' = [network EXCEPT !.status = "under_review"]
  /\ Announces("updated", "under_review")
  /\ UNCHANGED <<dispute, table, told, job, aborts>>

Decides ==
  /\ network.status \in {"needs_response", "under_review"} /\ Len(news) < MaxNews
  /\ \E o \in Outcomes :
       /\ network' = [network EXCEPT !.status = o]
       /\ \E s \in {o, "none"} : Announces("closed", s)
  /\ UNCHANGED <<dispute, table, told, job, aborts>>

\* ingestProviderDelivery: a delivery is stored once, whenever it gets here.
Ingest ==
  /\ \E i \in 1..Len(news) :
       /\ i \notin Stored
       /\ Reordered \/ \A k \in 1..(i - 1) : k \in Stored
       /\ inbox' = Append(inbox, i)
  /\ UNCHANGED <<dispute, outside, processed, told, job, aborts>>

-----------------------------------------------------------------------------
\* The drain: handleDisputeEvent.

\* What is not processed yet, by its place in the order of arrival.
StartPass(w) ==
  /\ At(w, "idle")
  /\ LET todo == {p \in 1..Len(inbox) : inbox[p] \notin processed}
     IN todo # {} /\ Go(w, Job("scan", todo, "none", "none"))
  /\ UNCHANGED <<dispute, outside, table, told, aborts>>

Place(w) == CHOOSE p \in job[w].todo : \A q \in job[w].todo : p <= q
Event(w) == news[inbox[Place(w)]]

\* Whatever the row knows, when neither the payload nor the type says more.
StatusForEvent(type, known) ==
  CASE type \in {"created", "closed"}        -> "needs_response"
    [] type = "updated"                      -> "under_review"
    [] type = "funds" /\ known # "none"      -> known
    [] type = "funds" /\ known = "none"      -> "needs_response"

\* A faulty variant: a close that cannot be read is a win.
EventStatusGuessing(event, known) ==
  IF event.status # "none" THEN event.status
  ELSE IF event.type = "closed" THEN "won" ELSE StatusForEvent(event.type, known)

\* A faulty variant: a status that cannot be read is stored as it came.
EventStatusRaw(event, known) == event.status

EventStatus(event, known) ==
  IF event.status # "none" THEN event.status ELSE StatusForEvent(event.type, known)

Skip(w) ==
  LET rest == job[w].todo \ {Place(w)}
  IN Go(w, IF rest = {} THEN Idle ELSE Job("scan", rest, "none", "none"))

\* A close whose outcome cannot be read stays in the drain's set.
ReadDispute(w) ==
  /\ At(w, "scan")
  /\ LET status == EventStatus(Event(w), dispute.status)
     IN IF Event(w).type = "closed" /\ status \notin Outcomes
        THEN Skip(w)
        ELSE Go(w, [job[w] EXCEPT !.pc = "before", !.status = status])
  /\ UNCHANGED <<dispute, outside, table, told, aborts>>

ReadBefore(w) ==
  /\ At(w, "before")
  /\ Go(w, [job[w] EXCEPT !.pc = "upsert", !.before = dispute.status])
  /\ UNCHANGED <<dispute, outside, table, told, aborts>>

\* A faulty variant: news is what the payload says, not whether a row was made.
DisputeNewsByType(w, created) == Event(w).type

\* What the merchant is told, "none" when the event changed nothing.
DisputeNews(w, created) ==
  LET changed == job[w].before # "none" /\ job[w].before # job[w].status
  IN CASE created -> "created"
       [] ~created /\ Event(w).type = "funds" -> "funds"
       [] ~created /\ Event(w).type # "funds" /\ changed ->
            IF job[w].status \in Outcomes THEN "closed" ELSE "updated"
       [] OTHER -> "none"

\* The row and the news of it, in one transaction.
UpsertDispute(w) ==
  /\ At(w, "upsert")
  /\ dispute' = [dispute EXCEPT !.status = job[w].status]
  /\ LET type == DisputeNews(w, dispute.status = "none")
     IN IF type = "none" THEN UNCHANGED told ELSE Tell(type, job[w].status)
  /\ Go(w, [job[w] EXCEPT !.pc = "mark"])
  /\ UNCHANGED <<outside, table, aborts>>

MarkProcessed(w) ==
  /\ At(w, "mark")
  /\ processed' = processed \cup {inbox[Place(w)]}
  /\ Skip(w)
  /\ UNCHANGED <<dispute, outside, inbox, told, aborts>>

-----------------------------------------------------------------------------
\* The merchant: updateDispute and closeDispute.

Answerable == dispute.status = "needs_response" /\ ~dispute.submitted

\* A faulty variant: the row says answered before the network was asked.
StartRequestClaiming(r) ==
  /\ At(r, "idle") /\ Answerable
  /\ dispute' = [dispute EXCEPT !.submitted = TRUE]
  /\ Go(r, Job("submit", {}, "none", "none"))
  /\ UNCHANGED <<outside, table, told, aborts>>

StartRequest(r) ==
  /\ At(r, "idle") /\ Answerable
  /\ \E pc \in {"draft", "submit", "accept"} : Go(r, Job(pc, {}, "none", "none"))
  /\ UNCHANGED <<dispute, outside, table, told, aborts>>

\* A draft lives at the provider.
StageDraft(r) ==
  /\ At(r, "draft")
  /\ Go(r, IF network.status = "needs_response" /\ ~network.answered
           THEN Job("record_draft", {}, "none", "none") ELSE Idle)
  /\ UNCHANGED <<dispute, outside, table, told, aborts>>

RecordDraft(r) ==
  /\ At(r, "record_draft")
  /\ Tell("updated", dispute.status)
  /\ Go(r, Idle)
  /\ UNCHANGED <<dispute, outside, table, aborts>>

\* Under a key of the dispute's own: the network takes one answer, and answers
\* a repeat with it.  It may say it is reviewing already.
SubmitEvidence(r) ==
  /\ At(r, "submit")
  /\ \/ /\ network.answered
        /\ \E s \in {"needs_response", "under_review"} : Go(r, Job("claim", {}, s, "none"))
        /\ UNCHANGED outside
     \/ /\ ~network.answered /\ network.status = "needs_response"
        /\ \/ /\ network' = [network EXCEPT !.answered = TRUE]
              /\ Go(r, Job("claim", {}, "needs_response", "none"))
              /\ UNCHANGED news
           \/ /\ Len(news) < MaxNews
              /\ network' = [status |-> "under_review", answered |-> TRUE]
              /\ Announces("updated", "under_review")
              /\ Go(r, Job("claim", {}, "under_review", "none"))
     \/ /\ ~network.answered /\ network.status # "needs_response"
        /\ Go(r, Idle)
        /\ UNCHANGED outside
  /\ UNCHANGED <<dispute, table, told, aborts>>

\* The claim on evidence_submitted_at, the status and the news commit together.
RecordSubmission(r) ==
  /\ At(r, "claim")
  /\ IF dispute.submitted
     THEN UNCHANGED <<dispute, told>>
     ELSE LET status == IF job[r].status = "under_review" /\ dispute.status = "needs_response"
                        THEN "under_review" ELSE dispute.status
          IN /\ dispute' = [status |-> status, submitted |-> TRUE]
             /\ Tell("updated", status)
  /\ Go(r, Idle)
  /\ UNCHANGED <<outside, table, aborts>>

\* A faulty variant: the row is closed whatever the network answered.
AcceptAtNetworkAnyway(r) ==
  /\ At(r, "accept")
  /\ Go(r, Job("close", {}, "lost", "none"))
  /\ UNCHANGED <<dispute, outside, table, told, aborts>>

\* Accepting is asked of the provider first; a repeat gets the first answer.
AcceptAtNetwork(r) ==
  /\ At(r, "accept")
  /\ \/ /\ network.status = "needs_response" /\ ~network.answered /\ Len(news) < MaxNews
        /\ network' = [network EXCEPT !.status = "lost"]
        /\ Announces("closed", "lost")
        /\ Go(r, Job("close", {}, "lost", "none"))
     \/ /\ network.status # "needs_response" \/ network.answered
        /\ Go(r, Idle)
        /\ UNCHANGED outside
  /\ UNCHANGED <<dispute, table, told, aborts>>

CloseDisputeAsLost(r) ==
  /\ At(r, "close")
  /\ IF dispute.status = "needs_response"
     THEN /\ dispute' = [dispute EXCEPT !.status = "lost"]
          /\ Tell("closed", "lost")
     ELSE UNCHANGED <<dispute, told>>
  /\ Go(r, Idle)
  /\ UNCHANGED <<outside, table, aborts>>

Abort(w) ==
  /\ ~At(w, "idle") /\ aborts < MaxAborts
  /\ aborts' = aborts + 1
  /\ Go(w, Idle)
  /\ UNCHANGED <<dispute, outside, table, told>>

-----------------------------------------------------------------------------
DrainStep(w) ==
  StartPass(w) \/ ReadDispute(w) \/ ReadBefore(w) \/ UpsertDispute(w) \/ MarkProcessed(w)

RequestStep(r) ==
  \/ StageDraft(r) \/ RecordDraft(r) \/ SubmitEvidence(r) \/ RecordSubmission(r)
  \/ AcceptAtNetwork(r) \/ CloseDisputeAsLost(r)

Next ==
  \/ Opens \/ MovesFunds \/ Reviews \/ Decides \/ Ingest
  \/ \E w \in Drains : DrainStep(w)
  \/ \E r \in Requests : StartRequest(r) \/ RequestStep(r)
  \/ \E w \in Workers : Abort(w)

Spec == Init /\ [][Next]_vars

-----------------------------------------------------------------------------
TypeOK ==
  /\ dispute \in [status : DisputeStatuses \cup {"none"}, submitted : BOOLEAN]
  /\ network \in [status : DisputeStatuses \cup {"none"}, answered : BOOLEAN]
  /\ news \in Seq([type : EventTypes, status : DisputeStatuses \cup {"none"}])
  /\ inbox \in Seq(1..Len(news)) /\ processed \subseteq Stored
  /\ told \in [openings : Nat, statuses : SUBSET DisputeStatuses]
  /\ job \in [Workers -> [pc : Pcs, todo : SUBSET (1..Len(inbox)),
                          status : DisputeStatuses \cup {"none"},
                          before : DisputeStatuses \cup {"none"}]]
  /\ aborts \in 0..MaxAborts

\* A dispute is announced as new once, however many tasks drain its first
\* events and in whatever order those arrive.
CreatedToldOnce == told.openings <= 1

\* The row says won or lost only when the network decided so: an illegible
\* close is never an outcome, and a refused acceptance is not a loss.
OutcomeIsTrue == dispute.status \in Outcomes => network.status = dispute.status

\* The row says answered only once the network has the answer, so a request
\* that dies in between leaves a dispute that can still be answered.
AnsweredIsTrue == dispute.submitted => network.answered

\* Whatever status the row has, the merchant was told of it at some time.
StatusWasTold == dispute.status # "none" => dispute.status \in told.statuses

\* A decided dispute stays decided.
OutcomeStays ==
  [][dispute.status \in Outcomes => dispute'.status = dispute.status]_dispute

\* With one drain and deliveries in order: once the network has decided and
\* said so legibly, the row comes to say it too, whatever the merchant's
\* requests write meanwhile.
Decided ==
  \E i \in 1..Len(news) : news[i].type = "closed" /\ news[i].status \in Outcomes
OutcomeReached == Decided ~> [](dispute.status = network.status)
=============================================================================
