------------------------------- MODULE Refunds -------------------------------
(***************************************************************************)
(* Refunds of one settled card payment: the rows Peable keeps, the refunds *)
(* the acquirer keeps, and what moves them.  A merchant asks for a refund  *)
(* under an external_ref of its own; the row is written first, the         *)
(* acquirer is asked second, and its answer is recorded third.  The        *)
(* acquirer settles or rejects a refund later and says so in events, which *)
(* arrive at least once and in any order; it also makes refunds of its own *)
(* (from its dashboard), which the event drain imports.  A worker is one   *)
(* execution: a refund request, a cancel request or a drain pass of any    *)
(* task.  One action is the code between two awaits of one worker.         *)
(*                                                                         *)
(* The payment has succeeded, is linked, and its rail is configured: the   *)
(* refusals for anything else change nothing.                              *)
(***************************************************************************)
EXTENDS Naturals, Sequences, FiniteSetsExt

CONSTANTS
  Workers,      \* concurrent requests and drain passes
  Refs,         \* the merchant's external_refs
  Received,     \* amount_received of the payment
  Amounts,      \* what may be asked back at once
  OutsideAmounts, \* what a refund made at the acquirer itself may be of
  MaxOutside,   \* bound: refunds made at the acquirer itself
  MaxNews,      \* bound: states of refunds the acquirer announces
  MaxFaults     \* bound: crashes, lost answers and retryable failures, and
                \* permanent refusals the balance does not explain

None == "none"
ASSUME BudgetAssumption ==
  /\ Received \in Nat /\ Amounts \subseteq Nat \ {0}
  /\ OutsideAmounts \subseteq Nat \ {0}
  /\ MaxOutside \in Nat /\ MaxNews \in Nat /\ MaxFaults \in Nat
  /\ None \notin Refs

VARIABLES
  rows,      \* the rows of refunds; ref = None for an imported one (origin
             \* 'provider'); obj is provider_object_id, 0 when NULL; told is
             \* the status in the last refund.* event the merchant was sent
  refunds,   \* the acquirer's refunds; key is the row whose idempotency key
             \* made it, 0 when it was made outside; said is the first answer
  news,      \* every state of a refund the acquirer announced, in its order
  stored,    \* provider_events, in the order they arrived
  processed, \* those with processed_at
  job,       \* what each worker is doing, with what it has read
  aborts, refusals

acquirer == <<refunds, news, refusals>>
vars == <<rows, acquirer, stored, processed, job, aborts>>

Statuses == {"pending", "succeeded", "failed", "canceled"}
Pcs == {"idle", "check", "insert", "reread", "send", "record", "refuse",
        "cancel", "close", "examine", "apply", "import", "mark"}

(***************************************************************************)
(* What an execution holds between two awaits: the request it serves, the  *)
(* row it works on and the status it read there, the acquirer's answer,    *)
(* the event it processes and the rest of its batch (positions in stored). *)
(***************************************************************************)
Idle == [pc |-> "idle", ref |-> None, amount |-> 0, row |-> 0, prev |-> None,
         res |-> None, obj |-> 0, ev |-> 0, batch |-> {}]

Init ==
  /\ rows = <<>> /\ refunds = <<>> /\ news = <<>>
  /\ stored = <<>> /\ processed = {}
  /\ job = [w \in Workers |-> Idle]
  /\ aborts = 0 /\ refusals = 0

At(w, pc) == job[w].pc = pc
Go(w, j) == job' = [job EXCEPT ![w] = j]
Finish(w) == Go(w, Idle)

RowsOf(ref) == {i \in DOMAIN rows : rows[i].ref = ref}
RowsHolding(o) == {i \in DOMAIN rows : rows[i].obj = o}

-----------------------------------------------------------------------------
(***************************************************************************)
(* The database.                                                           *)
(***************************************************************************)
\* sumCommittedRefunds: what is back or on its way.
CommittedRefunds ==
  MapThenSumSet(LAMBDA i : rows[i].amount,
                {i \in DOMAIN rows : rows[i].status \notin {"failed", "canceled"}})

\* remainingRefundable
RemainingRefundable ==
  IF CommittedRefunds <= Received THEN Received - CommittedRefunds ELSE 0

\* A faulty variant: only a refund that leaves "pending" is told.
ToldWhenPending(i, status, prev) == IF prev = "pending" THEN status ELSE rows[i].told

\* emitRefundEvents: the merchant is told unless the status it had been read in
\* is the one it has now.
Told(i, status, prev) == IF prev = status THEN rows[i].told ELSE status

SetRow(i, status, obj, prev) ==
  rows' = [rows EXCEPT ![i].status = status, ![i].obj = obj,
                       ![i].told = Told(i, status, prev)]

\* refunds_provider_object_key: one row per refund of the acquirer's.
Conflicts(i, o) == RowsHolding(o) \ {i} # {}

\* A faulty variant: no unique index on the merchant's reference.
InsertAnyway(ref, amount) ==
  rows' = Append(rows, [ref |-> ref, amount |-> amount, status |-> "pending",
                        obj |-> 0, told |-> "pending"])

\* insertRefund, and refund.created with it.
InsertRefund(ref, amount) ==
  /\ RowsOf(ref) = {}
  /\ rows' = Append(rows, [ref |-> ref, amount |-> amount, status |-> "pending",
                           obj |-> 0, told |-> "pending"])

\* A faulty variant: what the call returned is not read.
RecordAsSent(i, o, res, prev) ==
  IF rows[i].obj = 0 THEN SetRow(i, "succeeded", o, prev) ELSE UNCHANGED rows

(***************************************************************************)
(* markRefundSucceeded, markRefundFailed or linkRefundObject, whichever    *)
(* the answer calls for.  The first and the last fill a NULL object only.  *)
(***************************************************************************)
RecordAnswer(i, o, res, prev) ==
  CASE res = "succeeded" /\ rows[i].obj = 0 -> SetRow(i, "succeeded", o, prev)
    [] res = "failed" -> SetRow(i, "failed", o, prev)
    [] res \notin {"succeeded", "failed"} /\ rows[i].obj = 0 ->
         rows' = [rows EXCEPT ![i].obj = o]
    [] OTHER -> UNCHANGED rows

\* A faulty variant: the latest event to arrive wins.
AppliesAlways(i, status) == rows[i].status \in Statuses /\ status \in Statuses

\* applyRefundState: the edges in its WHERE.
Applies(i, status) ==
  rows[i].status \in (IF status = "failed" THEN {"pending", "succeeded"} ELSE {"pending"})

-----------------------------------------------------------------------------
(***************************************************************************)
(* The acquirer (external).                                                *)
(***************************************************************************)
Gone == MapThenSumSet(LAMBDA o : refunds[o].amount,
          {o \in DOMAIN refunds : refunds[o].status \notin {"failed", "canceled"}})

Announce(o, status) ==
  /\ Len(news) < MaxNews
  /\ news' = Append(news, [obj |-> o, status |-> status])

\* It refunds no more than it took; a refund may be pending, done, or rejected.
MakeRefund(key, amount, status) ==
  /\ Gone + amount <= Received
  /\ refunds' = Append(refunds, [key |-> key, amount |-> amount,
                                 status |-> status, said |-> status])
  /\ Announce(Len(refunds) + 1, status)

Becomes(o, status) ==
  /\ status \in (CASE refunds[o].status = "pending" -> {"succeeded", "failed", "canceled"}
                   [] refunds[o].status = "succeeded" -> {"failed"}
                   [] OTHER -> {})
  /\ refunds' = [refunds EXCEPT ![o].status = status]
  /\ Announce(o, status)

AcquirerMoves ==
  /\ \E o \in DOMAIN refunds, status \in Statuses : Becomes(o, status)
  /\ UNCHANGED <<rows, stored, processed, job, aborts, refusals>>

\* Somebody refunds the payer from the acquirer's dashboard.
RefundOutside ==
  /\ Cardinality({o \in DOMAIN refunds : refunds[o].key = 0}) < MaxOutside
  /\ \E amount \in OutsideAmounts, status \in {"pending", "succeeded"} :
       MakeRefund(0, amount, status)
  /\ UNCHANGED <<rows, stored, processed, job, aborts, refusals>>

\* An event arrives; a redelivery is deduplicated by the acquirer's event id.
IngestEvent ==
  /\ \E e \in DOMAIN news : /\ \A k \in DOMAIN stored : stored[k] # e
                            /\ stored' = Append(stored, e)
  /\ UNCHANGED <<rows, acquirer, processed, job, aborts>>

-----------------------------------------------------------------------------
(***************************************************************************)
(* createRefund.                                                           *)
(***************************************************************************)
\* A row the acquirer may not have heard of; any other is only answered.
Interrupted(i) == rows[i].obj = 0 /\ rows[i].status # "failed"

\* A faulty variant: a resume sends the amount asked for this time.
ResumedAsAsked(j, i) == [j EXCEPT !.pc = "send", !.row = i, !.prev = rows[i].status]

\* A faulty variant: a resume mints a new row's id.
ResumedAsNew(j, i) == [j EXCEPT !.pc = "send", !.row = Len(rows) + 1,
                                !.prev = rows[i].status, !.amount = rows[i].amount]

\* A resume sends the amount the row reserved.
Resumed(j, i) == [j EXCEPT !.pc = "send", !.row = i, !.prev = rows[i].status,
                           !.amount = rows[i].amount]

RequestRefund(w) ==
  /\ At(w, "idle")
  /\ \E ref \in Refs, amount \in Amounts :
       LET j == [Idle EXCEPT !.pc = "check", !.ref = ref, !.amount = amount] IN
       \/ RowsOf(ref) = {} /\ Go(w, j)
       \/ \E i \in RowsOf(ref) : Interrupted(i) /\ Go(w, Resumed(j, i))
  /\ UNCHANGED <<rows, acquirer, stored, processed, aborts>>

CheckRemaining(w) ==
  /\ At(w, "check")
  /\ IF job[w].amount > RemainingRefundable
     THEN Finish(w)
     ELSE Go(w, [job[w] EXCEPT !.pc = "insert"])
  /\ UNCHANGED <<rows, acquirer, stored, processed, aborts>>

InsertRow(w) ==
  /\ At(w, "insert")
  /\ \/ /\ InsertRefund(job[w].ref, job[w].amount)
        /\ Go(w, [job[w] EXCEPT !.pc = "send", !.row = Len(rows) + 1, !.prev = "pending"])
     \/ /\ RowsOf(job[w].ref) # {}
        /\ Go(w, [job[w] EXCEPT !.pc = "reread"])
        /\ UNCHANGED rows
  /\ UNCHANGED <<acquirer, stored, processed, aborts>>

\* Another request won the index: its row, unless the acquirer has answered it.
RereadRow(w) ==
  /\ At(w, "reread")
  /\ \E i \in RowsOf(job[w].ref) :
       IF rows[i].obj # 0 THEN Finish(w) ELSE Go(w, Resumed(job[w], i))
  /\ UNCHANGED <<rows, acquirer, stored, processed, aborts>>

(***************************************************************************)
(* provider.refund, under the idempotency key re:<publicId>.  The acquirer *)
(* makes the refund, repeats its first answer to this key, or refuses: for *)
(* want of balance or for reasons of its own (a revoked key, a key it      *)
(* takes for reused).  A call with no usable answer, or with a retryable   *)
(* error, ends the request before or after this step: see Abort.           *)
(***************************************************************************)
SendRefund(w) ==
  LET j == job[w]
      mine == {o \in DOMAIN refunds : refunds[o].key = j.row}
      answered(o, res) == Go(w, [j EXCEPT !.pc = "record", !.obj = o, !.res = res])
  IN /\ At(w, "send")
     /\ \/ /\ mine = {}
           /\ \E status \in {"pending", "succeeded", "failed"} :
                /\ MakeRefund(j.row, j.amount, status)
                /\ answered(Len(refunds) + 1, status)
           /\ UNCHANGED refusals
        \/ /\ \E o \in mine : answered(o, refunds[o].said)
           /\ UNCHANGED acquirer
        \/ /\ mine = {} /\ Gone + j.amount > Received
           /\ Go(w, [j EXCEPT !.pc = "refuse"])
           /\ UNCHANGED acquirer
        \/ /\ aborts + refusals < MaxFaults /\ refusals' = refusals + 1
           /\ Go(w, [j EXCEPT !.pc = "refuse"])
           /\ UNCHANGED <<refunds, news>>
     /\ UNCHANGED <<rows, stored, processed, aborts>>

\* The answer goes into the row, or the unique index refuses it (a 500).
RecordResult(w) ==
  LET j == job[w] IN
  /\ At(w, "record")
  /\ IF Conflicts(j.row, j.obj)
     THEN UNCHANGED rows
     ELSE RecordAnswer(j.row, j.obj, j.res, j.prev)
  /\ Finish(w)
  /\ UNCHANGED <<acquirer, stored, processed, aborts>>

\* A permanent refusal: markRefundFailed, whatever the row says by now.
RecordRefusal(w) ==
  /\ At(w, "refuse")
  /\ SetRow(job[w].row, "failed", rows[job[w].row].obj, job[w].prev)
  /\ Finish(w)
  /\ UNCHANGED <<acquirer, stored, processed, aborts>>

-----------------------------------------------------------------------------
(***************************************************************************)
(* cancelRefund, of a row by its public id.                                *)
(***************************************************************************)
RequestCancel(w) ==
  /\ At(w, "idle")
  /\ \E i \in DOMAIN rows :
       /\ rows[i].status = "pending" /\ rows[i].obj # 0
       /\ Go(w, [Idle EXCEPT !.pc = "cancel", !.row = i, !.obj = rows[i].obj,
                             !.prev = "pending"])
  /\ UNCHANGED <<rows, acquirer, stored, processed, aborts>>

\* The acquirer cancels it, has done so (the key's first answer), or refuses.
CancelAtAcquirer(w) ==
  /\ At(w, "cancel")
  /\ \/ /\ Becomes(job[w].obj, "canceled")
        /\ Go(w, [job[w] EXCEPT !.pc = "close"])
     \/ /\ refunds[job[w].obj].status = "canceled"
        /\ Go(w, [job[w] EXCEPT !.pc = "close"])
        /\ UNCHANGED <<refunds, news>>
     \/ Finish(w) /\ UNCHANGED <<refunds, news>>
  /\ UNCHANGED <<rows, stored, processed, aborts, refusals>>

\* markRefundCanceled, a compare-and-swap on pending.
CloseRefund(w) ==
  /\ At(w, "close")
  /\ IF rows[job[w].row].status = "pending"
     THEN SetRow(job[w].row, "canceled", rows[job[w].row].obj, job[w].prev)
     ELSE UNCHANGED rows
  /\ Finish(w)
  /\ UNCHANGED <<acquirer, stored, processed, aborts>>

-----------------------------------------------------------------------------
(***************************************************************************)
(* The drain: a batch of stored events in the order they arrived, one at a *)
(* time, with no lease against another pass.                               *)
(***************************************************************************)
StartPass(w) ==
  LET batch == {k \in DOMAIN stored : stored[k] \notin processed}
  IN /\ At(w, "idle") /\ batch # {}
     /\ Go(w, [Idle EXCEPT !.pc = "examine", !.batch = batch])
     /\ UNCHANGED <<rows, acquirer, stored, processed, aborts>>

\* handleRefundEvent: the oldest of the batch, and findRefundByProviderObject.
ExamineEvent(w) ==
  /\ At(w, "examine")
  /\ \E k \in job[w].batch :
       LET o == news[stored[k]].obj
           j == [job[w] EXCEPT !.ev = stored[k], !.batch = @ \ {k}]
       IN /\ \A m \in job[w].batch : k <= m
          /\ \/ RowsHolding(o) = {} /\ Go(w, [j EXCEPT !.pc = "import", !.obj = o])
             \/ \E i \in RowsHolding(o) :
                  Go(w, [j EXCEPT !.pc = "apply", !.row = i, !.prev = rows[i].status])
  /\ UNCHANGED <<rows, acquirer, stored, processed, aborts>>

ApplyRefundState(w) ==
  LET j == job[w]
      status == news[j.ev].status
  IN /\ At(w, "apply")
     /\ IF Applies(j.row, status)
        THEN SetRow(j.row, status, rows[j.row].obj, j.prev)
        ELSE UNCHANGED rows
     /\ Go(w, [j EXCEPT !.pc = "mark"])
     /\ UNCHANGED <<acquirer, stored, processed, aborts>>

\* importProviderRefund: a row for a refund no row claims.  When one claims it by
\* now, the event is taken for a redelivery.
ImportProviderRefund(w) ==
  LET j == job[w]
      status == news[j.ev].status
  IN /\ At(w, "import")
     /\ IF RowsHolding(j.obj) = {}
        THEN rows' = Append(rows, [ref |-> None, amount |-> refunds[j.obj].amount,
                                   status |-> status, obj |-> j.obj, told |-> status])
        ELSE UNCHANGED rows
     /\ Go(w, [j EXCEPT !.pc = "mark"])
     /\ UNCHANGED <<acquirer, stored, processed, aborts>>

MarkProcessed(w) ==
  LET rest == job[w].batch IN
  /\ At(w, "mark")
  /\ processed' = processed \cup {job[w].ev}
  /\ IF rest = {} THEN Finish(w)
     ELSE Go(w, [Idle EXCEPT !.pc = "examine", !.batch = rest])
  /\ UNCHANGED <<rows, acquirer, stored, aborts>>

-----------------------------------------------------------------------------
\* A crash, a lost answer or a retryable error: the row stays as it is.
Abort(w) ==
  /\ ~At(w, "idle") /\ aborts + refusals < MaxFaults
  /\ aborts' = aborts + 1
  /\ Finish(w)
  /\ UNCHANGED <<rows, acquirer, stored, processed>>

Step(w) ==
  \/ RequestRefund(w) \/ CheckRemaining(w) \/ InsertRow(w) \/ RereadRow(w)
  \/ SendRefund(w) \/ RecordResult(w) \/ RecordRefusal(w)
  \/ RequestCancel(w) \/ CancelAtAcquirer(w) \/ CloseRefund(w)
  \/ StartPass(w) \/ ExamineEvent(w) \/ ApplyRefundState(w)
  \/ ImportProviderRefund(w) \/ MarkProcessed(w) \/ Abort(w)

Next == (\E w \in Workers : Step(w)) \/ AcquirerMoves \/ RefundOutside \/ IngestEvent

Spec == Init /\ [][Next]_vars

-----------------------------------------------------------------------------
(***************************************************************************)
(* Properties.                                                             *)
(***************************************************************************)
RowType == [ref : Refs \cup {None}, amount : Nat, status : Statuses, obj : Nat,
            told : Statuses]
RefundType == [key : Nat, amount : Nat, status : Statuses, said : Statuses]
NewsType == [obj : Nat, status : Statuses]
JobType == [pc : Pcs, ref : Refs \cup {None}, amount : Nat, row : Nat,
            prev : Statuses \cup {None}, res : Statuses \cup {None}, obj : Nat,
            ev : Nat, batch : SUBSET Nat]

\* Rows, refunds, events and jobs are well formed, and what they name exists.
TypeOK ==
  /\ rows \in Seq(RowType) /\ refunds \in Seq(RefundType) /\ news \in Seq(NewsType)
  /\ stored \in Seq(DOMAIN news) /\ processed \subseteq DOMAIN news
  /\ job \in [Workers -> JobType]
  /\ \A i \in DOMAIN rows : rows[i].obj \in DOMAIN refunds \cup {0}
  /\ \A o \in DOMAIN refunds : refunds[o].key \in DOMAIN rows \cup {0}
  /\ \A w \in Workers : job[w].row \in DOMAIN rows \cup {0}
  /\ aborts \in Nat /\ refusals \in Nat

Made == {o \in DOMAIN refunds : refunds[o].key # 0}

(***************************************************************************)
(* One reference sends money back once: however many requests repeat it,   *)
(* together or after crashes and lost answers, the acquirer makes at most  *)
(* one refund for it (insertRefund's index, the key re:<publicId>).        *)
(***************************************************************************)
SentOnce ==
  \A o, p \in Made :
    rows[refunds[o].key].ref = rows[refunds[p].key].ref => o = p

\* What goes back is what was reserved, though a retry asks for another amount:
\* createRefund resumes with the row's amount, not the request's.
SentAsReserved == \A o \in Made : refunds[o].amount = rows[refunds[o].key].amount

(***************************************************************************)
(* A row says "succeeded" or "canceled" only of a refund the acquirer said *)
(* that of: not because a call returned, nor from another refund's event.  *)
(***************************************************************************)
EndsAsAnnounced ==
  \A i \in DOMAIN rows : rows[i].status \in {"succeeded", "canceled"} =>
    \E e \in DOMAIN news : news[e] = [obj |-> rows[i].obj, status |-> rows[i].status]

(***************************************************************************)
(* The last refund.* event of a row tells what the row says, although each *)
(* writer decides what to tell from a status it read before it wrote       *)
(* (emitRefundEvents).  A refund of the merchant's that failed is left     *)
(* out: markRefundFailed writes over whatever the row says by then, and    *)
(* FailedMovedNothing is about that.                                       *)
(***************************************************************************)
ToldAsRow ==
  \A i \in DOMAIN rows :
    rows[i].status # "failed" \/ rows[i].ref = None => rows[i].told = rows[i].status

(***************************************************************************)
(* Money that went back is not walked back: from "succeeded" a row goes    *)
(* only to "failed", when the bank rejects the refund, and a failed refund *)
(* the acquirer knows is not revived (applyRefundState, and every other    *)
(* writer with it).                                                        *)
(***************************************************************************)
NeverWalksBack ==
  [][\A i \in DOMAIN rows :
       /\ rows[i].status = "succeeded" => rows'[i].status \in {"succeeded", "failed"}
       /\ rows[i].status = "failed" /\ rows[i].obj # 0 => rows'[i].status = "failed"]_vars

\* Every event about the row's refund has been processed and nobody works on it.
Quiet(i) ==
  /\ \A e \in DOMAIN news : news[e].obj = rows[i].obj => e \in processed
  /\ \A w \in Workers : job[w].row # i /\ job[w].obj # rows[i].obj

(***************************************************************************)
(* An imported refund ends where the acquirer left it, in whatever order   *)
(* its events arrive and whichever drain pass handles them.                *)
(***************************************************************************)
ImportedFollows ==
  \A i \in DOMAIN rows : rows[i].ref = None /\ Quiet(i) =>
    rows[i].status = refunds[rows[i].obj].status

-----------------------------------------------------------------------------
(***************************************************************************)
(* What the repository says and the code does not do.                      *)
(***************************************************************************)
\* db/schema/refunds.ts:72: origin says WHO created the refund.
ImportedIsForeign ==
  \A i \in DOMAIN rows : rows[i].ref = None => refunds[rows[i].obj].key = 0

\* services/refunds/refundService.ts:84: two concurrent refunds cannot both pass
\* a check only one of them should.
CommittedWithinReceived == CommittedRefunds <= Received

\* db/refunds/refundRepository.ts:289: "Record that the refund failed. Nothing moved."
FailedMovedNothing ==
  \A i \in DOMAIN rows, o \in DOMAIN refunds :
    /\ rows[i].status = "failed" /\ refunds[o].key = i
    /\ \A w \in Workers : job[w].row # i
    => refunds[o].status # "succeeded"
=============================================================================
