------------------------------ MODULE Transfers ------------------------------
(***************************************************************************)
(* Settling sellers out of one succeeded card payment, and taking it back. *)
(* A merchant names each settlement and each reversal by a reference of    *)
(* its own: the row is written first, under the payment's lock when it     *)
(* spends the budget, the acquirer is asked second and its answer recorded *)
(* third.  Reversals are also made at the acquirer itself; its events      *)
(* carry the cumulative total.                                             *)
(***************************************************************************)
EXTENDS Naturals, Functions

CONSTANTS
  Workers,         \* concurrent requests
  Refs,            \* the merchant's references of settlements
  ReversalRefs,    \* and of reversals
  Sellers,         \* per reference: the sellers its requests may name
  Charge,          \* the amount of the payment
  Amounts,         \* what may be settled, or taken back, at once
  MaxOutside,      \* bound: reversals made at the acquirer itself
  MaxFaults        \* bound: crashes, lost answers, retryable failures, and
                   \* refusals of a call for a reason of its own

TransferBounds ==
  /\ Charge \in Nat /\ Amounts \subseteq Nat \ {0}
  /\ Refs \cap ReversalRefs = {}
  /\ MaxOutside \in Nat /\ MaxFaults \in Nat

VARIABLES
  transfer,   \* per reference: its row
  sent,       \* per reference: the transfer its idempotency key made (external)
  refused,    \* the keys whose refusal the acquirer keeps (external)
  reversal,   \* per reference: its row
  taken,      \* per reference: what the acquirer took back for it (external)
  unread,     \* the totals announced and not yet processed
  job, faults, outside,
  misread     \* history: the references, of either kind, whose call was refused
              \* for a reason that says nothing of what that reference made

acquirer == <<sent, refused, taken>>
vars == <<transfer, acquirer, reversal, unread, job, faults, outside, misread>>

NoTransfer ==
  [status |-> "none", amount |-> 0, seller |-> "none", linked |-> FALSE, reversed |-> 0]
NotSent == [amount |-> 0, seller |-> "none", reversed |-> 0]
NoReversal == [status |-> "none", of |-> "none", amount |-> 0]
Pcs == {"idle", "find", "insert", "send", "paid", "refuse",
        "reverse", "total", "mark", "apply", "reverse_refuse"}

\* What a request holds: what it asks for, and the total the acquirer answered.
Idle == [pc |-> "idle", ref |-> "none", seller |-> "none", amount |-> 0,
         rev |-> "none", total |-> 0]

Init ==
  /\ transfer = [r \in Refs |-> NoTransfer]
  /\ sent = [r \in Refs |-> NotSent] /\ refused = {}
  /\ reversal = [v \in ReversalRefs |-> NoReversal]
  /\ taken = [v \in ReversalRefs |-> 0]
  /\ unread = {}
  /\ job = [w \in Workers |-> Idle] /\ faults = 0 /\ outside = 0 /\ misread = {}

At(w, pc) == job[w].pc = pc
Go(w, j) == job' = [job EXCEPT ![w] = j]
Step(w, pc) == Go(w, [job[w] EXCEPT !.pc = pc])
Finish(w) == Go(w, Idle)
Ref(w) == job[w].ref
Fault == faults < MaxFaults /\ faults' = faults + 1

-----------------------------------------------------------------------------
\* createTransfer

\* The route's read: history is answered as it is, another amount is refused.
AskTransfer(w) ==
  /\ At(w, "idle")
  /\ \E r \in Refs : \E s \in Sellers[r], a \in Amounts :
       /\ \/ transfer[r].status = "none"
          \/ transfer[r].status = "pending" /\ transfer[r].amount = a
       /\ Go(w, [Idle EXCEPT !.pc = "find", !.ref = r, !.seller = s, !.amount = a])
  /\ UNCHANGED <<transfer, acquirer, reversal, unread, faults, outside, misread>>

\* The service reads again: a row that never reached the acquirer is resumed,
\* and was budgeted when it was written.
FindTransfer(w) ==
  /\ At(w, "find")
  /\ LET row == transfer[Ref(w)]
     IN \/ (row.linked \/ row.status = "failed") /\ Finish(w)
        \/ ~row.linked /\ row.status = "pending" /\ Step(w, "send")
        \/ row.status = "none" /\ Step(w, "insert")
  /\ UNCHANGED <<transfer, acquirer, reversal, unread, faults, outside, misread>>

NotReturned == [r \in Refs |-> transfer[r].amount - transfer[r].reversed]

\* A faulty variant: what is on its way is not committed yet.
CommittedTransfersPaid ==
  SumFunctionOnSet(NotReturned, {r \in Refs : transfer[r].linked})

\* sumCommittedTransfers: what moved or may move, less what has come back.
CommittedTransfers ==
  SumFunctionOnSet(NotReturned, {r \in Refs : transfer[r].status \notin {"none", "failed"}})

\* Under the payment's lock.  A reference another request has just used is that
\* request's row, read again, sent unless it was linked.
InsertTransfer(w) ==
  /\ At(w, "insert")
  /\ LET r == Ref(w)
         new == transfer[r].status = "none"
         fits == job[w].amount + CommittedTransfers <= Charge
     IN /\ transfer' = IF fits /\ new
                       THEN [transfer EXCEPT ![r] =
                              [status |-> "pending", amount |-> job[w].amount,
                               seller |-> job[w].seller, linked |-> FALSE, reversed |-> 0]]
                       ELSE transfer
        /\ \/ fits /\ ~transfer[r].linked /\ Step(w, "send")
           \/ ~(fits /\ ~transfer[r].linked) /\ Finish(w)
  /\ UNCHANGED <<acquirer, reversal, unread, faults, outside, misread>>

\* The acquirer answers a key it knows with what that key made or refused; to
\* another seller it refuses the key itself.
SendTransfer(w) ==
  /\ At(w, "send")
  /\ LET r == Ref(w) IN
       \/ /\ sent[r].amount = 0 /\ r \notin refused
          /\ sent' = [sent EXCEPT ![r] = [amount |-> transfer[r].amount,
                                          seller |-> job[w].seller, reversed |-> 0]]
          /\ Step(w, "paid")
          /\ UNCHANGED <<refused, misread>>
       \/ /\ sent[r].amount = 0
          /\ refused' = refused \cup {r}
          /\ Step(w, "refuse")
          /\ UNCHANGED <<sent, misread>>
       \/ /\ sent[r].amount > 0
          /\ \/ sent[r].seller = job[w].seller /\ Step(w, "paid") /\ UNCHANGED misread
             \/ /\ sent[r].seller # job[w].seller /\ Step(w, "refuse")
                /\ misread' = misread \cup {r}
          /\ UNCHANGED <<sent, refused>>
  /\ UNCHANGED <<transfer, reversal, taken, unread, faults, outside>>

\* The transfer is made and its answer lost.
SendTransferLost(w) ==
  /\ At(w, "send") /\ Fault
  /\ LET r == Ref(w) IN
       /\ sent[r].amount = 0 /\ r \notin refused
       /\ sent' = [sent EXCEPT ![r] = [amount |-> transfer[r].amount,
                                       seller |-> job[w].seller, reversed |-> 0]]
  /\ Finish(w)
  /\ UNCHANGED <<transfer, refused, reversal, taken, unread, outside, misread>>

\* markTransferPaid fills the gap and never repoints.
MarkTransferPaid(w) ==
  /\ At(w, "paid")
  /\ transfer' = IF transfer[Ref(w)].linked THEN transfer
                 ELSE [transfer EXCEPT ![Ref(w)].status = "paid", ![Ref(w)].linked = TRUE]
  /\ Finish(w)
  /\ UNCHANGED <<acquirer, reversal, unread, faults, outside, misread>>

MarkTransferFailed(w) ==
  /\ At(w, "refuse")
  /\ transfer' = IF transfer[Ref(w)].linked THEN transfer
                 ELSE [transfer EXCEPT ![Ref(w)].status = "failed"]
  /\ Finish(w)
  /\ UNCHANGED <<acquirer, reversal, unread, faults, outside, misread>>

-----------------------------------------------------------------------------
\* applyTransferReversal

StatusFor(r, total) ==
  CASE total >= transfer[r].amount -> "reversed"
    [] total > 0 /\ total < transfer[r].amount -> "partially_reversed"
    [] OTHER -> transfer[r].status

\* A faulty variant: the latest total to arrive wins.
ReversedToLatest(r, total) ==
  [transfer EXCEPT ![r].reversed = total, ![r].status = StatusFor(r, total)]

\* The total never goes back: a late first leg writes nothing.
ReversedTo(r, total) ==
  IF total >= transfer[r].reversed
  THEN [transfer EXCEPT ![r].reversed = total, ![r].status = StatusFor(r, total)]
  ELSE transfer

-----------------------------------------------------------------------------
\* reverseTransfer

\* The row is the operation: a reference used before is answered as it stands,
\* without asking the acquirer.
AskReversal(w) ==
  /\ At(w, "idle")
  /\ \E r \in Refs, v \in ReversalRefs, a \in Amounts :
       /\ transfer[r].linked /\ reversal[v].status = "none"
       /\ reversal' = [reversal EXCEPT ![v] = [status |-> "pending", of |-> r, amount |-> a]]
       /\ Go(w, [Idle EXCEPT !.pc = "reverse", !.ref = r, !.rev = v, !.amount = a])
  /\ UNCHANGED <<transfer, acquirer, unread, faults, outside, misread>>

\* The acquirer takes back what it can, and announces the new total.
Takes(r, a) ==
  /\ sent[r].reversed + a <= sent[r].amount
  /\ sent' = [sent EXCEPT ![r].reversed = @ + a]
  /\ unread' = unread \cup {[ref |-> r, total |-> sent[r].reversed + a]}

SendReversal(w) ==
  /\ At(w, "reverse")
  /\ \/ /\ Takes(Ref(w), job[w].amount)
        /\ taken' = [taken EXCEPT ![job[w].rev] = job[w].amount]
        /\ \/ Step(w, "total") /\ UNCHANGED faults
           \/ Fault /\ Finish(w)
     \/ /\ sent[Ref(w)].reversed + job[w].amount > sent[Ref(w)].amount
        /\ Step(w, "reverse_refuse")
        /\ UNCHANGED <<sent, taken, unread, faults>>
  /\ UNCHANGED <<transfer, refused, reversal, outside, misread>>

\* The cumulative total is read off the transfer, by a call of its own.
ReadTotal(w) ==
  /\ At(w, "total")
  /\ Go(w, [job[w] EXCEPT !.pc = "mark", !.total = sent[Ref(w)].reversed])
  /\ UNCHANGED <<transfer, acquirer, reversal, unread, faults, outside, misread>>

MarkReversalSucceeded(w) ==
  /\ At(w, "mark")
  /\ reversal' = [reversal EXCEPT ![job[w].rev].status = "succeeded"]
  /\ Step(w, "apply")
  /\ UNCHANGED <<transfer, acquirer, unread, faults, outside, misread>>

ApplyTotal(w) ==
  /\ At(w, "apply")
  /\ transfer' = ReversedTo(Ref(w), job[w].total)
  /\ Finish(w)
  /\ UNCHANGED <<acquirer, reversal, unread, faults, outside, misread>>

MarkReversalFailed(w) ==
  /\ At(w, "reverse_refuse")
  /\ reversal' = [reversal EXCEPT ![job[w].rev].status = "failed"]
  /\ Finish(w)
  /\ UNCHANGED <<transfer, acquirer, unread, faults, outside, misread>>

-----------------------------------------------------------------------------
\* The event drain: an event of a transfer no row is linked to waits; a pass may
\* die between the write and the mark.
HandleTransferEvent(e) ==
  /\ e \in unread /\ transfer[e.ref].linked
  /\ transfer' = ReversedTo(e.ref, e.total)
  /\ \/ unread' = unread \ {e} /\ UNCHANGED faults
     \/ Fault /\ UNCHANGED unread
  /\ UNCHANGED <<acquirer, reversal, job, outside, misread>>

\* Somebody takes money back at the acquirer itself (external).
ReversedOutside(r) ==
  /\ outside < MaxOutside /\ outside' = outside + 1
  /\ \E a \in Amounts : Takes(r, a)
  /\ UNCHANGED <<transfer, refused, taken, reversal, job, faults, misread>>

\* A call refused for a reason of its own: a key revoked, a parameter changed. A
\* settlement may have been made, or be made, under the same key; a reversal has,
\* once it is only the total that is asked for.
RefusedForItself(w) ==
  /\ Fault
  /\ \/ /\ At(w, "send") /\ Step(w, "refuse")
        /\ misread' = misread \cup {Ref(w)}
     \/ At(w, "reverse") /\ Step(w, "reverse_refuse") /\ UNCHANGED misread
     \/ /\ At(w, "total") /\ Step(w, "reverse_refuse")
        /\ misread' = misread \cup {job[w].rev}
  /\ UNCHANGED <<transfer, acquirer, reversal, unread, outside>>

\* A request that dies, or whose call fails in a way worth retrying.
Abort(w) ==
  /\ ~At(w, "idle") /\ Fault /\ Finish(w)
  /\ UNCHANGED <<transfer, acquirer, reversal, unread, outside, misread>>

Next ==
  \/ \E w \in Workers :
       \/ AskTransfer(w) \/ FindTransfer(w) \/ InsertTransfer(w) \/ SendTransfer(w)
       \/ SendTransferLost(w) \/ MarkTransferPaid(w) \/ MarkTransferFailed(w)
       \/ AskReversal(w) \/ SendReversal(w) \/ ReadTotal(w) \/ MarkReversalSucceeded(w)
       \/ ApplyTotal(w) \/ MarkReversalFailed(w) \/ RefusedForItself(w) \/ Abort(w)
  \/ \E e \in unread : HandleTransferEvent(e)
  \/ \E r \in Refs : ReversedOutside(r)

Spec == Init /\ [][Next]_vars

-----------------------------------------------------------------------------
TransferStatuses == {"none", "pending", "paid", "partially_reversed", "reversed", "failed"}

AllSellers == UNION {Sellers[r] : r \in Refs}

TypeOK ==
  /\ transfer \in [Refs -> [status : TransferStatuses, amount : Amounts \cup {0},
                            seller : AllSellers \cup {"none"}, linked : BOOLEAN, reversed : Nat]]
  /\ sent \in [Refs -> [amount : Amounts \cup {0}, seller : AllSellers \cup {"none"},
                        reversed : Nat]]
  /\ refused \subseteq Refs
  /\ reversal \in [ReversalRefs -> [status : {"none", "pending", "succeeded", "failed"},
                                    of : Refs \cup {"none"}, amount : Amounts \cup {0}]]
  /\ taken \in [ReversalRefs -> Amounts \cup {0}]
  /\ unread \subseteq [ref : Refs, total : Nat]
  /\ job \in [Workers -> [pc : Pcs, ref : Refs \cup {"none"},
                          seller : AllSellers \cup {"none"}, amount : Amounts \cup {0},
                          rev : ReversalRefs \cup {"none"}, total : Nat]]
  /\ faults \in 0..MaxFaults /\ outside \in 0..MaxOutside
  /\ misread \subseteq Refs \cup ReversalRefs

\* The sellers of one payment hold no more than it brought in, whoever settles
\* them at once, whatever answers are lost and whatever is taken back: settlements
\* apart whose refusal was recorded though it was of no more than a call.
WithinPayment ==
  SumFunctionOnSet([r \in Refs |-> sent[r].amount - sent[r].reversed], Refs \ misread)
    <= Charge

\* transferRepository.ts: a failed settlement is "Terminal, and nothing ever moved."
FailedMovedNothing ==
  \A r \in Refs : transfer[r].status = "failed" => sent[r].amount = 0

\* A row never says more came back than did; once nobody is at work and every
\* total announced was read, it says exactly what did.
ReversedIsTrue ==
  \A r \in Refs :
    /\ transfer[r].reversed <= sent[r].reversed
    /\ transfer[r].linked /\ {e \in unread : e.ref = r} = {}
         => transfer[r].reversed = sent[r].reversed

\* A reversal that ended says what the acquirer did, unless it ended on a refusal
\* to read the total.
ReversalIsTrue ==
  \A v \in ReversalRefs :
    /\ reversal[v].status = "succeeded" => taken[v] = reversal[v].amount
    /\ reversal[v].status = "failed" => taken[v] = 0 \/ v \in misread

\* The seller a settlement names is the one who was paid.
PaidAsRecorded ==
  \A r \in Refs : transfer[r].linked => sent[r].seller = transfer[r].seller
=============================================================================
