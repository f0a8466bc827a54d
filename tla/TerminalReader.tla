---------------------------- MODULE TerminalReader ----------------------------
(***************************************************************************)
(* Terminal readers collecting in-person payments.  A collection claims    *)
(* its reader in the database, hands the payment to the provider, and is   *)
(* settled by whoever next reads the provider's reader: the request that   *)
(* started it, a retrieve, a cancel, or the drain.  Readings may be old by *)
(* the time they are used; the claim's start time says which attempt a     *)
(* write is about.                                                         *)
(***************************************************************************)
EXTENDS Naturals, FiniteSets

CONSTANTS
  Readers, Payments, Workers,
  MaxAttempts,   \* bound: collections claimed in all
  MaxFaults      \* bound: refusals of the provider's own, lost answers, crashes,
                 \* resets and failed reads

TerminalBounds == MaxAttempts \in Nat /\ MaxFaults \in Nat

VARIABLES
  action,     \* per reader: the action columns of terminal_readers
  started,    \* how many attempts were ever claimed: the clock of the claims
  device,     \* per reader: what the provider's reader is doing (external)
  paid,       \* the payments the provider took (external)
  known,      \* the payments whose row says so
  told,       \* per attempt: how often the merchant was told each outcome
  job, faults

vars == <<action, started, device, paid, known, told, job, faults>>
provider == <<device, paid>>

Outcomes == {"succeeded", "failed"}
NoAction ==
  [n |-> 0, payment |-> "none", status |-> "none", acked |-> FALSE, aged |-> FALSE]
NoCollection == [payment |-> "none", status |-> "none"]
Pcs == {"idle", "before", "claim", "send", "ack", "release", "ask", "refresh",
        "pay", "settle"}

\* What an execution holds: its reader, the payment it collects, the action it
\* replaces, the row it read, the provider's reading and the outcome it infers.
Idle == [pc |-> "idle", reader |-> "none", payment |-> "none", before |-> NoAction,
         row |-> NoAction, read |-> NoCollection, outcome |-> "none"]

Init ==
  /\ action = [r \in Readers |-> NoAction]
  /\ started = 0
  /\ device = [r \in Readers |-> NoCollection]
  /\ paid = {} /\ known = {}
  /\ told = [n \in 1..MaxAttempts |-> [o \in Outcomes |-> 0]]
  /\ job = [w \in Workers |-> Idle]
  /\ faults = 0

At(w, pc) == job[w].pc = pc
Go(w, j) == job' = [job EXCEPT ![w] = j]
Reader(w) == job[w].reader
InProgress(a) == a.status = "in_progress"
Fault == faults < MaxFaults /\ faults' = faults + 1

-----------------------------------------------------------------------------
\* processPaymentIntent

StartCollection(w) ==
  /\ At(w, "idle")
  /\ \E r \in Readers, p \in Payments \ known :
       Go(w, [Idle EXCEPT !.pc = "before", !.reader = r, !.payment = p])
  /\ UNCHANGED <<action, started, provider, known, told, faults>>

ReadBefore(w) ==
  /\ At(w, "before")
  /\ Go(w, [job[w] EXCEPT !.pc = "claim", !.before = action[Reader(w)]])
  /\ UNCHANGED <<action, started, provider, known, told, faults>>

CollectedElsewhere(p, r) ==
  \E q \in Readers \ {r} : InProgress(action[q]) /\ action[q].payment = p

\* A faulty variant: a reader is claimed over an attempt that is in progress.
ClaimReaderActionOver(w) ==
  /\ At(w, "claim") /\ started < MaxAttempts
  /\ started' = started + 1
  /\ action' = [action EXCEPT ![Reader(w)] =
       [n |-> started', payment |-> job[w].payment, status |-> "in_progress",
        acked |-> FALSE, aged |-> FALSE]]
  /\ Go(w, [job[w] EXCEPT !.pc = "send", !.row = action'[Reader(w)]])
  /\ UNCHANGED <<provider, known, told, faults>>

\* The claim is one conditional update; a busy reader is asked about first.
ClaimReaderAction(w) ==
  /\ At(w, "claim") /\ started < MaxAttempts
  /\ ~CollectedElsewhere(job[w].payment, Reader(w))
  /\ ~InProgress(action[Reader(w)])
  /\ started' = started + 1
  /\ action' = [action EXCEPT ![Reader(w)] =
       [n |-> started', payment |-> job[w].payment, status |-> "in_progress",
        acked |-> FALSE, aged |-> FALSE]]
  /\ Go(w, [job[w] EXCEPT !.pc = "send", !.row = action'[Reader(w)]])
  /\ UNCHANGED <<provider, known, told, faults>>

\* The reconciliation asked for then, and the second claim, are those of any
\* later request: this one is refused.
ClaimRefused(w) ==
  /\ At(w, "claim")
  /\ CollectedElsewhere(job[w].payment, Reader(w)) \/ InProgress(action[Reader(w)])
  /\ Go(w, IF InProgress(action[Reader(w)])
           THEN [Idle EXCEPT !.pc = "ask", !.reader = Reader(w), !.row = action[Reader(w)]]
           ELSE Idle)
  /\ UNCHANGED <<action, started, provider, known, told, faults>>

\* The provider takes it when the reader is free and the payment unpaid;
\* otherwise, or for a reason of its own, it refuses for good.
SendCollection(w) ==
  /\ At(w, "send")
  /\ LET r == Reader(w)
         asked == [payment |-> job[w].payment, status |-> "in_progress"]
     IN \/ /\ device[r].status # "in_progress" /\ job[w].payment \notin paid
           /\ device' = [device EXCEPT ![r] = asked]
           /\ Go(w, [job[w] EXCEPT !.pc = "ack", !.read = asked])
           /\ UNCHANGED faults
        \/ /\ \/ /\ device[r].status = "in_progress" \/ job[w].payment \in paid
                 /\ UNCHANGED faults
              \/ Fault
           /\ Go(w, [job[w] EXCEPT !.pc = "release"])
           /\ UNCHANGED device
  /\ UNCHANGED <<action, started, paid, known, told>>

\* It took the collection and its answer is lost: the claim stays.
SendCollectionLost(w) ==
  /\ At(w, "send") /\ Fault
  /\ device[Reader(w)].status # "in_progress" /\ job[w].payment \notin paid
  /\ device' = [device EXCEPT ![Reader(w)] =
                  [payment |-> job[w].payment, status |-> "in_progress"]]
  /\ Go(w, Idle)
  /\ UNCHANGED <<action, started, paid, known, told>>

\* A faulty variant: what the claim replaced comes back whatever it was, over
\* whatever is there now.
ReleaseReaderActionBlindly(w) ==
  /\ At(w, "release")
  /\ action' = [action EXCEPT ![Reader(w)] = [job[w].before EXCEPT !.status =
                  IF job[w].before.n = 0 THEN "none" ELSE "in_progress"]]
  /\ Go(w, Idle)
  /\ UNCHANGED <<started, provider, known, told, faults>>

ReleaseReaderAction(w) ==
  /\ At(w, "release")
  /\ LET r == Reader(w)
     IN IF action[r].n = job[w].row.n /\ InProgress(action[r])
        THEN action' = [action EXCEPT ![r] =
               IF InProgress(job[w].before) THEN NoAction ELSE job[w].before]
        ELSE UNCHANGED action
  /\ Go(w, Idle)
  /\ UNCHANGED <<started, provider, known, told, faults>>

AcknowledgeReaderAction(w) ==
  /\ At(w, "ack")
  /\ LET r == Reader(w)
     IN /\ action' = IF action[r].n = job[w].row.n
                     THEN [action EXCEPT ![r].acked = TRUE] ELSE action
        /\ Go(w, [job[w] EXCEPT !.pc = "refresh", !.row = action'[r]])
  /\ UNCHANGED <<started, provider, known, told, faults>>

-----------------------------------------------------------------------------
\* reconcileReader

StartReconcile(w) ==
  /\ At(w, "idle")
  /\ \E r \in Readers : Go(w, [Idle EXCEPT !.pc = "ask", !.reader = r, !.row = action[r]])
  /\ UNCHANGED <<action, started, provider, known, told, faults>>

AskReader(w) ==
  /\ At(w, "ask")
  /\ Go(w, [job[w] EXCEPT !.pc = "refresh", !.read = device[Reader(w)]])
  /\ UNCHANGED <<action, started, provider, known, told, faults>>

\* cancelReaderAction: the provider ends the collection and answers with the reader.
CancelReaderAction(w) ==
  /\ At(w, "ask") /\ device[Reader(w)].status = "in_progress"
  /\ device' = [device EXCEPT ![Reader(w)].status = "failed"]
  /\ Go(w, [job[w] EXCEPT !.pc = "refresh", !.read = device'[Reader(w)]])
  /\ UNCHANGED <<action, started, paid, known, told, faults>>

AboutThis(row, read) == read.payment = row.payment /\ read.payment # "none"

\* A faulty variant: an attempt the provider has not acknowledged is settled.
SettleableUnacknowledged(row) == InProgress(row)

Settleable(row) == InProgress(row) /\ (row.acked \/ row.aged)

\* The device's columns are written when they differ, and then the row comes
\* back as it is now; otherwise the caller's copy is used.
RefreshDevice(w) ==
  /\ At(w, "refresh")
  /\ \E row \in {job[w].row, action[Reader(w)]} :
       LET read == job[w].read
           about == AboutThis(row, read)
       IN \/ /\ ~Settleable(row) \/ (about /\ read.status = "in_progress")
             /\ Go(w, Idle)
          \/ /\ Settleable(row) /\ about /\ read.status = "succeeded"
             /\ Go(w, [job[w] EXCEPT !.pc = "settle", !.row = row, !.outcome = "succeeded"])
          \/ /\ Settleable(row) /\ ~(about /\ read.status \in {"in_progress", "succeeded"})
             /\ Go(w, [job[w] EXCEPT !.pc = "pay", !.row = row])
  /\ UNCHANGED <<action, started, provider, known, told, faults>>

\* A faulty variant: the reader's word is the payment's.
PaymentWasTakenNever(w) ==
  /\ At(w, "pay")
  /\ Go(w, [job[w] EXCEPT !.pc = "settle", !.outcome = "failed"])
  /\ UNCHANGED <<action, started, provider, known, told, faults>>

\* paymentWasTaken: the reader's word is not the payment's.
PaymentWasTaken(w) ==
  /\ At(w, "pay")
  /\ Go(w, [job[w] EXCEPT !.pc = "settle",
              !.outcome = IF job[w].row.payment \in paid THEN "succeeded" ELSE "failed"])
  /\ UNCHANGED <<action, started, provider, known, told, faults>>

\* The payment cannot be read: an attempt the reading is not about is left.
PaymentUnreadable(w) ==
  /\ At(w, "pay") /\ Fault
  /\ Go(w, IF AboutThis(job[w].row, job[w].read)
           THEN [job[w] EXCEPT !.pc = "settle", !.outcome = "failed"] ELSE Idle)
  /\ UNCHANGED <<action, started, provider, known, told>>

\* A faulty variant: the outcome is written over whatever attempt is there.
SettleReaderActionAlways(w) ==
  /\ At(w, "settle")
  /\ action' = [action EXCEPT ![Reader(w)].status = job[w].outcome]
  /\ told' = [told EXCEPT ![job[w].row.n][job[w].outcome] = @ + 1]
  /\ Go(w, Idle)
  /\ UNCHANGED <<started, provider, known, faults>>

\* Conditional on the attempt read, with the news, in one transaction; then
\* the payment's own reconciliation.
SettleReaderAction(w) ==
  /\ At(w, "settle")
  /\ LET r == Reader(w)
     IN IF action[r].n = job[w].row.n /\ InProgress(action[r])
        THEN /\ action' = [action EXCEPT ![r].status = job[w].outcome]
             /\ told' = [told EXCEPT ![job[w].row.n][job[w].outcome] = @ + 1]
             /\ known' = known \cup (paid \cap {job[w].row.payment})
        ELSE UNCHANGED <<action, told, known>>
  /\ Go(w, Idle)
  /\ UNCHANGED <<started, provider, faults>>

-----------------------------------------------------------------------------
\* Outside: the card, the reader, time, and executions that die.

Taps ==
  /\ \E r \in Readers, o \in Outcomes :
       /\ device[r].status = "in_progress"
       /\ device' = [device EXCEPT ![r].status = o]
       /\ paid' = IF o = "succeeded" THEN paid \cup {device[r].payment} ELSE paid
  /\ UNCHANGED <<action, started, known, told, job, faults>>

DeviceResets ==
  /\ Fault
  /\ \E r \in Readers : device' = [device EXCEPT ![r] = NoCollection]
  /\ UNCHANGED <<action, started, paid, known, told, job>>

\* The acquirer's own event reports the payment.
PaymentReported ==
  /\ \E p \in paid \ known : known' = known \cup {p}
  /\ UNCHANGED <<action, started, provider, told, job, faults>>

\* A minute without an acknowledgement; the request that claimed may be at work.
ClaimAges ==
  /\ \E r \in Readers :
       /\ InProgress(action[r]) /\ ~action[r].acked /\ ~action[r].aged
       /\ action' = [action EXCEPT ![r].aged = TRUE]
  /\ UNCHANGED <<started, provider, known, told, job, faults>>

Abort(w) ==
  /\ ~At(w, "idle") /\ Fault
  /\ Go(w, Idle)
  /\ UNCHANGED <<action, started, provider, known, told>>

Step(w) ==
  \/ StartCollection(w) \/ ReadBefore(w) \/ ClaimReaderAction(w) \/ ClaimRefused(w)
  \/ SendCollection(w) \/ SendCollectionLost(w) \/ ReleaseReaderAction(w)
  \/ AcknowledgeReaderAction(w) \/ StartReconcile(w) \/ AskReader(w)
  \/ CancelReaderAction(w) \/ RefreshDevice(w) \/ PaymentWasTaken(w)
  \/ PaymentUnreadable(w) \/ SettleReaderAction(w) \/ Abort(w)

Next ==
  \/ \E w \in Workers : Step(w)
  \/ Taps \/ DeviceResets \/ PaymentReported \/ ClaimAges

Spec == Init /\ [][Next]_vars

-----------------------------------------------------------------------------
TypeOK ==
  LET actions == [n : 0..MaxAttempts, payment : Payments \cup {"none"},
                  status : Outcomes \cup {"none", "in_progress"},
                  acked : BOOLEAN, aged : BOOLEAN]
      collections == [payment : Payments \cup {"none"},
                      status : Outcomes \cup {"none", "in_progress"}]
  IN /\ action \in [Readers -> actions]
     /\ started \in 0..MaxAttempts
     /\ device \in [Readers -> collections]
     /\ paid \subseteq Payments /\ known \subseteq paid
     /\ told \in [1..MaxAttempts -> [Outcomes -> Nat]]
     /\ job \in [Workers -> [pc : Pcs, reader : Readers \cup {"none"},
                             payment : Payments \cup {"none"}, before : actions,
                             row : actions, read : collections,
                             outcome : Outcomes \cup {"none"}]]
     /\ faults \in 0..MaxFaults

\* An attempt has one outcome and the merchant is told it once, whoever settles
\* it and however often it is given back and claimed again.
SettledOnce == \A n \in DOMAIN told : told[n]["succeeded"] + told[n]["failed"] <= 1

\* "succeeded" is told of payments the provider took.
SuccessWasTaken ==
  \A r \in Readers : action[r].status = "succeeded" => action[r].payment \in paid

\* Two readers never collect one payment at once.
OneCollector ==
  \A r, q \in Readers :
    /\ InProgress(action[r]) /\ InProgress(action[q])
    /\ action[r].payment = action[q].payment
    => r = q

\* An attempt told failed is over: its reader takes the card no more.  (An
\* integration starts a new payment on that news.)
FailedIsOver ==
  \A r \in Readers :
    action[r].status = "failed" /\ device[r].payment = action[r].payment
      => device[r].status # "in_progress"
=============================================================================
