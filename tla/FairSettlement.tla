---------------------------- MODULE FairSettlement ----------------------------
(***************************************************************************)
(* One FairCoin payment.  The payer signs and broadcasts; the gateway only *)
(* reads the chain, through an explorer whose nodes lag.  Every task runs  *)
(* a watcher that polls without waiting for its previous poll, remembers   *)
(* in memory since when a transaction is missing or looks undone, and      *)
(* moves the row by a compare-and-swap on its status.  A settled payment   *)
(* is watched until no reorganisation can undo it.                         *)
(***************************************************************************)
EXTENDS Integers

CONSTANTS
  Tasks, Overlap,   \* tasks, and polls of one task that may run at once
  Threshold,        \* requiredConfirmations
  Depth,            \* maxReorgDepth
  Indexed,          \* whether the explorer indexes addresses (mainnet does)
  MaxReorgs,        \* bound: reorganisations
  MaxFaults         \* bound: readings of a lagging node, failed reads, restarts

SettlementBounds ==
  /\ Overlap \in Nat /\ Threshold \in Nat \ {0} /\ Depth \in Nat /\ Threshold <= Depth
  /\ MaxReorgs \in Nat /\ MaxFaults \in Nat /\ Indexed \in BOOLEAN

VARIABLES
  row,       \* payment_intents: status, txid, confirmations, key stamp; aged: last
             \* written a day ago
  net,       \* what the merchant's books say was received, in payments
  key,       \* the recipient's identity key: "current", "replaced", or replaced
             \* before the payer reported ("replaced_before")
  tx, pays,  \* the payer's transaction: depth (-1: nowhere) and block; whether it
             \* pays every output (external)
  reorgs,
  memory,    \* per task: the watcher's maps
  job,       \* per poll: what it holds
  faults

vars == <<row, net, key, tx, pays, reorgs, memory, job, faults>>
chain == <<tx, pays, reorgs>>

Checks == Tasks \X (1..Overlap)
Timers == {"no", "since", "ripe"}
Pcs == {"idle", "read", "tip", "judge", "keys", "usage", "write", "apply"}
NewRow == [status |-> "none", txid |-> "none", conf |-> 0, stamped |-> FALSE, aged |-> FALSE]
NoMemory == [missing |-> "no", suspect |-> "no", unseen |-> "no", block |-> 0]
\* A change: the row read, then what is to be written over it.
Idle == [pc |-> "idle", old |-> NewRow, to |-> "none", conf |-> 0, txid |-> "none",
         stamp |-> FALSE]

Init ==
  /\ row = NewRow /\ net = 0
  /\ key = "current"
  /\ tx = [depth |-> -1, block |-> 1] /\ pays \in BOOLEAN /\ reorgs = 0
  /\ memory = [t \in Tasks |-> NoMemory]
  /\ job = [c \in Checks |-> Idle]
  /\ faults = 0

At(c, pc) == job[c].pc = pc
Go(c, j) == job' = [job EXCEPT ![c] = j]
Fault == faults < MaxFaults /\ faults' = faults + 1
Remember(c, m) == memory' = [memory EXCEPT ![c[1]] = m]
Change(c, to, conf) == [job[c] EXCEPT !.pc = "write", !.to = to, !.conf = conf]

-----------------------------------------------------------------------------
\* The row: updateIntentState.

\* A faulty variant: the books are written again on every success.
LedgerAfterEachTime(from, to) ==
  IF to = "succeeded" THEN net + 1
  ELSE IF from = "succeeded" THEN net - 1 ELSE net

\* recordFaircoinLedger: posted when the running sum says it is not there yet,
\* or not there any more.
LedgerAfter(from, to) ==
  IF to = "succeeded" /\ from # "succeeded" /\ net = 0 THEN 1
  ELSE IF from = "succeeded" /\ to # "succeeded" /\ net # 0 THEN 0 ELSE net

\* A faulty variant: the row is written without comparing its status.
MoveRowBlindly(from, to, conf, txid, stamp) ==
  /\ row.status # "none"
  /\ row' = [status |-> to, txid |-> txid, conf |-> conf,
             stamped |-> row.stamped \/ stamp, aged |-> FALSE]
  /\ net' = LedgerAfter(row.status, to)

\* The compare-and-swap, and what commits with it.
MoveRow(from, to, conf, txid, stamp) ==
  IF row.status = from
  THEN /\ row' = [status |-> to, txid |-> txid, conf |-> conf,
                  stamped |-> row.stamped \/ stamp, aged |-> FALSE]
       /\ net' = LedgerAfter(from, to)
  ELSE UNCHANGED <<row, net>>

CreateIntent ==
  /\ row.status = "none"
  /\ row' = [row EXCEPT !.status = "requires_action"]
  /\ UNCHANGED <<net, key, chain, memory, job, faults>>

\* reportFaircoinBroadcast: the payer may report a transaction of its own or one
\* that will never be seen (malleated, replaced, mistyped).
ReportBroadcast ==
  /\ \E txid \in {"own", "other"} : MoveRow("requires_action", "processing", 0, txid, FALSE)
  /\ UNCHANGED <<key, chain, memory, job, faults>>

\* The expiry sweep, and the merchant's cancel: only before a broadcast is reported.
EndUnpaid ==
  /\ row.status = "requires_action"
  /\ MoveRow("requires_action", "canceled", row.conf, row.txid, FALSE)
  /\ UNCHANGED <<key, chain, memory, job, faults>>

-----------------------------------------------------------------------------
\* The watcher.

\* findWatchableIntents and findSettlingIntents: one poll works on its copy.
StartCheck(c) ==
  /\ At(c, "idle") /\ row.txid # "none"
  /\ row.status = "processing" \/ (row.status = "succeeded" /\ row.conf < Depth)
  /\ Go(c, [Idle EXCEPT !.pc = "read", !.old = row, !.txid = row.txid])
  /\ UNCHANGED <<row, net, key, chain, memory, faults>>

Seen(depth) == [found |-> depth >= 0, conf |-> IF depth > 0 THEN depth ELSE 0,
                block |-> IF depth > 0 THEN tx.block ELSE 0]
Truth(txid) == Seen(IF txid = "own" THEN tx.depth ELSE -1)

\* A faulty variant: one reading suffices.
RewindConfirmedAtOnce(timer) == TRUE

\* A faulty variant: a settled payment is read again and never doubted.
RewindConfirmedNever(timer) == FALSE

RewindConfirmed(timer) == timer = "ripe"

\* recheckSettled, on one reading of a succeeded payment's transaction.
RecheckSettled(c, read) ==
  LET m == memory[c[1]]
      unconfirmed == read.conf = 0
      moved == /\ m.block # 0 /\ ~unconfirmed /\ read.block # m.block
               /\ read.conf < Threshold
      forget == [m EXCEPT !.missing = "no", !.suspect = "no", !.block = 0]
      rewind == [Change(c, "processing", read.conf) EXCEPT
                   !.pc = IF read.found THEN "write" ELSE "tip"]
  IN \/ /\ ~read.found
        /\ IF RewindConfirmed(m.missing)
           THEN Go(c, rewind) /\ Remember(c, [m EXCEPT !.suspect = "no"])
           ELSE /\ Go(c, Idle)
                /\ Remember(c, [m EXCEPT !.suspect = "no",
                     !.missing = IF m.missing = "no" THEN "since" ELSE @])
     \/ /\ read.found /\ (unconfirmed \/ moved)
        /\ IF RewindConfirmed(m.suspect)
           THEN Go(c, rewind) /\ Remember(c, forget)
           ELSE /\ Go(c, Idle)
                /\ Remember(c, [m EXCEPT !.missing = "no",
                     !.suspect = IF m.suspect = "no" THEN "since" ELSE @])
     \/ /\ read.found /\ ~unconfirmed /\ ~moved
        /\ Remember(c, [m EXCEPT !.missing = "no", !.suspect = "no", !.block = read.block])
        /\ Go(c, IF read.conf > job[c].old.conf
                 THEN Change(c, "succeeded", read.conf) ELSE Idle)

\* A faulty variant: one confirmation short is enough.
NextStatusForEarly(conf) == IF conf + 1 < Threshold THEN "processing" ELSE "succeeded"

\* nextStatusFor
NextStatusFor(conf) ==
  IF ~pays THEN "canceled"
  ELSE IF conf < Threshold THEN "processing" ELSE "succeeded"

\* applyChainObservation, on the poll's copy j of the row; success waits for the keys.
Observe(j, conf) ==
  LET next == NextStatusFor(conf)
  IN IF next = "processing" /\ conf = j.old.conf THEN Idle
     ELSE [j EXCEPT !.to = next, !.conf = conf,
             !.pc = IF next = "succeeded" /\ ~j.old.stamped THEN "keys" ELSE "write"]

\* reconcile: a payment in processing.
Reconcile(c, read) ==
  LET m == memory[c[1]]
  IN IF read.found
     THEN /\ Remember(c, [m EXCEPT !.unseen = "no",
                            !.block = IF read.block = 0 THEN @ ELSE read.block])
          /\ Go(c, Observe(job[c], read.conf))
     ELSE /\ Remember(c, [m EXCEPT !.unseen = IF @ = "no" THEN "since" ELSE @])
          /\ Go(c, IF m.unseen = "ripe" /\ job[c].old.aged
                   THEN [job[c] EXCEPT !.pc = "judge"] ELSE Idle)

ReadTransaction(c) ==
  /\ At(c, "read")
  /\ \/ /\ IF job[c].old.status = "succeeded" THEN RecheckSettled(c, Truth(job[c].txid))
           ELSE Reconcile(c, Truth(job[c].txid))
        /\ UNCHANGED faults
     \/ /\ Fault /\ job[c].txid = "own"
        /\ \E depth \in -1..(tx.depth - 1) :
             IF job[c].old.status = "succeeded" THEN RecheckSettled(c, Seen(depth))
             ELSE Reconcile(c, Seen(depth))
  /\ UNCHANGED <<row, net, key, chain>>

\* Missing means nothing while the explorer does not answer for its tip.
AskTip(c) ==
  /\ At(c, "tip")
  /\ Go(c, [job[c] EXCEPT !.pc = "write"])
  /\ Remember(c, [memory[c[1]] EXCEPT !.missing = "no", !.suspect = "no", !.block = 0])
  /\ UNCHANGED <<row, net, key, chain, faults>>

\* A faulty variant: a transaction nobody saw is lost, whatever its address received.
JudgeUnseenBySilence(c) ==
  /\ At(c, "judge")
  /\ Go(c, Change(c, "canceled", job[c].old.conf))
  /\ UNCHANGED <<row, net, key, chain, memory, faults>>

\* judgeUnseen and findSubstitute: an address that was paid under another txid
\* takes that one over; an address never used means the broadcast is lost.
JudgeUnseen(c) ==
  /\ At(c, "judge")
  /\ LET used == tx.depth >= 0 /\ Indexed
     IN \/ /\ used /\ job[c].txid = "own"
           /\ Go(c, Idle)
        \/ /\ used /\ job[c].txid = "other" /\ pays
           /\ Go(c, [Change(c, "processing", tx.depth) EXCEPT !.txid = "own"])
        \/ /\ ~used \/ (job[c].txid = "other" /\ ~pays)
           /\ Go(c, Change(c, "canceled", job[c].old.conf))
  /\ UNCHANGED <<row, net, key, chain, memory, faults>>

\* A faulty variant: settled without asking for the keys.
CheckRecipientKeysNever(c) ==
  /\ At(c, "keys")
  /\ Go(c, [job[c] EXCEPT !.pc = "write"])
  /\ UNCHANGED <<row, net, key, chain, memory, faults>>

\* checkRecipientKeys, read fresh.
CheckRecipientKeys(c) ==
  /\ At(c, "keys")
  /\ Go(c, [job[c] EXCEPT !.pc = "write", !.stamp = (key # "current")])
  /\ UNCHANGED <<row, net, key, chain, memory, faults>>

\* runRecipientKeySweep: a payment that waits under a replaced key is retired once
\* its address reads unused; a reported one is stamped.
StartKeySweep(c) ==
  /\ At(c, "idle") /\ key # "current"
  /\ \/ /\ row.status = "requires_action"
        /\ Go(c, [Idle EXCEPT !.pc = "usage", !.old = row])
     \/ /\ row.status = "processing" /\ ~row.stamped
        /\ Go(c, [Idle EXCEPT !.pc = "write", !.old = row, !.to = "processing",
                    !.conf = row.conf, !.txid = row.txid, !.stamp = TRUE])
  /\ UNCHANGED <<row, net, key, chain, memory, faults>>

ChainShowsUnpaid(c) ==
  /\ At(c, "usage")
  /\ Go(c, IF tx.depth = -1 \/ ~Indexed THEN Change(c, "canceled", 0) ELSE Idle)
  /\ UNCHANGED <<row, net, key, chain, memory, faults>>

\* One compare-and-swap.  A payment moved onto the transaction that paid it is
\* then settled as any observation of it.
WriteRow(c) ==
  /\ At(c, "write")
  /\ LET j == job[c]
         wrote == row.status = j.old.status
         txid == IF j.txid = j.old.txid THEN row.txid ELSE j.txid
     IN /\ MoveRow(j.old.status, j.to, j.conf, txid, j.stamp)
        /\ Go(c, IF wrote /\ j.txid # j.old.txid
                 THEN Observe([j EXCEPT !.old = row'], j.conf) ELSE Idle)
        /\ IF j.old.status = "processing" /\ (j.to = "canceled" \/ j.txid # j.old.txid)
           THEN Remember(c, [memory[c[1]] EXCEPT !.unseen = "no"])
           ELSE UNCHANGED memory
  /\ UNCHANGED <<key, chain, faults>>

\* A read that fails, or an account service that does not answer, ends this
\* poll; the next one starts over.
GiveUp(c) ==
  /\ ~At(c, "idle") /\ Fault
  /\ Go(c, Idle)
  /\ UNCHANGED <<row, net, key, chain, memory>>

-----------------------------------------------------------------------------
\* Outside.

Broadcast ==
  /\ row.status # "none" /\ tx.depth = -1
  /\ tx' = [tx EXCEPT !.depth = 0]
  /\ UNCHANGED <<row, net, key, pays, reorgs, memory, job, faults>>

Mine ==
  /\ tx.depth \in 0..(Depth - 1)
  /\ tx' = [tx EXCEPT !.depth = @ + 1]
  /\ UNCHANGED <<row, net, key, pays, reorgs, memory, job, faults>>

\* A reorganisation puts it back into the pool, or drops it.
Reorganise ==
  /\ reorgs < MaxReorgs /\ reorgs' = reorgs + 1
  /\ tx.depth \in 1..(Depth - 1)
  /\ \E depth \in {-1, 0} : tx' = [depth |-> depth, block |-> tx.block + 1]
  /\ UNCHANGED <<row, net, key, pays, memory, job, faults>>

ReplaceKey ==
  /\ key = "current"
  /\ key' = IF row.txid = "none" THEN "replaced_before" ELSE "replaced"
  /\ UNCHANGED <<row, net, chain, memory, job, faults>>

TimePasses(t) ==
  /\ \E timer \in {"missing", "suspect", "unseen"} :
       /\ memory[t][timer] = "since"
       /\ memory' = [memory EXCEPT ![t][timer] = "ripe"]
  /\ UNCHANGED <<row, net, key, chain, job, faults>>

RowAges ==
  /\ row.status = "processing" /\ ~row.aged
  /\ row' = [row EXCEPT !.aged = TRUE]
  /\ UNCHANGED <<net, key, chain, memory, job, faults>>

Restart(t) ==
  /\ Fault
  /\ memory' = [memory EXCEPT ![t] = NoMemory]
  /\ job' = [c \in Checks |-> IF c[1] = t THEN Idle ELSE job[c]]
  /\ UNCHANGED <<row, net, key, chain>>

CheckStep(c) ==
  \/ ReadTransaction(c) \/ AskTip(c) \/ JudgeUnseen(c) \/ CheckRecipientKeys(c)
  \/ ChainShowsUnpaid(c) \/ WriteRow(c)

Next ==
  \/ CreateIntent \/ ReportBroadcast \/ EndUnpaid
  \/ Broadcast \/ Mine \/ Reorganise \/ ReplaceKey \/ RowAges
  \/ \E c \in Checks : StartCheck(c) \/ StartKeySweep(c) \/ CheckStep(c) \/ GiveUp(c)
  \/ \E t \in Tasks : TimePasses(t) \/ Restart(t)

Spec == Init /\ [][Next]_vars

\* Polls start on a timer and go on, clocks run, blocks are found.
Fairness ==
  /\ \A c \in Checks : WF_vars(StartCheck(c)) /\ WF_vars(CheckStep(c))
  /\ \A t \in Tasks : WF_vars(TimePasses(t))
  /\ WF_vars(RowAges) /\ WF_vars(Mine)

FairSpec == Spec /\ Fairness

-----------------------------------------------------------------------------
Statuses == {"none", "requires_action", "processing", "succeeded", "canceled"}

TypeOK ==
  LET rows == [status : Statuses, txid : {"none", "own", "other"}, conf : 0..Depth,
               stamped : BOOLEAN, aged : BOOLEAN]
  IN /\ row \in rows
     /\ net \in {0, 1}
     /\ key \in {"current", "replaced", "replaced_before"}
     /\ tx \in [depth : -1..Depth, block : 1..(MaxReorgs + 1)]
     /\ pays \in BOOLEAN /\ reorgs \in 0..MaxReorgs /\ faults \in 0..MaxFaults
     /\ memory \in [Tasks -> [missing : Timers, suspect : Timers, unseen : Timers,
                              block : 0..(MaxReorgs + 1)]]
     /\ job \in [Checks -> [pc : Pcs, old : rows, to : Statuses, conf : 0..Depth,
                            txid : {"none", "own", "other"}, stamp : BOOLEAN]]

\* Success is said of a transaction that pays and that was deep enough, however
\* late the poll that says so writes it.
SucceededWasDeep ==
  row.status = "succeeded" => pays /\ (tx.depth >= Threshold \/ reorgs > 0)

\* The merchant's books hold the payment exactly while the row says it was
\* received, over any number of rewinds and second settlements.
BooksFollow == net = IF row.status = "succeeded" THEN 1 ELSE 0

\* Coins at an address of a key that was replaced before they were reported are
\* never called received without saying so.
ReplacedKeyIsSaid ==
  row.status = "succeeded" /\ key = "replaced_before" => row.stamped

\* One bad reading, whichever task or poll makes it, never rewinds a settled
\* payment: only the chain does.
OneBadReadingRewindsNothing ==
  [][row.status = "succeeded" /\ row'.status # "succeeded" => reorgs > 0 \/ faults > 1]_row

\* A recorded depth only grows while the payment stays settled.
OnlyEverDeeper ==
  [][row.status = "succeeded" /\ row'.status = "succeeded" => row'.conf >= row.conf]_row

\* Read as settled only once it is too deep to be undone and every poll that read it
\* before that has ended, the payment keeps the promises of PaymentLifecycle: neither
\* a rewind nor a smaller depth written late is a step of it.
Final ==
  row.status = "succeeded" =>
    /\ row.conf >= Depth
    /\ \A c \in Checks : At(c, "idle") \/ job[c].old.status # "succeeded"
FinalStatus == IF Final THEN row.status ELSE "processing"
Lifecycle == INSTANCE PaymentLifecycle WITH
  status <- FinalStatus,
  outcomes <- IF FinalStatus \in {"succeeded", "canceled"} THEN <<FinalStatus>> ELSE <<>>
ImplementsLifecycle == Lifecycle!Spec

\* A payment on the chain that will stay there comes to be settled, also when
\* the payer reported another transaction, unless a poll had already judged it
\* lost before it got there.
Settleable ==
  /\ row.status = "processing" /\ tx.depth > 0 /\ pays /\ Indexed
  /\ reorgs = MaxReorgs
  /\ \A c \in Checks : ~(At(c, "write") /\ job[c].to = "canceled")
PaidSettles == Settleable ~> row.status = "succeeded"

\* What the chain dropped for good does not stay settled.
UndoneIsNoticed == <>[](tx.depth = -1) => <>[](row.status # "succeeded")
=============================================================================
