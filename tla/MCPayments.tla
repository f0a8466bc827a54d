------------------------------ MODULE MCPayments ------------------------------
(***************************************************************************)
(* How a payer pays - FairCoin settlement, the addresses it is paid to,    *)
(* the wallet it is paid from, checkout orders - checked side by side: the *)
(* components share no row, so `focus` says which one a behaviour is of,   *)
(* and the variables of the others are Off.  The state space is the sum of *)
(* theirs.  A component stands here under each set of bounds at which it   *)
(* does something the others do not reach.                                 *)
(***************************************************************************)
EXTENDS Naturals, FiniteSets, TLC

CONSTANTS
  Tasks,   \* two interchangeable tasks of the backend
  Pair,    \* two interchangeable senders, orders, sends
  Off      \* the value of a variable the focus does not have

VARIABLES
  focus,
  row, net, tx, pays, reorgs, memory,
  cursor, handed, used, pool, wallet,
  session, payment, acquirer, redeemed, due, told,
  chain, public, wire, filter, assoc, batches, jobs, stale, headers,
  coin, txBlock, scan, pendingFrom, coins, driver, checker, send, reserved, counts,
  missed, key, job, faults

FairVars == <<row, net, tx, pays, reorgs, memory>>
PoolVars == <<cursor, handed, used, pool, wallet>>
CheckoutVars == <<session, payment, acquirer, redeemed, due, told>>
WalletVars ==
  <<chain, public, wire, filter, assoc, batches, jobs, stale, headers,
    coin, txBlock, scan, pendingFrom, coins, driver, checker, send, reserved, counts, missed>>

NoFair ==
  row = Off /\ net = Off /\ tx = Off /\ pays = Off /\ reorgs = Off /\ memory = Off
NoPool ==
  cursor = Off /\ handed = Off /\ used = Off /\ pool = Off /\ wallet = Off
NoCheckout ==
  /\ session = Off /\ payment = Off /\ acquirer = Off
  /\ redeemed = Off /\ due = Off /\ told = Off
NoWallet ==
  /\ chain = Off /\ public = Off /\ wire = Off /\ filter = Off /\ assoc = Off
  /\ batches = Off /\ jobs = Off /\ stale = Off /\ headers = Off /\ coin = Off
  /\ txBlock = Off /\ scan = Off /\ pendingFrom = Off /\ coins = Off /\ driver = Off
  /\ checker = Off /\ send = Off /\ reserved = Off /\ counts = Off /\ missed = Off

-----------------------------------------------------------------------------
\* One watcher that is lied to, and two tasks that watch one payment.
Watcher == INSTANCE FairSettlement WITH
  Tasks <- {"task"}, Overlap <- 1, Threshold <- 2, Depth <- 3, Indexed <- TRUE,
  MaxReorgs <- 1, MaxFaults <- 1
TwoWatchers == INSTANCE FairSettlement WITH
  Tasks <- Tasks, Overlap <- 1, Threshold <- 1, Depth <- 2, Indexed <- TRUE,
  MaxReorgs <- 1, MaxFaults <- 0

\* Two senders and payments to one recipient, and payments to two recipients.
Recipient == INSTANCE ReceiveAddresses WITH
  LastRecipient <- 1, Senders <- Pair, Workers <- Tasks, MaxUnpaid <- 1,
  MaxFresh <- 4, MaxPerSender <- 2, MaxIndex <- 3, MaxFaults <- 0
TwoRecipients == INSTANCE ReceiveAddresses WITH
  LastRecipient <- 2, Senders <- {}, Workers <- Tasks, MaxUnpaid <- 1,
  MaxFresh <- 2, MaxPerSender <- 2, MaxIndex <- 1, MaxFaults <- 1

\* One order on both rails, and two orders that share a code.
Order == INSTANCE CheckoutSession WITH
  Sessions <- {"s1"}, Workers <- Tasks, Methods <- {"card", "faircoin"},
  MaxRedemptions <- 1, MaxQuotes <- 1, MaxWrites <- 4, MaxFaults <- 1
TwoOrders == INSTANCE CheckoutSession WITH
  Sessions <- Pair, Workers <- {"task"}, Methods <- {"card"},
  MaxRedemptions <- 1, MaxQuotes <- 1, MaxWrites <- 3, MaxFaults <- 0

\* Two sends that want one coin, beside a loose copy of it or of a send; one that is
\* confirmed; and an address that joins the filter late while the chain loses a block.
Sending == INSTANCE Wallet WITH
  Funds <- {"f1"}, Late <- {}, Sends <- Pair,
  MaxHeight <- 1, MaxForks <- 0, MaxCopies <- 1, MaxCrashes <- 1, memory <- coins
Restarted == INSTANCE Wallet WITH
  Funds <- {"f1"}, Late <- {}, Sends <- {"s1"},
  MaxHeight <- 2, MaxForks <- 0, MaxCopies <- 0, MaxCrashes <- 1, memory <- coins
Rescanned == INSTANCE Wallet WITH
  Funds <- {"f1", "f2"}, Late <- {"f2"}, Sends <- {},
  MaxHeight <- 2, MaxForks <- 1, MaxCopies <- 0, MaxCrashes <- 1, memory <- coins

\* The bounds of each component are ones its assumption allows.
ASSUME BoundsAssumption ==
  /\ IsFiniteSet(Pair)
  /\ Watcher!SettlementBounds /\ TwoWatchers!SettlementBounds
  /\ Recipient!AddressBounds /\ TwoRecipients!AddressBounds
  /\ Order!CheckoutBounds /\ TwoOrders!CheckoutBounds
  /\ Sending!WalletBounds /\ Restarted!WalletBounds /\ Rescanned!WalletBounds

-----------------------------------------------------------------------------
Init ==
  \/ /\ NoPool /\ NoCheckout /\ NoWallet
     /\ \/ focus = "Watcher" /\ Watcher!Init
        \/ focus = "TwoWatchers" /\ TwoWatchers!Init
  \/ /\ NoFair /\ NoCheckout /\ NoWallet
     /\ \/ focus = "Recipient" /\ Recipient!Init
        \/ focus = "TwoRecipients" /\ TwoRecipients!Init
  \/ /\ NoFair /\ NoPool /\ NoWallet /\ key = Off
     /\ \/ focus = "Order" /\ Order!Init
        \/ focus = "TwoOrders" /\ TwoOrders!Init
  \/ /\ NoFair /\ NoPool /\ NoCheckout /\ key = Off /\ job = Off /\ faults = Off
     /\ \/ focus = "Sending" /\ Sending!Init
        \/ focus = "Restarted" /\ Restarted!Init
        \/ focus = "Rescanned" /\ Rescanned!Init

FairNext ==
  /\ UNCHANGED <<focus, PoolVars, CheckoutVars, WalletVars>>
  /\ \/ focus = "Watcher" /\ Watcher!Next
     \/ focus = "TwoWatchers" /\ TwoWatchers!Next

PoolNext ==
  /\ UNCHANGED <<focus, FairVars, CheckoutVars, WalletVars>>
  /\ \/ focus = "Recipient" /\ Recipient!Next
     \/ focus = "TwoRecipients" /\ TwoRecipients!Next

CheckoutNext ==
  /\ UNCHANGED <<focus, FairVars, PoolVars, WalletVars, key>>
  /\ \/ focus = "Order" /\ Order!Next
     \/ focus = "TwoOrders" /\ TwoOrders!Next

WalletNext ==
  /\ UNCHANGED <<focus, FairVars, PoolVars, CheckoutVars, key, job, faults>>
  /\ \/ focus = "Sending" /\ Sending!Next
     \/ focus = "Restarted" /\ Restarted!Next
     \/ focus = "Rescanned" /\ Rescanned!Next

Next == FairNext \/ PoolNext \/ CheckoutNext \/ WalletNext

vars == <<focus, FairVars, PoolVars, CheckoutVars, WalletVars, key, job, faults>>

Spec == Init /\ [][Next]_vars

Symmetry == Permutations(Tasks) \cup Permutations(Pair)

-----------------------------------------------------------------------------
TypeOK ==
  CASE focus = "Watcher"       -> Watcher!TypeOK
    [] focus = "TwoWatchers"   -> TwoWatchers!TypeOK
    [] focus = "Recipient"     -> Recipient!TypeOK
    [] focus = "TwoRecipients" -> TwoRecipients!TypeOK
    [] focus = "Order"         -> Order!TypeOK
    [] focus = "TwoOrders"     -> TwoOrders!TypeOK
    [] focus = "Sending"       -> Sending!TypeOK
    [] focus = "Restarted"     -> Restarted!TypeOK
    [] focus = "Rescanned"     -> Rescanned!TypeOK

\* FairCoin success is said of a transaction that pays and that was deep enough,
\* however late the poll that says so writes it; and coins at an address whose
\* key was replaced before they were reported are never called received without
\* saying so.
SucceededIsTrue ==
  /\ focus = "Watcher" => Watcher!SucceededWasDeep /\ Watcher!ReplacedKeyIsSaid
  /\ focus = "TwoWatchers" => TwoWatchers!SucceededWasDeep /\ TwoWatchers!ReplacedKeyIsSaid

\* The merchant's books hold a FairCoin payment exactly while its row says it
\* was received, over rewinds and second settlements.
BooksFollow ==
  /\ focus = "Watcher" => Watcher!BooksFollow
  /\ focus = "TwoWatchers" => TwoWatchers!BooksFollow

\* One bad reading, whichever task or poll makes it, rewinds no settled payment.
OneBadReadingRewindsNothing ==
  [][/\ focus = "Watcher" /\ row.status = "succeeded" /\ row'.status # "succeeded"
          => reorgs > 0 \/ faults > 1
     /\ focus = "TwoWatchers" /\ row.status = "succeeded" /\ row'.status # "succeeded"
          => reorgs > 0 \/ faults > 1]_vars

\* A FairCoin payment, read as settled once it is too deep to be undone and no poll
\* that read it before is at work, keeps the promises of PaymentLifecycle, whether one
\* task watches it or two.
FinalStatus ==
  CASE focus = "Watcher"     -> Watcher!FinalStatus
    [] focus = "TwoWatchers" -> TwoWatchers!FinalStatus
    [] OTHER                 -> "none"
Lifecycle == INSTANCE PaymentLifecycle WITH
  status <- FinalStatus,
  outcomes <- IF FinalStatus \in {"succeeded", "canceled"} THEN <<FinalStatus>> ELSE <<>>
ImplementsLifecycle == Lifecycle!Spec

\* A wallet that asks for the indices above the last one it saw watches every
\* address handed out at or below it.
SyncMissesNothing ==
  /\ focus = "Recipient" => Recipient!SyncMissesNothing
  /\ focus = "TwoRecipients" => TwoRecipients!SyncMissesNothing

\* Whoever asks at once: no more unpaid payments than a recipient may have, one
\* unpaid address per sender, half of a day kept for senders not served yet, and
\* no two payments that wait for each other's recipients.
AddressBoundsHold ==
  /\ focus = "Recipient" =>
       /\ Recipient!UnpaidWithinBound /\ Recipient!OneUnpaidPerSender
       /\ Recipient!RepeatsWithinHalf
  /\ focus = "TwoRecipients" => TwoRecipients!UnpaidWithinBound /\ TwoRecipients!NoLockCycle

\* An order is paid once, whichever method the payer changes to and when, and
\* one that says it was paid was, at the price it has.
PaidOnce ==
  /\ focus = "Order" => Order!PaidOnce /\ Order!PaidIsReceived
  /\ focus = "TwoOrders" => TwoOrders!PaidOnce /\ TwoOrders!PaidIsReceived

\* A promotion code sells as often as it may, whoever races for the last one.
CodeWithinBound ==
  /\ focus = "Order" => Order!CodeWithinBound
  /\ focus = "TwoOrders" => TwoOrders!CodeWithinBound

\* At rest, over replays, loose copies, headers that come late and a crash, the
\* wallet's rows hold every coin of the chain no send has spent, at the height of
\* its block and free to be spent, and call no other one confirmed.
CoinsAreTheChains ==
  /\ focus = "Sending" => Sending!CoinsAreTheChains
  /\ focus = "Restarted" => Restarted!CoinsAreTheChains
  /\ focus = "Rescanned" => Rescanned!CoinsAreTheChains

\* Two sends in progress never hold one coin.
SendsApart == focus = "Sending" => Sending!SendsApart
=============================================================================
