-------------------------- MODULE MCPayments_proofs --------------------------
(***************************************************************************)
(* What WaysToPay_proofs proves for any constants, carried over to the     *)
(* specification that MCPayments has TLC check.  A behaviour of it whose   *)
(* `focus` is a component is a behaviour of that component: each instance  *)
(* below has the constants the component has there (an instance has those  *)
(* of all four, so one serves up to four), `...Is` says that the           *)
(* component's definitions are that instance's, and `...Runs` that a       *)
(* behaviour is the instance's or never has that focus.                    *)
(***************************************************************************)
EXTENDS MCPayments, FiniteSetTheorems, TLAPS

\* Watcher, TwoRecipients, Order and Sending.
Faulty == INSTANCE WaysToPay_proofs WITH
  Tasks <- {"task"}, Overlap <- 1, Threshold <- 2, Depth <- 3, Indexed <- TRUE,
  MaxReorgs <- 1, MaxFaults <- 1,
  LastRecipient <- 2, Senders <- {}, Workers <- Tasks, MaxUnpaid <- 1,
  MaxFresh <- 2, MaxPerSender <- 2, MaxIndex <- 1,
  Sessions <- {"s1"}, Methods <- {"card", "faircoin"},
  MaxRedemptions <- 1, MaxQuotes <- 1, MaxWrites <- 4,
  Funds <- {"f1"}, Late <- {}, Sends <- Pair,
  MaxHeight <- 1, MaxForks <- 0, MaxCopies <- 1, MaxCrashes <- 1

\* TwoWatchers, Recipient and Restarted.
Faultless == INSTANCE WaysToPay_proofs WITH
  Tasks <- Tasks, Overlap <- 1, Threshold <- 1, Depth <- 2, Indexed <- TRUE,
  MaxReorgs <- 1, MaxFaults <- 0,
  LastRecipient <- 1, Senders <- Pair, Workers <- Tasks, MaxUnpaid <- 1,
  MaxFresh <- 4, MaxPerSender <- 2, MaxIndex <- 3,
  Sessions <- {}, Methods <- {}, MaxRedemptions <- 0, MaxQuotes <- 0, MaxWrites <- 0,
  Funds <- {"f1"}, Late <- {}, Sends <- {"s1"},
  MaxHeight <- 2, MaxForks <- 0, MaxCopies <- 0, MaxCrashes <- 1

\* TwoOrders and Rescanned.
Alone == INSTANCE WaysToPay_proofs WITH
  Tasks <- {}, Overlap <- 0, Threshold <- 0, Depth <- 0, Indexed <- TRUE,
  MaxReorgs <- 0, MaxFaults <- 0,
  LastRecipient <- 0, Senders <- {}, Workers <- {"task"}, MaxUnpaid <- 0,
  MaxFresh <- 0, MaxPerSender <- 0, MaxIndex <- 0,
  Sessions <- Pair, Methods <- {"card"},
  MaxRedemptions <- 1, MaxQuotes <- 1, MaxWrites <- 3,
  Funds <- {"f1", "f2"}, Late <- {"f2"}, Sends <- {},
  MaxHeight <- 2, MaxForks <- 1, MaxCopies <- 0, MaxCrashes <- 1

-----------------------------------------------------------------------------
(* The components are the instances.                                       *)

LEMMA WatcherIs ==
  /\ Watcher!SettlementBounds <=> Faulty!Fair!SettlementBounds
  /\ Watcher!Init <=> Faulty!Fair!Init
  /\ Watcher!Next <=> Faulty!Fair!Next
  /\ Watcher!TypeOK <=> Faulty!Fair!TypeOK
  /\ Watcher!SucceededWasDeep <=> Faulty!Fair!SucceededWasDeep
  /\ Watcher!ReplacedKeyIsSaid <=> Faulty!Fair!ReplacedKeyIsSaid
  /\ Watcher!BooksFollow <=> Faulty!Fair!BooksFollow
BY Zenon DEF Watcher!SettlementBounds, Faulty!Fair!SettlementBounds, Watcher!Init,
  Faulty!Fair!Init, Watcher!Next, Faulty!Fair!Next, Watcher!TypeOK,
  Faulty!Fair!TypeOK, Watcher!SucceededWasDeep, Faulty!Fair!SucceededWasDeep,
  Watcher!ReplacedKeyIsSaid, Faulty!Fair!ReplacedKeyIsSaid, Watcher!BooksFollow,
  Faulty!Fair!BooksFollow, Watcher!NewRow, Faulty!Fair!NewRow, Watcher!NoMemory,
  Faulty!Fair!NoMemory, Watcher!Checks, Faulty!Fair!Checks, Watcher!Idle,
  Faulty!Fair!Idle, Watcher!CreateIntent, Faulty!Fair!CreateIntent,
  Watcher!ReportBroadcast, Faulty!Fair!ReportBroadcast, Watcher!EndUnpaid,
  Faulty!Fair!EndUnpaid, Watcher!Broadcast, Faulty!Fair!Broadcast, Watcher!Mine,
  Faulty!Fair!Mine, Watcher!Reorganise, Faulty!Fair!Reorganise, Watcher!ReplaceKey,
  Faulty!Fair!ReplaceKey, Watcher!RowAges, Faulty!Fair!RowAges, Watcher!StartCheck,
  Faulty!Fair!StartCheck, Watcher!StartKeySweep, Faulty!Fair!StartKeySweep,
  Watcher!CheckStep, Faulty!Fair!CheckStep, Watcher!GiveUp, Faulty!Fair!GiveUp,
  Watcher!TimePasses, Faulty!Fair!TimePasses, Watcher!Restart, Faulty!Fair!Restart,
  Watcher!Statuses, Faulty!Fair!Statuses, Watcher!Timers, Faulty!Fair!Timers,
  Watcher!Pcs, Faulty!Fair!Pcs, Watcher!chain, Faulty!Fair!chain, Watcher!MoveRow,
  Faulty!Fair!MoveRow, Watcher!At, Faulty!Fair!At, Watcher!Go, Faulty!Fair!Go,
  Watcher!ReadTransaction, Faulty!Fair!ReadTransaction, Watcher!AskTip,
  Faulty!Fair!AskTip, Watcher!JudgeUnseen, Faulty!Fair!JudgeUnseen,
  Watcher!CheckRecipientKeys, Faulty!Fair!CheckRecipientKeys,
  Watcher!ChainShowsUnpaid, Faulty!Fair!ChainShowsUnpaid, Watcher!WriteRow,
  Faulty!Fair!WriteRow, Watcher!Fault, Faulty!Fair!Fault, Watcher!LedgerAfter,
  Faulty!Fair!LedgerAfter, Watcher!RecheckSettled, Faulty!Fair!RecheckSettled,
  Watcher!Truth, Faulty!Fair!Truth, Watcher!Reconcile, Faulty!Fair!Reconcile,
  Watcher!Seen, Faulty!Fair!Seen, Watcher!Remember, Faulty!Fair!Remember,
  Watcher!Change, Faulty!Fair!Change, Watcher!Observe, Faulty!Fair!Observe,
  Watcher!RewindConfirmed, Faulty!Fair!RewindConfirmed, Watcher!NextStatusFor,
  Faulty!Fair!NextStatusFor

LEMMA WatcherRuns == Spec => []~(focus = "Watcher") \/ Faulty!Fair!Spec
<1>1. Init /\ focus = "Watcher" => Faulty!Fair!Init BY WatcherIs DEF Init
<1>2. focus = "Watcher" /\ [Next]_vars
        => [Faulty!Fair!Next]_(Faulty!Fair!vars) /\ (focus = "Watcher")'
  BY WatcherIs DEF Next, FairNext, PoolNext, CheckoutNext, WalletNext, vars,
     FairVars, PoolVars, CheckoutVars, WalletVars,
     Faulty!Fair!vars
<1>3. ~(focus = "Watcher") /\ [Next]_vars => ~(focus = "Watcher")'
  BY DEF Next, FairNext, PoolNext, CheckoutNext, WalletNext, vars
<1> QED BY <1>1, <1>2, <1>3, PTL DEF Spec, Faulty!Fair!Spec

LEMMA TwoWatchersIs ==
  /\ TwoWatchers!SettlementBounds <=> Faultless!Fair!SettlementBounds
  /\ TwoWatchers!Init <=> Faultless!Fair!Init
  /\ TwoWatchers!Next <=> Faultless!Fair!Next
  /\ TwoWatchers!TypeOK <=> Faultless!Fair!TypeOK
  /\ TwoWatchers!SucceededWasDeep <=> Faultless!Fair!SucceededWasDeep
  /\ TwoWatchers!ReplacedKeyIsSaid <=> Faultless!Fair!ReplacedKeyIsSaid
  /\ TwoWatchers!BooksFollow <=> Faultless!Fair!BooksFollow
BY Zenon DEF TwoWatchers!SettlementBounds, Faultless!Fair!SettlementBounds,
  TwoWatchers!Init, Faultless!Fair!Init, TwoWatchers!Next, Faultless!Fair!Next,
  TwoWatchers!TypeOK, Faultless!Fair!TypeOK, TwoWatchers!SucceededWasDeep,
  Faultless!Fair!SucceededWasDeep, TwoWatchers!ReplacedKeyIsSaid,
  Faultless!Fair!ReplacedKeyIsSaid, TwoWatchers!BooksFollow,
  Faultless!Fair!BooksFollow, TwoWatchers!NewRow, Faultless!Fair!NewRow,
  TwoWatchers!NoMemory, Faultless!Fair!NoMemory, TwoWatchers!Checks,
  Faultless!Fair!Checks, TwoWatchers!Idle, Faultless!Fair!Idle,
  TwoWatchers!CreateIntent, Faultless!Fair!CreateIntent, TwoWatchers!ReportBroadcast,
  Faultless!Fair!ReportBroadcast, TwoWatchers!EndUnpaid, Faultless!Fair!EndUnpaid,
  TwoWatchers!Broadcast, Faultless!Fair!Broadcast, TwoWatchers!Mine,
  Faultless!Fair!Mine, TwoWatchers!Reorganise, Faultless!Fair!Reorganise,
  TwoWatchers!ReplaceKey, Faultless!Fair!ReplaceKey, TwoWatchers!RowAges,
  Faultless!Fair!RowAges, TwoWatchers!StartCheck, Faultless!Fair!StartCheck,
  TwoWatchers!StartKeySweep, Faultless!Fair!StartKeySweep, TwoWatchers!CheckStep,
  Faultless!Fair!CheckStep, TwoWatchers!GiveUp, Faultless!Fair!GiveUp,
  TwoWatchers!TimePasses, Faultless!Fair!TimePasses, TwoWatchers!Restart,
  Faultless!Fair!Restart, TwoWatchers!Statuses, Faultless!Fair!Statuses,
  TwoWatchers!Timers, Faultless!Fair!Timers, TwoWatchers!Pcs, Faultless!Fair!Pcs,
  TwoWatchers!chain, Faultless!Fair!chain, TwoWatchers!MoveRow,
  Faultless!Fair!MoveRow, TwoWatchers!At, Faultless!Fair!At, TwoWatchers!Go,
  Faultless!Fair!Go, TwoWatchers!ReadTransaction, Faultless!Fair!ReadTransaction,
  TwoWatchers!AskTip, Faultless!Fair!AskTip, TwoWatchers!JudgeUnseen,
  Faultless!Fair!JudgeUnseen, TwoWatchers!CheckRecipientKeys,
  Faultless!Fair!CheckRecipientKeys, TwoWatchers!ChainShowsUnpaid,
  Faultless!Fair!ChainShowsUnpaid, TwoWatchers!WriteRow, Faultless!Fair!WriteRow,
  TwoWatchers!Fault, Faultless!Fair!Fault, TwoWatchers!LedgerAfter,
  Faultless!Fair!LedgerAfter, TwoWatchers!RecheckSettled,
  Faultless!Fair!RecheckSettled, TwoWatchers!Truth, Faultless!Fair!Truth,
  TwoWatchers!Reconcile, Faultless!Fair!Reconcile, TwoWatchers!Seen,
  Faultless!Fair!Seen, TwoWatchers!Remember, Faultless!Fair!Remember,
  TwoWatchers!Change, Faultless!Fair!Change, TwoWatchers!Observe,
  Faultless!Fair!Observe, TwoWatchers!RewindConfirmed,
  Faultless!Fair!RewindConfirmed, TwoWatchers!NextStatusFor,
  Faultless!Fair!NextStatusFor

LEMMA TwoWatchersRuns == Spec => []~(focus = "TwoWatchers") \/ Faultless!Fair!Spec
<1>1. Init /\ focus = "TwoWatchers" => Faultless!Fair!Init BY TwoWatchersIs DEF Init
<1>2. focus = "TwoWatchers" /\ [Next]_vars
        => [Faultless!Fair!Next]_(Faultless!Fair!vars) /\ (focus = "TwoWatchers")'
  BY TwoWatchersIs DEF Next, FairNext, PoolNext, CheckoutNext, WalletNext, vars,
     FairVars, PoolVars, CheckoutVars, WalletVars,
     Faultless!Fair!vars
<1>3. ~(focus = "TwoWatchers") /\ [Next]_vars => ~(focus = "TwoWatchers")'
  BY DEF Next, FairNext, PoolNext, CheckoutNext, WalletNext, vars
<1> QED BY <1>1, <1>2, <1>3, PTL DEF Spec, Faultless!Fair!Spec

LEMMA RecipientIs ==
  /\ Recipient!AddressBounds <=> Faultless!AddressBounds
  /\ Recipient!Init <=> Faultless!Init
  /\ Recipient!Next <=> Faultless!Next
  /\ Recipient!TypeOK <=> Faultless!TypeOK
  /\ Recipient!SyncMissesNothing <=> Faultless!SyncMissesNothing
  /\ Recipient!UnpaidWithinBound <=> Faultless!UnpaidWithinBound
  /\ Recipient!OneUnpaidPerSender <=> Faultless!OneUnpaidPerSender
  /\ Recipient!RepeatsWithinHalf <=> Faultless!RepeatsWithinHalf
BY Zenon DEF Recipient!AddressBounds, Faultless!AddressBounds, Recipient!Init,
  Faultless!Init, Recipient!Next, Faultless!Next, Recipient!TypeOK, Faultless!TypeOK,
  Recipient!SyncMissesNothing, Faultless!SyncMissesNothing,
  Recipient!UnpaidWithinBound, Faultless!UnpaidWithinBound,
  Recipient!OneUnpaidPerSender, Faultless!OneUnpaidPerSender,
  Recipient!RepeatsWithinHalf, Faultless!RepeatsWithinHalf, Recipient!Payment,
  Faultless!Payment, Recipient!Recipients, Faultless!Recipients, Recipient!NoJob,
  Faultless!NoJob, Recipient!Step, Faultless!Step, Recipient!ReadPage,
  Faultless!ReadPage, Recipient!Pay, Faultless!Pay, Recipient!ReplaceKey,
  Faultless!ReplaceKey, Recipient!Addresses, Faultless!Addresses, Recipient!Pcs,
  Faultless!Pcs, Recipient!Of, Faultless!Of, Recipient!Unpaid, Faultless!Unpaid,
  Recipient!Cardinality, Faultless!Cardinality, Recipient!HeldBy, Faultless!HeldBy,
  Recipient!Attributions, Faultless!Attributions, Recipient!PlanPayment,
  Faultless!PlanPayment, Recipient!AskAddress, Faultless!AskAddress,
  Recipient!ReuseUnpaidAddress, Faultless!ReuseUnpaidAddress, Recipient!ReadFreshKey,
  Faultless!ReadFreshKey, Recipient!LockRecipientPool, Faultless!LockRecipientPool,
  Recipient!Commit, Faultless!Commit, Recipient!Rollback, Faultless!Rollback,
  Recipient!Above, Faultless!Above, Recipient!At, Faultless!At, Recipient!Go,
  Faultless!Go, Recipient!LatestIndex, Faultless!LatestIndex, Recipient!Latest,
  Faultless!Latest, Recipient!Fault, Faultless!Fault, Recipient!NextPool,
  Faultless!NextPool, Recipient!MayReserve, Faultless!MayReserve, Recipient!Reserved,
  Faultless!Reserved, Recipient!Release, Faultless!Release, Recipient!Max,
  Faultless!Max, Recipient!HasRoom, Faultless!HasRoom

LEMMA RecipientRuns == Spec => []~(focus = "Recipient") \/ Faultless!Spec
<1>1. Init /\ focus = "Recipient" => Faultless!Init BY ZenonT(60), RecipientIs DEF Init
<1>2. focus = "Recipient" /\ [Next]_vars
        => [Faultless!Next]_(Faultless!vars) /\ (focus = "Recipient")'
  BY RecipientIs DEF Next, FairNext, PoolNext, CheckoutNext, WalletNext, vars,
     FairVars, PoolVars, CheckoutVars, WalletVars,
     Faultless!vars
<1>3. ~(focus = "Recipient") /\ [Next]_vars => ~(focus = "Recipient")'
  BY DEF Next, FairNext, PoolNext, CheckoutNext, WalletNext, vars
<1> QED BY <1>1, <1>2, <1>3, PTL DEF Spec, Faultless!Spec

LEMMA TwoRecipientsIs ==
  /\ TwoRecipients!AddressBounds <=> Faulty!AddressBounds
  /\ TwoRecipients!Init <=> Faulty!Init
  /\ TwoRecipients!Next <=> Faulty!Next
  /\ TwoRecipients!TypeOK <=> Faulty!TypeOK
  /\ TwoRecipients!SyncMissesNothing <=> Faulty!SyncMissesNothing
  /\ TwoRecipients!UnpaidWithinBound <=> Faulty!UnpaidWithinBound
  /\ TwoRecipients!NoLockCycle <=> Faulty!NoLockCycle
BY Zenon DEF TwoRecipients!AddressBounds, Faulty!AddressBounds, TwoRecipients!Init,
  Faulty!Init, TwoRecipients!Next, Faulty!Next, TwoRecipients!TypeOK, Faulty!TypeOK,
  TwoRecipients!SyncMissesNothing, Faulty!SyncMissesNothing,
  TwoRecipients!UnpaidWithinBound, Faulty!UnpaidWithinBound,
  TwoRecipients!NoLockCycle, Faulty!NoLockCycle, TwoRecipients!Payment,
  Faulty!Payment, TwoRecipients!Recipients, Faulty!Recipients, TwoRecipients!NoJob,
  Faulty!NoJob, TwoRecipients!Step, Faulty!Step, TwoRecipients!ReadPage,
  Faulty!ReadPage, TwoRecipients!Pay, Faulty!Pay, TwoRecipients!ReplaceKey,
  Faulty!ReplaceKey, TwoRecipients!Addresses, Faulty!Addresses, TwoRecipients!Pcs,
  Faulty!Pcs, TwoRecipients!Of, Faulty!Of, TwoRecipients!Unpaid, Faulty!Unpaid,
  TwoRecipients!At, Faulty!At, TwoRecipients!NextPool, Faulty!NextPool,
  TwoRecipients!PlanPayment, Faulty!PlanPayment, TwoRecipients!AskAddress,
  Faulty!AskAddress, TwoRecipients!ReuseUnpaidAddress, Faulty!ReuseUnpaidAddress,
  TwoRecipients!ReadFreshKey, Faulty!ReadFreshKey, TwoRecipients!LockRecipientPool,
  Faulty!LockRecipientPool, TwoRecipients!Commit, Faulty!Commit,
  TwoRecipients!Rollback, Faulty!Rollback, TwoRecipients!Above, Faulty!Above,
  TwoRecipients!Cardinality, Faulty!Cardinality, TwoRecipients!Go, Faulty!Go,
  TwoRecipients!LatestIndex, Faulty!LatestIndex, TwoRecipients!Latest, Faulty!Latest,
  TwoRecipients!Fault, Faulty!Fault, TwoRecipients!MayReserve, Faulty!MayReserve,
  TwoRecipients!Reserved, Faulty!Reserved, TwoRecipients!Release, Faulty!Release,
  TwoRecipients!Max, Faulty!Max, TwoRecipients!HeldBy, Faulty!HeldBy,
  TwoRecipients!HasRoom, Faulty!HasRoom, TwoRecipients!Attributions,
  Faulty!Attributions

LEMMA TwoRecipientsRuns == Spec => []~(focus = "TwoRecipients") \/ Faulty!Spec
<1>1. Init /\ focus = "TwoRecipients" => Faulty!Init BY TwoRecipientsIs DEF Init
<1>2. focus = "TwoRecipients" /\ [Next]_vars
        => [Faulty!Next]_(Faulty!vars) /\ (focus = "TwoRecipients")'
  BY TwoRecipientsIs DEF Next, FairNext, PoolNext, CheckoutNext, WalletNext, vars,
     FairVars, PoolVars, CheckoutVars, WalletVars,
     Faulty!vars
<1>3. ~(focus = "TwoRecipients") /\ [Next]_vars => ~(focus = "TwoRecipients")'
  BY ZenonT(60) DEF Next, FairNext, PoolNext, CheckoutNext, WalletNext, vars
<1> QED BY <1>1, <1>2, <1>3, PTL DEF Spec, Faulty!Spec

LEMMA OrderIs ==
  /\ Order!CheckoutBounds <=> Faulty!Order!CheckoutBounds
  /\ Order!Init <=> Faulty!Order!Init
  /\ Order!Next <=> Faulty!Order!Next
  /\ Order!TypeOK <=> Faulty!Order!TypeOK
  /\ Order!PaidOnce <=> Faulty!Order!PaidOnce
  /\ Order!PaidIsReceived <=> Faulty!Order!PaidIsReceived
  /\ Order!CodeWithinBound <=> Faulty!Order!CodeWithinBound
BY Zenon DEF Order!CheckoutBounds, Faulty!Order!CheckoutBounds, Order!Init,
  Faulty!Order!Init, Order!Next, Faulty!Order!Next, Order!TypeOK,
  Faulty!Order!TypeOK, Order!PaidOnce, Faulty!Order!PaidOnce, Order!PaidIsReceived,
  Faulty!Order!PaidIsReceived, Order!CodeWithinBound, Faulty!Order!CodeWithinBound,
  Order!NewSession, Faulty!Order!NewSession, Order!Ids, Faulty!Order!Ids,
  Order!NoPayment, Faulty!Order!NoPayment, Order!News, Faulty!Order!News, Order!Idle,
  Faulty!Order!Idle, Order!StartConfirm, Faulty!Order!StartConfirm, Order!Confirm,
  Faulty!Order!Confirm, Order!StartExpire, Faulty!Order!StartExpire, Order!Expire,
  Faulty!Order!Expire, Order!Abort, Faulty!Order!Abort, Order!UpdateSessionAsPayer,
  Faulty!Order!UpdateSessionAsPayer, Order!ExpireDueSessions,
  Faulty!Order!ExpireDueSessions, Order!DeadlinePasses, Faulty!Order!DeadlinePasses,
  Order!QuoteLapses, Faulty!Order!QuoteLapses, Order!CardExpires,
  Faulty!Order!CardExpires, Order!CardReported, Faulty!Order!CardReported,
  Order!PayCard, Faulty!Order!PayCard, Order!Broadcast, Faulty!Order!Broadcast,
  Order!ChainDecides, Faulty!Order!ChainDecides, Order!ChainRewinds,
  Faulty!Order!ChainRewinds, Order!SessionRows, Faulty!Order!SessionRows,
  Order!Statuses, Faulty!Order!Statuses, Order!Orders, Faulty!Order!Orders,
  Order!Pcs, Faulty!Order!Pcs, Order!NoId, Faulty!Order!NoId, Order!Cardinality,
  Faulty!Order!Cardinality, Order!SessionOf, Faulty!Order!SessionOf, Order!Took,
  Faulty!Order!Took, Order!At, Faulty!Order!At, Order!Go, Faulty!Order!Go,
  Order!orders, Faulty!Order!orders, Order!WriteSessionOrder,
  Faulty!Order!WriteSessionOrder, Order!RereadSession, Faulty!Order!RereadSession,
  Order!CreateSessionPayment, Faulty!Order!CreateSessionPayment,
  Order!LinkSessionObject, Faulty!Order!LinkSessionObject, Order!ReadLinked,
  Faulty!Order!ReadLinked, Order!CancelOldAtProvider,
  Faulty!Order!CancelOldAtProvider, Order!ReplaceSessionPayment,
  Faulty!Order!ReplaceSessionPayment, Order!CancelOrphan, Faulty!Order!CancelOrphan,
  Order!CancelOrphanRow, Faulty!Order!CancelOrphanRow, Order!ReadPayment,
  Faulty!Order!ReadPayment, Order!ExpireCancel, Faulty!Order!ExpireCancel,
  Order!ExpireTransition, Faulty!Order!ExpireTransition, Order!ExpireRow,
  Faulty!Order!ExpireRow, Order!Fault, Faulty!Order!Fault, Order!Writable,
  Faulty!Order!Writable, Order!Put, Faulty!Order!Put, Order!ExpireSessionRow,
  Faulty!Order!ExpireSessionRow, Order!Rail, Faulty!Order!Rail, Order!MovePayment,
  Faulty!Order!MovePayment, Order!CancelAtProvider, Faulty!Order!CancelAtProvider,
  Order!GoTo, Faulty!Order!GoTo, Order!SessionPayments, Faulty!Order!SessionPayments,
  Order!Links, Faulty!Order!Links, Order!MayRedeem, Faulty!Order!MayRedeem,
  Order!Tell, Faulty!Order!Tell, Order!FollowIntent, Faulty!Order!FollowIntent,
  Order!Held, Faulty!Order!Held, Order!FollowSucceeded, Faulty!Order!FollowSucceeded,
  Order!FollowProcessing, Faulty!Order!FollowProcessing, Order!FollowCanceled,
  Faulty!Order!FollowCanceled, Order!CompleteAs, Faulty!Order!CompleteAs,
  Order!Redeem, Faulty!Order!Redeem

LEMMA OrderRuns == Spec => []~(focus = "Order") \/ Faulty!Order!Spec
<1>1. Init /\ focus = "Order" => Faulty!Order!Init BY OrderIs DEF Init
<1>2. focus = "Order" /\ [Next]_vars
        => [Faulty!Order!Next]_(Faulty!Order!vars) /\ (focus = "Order")'
  BY OrderIs DEF Next, FairNext, PoolNext, CheckoutNext, WalletNext, vars,
     FairVars, PoolVars, CheckoutVars, WalletVars,
     Faulty!Order!vars
<1>3. ~(focus = "Order") /\ [Next]_vars => ~(focus = "Order")'
  BY ZenonT(60) DEF Next, FairNext, PoolNext, CheckoutNext, WalletNext, vars
<1> QED BY <1>1, <1>2, <1>3, PTL DEF Spec, Faulty!Order!Spec

LEMMA TwoOrdersIs ==
  /\ TwoOrders!CheckoutBounds <=> Alone!Order!CheckoutBounds
  /\ TwoOrders!Init <=> Alone!Order!Init
  /\ TwoOrders!Next <=> Alone!Order!Next
  /\ TwoOrders!TypeOK <=> Alone!Order!TypeOK
  /\ TwoOrders!PaidOnce <=> Alone!Order!PaidOnce
  /\ TwoOrders!PaidIsReceived <=> Alone!Order!PaidIsReceived
  /\ TwoOrders!CodeWithinBound <=> Alone!Order!CodeWithinBound
BY Zenon DEF TwoOrders!CheckoutBounds, Alone!Order!CheckoutBounds, TwoOrders!Init,
  Alone!Order!Init, TwoOrders!Next, Alone!Order!Next, TwoOrders!TypeOK,
  Alone!Order!TypeOK, TwoOrders!PaidOnce, Alone!Order!PaidOnce,
  TwoOrders!PaidIsReceived, Alone!Order!PaidIsReceived, TwoOrders!CodeWithinBound,
  Alone!Order!CodeWithinBound, TwoOrders!NewSession, Alone!Order!NewSession,
  TwoOrders!Ids, Alone!Order!Ids, TwoOrders!NoPayment, Alone!Order!NoPayment,
  TwoOrders!News, Alone!Order!News, TwoOrders!Idle, Alone!Order!Idle,
  TwoOrders!StartConfirm, Alone!Order!StartConfirm, TwoOrders!Confirm,
  Alone!Order!Confirm, TwoOrders!StartExpire, Alone!Order!StartExpire,
  TwoOrders!Expire, Alone!Order!Expire, TwoOrders!Abort, Alone!Order!Abort,
  TwoOrders!UpdateSessionAsPayer, Alone!Order!UpdateSessionAsPayer,
  TwoOrders!ExpireDueSessions, Alone!Order!ExpireDueSessions,
  TwoOrders!DeadlinePasses, Alone!Order!DeadlinePasses, TwoOrders!QuoteLapses,
  Alone!Order!QuoteLapses, TwoOrders!CardExpires, Alone!Order!CardExpires,
  TwoOrders!CardReported, Alone!Order!CardReported, TwoOrders!PayCard,
  Alone!Order!PayCard, TwoOrders!Broadcast, Alone!Order!Broadcast,
  TwoOrders!ChainDecides, Alone!Order!ChainDecides, TwoOrders!ChainRewinds,
  Alone!Order!ChainRewinds, TwoOrders!SessionRows, Alone!Order!SessionRows,
  TwoOrders!Statuses, Alone!Order!Statuses, TwoOrders!Orders, Alone!Order!Orders,
  TwoOrders!Pcs, Alone!Order!Pcs, TwoOrders!NoId, Alone!Order!NoId,
  TwoOrders!Cardinality, Alone!Order!Cardinality, TwoOrders!SessionOf,
  Alone!Order!SessionOf, TwoOrders!Took, Alone!Order!Took, TwoOrders!At,
  Alone!Order!At, TwoOrders!Go, Alone!Order!Go, TwoOrders!orders, Alone!Order!orders,
  TwoOrders!WriteSessionOrder, Alone!Order!WriteSessionOrder,
  TwoOrders!RereadSession, Alone!Order!RereadSession, TwoOrders!CreateSessionPayment,
  Alone!Order!CreateSessionPayment, TwoOrders!LinkSessionObject,
  Alone!Order!LinkSessionObject, TwoOrders!ReadLinked, Alone!Order!ReadLinked,
  TwoOrders!CancelOldAtProvider, Alone!Order!CancelOldAtProvider,
  TwoOrders!ReplaceSessionPayment, Alone!Order!ReplaceSessionPayment,
  TwoOrders!CancelOrphan, Alone!Order!CancelOrphan, TwoOrders!CancelOrphanRow,
  Alone!Order!CancelOrphanRow, TwoOrders!ReadPayment, Alone!Order!ReadPayment,
  TwoOrders!ExpireCancel, Alone!Order!ExpireCancel, TwoOrders!ExpireTransition,
  Alone!Order!ExpireTransition, TwoOrders!ExpireRow, Alone!Order!ExpireRow,
  TwoOrders!Fault, Alone!Order!Fault, TwoOrders!Writable, Alone!Order!Writable,
  TwoOrders!Put, Alone!Order!Put, TwoOrders!ExpireSessionRow,
  Alone!Order!ExpireSessionRow, TwoOrders!Rail, Alone!Order!Rail,
  TwoOrders!MovePayment, Alone!Order!MovePayment, TwoOrders!CancelAtProvider,
  Alone!Order!CancelAtProvider, TwoOrders!GoTo, Alone!Order!GoTo,
  TwoOrders!SessionPayments, Alone!Order!SessionPayments, TwoOrders!Links,
  Alone!Order!Links, TwoOrders!MayRedeem, Alone!Order!MayRedeem, TwoOrders!Tell,
  Alone!Order!Tell, TwoOrders!FollowIntent, Alone!Order!FollowIntent, TwoOrders!Held,
  Alone!Order!Held, TwoOrders!FollowSucceeded, Alone!Order!FollowSucceeded,
  TwoOrders!FollowProcessing, Alone!Order!FollowProcessing, TwoOrders!FollowCanceled,
  Alone!Order!FollowCanceled, TwoOrders!CompleteAs, Alone!Order!CompleteAs,
  TwoOrders!Redeem, Alone!Order!Redeem

LEMMA TwoOrdersRuns == Spec => []~(focus = "TwoOrders") \/ Alone!Order!Spec
<1>1. Init /\ focus = "TwoOrders" => Alone!Order!Init BY TwoOrdersIs DEF Init
<1>2. focus = "TwoOrders" /\ [Next]_vars
        => [Alone!Order!Next]_(Alone!Order!vars) /\ (focus = "TwoOrders")'
  BY TwoOrdersIs DEF Next, FairNext, PoolNext, CheckoutNext, WalletNext, vars,
     FairVars, PoolVars, CheckoutVars, WalletVars,
     Alone!Order!vars
<1>3. ~(focus = "TwoOrders") /\ [Next]_vars => ~(focus = "TwoOrders")'
  BY ZenonT(60) DEF Next, FairNext, PoolNext, CheckoutNext, WalletNext, vars
<1> QED BY <1>1, <1>2, <1>3, PTL DEF Spec, Alone!Order!Spec

LEMMA SendingIs ==
  /\ Sending!WalletBounds <=> Faulty!Purse!WalletBounds
  /\ Sending!Init <=> Faulty!Purse!Init
  /\ Sending!Next <=> Faulty!Purse!Next
  /\ Sending!TypeOK <=> Faulty!Purse!TypeOK
  /\ Sending!SendsApart <=> Faulty!Purse!SendsApart
  /\ Sending!CoinsAreTheChains <=> Faulty!Purse!CoinsAreTheChains
BY Zenon DEF Sending!CoinsAreTheChains, Faulty!Purse!CoinsAreTheChains, Sending!AtRest,
  Faulty!Purse!AtRest, Sending!Promised, Faulty!Purse!Promised,
  Sending!WalletBounds, Faulty!Purse!WalletBounds, Sending!Init,
  Faulty!Purse!Init, Sending!Next, Faulty!Purse!Next, Sending!TypeOK,
  Faulty!Purse!TypeOK, Sending!SendsApart, Faulty!Purse!SendsApart, Sending!Txs,
  Faulty!Purse!Txs, Sending!NoBlock, Faulty!Purse!NoBlock, Sending!NoCoin,
  Faulty!Purse!NoCoin, Sending!Absent, Faulty!Purse!Absent, Sending!NoDriver,
  Faulty!Purse!NoDriver, Sending!Mine, Faulty!Purse!Mine, Sending!Relay,
  Faulty!Purse!Relay, Sending!Reorganise, Faulty!Purse!Reorganise, Sending!Announce,
  Faulty!Purse!Announce, Sending!Receive, Faulty!Purse!Receive, Sending!Rescan,
  Faulty!Purse!Rescan, Sending!Crash, Faulty!Purse!Crash, Sending!SelectInputs,
  Faulty!Purse!SelectInputs, Sending!BroadcastTransaction,
  Faulty!Purse!BroadcastTransaction, Sending!FailSend, Faulty!Purse!FailSend,
  Sending!MarkInputsSpent, Faulty!Purse!MarkInputsSpent, Sending!RecordSend,
  Faulty!Purse!RecordSend, Sending!IsChain, Faulty!Purse!IsChain, Sending!Blocks,
  Faulty!Purse!Blocks, Sending!Heights, Faulty!Purse!Heights, Sending!InProgress,
  Faulty!Purse!InProgress, Sending!Inputs, Faulty!Purse!Inputs, Sending!Quiet,
  Faulty!Purse!Quiet, Sending!Mined, Faulty!Purse!Mined, Sending!SpentOn,
  Faulty!Purse!SpentOn, Sending!client, Faulty!Purse!client, Sending!scanning,
  Faulty!Purse!scanning, Sending!sending, Faulty!Purse!sending, Sending!Matches,
  Faulty!Purse!Matches, Sending!network, Faulty!Purse!network, Sending!Cardinality,
  Faulty!Purse!Cardinality, Sending!Serve, Faulty!Purse!Serve, Sending!Before,
  Faulty!Purse!Before, Sending!ProcessMerkleBlock, Faulty!Purse!ProcessMerkleBlock,
  Sending!ProcessTransaction, Faulty!Purse!ProcessTransaction,
  Sending!ApplyHeaderBatch, Faulty!Purse!ApplyHeaderBatch,
  Sending!ReconcileConfirmations, Faulty!Purse!ReconcileConfirmations,
  Sending!ApplyTransaction, Faulty!Purse!ApplyTransaction, Sending!MarkDebitsSpent,
  Faulty!Purse!MarkDebitsSpent, Sending!InsertTransaction,
  Faulty!Purse!InsertTransaction, Sending!StartRescan, Faulty!Purse!StartRescan,
  Sending!FoldPendingRescan, Faulty!Purse!FoldPendingRescan,
  Sending!RequestMerkleBlocks, Faulty!Purse!RequestMerkleBlocks,
  Sending!PersistWindow, Faulty!Purse!PersistWindow, Sending!CheckSocialReceiveDue,
  Faulty!Purse!CheckSocialReceiveDue, Sending!RefreshFilter,
  Faulty!Purse!RefreshFilter, Sending!Available, Faulty!Purse!Available,
  Sending!Spend, Faulty!Purse!Spend, Sending!Extends, Faulty!Purse!Extends,
  Sending!Mempool, Faulty!Purse!Mempool, Sending!KnownHeight,
  Faulty!Purse!KnownHeight, Sending!MayStep, Faulty!Purse!MayStep, Sending!MayCredit,
  Faulty!Purse!MayCredit, Sending!Without, Faulty!Purse!Without, Sending!Tip,
  Faulty!Purse!Tip, Sending!PlanRescan, Faulty!Purse!PlanRescan,
  Sending!RewindRescanProgress, Faulty!Purse!RewindRescanProgress, Sending!HeightOn,
  Faulty!Purse!HeightOn, Sending!Candidates, Faulty!Purse!Candidates, Sending!Stage,
  Faulty!Purse!Stage, Sending!ResumeAt, Faulty!Purse!ResumeAt,
  Sending!LeaveWindow, Faulty!Purse!LeaveWindow,
  Sending!Disconnect, Faulty!Purse!Disconnect,
  Sending!TxsAt, Faulty!Purse!TxsAt,
  Sending!Unread, Faulty!Purse!Unread,
  Sending!Unapplied, Faulty!Purse!Unapplied,
  Sending!Behind, Faulty!Purse!Behind,
  Sending!Awaited, Faulty!Purse!Awaited

LEMMA SendingRuns == Spec => []~(focus = "Sending") \/ Faulty!Purse!Spec
<1>1. Init /\ focus = "Sending" => Faulty!Purse!Init BY SendingIs DEF Init
<1>2. focus = "Sending" /\ [Next]_vars
        => [Faulty!Purse!Next]_(Faulty!Purse!vars) /\ (focus = "Sending")'
  BY SendingIs DEF Next, FairNext, PoolNext, CheckoutNext, WalletNext, vars,
     FairVars, PoolVars, CheckoutVars, WalletVars,
     Faulty!Purse!vars, Faulty!Purse!network, Faulty!Purse!client, Faulty!Purse!scanning,
     Faulty!Purse!sending
<1>3. ~(focus = "Sending") /\ [Next]_vars => ~(focus = "Sending")'
  BY ZenonT(60) DEF Next, FairNext, PoolNext, CheckoutNext, WalletNext, vars
<1> QED BY <1>1, <1>2, <1>3, PTL DEF Spec, Faulty!Purse!Spec

LEMMA RestartedIs ==
  /\ Restarted!WalletBounds <=> Faultless!Purse!WalletBounds
  /\ Restarted!Init <=> Faultless!Purse!Init
  /\ Restarted!Next <=> Faultless!Purse!Next
  /\ Restarted!TypeOK <=> Faultless!Purse!TypeOK
  /\ Restarted!CoinsAreTheChains <=> Faultless!Purse!CoinsAreTheChains
BY Zenon DEF Restarted!CoinsAreTheChains, Faultless!Purse!CoinsAreTheChains, Restarted!AtRest,
  Faultless!Purse!AtRest, Restarted!Promised, Faultless!Purse!Promised,
  Restarted!WalletBounds, Faultless!Purse!WalletBounds, Restarted!Init,
  Faultless!Purse!Init, Restarted!Next, Faultless!Purse!Next, Restarted!TypeOK,
  Faultless!Purse!TypeOK, Restarted!Txs, Faultless!Purse!Txs, Restarted!NoBlock,
  Faultless!Purse!NoBlock, Restarted!NoCoin, Faultless!Purse!NoCoin,
  Restarted!Absent, Faultless!Purse!Absent, Restarted!NoDriver,
  Faultless!Purse!NoDriver, Restarted!Mine, Faultless!Purse!Mine, Restarted!Relay,
  Faultless!Purse!Relay, Restarted!Reorganise, Faultless!Purse!Reorganise,
  Restarted!Announce, Faultless!Purse!Announce, Restarted!Receive,
  Faultless!Purse!Receive, Restarted!Rescan, Faultless!Purse!Rescan, Restarted!Crash,
  Faultless!Purse!Crash, Restarted!SelectInputs, Faultless!Purse!SelectInputs,
  Restarted!BroadcastTransaction, Faultless!Purse!BroadcastTransaction,
  Restarted!FailSend, Faultless!Purse!FailSend, Restarted!MarkInputsSpent,
  Faultless!Purse!MarkInputsSpent, Restarted!RecordSend, Faultless!Purse!RecordSend,
  Restarted!IsChain, Faultless!Purse!IsChain, Restarted!Blocks,
  Faultless!Purse!Blocks, Restarted!Heights, Faultless!Purse!Heights,
  Restarted!Quiet, Faultless!Purse!Quiet, Restarted!Mined, Faultless!Purse!Mined,
  Restarted!Inputs, Faultless!Purse!Inputs, Restarted!SpentOn,
  Faultless!Purse!SpentOn, Restarted!client, Faultless!Purse!client,
  Restarted!scanning, Faultless!Purse!scanning, Restarted!sending,
  Faultless!Purse!sending, Restarted!Matches, Faultless!Purse!Matches,
  Restarted!network, Faultless!Purse!network, Restarted!Cardinality,
  Faultless!Purse!Cardinality, Restarted!Serve, Faultless!Purse!Serve,
  Restarted!Before, Faultless!Purse!Before, Restarted!ProcessMerkleBlock,
  Faultless!Purse!ProcessMerkleBlock, Restarted!ProcessTransaction,
  Faultless!Purse!ProcessTransaction, Restarted!ApplyHeaderBatch,
  Faultless!Purse!ApplyHeaderBatch, Restarted!ReconcileConfirmations,
  Faultless!Purse!ReconcileConfirmations, Restarted!ApplyTransaction,
  Faultless!Purse!ApplyTransaction, Restarted!MarkDebitsSpent,
  Faultless!Purse!MarkDebitsSpent, Restarted!InsertTransaction,
  Faultless!Purse!InsertTransaction, Restarted!StartRescan,
  Faultless!Purse!StartRescan, Restarted!FoldPendingRescan,
  Faultless!Purse!FoldPendingRescan, Restarted!RequestMerkleBlocks,
  Faultless!Purse!RequestMerkleBlocks, Restarted!PersistWindow,
  Faultless!Purse!PersistWindow, Restarted!CheckSocialReceiveDue,
  Faultless!Purse!CheckSocialReceiveDue, Restarted!RefreshFilter,
  Faultless!Purse!RefreshFilter, Restarted!InProgress, Faultless!Purse!InProgress,
  Restarted!Available, Faultless!Purse!Available, Restarted!Spend,
  Faultless!Purse!Spend, Restarted!Extends, Faultless!Purse!Extends,
  Restarted!Mempool, Faultless!Purse!Mempool, Restarted!KnownHeight,
  Faultless!Purse!KnownHeight, Restarted!MayStep, Faultless!Purse!MayStep,
  Restarted!MayCredit, Faultless!Purse!MayCredit, Restarted!Without,
  Faultless!Purse!Without, Restarted!Tip, Faultless!Purse!Tip, Restarted!PlanRescan,
  Faultless!Purse!PlanRescan, Restarted!RewindRescanProgress,
  Faultless!Purse!RewindRescanProgress, Restarted!HeightOn, Faultless!Purse!HeightOn,
  Restarted!Candidates, Faultless!Purse!Candidates, Restarted!Stage,
  Faultless!Purse!Stage, Restarted!ResumeAt, Faultless!Purse!ResumeAt,
  Restarted!LeaveWindow, Faultless!Purse!LeaveWindow,
  Restarted!Disconnect, Faultless!Purse!Disconnect,
  Restarted!TxsAt, Faultless!Purse!TxsAt,
  Restarted!Unread, Faultless!Purse!Unread,
  Restarted!Unapplied, Faultless!Purse!Unapplied,
  Restarted!Behind, Faultless!Purse!Behind,
  Restarted!Awaited, Faultless!Purse!Awaited

LEMMA RestartedRuns == Spec => []~(focus = "Restarted") \/ Faultless!Purse!Spec
<1>1. Init /\ focus = "Restarted" => Faultless!Purse!Init BY RestartedIs DEF Init
<1>2. focus = "Restarted" /\ [Next]_vars
        => [Faultless!Purse!Next]_(Faultless!Purse!vars) /\ (focus = "Restarted")'
  BY RestartedIs DEF Next, FairNext, PoolNext, CheckoutNext, WalletNext, vars,
     FairVars, PoolVars, CheckoutVars, WalletVars,
     Faultless!Purse!vars, Faultless!Purse!network, Faultless!Purse!client,
     Faultless!Purse!scanning, Faultless!Purse!sending
<1>3. ~(focus = "Restarted") /\ [Next]_vars => ~(focus = "Restarted")'
  BY ZenonT(60) DEF Next, FairNext, PoolNext, CheckoutNext, WalletNext, vars
<1> QED BY <1>1, <1>2, <1>3, PTL DEF Spec, Faultless!Purse!Spec

LEMMA RescannedIs ==
  /\ Rescanned!WalletBounds <=> Alone!Purse!WalletBounds
  /\ Rescanned!Init <=> Alone!Purse!Init
  /\ Rescanned!Next <=> Alone!Purse!Next
  /\ Rescanned!TypeOK <=> Alone!Purse!TypeOK
  /\ Rescanned!CoinsAreTheChains <=> Alone!Purse!CoinsAreTheChains
BY Zenon DEF Rescanned!CoinsAreTheChains, Alone!Purse!CoinsAreTheChains, Rescanned!AtRest,
  Alone!Purse!AtRest, Rescanned!Promised, Alone!Purse!Promised,
  Rescanned!WalletBounds, Alone!Purse!WalletBounds, Rescanned!Init,
  Alone!Purse!Init, Rescanned!Next, Alone!Purse!Next, Rescanned!TypeOK,
  Alone!Purse!TypeOK, Rescanned!Txs, Alone!Purse!Txs, Rescanned!NoBlock,
  Alone!Purse!NoBlock, Rescanned!NoCoin, Alone!Purse!NoCoin, Rescanned!Absent,
  Alone!Purse!Absent, Rescanned!NoDriver, Alone!Purse!NoDriver, Rescanned!Mine,
  Alone!Purse!Mine, Rescanned!Relay, Alone!Purse!Relay, Rescanned!Reorganise,
  Alone!Purse!Reorganise, Rescanned!Announce, Alone!Purse!Announce,
  Rescanned!Receive, Alone!Purse!Receive, Rescanned!Rescan, Alone!Purse!Rescan,
  Rescanned!Crash, Alone!Purse!Crash, Rescanned!SelectInputs,
  Alone!Purse!SelectInputs, Rescanned!BroadcastTransaction,
  Alone!Purse!BroadcastTransaction, Rescanned!FailSend, Alone!Purse!FailSend,
  Rescanned!MarkInputsSpent, Alone!Purse!MarkInputsSpent, Rescanned!RecordSend,
  Alone!Purse!RecordSend, Rescanned!IsChain, Alone!Purse!IsChain, Rescanned!Blocks,
  Alone!Purse!Blocks, Rescanned!Heights, Alone!Purse!Heights, Rescanned!Quiet,
  Alone!Purse!Quiet, Rescanned!Mined, Alone!Purse!Mined, Rescanned!Inputs,
  Alone!Purse!Inputs, Rescanned!SpentOn, Alone!Purse!SpentOn, Rescanned!client,
  Alone!Purse!client, Rescanned!scanning, Alone!Purse!scanning, Rescanned!sending,
  Alone!Purse!sending, Rescanned!Matches, Alone!Purse!Matches, Rescanned!network,
  Alone!Purse!network, Rescanned!Cardinality, Alone!Purse!Cardinality,
  Rescanned!Serve, Alone!Purse!Serve, Rescanned!Before, Alone!Purse!Before,
  Rescanned!ProcessMerkleBlock, Alone!Purse!ProcessMerkleBlock,
  Rescanned!ProcessTransaction, Alone!Purse!ProcessTransaction,
  Rescanned!ApplyHeaderBatch, Alone!Purse!ApplyHeaderBatch,
  Rescanned!ReconcileConfirmations, Alone!Purse!ReconcileConfirmations,
  Rescanned!ApplyTransaction, Alone!Purse!ApplyTransaction,
  Rescanned!MarkDebitsSpent, Alone!Purse!MarkDebitsSpent,
  Rescanned!InsertTransaction, Alone!Purse!InsertTransaction, Rescanned!StartRescan,
  Alone!Purse!StartRescan, Rescanned!FoldPendingRescan,
  Alone!Purse!FoldPendingRescan, Rescanned!RequestMerkleBlocks,
  Alone!Purse!RequestMerkleBlocks, Rescanned!PersistWindow,
  Alone!Purse!PersistWindow, Rescanned!CheckSocialReceiveDue,
  Alone!Purse!CheckSocialReceiveDue, Rescanned!RefreshFilter,
  Alone!Purse!RefreshFilter, Rescanned!InProgress, Alone!Purse!InProgress,
  Rescanned!Available, Alone!Purse!Available, Rescanned!Spend, Alone!Purse!Spend,
  Rescanned!Extends, Alone!Purse!Extends, Rescanned!Mempool, Alone!Purse!Mempool,
  Rescanned!KnownHeight, Alone!Purse!KnownHeight, Rescanned!MayStep,
  Alone!Purse!MayStep, Rescanned!MayCredit, Alone!Purse!MayCredit, Rescanned!Without,
  Alone!Purse!Without, Rescanned!Tip, Alone!Purse!Tip, Rescanned!PlanRescan,
  Alone!Purse!PlanRescan, Rescanned!RewindRescanProgress,
  Alone!Purse!RewindRescanProgress, Rescanned!HeightOn, Alone!Purse!HeightOn,
  Rescanned!Candidates, Alone!Purse!Candidates, Rescanned!Stage, Alone!Purse!Stage,
  Rescanned!ResumeAt, Alone!Purse!ResumeAt,
  Rescanned!LeaveWindow, Alone!Purse!LeaveWindow,
  Rescanned!Disconnect, Alone!Purse!Disconnect,
  Rescanned!TxsAt, Alone!Purse!TxsAt,
  Rescanned!Unread, Alone!Purse!Unread,
  Rescanned!Unapplied, Alone!Purse!Unapplied,
  Rescanned!Behind, Alone!Purse!Behind,
  Rescanned!Awaited, Alone!Purse!Awaited

LEMMA RescannedRuns == Spec => []~(focus = "Rescanned") \/ Alone!Purse!Spec
<1>1. Init /\ focus = "Rescanned" => Alone!Purse!Init BY RescannedIs DEF Init
<1>2. focus = "Rescanned" /\ [Next]_vars
        => [Alone!Purse!Next]_(Alone!Purse!vars) /\ (focus = "Rescanned")'
  BY RescannedIs DEF Next, FairNext, PoolNext, CheckoutNext, WalletNext, vars,
     FairVars, PoolVars, CheckoutVars, WalletVars,
     Alone!Purse!vars, Alone!Purse!network, Alone!Purse!client, Alone!Purse!scanning,
     Alone!Purse!sending
<1>3. ~(focus = "Rescanned") /\ [Next]_vars => ~(focus = "Rescanned")'
  BY DEF Next, FairNext, PoolNext, CheckoutNext, WalletNext, vars
<1> QED BY <1>1, <1>2, <1>3, PTL DEF Spec, Alone!Purse!Spec

-----------------------------------------------------------------------------
(* What the run checks.                                                    *)

\* A behaviour is of one component.
Foci ==
  {"Watcher", "TwoWatchers", "Recipient", "TwoRecipients", "Order", "TwoOrders",
   "Sending", "Restarted", "Rescanned"}

LEMMA FocusTyped == Spec => [](focus \in Foci)
<1>1. Init => focus \in Foci BY DEF Init, Foci
<1>2. focus \in Foci /\ [Next]_vars => (focus \in Foci)'
  BY DEF Next, FairNext, PoolNext, CheckoutNext, WalletNext, vars
<1> QED BY <1>1, <1>2, PTL DEF Spec

\* Each component's rows, and what its tasks hold of them, stay what they may be.
THEOREM TypesHold == Spec => []TypeOK
<1>1. Spec => [](focus = "Watcher" => Watcher!TypeOK)
  <2>1. Faulty!Fair!SettlementBounds BY BoundsAssumption, WatcherIs
  <2>2. Faulty!Fair!Spec => []Faulty!Fair!TypeOK BY <2>1, Faulty!FairTypesHold
  <2>3. Faulty!Fair!TypeOK => Watcher!TypeOK
    BY WatcherIs
  <2> QED BY <2>2, <2>3, WatcherRuns, PTL
<1>2. Spec => [](focus = "TwoWatchers" => TwoWatchers!TypeOK)
  <2>1. Faultless!Fair!SettlementBounds BY BoundsAssumption, TwoWatchersIs
  <2>2. Faultless!Fair!Spec => []Faultless!Fair!TypeOK BY <2>1, Faultless!FairTypesHold
  <2>3. Faultless!Fair!TypeOK => TwoWatchers!TypeOK
    BY TwoWatchersIs
  <2> QED BY <2>2, <2>3, TwoWatchersRuns, PTL
<1>3. Spec => [](focus = "Recipient" => Recipient!TypeOK)
  <2>1. Faultless!AddressBounds BY BoundsAssumption, RecipientIs
  <2>2. Faultless!Spec => []Faultless!TypeOK BY <2>1, Faultless!TypesHold
  <2>3. Faultless!TypeOK => Recipient!TypeOK
    BY RecipientIs
  <2> QED BY <2>2, <2>3, RecipientRuns, PTL
<1>4. Spec => [](focus = "TwoRecipients" => TwoRecipients!TypeOK)
  <2>1. Faulty!AddressBounds BY BoundsAssumption, TwoRecipientsIs
  <2>2. Faulty!Spec => []Faulty!TypeOK BY <2>1, Faulty!TypesHold
  <2>3. Faulty!TypeOK => TwoRecipients!TypeOK
    BY TwoRecipientsIs
  <2> QED BY <2>2, <2>3, TwoRecipientsRuns, PTL
<1>5. Spec => [](focus = "Order" => Order!TypeOK)
  <2>1. Faulty!Order!CheckoutBounds BY BoundsAssumption, OrderIs
  <2>2. Faulty!Order!Spec => []Faulty!Order!TypeOK BY <2>1, Faulty!OrderTypesHold
  <2>3. Faulty!Order!TypeOK => Order!TypeOK
    BY OrderIs
  <2> QED BY <2>2, <2>3, OrderRuns, PTL
<1>6. Spec => [](focus = "TwoOrders" => TwoOrders!TypeOK)
  <2>1. Alone!Order!CheckoutBounds BY BoundsAssumption, TwoOrdersIs
  <2>2. Alone!Order!Spec => []Alone!Order!TypeOK BY <2>1, Alone!OrderTypesHold
  <2>3. Alone!Order!TypeOK => TwoOrders!TypeOK
    BY TwoOrdersIs
  <2> QED BY <2>2, <2>3, TwoOrdersRuns, PTL
<1>7. Spec => [](focus = "Sending" => Sending!TypeOK)
  <2>1. Faulty!Purse!WalletBounds BY BoundsAssumption, SendingIs
  <2>2. Faulty!Purse!Spec => []Faulty!Purse!TypeOK BY <2>1, Faulty!PurseTypesHold
  <2>3. Faulty!Purse!TypeOK => Sending!TypeOK
    BY SendingIs
  <2> QED BY <2>2, <2>3, SendingRuns, PTL
<1>8. Spec => [](focus = "Restarted" => Restarted!TypeOK)
  <2>1. Faultless!Purse!WalletBounds BY BoundsAssumption, RestartedIs
  <2>2. Faultless!Purse!Spec => []Faultless!Purse!TypeOK BY <2>1, Faultless!PurseTypesHold
  <2>3. Faultless!Purse!TypeOK => Restarted!TypeOK
    BY RestartedIs
  <2> QED BY <2>2, <2>3, RestartedRuns, PTL
<1>9. Spec => [](focus = "Rescanned" => Rescanned!TypeOK)
  <2>1. Alone!Purse!WalletBounds BY BoundsAssumption, RescannedIs
  <2>2. Alone!Purse!Spec => []Alone!Purse!TypeOK BY <2>1, Alone!PurseTypesHold
  <2>3. Alone!Purse!TypeOK => Rescanned!TypeOK
    BY RescannedIs
  <2> QED BY <2>2, <2>3, RescannedRuns, PTL
<1>10. /\ focus = "Watcher" => Watcher!TypeOK
       /\ focus = "TwoWatchers" => TwoWatchers!TypeOK
       /\ focus = "Recipient" => Recipient!TypeOK
       /\ focus = "TwoRecipients" => TwoRecipients!TypeOK
       /\ focus = "Order" => Order!TypeOK
       /\ focus = "TwoOrders" => TwoOrders!TypeOK
       /\ focus = "Sending" => Sending!TypeOK
       /\ focus = "Restarted" => Restarted!TypeOK
       /\ focus = "Rescanned" => Rescanned!TypeOK
       /\ focus \in Foci
       => TypeOK
  BY ZenonT(60) DEF TypeOK, Foci
<1> QED BY <1>1, <1>2, <1>3, <1>4, <1>5, <1>6, <1>7, <1>8, <1>9, FocusTyped, <1>10, PTL

\* UtxoReservation: two sends in progress never hold one coin, whatever is replayed,
\* credited again or rescanned meanwhile and wherever the app dies.
THEOREM SendsStayApart == Spec => []SendsApart
<1>1. Spec => [](focus = "Sending" => Sending!SendsApart)
  <2>1. Faulty!Purse!WalletBounds BY BoundsAssumption, SendingIs
  <2>2. Faulty!Purse!Spec => []Faulty!Purse!SendsApart BY <2>1, Faulty!SendsStayApart
  <2>3. Faulty!Purse!SendsApart => Sending!SendsApart
    BY SendingIs
  <2> QED BY <2>2, <2>3, SendingRuns, PTL
<1>2. /\ focus = "Sending" => Sending!SendsApart
      => SendsApart
  BY DEF SendsApart
<1> QED BY <1>1, <1>2, PTL

\* CoinsAreTheChains: a wallet at rest shows as confirmed the coins of the chain and no
\* other, whatever was replayed, replaced, scanned again or lost with the app, apart from
\* coins whose answer was lost behind the scan.
THEOREM CoinsAreAlwaysTheChains == Spec => []CoinsAreTheChains
<1>1. Spec => [](focus = "Sending" => Sending!CoinsAreTheChains)
  <2>1. Faulty!Purse!WalletBounds BY BoundsAssumption, SendingIs
  <2>2. Faulty!Purse!Spec => []Faulty!Purse!CoinsAreTheChains BY <2>1, Faulty!CoinsStayTheChains
  <2>3. Faulty!Purse!CoinsAreTheChains => Sending!CoinsAreTheChains BY SendingIs
  <2> QED BY <2>2, <2>3, SendingRuns, PTL
<1>2. Spec => [](focus = "Restarted" => Restarted!CoinsAreTheChains)
  <2>1. Faultless!Purse!WalletBounds BY BoundsAssumption, RestartedIs
  <2>2. Faultless!Purse!Spec => []Faultless!Purse!CoinsAreTheChains
    BY <2>1, Faultless!CoinsStayTheChains
  <2>3. Faultless!Purse!CoinsAreTheChains => Restarted!CoinsAreTheChains BY RestartedIs
  <2> QED BY <2>2, <2>3, RestartedRuns, PTL
<1>3. Spec => [](focus = "Rescanned" => Rescanned!CoinsAreTheChains)
  <2>1. Alone!Purse!WalletBounds BY BoundsAssumption, RescannedIs
  <2>2. Alone!Purse!Spec => []Alone!Purse!CoinsAreTheChains BY <2>1, Alone!CoinsStayTheChains
  <2>3. Alone!Purse!CoinsAreTheChains => Rescanned!CoinsAreTheChains BY RescannedIs
  <2> QED BY <2>2, <2>3, RescannedRuns, PTL
<1>4. /\ focus = "Sending" => Sending!CoinsAreTheChains
      /\ focus = "Restarted" => Restarted!CoinsAreTheChains
      /\ focus = "Rescanned" => Rescanned!CoinsAreTheChains
      => CoinsAreTheChains
  BY DEF CoinsAreTheChains
<1> QED BY <1>1, <1>2, <1>3, <1>4, PTL

\* FairCoin success is only said of a payment that was deep enough, however late the
\* poll that says so writes, and a replaced key is said with it.
THEOREM SuccessesAreTrue == Spec => []SucceededIsTrue
<1>1. Spec =>
      [](focus = "Watcher" =>
           Watcher!SucceededWasDeep /\ Watcher!ReplacedKeyIsSaid)
  <2>1. Faulty!Fair!SettlementBounds BY BoundsAssumption, WatcherIs
  <2>2. Faulty!Fair!Spec => []Faulty!Fair!SucceededWasDeep BY <2>1, Faulty!SettledWasDeep
  <2>3. Faulty!Fair!Spec => []Faulty!Fair!ReplacedKeyIsSaid
    BY <2>1, Faulty!ReplacedKeysAreSaid
  <2>4. Faulty!Fair!SucceededWasDeep /\ Faulty!Fair!ReplacedKeyIsSaid
          => Watcher!SucceededWasDeep /\ Watcher!ReplacedKeyIsSaid
    BY WatcherIs
  <2> QED BY <2>2, <2>3, <2>4, WatcherRuns, PTL
<1>2. Spec =>
      [](focus = "TwoWatchers" =>
           TwoWatchers!SucceededWasDeep /\ TwoWatchers!ReplacedKeyIsSaid)
  <2>1. Faultless!Fair!SettlementBounds BY BoundsAssumption, TwoWatchersIs
  <2>2. Faultless!Fair!Spec => []Faultless!Fair!SucceededWasDeep
    BY <2>1, Faultless!SettledWasDeep
  <2>3. Faultless!Fair!Spec => []Faultless!Fair!ReplacedKeyIsSaid
    BY <2>1, Faultless!ReplacedKeysAreSaid
  <2>4. Faultless!Fair!SucceededWasDeep /\ Faultless!Fair!ReplacedKeyIsSaid
          => TwoWatchers!SucceededWasDeep /\ TwoWatchers!ReplacedKeyIsSaid
    BY TwoWatchersIs
  <2> QED BY <2>2, <2>3, <2>4, TwoWatchersRuns, PTL
<1>3. /\ focus = "Watcher" => Watcher!SucceededWasDeep /\ Watcher!ReplacedKeyIsSaid
      /\ focus = "TwoWatchers"
           => TwoWatchers!SucceededWasDeep /\ TwoWatchers!ReplacedKeyIsSaid
      => SucceededIsTrue
  BY DEF SucceededIsTrue
<1> QED BY <1>1, <1>2, <1>3, PTL

\* The merchant's books hold a FairCoin payment exactly while its row says it was
\* received.
THEOREM BooksAlwaysFollow == Spec => []BooksFollow
<1>1. Spec => [](focus = "Watcher" => Watcher!BooksFollow)
  <2>1. Faulty!Fair!SettlementBounds BY BoundsAssumption, WatcherIs
  <2>2. Faulty!Fair!Spec => []Faulty!Fair!BooksFollow BY <2>1, Faulty!BooksAlwaysFollow
  <2>3. Faulty!Fair!BooksFollow => Watcher!BooksFollow
    BY WatcherIs
  <2> QED BY <2>2, <2>3, WatcherRuns, PTL
<1>2. Spec => [](focus = "TwoWatchers" => TwoWatchers!BooksFollow)
  <2>1. Faultless!Fair!SettlementBounds BY BoundsAssumption, TwoWatchersIs
  <2>2. Faultless!Fair!Spec => []Faultless!Fair!BooksFollow
    BY <2>1, Faultless!BooksAlwaysFollow
  <2>3. Faultless!Fair!BooksFollow => TwoWatchers!BooksFollow
    BY TwoWatchersIs
  <2> QED BY <2>2, <2>3, TwoWatchersRuns, PTL
<1>3. /\ focus = "Watcher" => Watcher!BooksFollow
      /\ focus = "TwoWatchers" => TwoWatchers!BooksFollow
      => BooksFollow
  BY DEF BooksFollow
<1> QED BY <1>1, <1>2, <1>3, PTL

\* Wallets that ask above the last index they saw miss no address handed out.
THEOREM SyncsMissNothing == Spec => []SyncMissesNothing
<1>1. Spec => [](focus = "Recipient" => Recipient!SyncMissesNothing)
  <2>1. Faultless!AddressBounds BY BoundsAssumption, RecipientIs
  <2>2. Faultless!Spec => []Faultless!SyncMissesNothing
    BY <2>1, Faultless!SyncMissesNothingHolds
  <2>3. Faultless!SyncMissesNothing => Recipient!SyncMissesNothing
    BY RecipientIs
  <2> QED BY <2>2, <2>3, RecipientRuns, PTL
<1>2. Spec => [](focus = "TwoRecipients" => TwoRecipients!SyncMissesNothing)
  <2>1. Faulty!AddressBounds BY BoundsAssumption, TwoRecipientsIs
  <2>2. Faulty!Spec => []Faulty!SyncMissesNothing BY <2>1, Faulty!SyncMissesNothingHolds
  <2>3. Faulty!SyncMissesNothing => TwoRecipients!SyncMissesNothing
    BY TwoRecipientsIs
  <2> QED BY <2>2, <2>3, TwoRecipientsRuns, PTL
<1>3. /\ focus = "Recipient" => Recipient!SyncMissesNothing
      /\ focus = "TwoRecipients" => TwoRecipients!SyncMissesNothing
      => SyncMissesNothing
  BY DEF SyncMissesNothing
<1> QED BY <1>1, <1>2, <1>3, PTL

\* reserveSocialAddress and paying under the recipient's lock: the bounds on unpaid
\* payments and addresses hold whoever asks at once, and nobody waits in a circle.
THEOREM AddressBoundsAlwaysHold == Spec => []AddressBoundsHold
<1>1. Spec =>
      [](focus = "Recipient" =>
           /\ Recipient!UnpaidWithinBound
           /\ Recipient!OneUnpaidPerSender
           /\ Recipient!RepeatsWithinHalf)
  <2>1. Faultless!AddressBounds BY BoundsAssumption, RecipientIs
  <2>2. Faultless!Spec => []Faultless!UnpaidWithinBound
    BY <2>1, Faultless!UnpaidWithinBoundHolds
  <2>3. Faultless!Spec => []Faultless!OneUnpaidPerSender BY <2>1, Faultless!OneUnpaidHolds
  <2>4. Faultless!Spec => []Faultless!RepeatsWithinHalf BY <2>1, Faultless!RepeatsHold
  <2>5. Faultless!UnpaidWithinBound /\ Faultless!OneUnpaidPerSender
          /\ Faultless!RepeatsWithinHalf
      => Recipient!UnpaidWithinBound /\ Recipient!OneUnpaidPerSender
        /\ Recipient!RepeatsWithinHalf
    BY RecipientIs
  <2> QED BY <2>2, <2>3, <2>4, <2>5, RecipientRuns, PTL
<1>2. Spec =>
      [](focus = "TwoRecipients" =>
           TwoRecipients!UnpaidWithinBound /\ TwoRecipients!NoLockCycle)
  <2>1. Faulty!AddressBounds BY BoundsAssumption, TwoRecipientsIs
  <2>2. Faulty!Spec => []Faulty!UnpaidWithinBound BY <2>1, Faulty!UnpaidWithinBoundHolds
  <2>3. Faulty!Spec => []Faulty!NoLockCycle BY <2>1, Faulty!NoLockCycleHolds
  <2>4. Faulty!UnpaidWithinBound /\ Faulty!NoLockCycle
          => TwoRecipients!UnpaidWithinBound /\ TwoRecipients!NoLockCycle
    BY TwoRecipientsIs
  <2> QED BY <2>2, <2>3, <2>4, TwoRecipientsRuns, PTL
<1>3. /\ focus = "Recipient"
           => Recipient!UnpaidWithinBound /\ Recipient!OneUnpaidPerSender
             /\ Recipient!RepeatsWithinHalf
      /\ focus = "TwoRecipients"
           => TwoRecipients!UnpaidWithinBound /\ TwoRecipients!NoLockCycle
      => AddressBoundsHold
  BY DEF AddressBoundsHold
<1> QED BY <1>1, <1>2, <1>3, PTL

\* An order is paid once, whichever method the payer changes to, at its own price.
THEOREM OrdersArePaidOnce == Spec => []PaidOnce
<1>1. Spec => [](focus = "Order" => Order!PaidOnce /\ Order!PaidIsReceived)
  <2>1. Faulty!Order!CheckoutBounds BY BoundsAssumption, OrderIs
  <2>2. Faulty!Order!Spec => []Faulty!Order!PaidOnce BY <2>1, Faulty!PaidOnceHolds
  <2>3. Faulty!Order!Spec => []Faulty!Order!PaidIsReceived BY <2>1, Faulty!PaidIsReceivedHolds
  <2>4. Faulty!Order!PaidOnce /\ Faulty!Order!PaidIsReceived
          => Order!PaidOnce /\ Order!PaidIsReceived
    BY OrderIs
  <2> QED BY <2>2, <2>3, <2>4, OrderRuns, PTL
<1>2. Spec => [](focus = "TwoOrders" => TwoOrders!PaidOnce /\ TwoOrders!PaidIsReceived)
  <2>1. Alone!Order!CheckoutBounds BY BoundsAssumption, TwoOrdersIs
  <2>2. Alone!Order!Spec => []Alone!Order!PaidOnce BY <2>1, Alone!PaidOnceHolds
  <2>3. Alone!Order!Spec => []Alone!Order!PaidIsReceived BY <2>1, Alone!PaidIsReceivedHolds
  <2>4. Alone!Order!PaidOnce /\ Alone!Order!PaidIsReceived
          => TwoOrders!PaidOnce /\ TwoOrders!PaidIsReceived
    BY TwoOrdersIs
  <2> QED BY <2>2, <2>3, <2>4, TwoOrdersRuns, PTL
<1>3. /\ focus = "Order" => Order!PaidOnce /\ Order!PaidIsReceived
      /\ focus = "TwoOrders" => TwoOrders!PaidOnce /\ TwoOrders!PaidIsReceived
      => PaidOnce
  BY DEF PaidOnce
<1> QED BY <1>1, <1>2, <1>3, PTL

\* The sessions are finitely many, as each instance counts.
LEMMA SessionsFinite ==
  /\ Faulty!IsFiniteSet({"s1"}) /\ Alone!IsFiniteSet(Pair)
<1>1. IsFiniteSet({"s1"}) BY ZenonT(60), FS_Singleton
<1> QED BY <1>1, BoundsAssumption DEF IsFiniteSet, Faulty!IsFiniteSet, Alone!IsFiniteSet

\* A promotion code sells as often as it may, whoever races for the last one.
THEOREM CodesAreWithinBound == Spec => []CodeWithinBound
<1>1. Spec => [](focus = "Order" => Order!CodeWithinBound)
  <2>1. Faulty!Order!CheckoutBounds BY BoundsAssumption, OrderIs
  <2>2. Faulty!Order!Spec => []Faulty!Order!CodeWithinBound
    BY <2>1, Faulty!CodeWithinBoundHolds, SessionsFinite
  <2>3. Faulty!Order!CodeWithinBound => Order!CodeWithinBound
    BY OrderIs
  <2> QED BY <2>2, <2>3, OrderRuns, PTL
<1>2. Spec => [](focus = "TwoOrders" => TwoOrders!CodeWithinBound)
  <2>1. Alone!Order!CheckoutBounds BY BoundsAssumption, TwoOrdersIs
  <2>2. Alone!Order!Spec => []Alone!Order!CodeWithinBound
    BY <2>1, Alone!CodeWithinBoundHolds, SessionsFinite
  <2>3. Alone!Order!CodeWithinBound => TwoOrders!CodeWithinBound
    BY TwoOrdersIs
  <2> QED BY <2>2, <2>3, TwoOrdersRuns, PTL
<1>3. /\ focus = "Order" => Order!CodeWithinBound
      /\ focus = "TwoOrders" => TwoOrders!CodeWithinBound
      => CodeWithinBound
  BY DEF CodeWithinBound
<1> QED BY <1>1, <1>2, <1>3, PTL


\* A settled row is rewound, and only over a reorganisation or a second fault.
Rewound == row.status = "succeeded" /\ row'.status # "succeeded"
Founded == Rewound => reorgs > 0 \/ faults > 1

\* One bad reading, whichever task or poll makes it, rewinds no settled payment.
THEOREM RewindsAreFounded == Spec => OneBadReadingRewindsNothing
<1>1. Spec => [][focus = "Watcher" => Founded]_vars
  <2>1. Faulty!Fair!SettlementBounds BY BoundsAssumption, WatcherIs
  <2>2. Faulty!Fair!Spec => [][Founded]_row
    BY <2>1, Faulty!RewindsAreFounded DEF Faulty!Fair!OneBadReadingRewindsNothing, Founded,
      Rewound
  <2>3. [Founded]_row => [focus = "Watcher" => Founded]_vars
    BY DEF vars, Founded, Rewound
  <2>4. ~(focus = "Watcher") => [focus = "Watcher" => Founded]_vars OBVIOUS
  <2> QED BY <2>2, <2>3, <2>4, WatcherRuns, PTL
<1>2. Spec => [][focus = "TwoWatchers" => Founded]_vars
  <2>1. Faultless!Fair!SettlementBounds BY BoundsAssumption, TwoWatchersIs
  <2>2. Faultless!Fair!Spec => [][Founded]_row
    BY <2>1, Faultless!RewindsAreFounded DEF Faultless!Fair!OneBadReadingRewindsNothing,
      Founded, Rewound
  <2>3. [Founded]_row => [focus = "TwoWatchers" => Founded]_vars
    BY DEF vars, Founded, Rewound
  <2>4. ~(focus = "TwoWatchers") => [focus = "TwoWatchers" => Founded]_vars OBVIOUS
  <2> QED BY <2>2, <2>3, <2>4, TwoWatchersRuns, PTL
<1>3. [focus = "Watcher" => Founded]_vars /\ [focus = "TwoWatchers" => Founded]_vars
      => [/\ focus = "Watcher" /\ row.status = "succeeded" /\ row'.status # "succeeded"
               => reorgs > 0 \/ faults > 1
          /\ focus = "TwoWatchers" /\ row.status = "succeeded" /\ row'.status # "succeeded"
               => reorgs > 0 \/ faults > 1]_vars
  BY DEF Founded, Rewound
<1> QED BY <1>1, <1>2, <1>3, PTL DEF OneBadReadingRewindsNothing

\* A step of the lifecycle, or none.
Kept == [Lifecycle!Next]_(Lifecycle!vars)

\* A FairCoin payment, read as settled once it is Depth deep and no poll that read it
\* before is at work, keeps the promises of PaymentLifecycle, under either set of bounds.
THEOREM LifecycleIsKept == Spec => ImplementsLifecycle
<1>1. Spec => [][focus = "Watcher" => Kept]_vars
  <2>1. Faulty!Fair!SettlementBounds BY BoundsAssumption, WatcherIs
  <2>2. Faulty!Fair!Spec
          => [][Faulty!Fair!Lifecycle!Next]_(Faulty!Fair!Lifecycle!vars)
    BY <2>1, Faulty!RailImplementsLifecycle, PTL
       DEF Faulty!Fair!ImplementsLifecycle, Faulty!Fair!Lifecycle!Spec
  <2>3. Watcher!FinalStatus = Faulty!Fair!FinalStatus
    BY DEF Watcher!FinalStatus, Faulty!Fair!FinalStatus, Watcher!Final,
       Faulty!Fair!Final, Watcher!Checks, Faulty!Fair!Checks, Watcher!At,
       Faulty!Fair!At
  <2>4. (Watcher!FinalStatus)' = (Faulty!Fair!FinalStatus)'
    BY DEF Watcher!FinalStatus, Faulty!Fair!FinalStatus, Watcher!Final,
       Faulty!Fair!Final, Watcher!Checks, Faulty!Fair!Checks, Watcher!At,
       Faulty!Fair!At
  <2>5. focus = "Watcher" /\ [Next]_vars
          /\ [Faulty!Fair!Lifecycle!Next]_(Faulty!Fair!Lifecycle!vars)
          => [Lifecycle!Next]_(Lifecycle!vars)
    <3>1. focus = "Watcher" /\ [Next]_vars => focus' = focus
      BY DEF Next, FairNext, PoolNext, CheckoutNext, WalletNext, vars
    <3>2. focus = "Watcher" /\ focus' = focus
            => FinalStatus = Faulty!Fair!FinalStatus
              /\ FinalStatus' = (Faulty!Fair!FinalStatus)'
      BY <2>3, <2>4 DEF FinalStatus
    <3> QED BY <3>1, <3>2 DEF
       Lifecycle!vars, Faulty!Fair!Lifecycle!vars, Lifecycle!Next, Faulty!Fair!Lifecycle!Next,
       Lifecycle!Create, Faulty!Fair!Lifecycle!Create, Lifecycle!Move,
       Faulty!Fair!Lifecycle!Move, Lifecycle!ExpirableStatuses,
       Faulty!Fair!Lifecycle!ExpirableStatuses, Lifecycle!Statuses,
       Faulty!Fair!Lifecycle!Statuses, Lifecycle!IsValidStatusTransition,
       Faulty!Fair!Lifecycle!IsValidStatusTransition, Lifecycle!Allowed,
       Faulty!Fair!Lifecycle!Allowed, Lifecycle!TerminalStatuses,
       Faulty!Fair!Lifecycle!TerminalStatuses
  <2>6. [Next]_vars /\ [Faulty!Fair!Lifecycle!Next]_(Faulty!Fair!Lifecycle!vars)
          => [focus = "Watcher" => Kept]_vars
    BY <2>5 DEF Kept
  <2>7. ~(focus = "Watcher") => [focus = "Watcher" => Kept]_vars OBVIOUS
  <2> QED BY <2>2, <2>6, <2>7, WatcherRuns, PTL DEF Spec
<1>2. Spec => [][focus = "TwoWatchers" => Kept]_vars
  <2>1. Faultless!Fair!SettlementBounds BY BoundsAssumption, TwoWatchersIs
  <2>2. Faultless!Fair!Spec
          => [][Faultless!Fair!Lifecycle!Next]_(Faultless!Fair!Lifecycle!vars)
    BY <2>1, Faultless!RailImplementsLifecycle, PTL
       DEF Faultless!Fair!ImplementsLifecycle, Faultless!Fair!Lifecycle!Spec
  <2>3. TwoWatchers!FinalStatus = Faultless!Fair!FinalStatus
    BY DEF TwoWatchers!FinalStatus, Faultless!Fair!FinalStatus, TwoWatchers!Final,
       Faultless!Fair!Final, TwoWatchers!Checks, Faultless!Fair!Checks, TwoWatchers!At,
       Faultless!Fair!At
  <2>4. (TwoWatchers!FinalStatus)' = (Faultless!Fair!FinalStatus)'
    BY DEF TwoWatchers!FinalStatus, Faultless!Fair!FinalStatus, TwoWatchers!Final,
       Faultless!Fair!Final, TwoWatchers!Checks, Faultless!Fair!Checks, TwoWatchers!At,
       Faultless!Fair!At
  <2>5. focus = "TwoWatchers" /\ [Next]_vars
          /\ [Faultless!Fair!Lifecycle!Next]_(Faultless!Fair!Lifecycle!vars)
          => [Lifecycle!Next]_(Lifecycle!vars)
    <3>1. focus = "TwoWatchers" /\ [Next]_vars => focus' = focus
      BY DEF Next, FairNext, PoolNext, CheckoutNext, WalletNext, vars
    <3>2. focus = "TwoWatchers" /\ focus' = focus
            => FinalStatus = Faultless!Fair!FinalStatus
              /\ FinalStatus' = (Faultless!Fair!FinalStatus)'
      BY <2>3, <2>4 DEF FinalStatus
    <3> QED BY <3>1, <3>2 DEF
       Lifecycle!vars, Faultless!Fair!Lifecycle!vars, Lifecycle!Next,
       Faultless!Fair!Lifecycle!Next, Lifecycle!Create, Faultless!Fair!Lifecycle!Create,
       Lifecycle!Move, Faultless!Fair!Lifecycle!Move, Lifecycle!ExpirableStatuses,
       Faultless!Fair!Lifecycle!ExpirableStatuses, Lifecycle!Statuses,
       Faultless!Fair!Lifecycle!Statuses, Lifecycle!IsValidStatusTransition,
       Faultless!Fair!Lifecycle!IsValidStatusTransition, Lifecycle!Allowed,
       Faultless!Fair!Lifecycle!Allowed, Lifecycle!TerminalStatuses,
       Faultless!Fair!Lifecycle!TerminalStatuses
  <2>6. [Next]_vars /\ [Faultless!Fair!Lifecycle!Next]_(Faultless!Fair!Lifecycle!vars)
          => [focus = "TwoWatchers" => Kept]_vars
    BY <2>5 DEF Kept
  <2>7. ~(focus = "TwoWatchers") => [focus = "TwoWatchers" => Kept]_vars OBVIOUS
  <2> QED BY <2>2, <2>6, <2>7, TwoWatchersRuns, PTL DEF Spec
<1>3. [Next]_vars /\ [focus = "Watcher" => Kept]_vars /\ [focus = "TwoWatchers" => Kept]_vars
      => [Lifecycle!Next]_(Lifecycle!vars)
  <2>1. CASE UNCHANGED vars
    BY <2>1 DEF vars, FairVars, FinalStatus, Lifecycle!vars, Watcher!FinalStatus,
       Watcher!Final, Watcher!At, TwoWatchers!FinalStatus, TwoWatchers!Final, TwoWatchers!At
  <2>2. CASE focus \notin {"Watcher", "TwoWatchers"} /\ Next
    <3>1. focus' = focus
      BY <2>2 DEF Next, FairNext, PoolNext, CheckoutNext, WalletNext
    <3> QED BY <2>2, <3>1 DEF Lifecycle!vars, FinalStatus
  <2> QED BY <2>1, <2>2 DEF Kept
<1>4. Init => Lifecycle!Init
  <2>1. ASSUME Init PROVE FinalStatus = "none"
    <3>1. CASE focus = "Watcher"
      <4>1. Watcher!Init BY <2>1, <3>1 DEF Init
      <4> QED BY <3>1, <4>1
           DEF Watcher!Init, Watcher!NewRow, Watcher!FinalStatus, Watcher!Final, FinalStatus
    <3>2. CASE focus = "TwoWatchers"
      <4>1. TwoWatchers!Init BY <2>1, <3>2 DEF Init
      <4> QED BY <3>2, <4>1
           DEF TwoWatchers!Init, TwoWatchers!NewRow, TwoWatchers!FinalStatus,
               TwoWatchers!Final, FinalStatus
    <3> QED BY <3>1, <3>2 DEF FinalStatus
  <2> QED BY <2>1 DEF Lifecycle!Init
<1> QED BY <1>1, <1>2, <1>3, <1>4, PTL DEF Spec, ImplementsLifecycle, Lifecycle!Spec
=============================================================================
