-------------------------------- MODULE Wallet --------------------------------
(***************************************************************************)
(* The FairCoin light wallet of the app.  One peer serves it filtered      *)
(* blocks and loose transactions in order; linking a header, crediting a   *)
(* transaction and recording it are separate asynchronous steps over a     *)
(* coin set in memory and rows on the device.  A historical scan asks for  *)
(* past blocks again and passes a window of them a fixed time after it     *)
(* asked, answered or not; sends run at once under a reservation of coins, *)
(* and an address may join the peer's filter after a block paid it.        *)
(*                                                                         *)
(* A transaction of ours makes one coin of ours: what a payer paid, or the *)
(* change of a send.  A block holds one transaction of ours at most, and a *)
(* window of the scan is one block.  Headers come one at a time, with      *)
(* their filtered block, so that no competing branch is ever longer        *)
(* (planChainUpdate) and the rewind is not reached.                        *)
(***************************************************************************)
EXTENDS Integers, FiniteSets, Sequences

CONSTANTS
  Funds,        \* payments to this wallet
  Late,         \* those to an address the filter does not have at first
  Sends,        \* payments it makes
  MaxHeight,    \* bound: length of the chain
  MaxForks,     \* bound: blocks the network replaces
  MaxCopies,    \* bound: transactions relayed outside a block
  MaxCrashes    \* bound: times the app is killed, locked or loses its peer

WalletBounds ==
  /\ Late \subseteq Funds /\ Funds \cap Sends = {} /\ "none" \notin Funds \cup Sends
  /\ MaxHeight \in Nat /\ MaxForks \in Nat /\ MaxCopies \in Nat /\ MaxCrashes \in Nat

VARIABLES
  chain,      \* the peer's best chain (external)
  public,     \* the transactions the network knows (external)
  wire,       \* what the peer has sent and the app not read
  filter,     \* the payments whose address the peer's filter has
  assoc,      \* per transaction: the block its next copy is taken to be of
  batches,    \* headers waiting to be linked
  jobs,       \* transactions being processed, in order of arrival
  stale,      \* a new tip: confirmations are to be reconciled
  headers,    \* rows: block_headers
  coin,       \* rows: utxos
  txBlock,    \* rows: transactions, the block recorded of each
  scan,       \* rows: rescan_state
  pendingFrom,\* rows: the height the scan has to go back to (0: none)
  memory,     \* the coin set in memory: the height of each coin it has
  driver,     \* the running scan
  checker,    \* the late payment an Explorer check has found
  send, reserved,
  counts,
  missed      \* history: the transactions of blocks the scan had passed, or took as
              \* asked for, whose answer was lost with the app or the peer

network == <<chain, public>>
client == <<wire, filter, assoc, batches>>
scanning == <<scan, pendingFrom, driver>>
sending == <<send, reserved>>
vars == <<network, client, jobs, stale, headers, coin, txBlock, scanning, memory,
          checker, sending, counts, missed>>

Txs == Funds \cup Sends
Absent == -2       \* a coin that is not there
Mempool == -1      \* the height of what no known block holds
NoBlock == [at |-> 0, fork |-> 0, tx |-> "none"]
NoCoin == [height |-> Absent, spent |-> FALSE]
NoDriver == [pc |-> "idle", next |-> 0, target |-> 0]
InProgress == {"signing", "broadcast", "marked"}

Init ==
  /\ chain = <<>> /\ public = Funds
  /\ wire = <<>> /\ filter = Funds \ Late
  /\ assoc = [t \in Txs |-> NoBlock] /\ batches = <<>>
  /\ jobs = <<>> /\ stale = FALSE
  /\ headers = <<>>
  /\ coin = [t \in Txs |-> NoCoin] /\ txBlock = [t \in Txs |-> NoBlock]
  /\ scan = [begun |-> FALSE, next |-> 1, target |-> 0, completed |-> FALSE]
  /\ pendingFrom = 0
  /\ memory = [t \in Txs |-> Absent]
  /\ driver = NoDriver /\ checker = "none"
  /\ send = [s \in Sends |-> [pc |-> "none", inputs |-> {}]] /\ reserved = {}
  /\ counts = [forks |-> 0, copies |-> 0, crashes |-> 0] /\ missed = {}

Tip == Len(headers)
Inputs(t) == IF t \in Sends THEN send[t].inputs ELSE {}
Mined(blocks) == {blocks[h].tx : h \in DOMAIN blocks}
SpentOn(blocks) == UNION {Inputs(t) : t \in Mined(blocks)}
HeightOn(blocks, t) == CHOOSE h \in DOMAIN blocks : blocks[h].tx = t

\* The peer matches a transaction by the coin it makes.
Matches(t) == t \in filter \cup Sends

\* A filtered block: its header and, behind it, the transaction it matched.
Serve(block, prev) ==
  [kind |-> "block", tx |-> IF Matches(block.tx) THEN block.tx ELSE "none",
   block |-> block, prev |-> prev]
Before(blocks, h) == IF h = 1 THEN NoBlock ELSE blocks[h - 1]

-----------------------------------------------------------------------------
(* The network. *)

Mine(t) ==
  /\ Len(chain) < MaxHeight
  /\ \/ t = "none"
     \/ /\ t \in public \ Mined(chain)
        /\ Inputs(t) \subseteq Mined(chain) \ SpentOn(chain)
  /\ chain' = Append(chain, [at |-> Len(chain) + 1, fork |-> counts.forks, tx |-> t])
  /\ UNCHANGED <<public, client, jobs, stale, headers, coin, txBlock, scanning, memory,
                 checker, sending, counts, missed>>

\* The last block loses to a branch that is one block longer.
Reorganise ==
  /\ counts.forks < MaxForks /\ Len(chain) \in 1..(MaxHeight - 1)
  /\ LET Empty(h) == [at |-> h, fork |-> counts.forks + 1, tx |-> "none"]
     IN chain' = [h \in 1..(Len(chain) + 1) |->
                    IF h < Len(chain) THEN chain[h] ELSE Empty(h)]
  /\ counts' = [counts EXCEPT !.forks = @ + 1]
  /\ UNCHANGED <<public, client, jobs, stale, headers, coin, txBlock, scanning, memory,
                 checker, sending, missed>>

\* The peer answers getblocks, or announces what is new, one request at a time: the
\* blocks above the last one the wallet has in common with it.
Announce ==
  LET common == Cardinality({h \in DOMAIN headers : h <= Len(chain) /\ headers[h] = chain[h]})
  IN /\ wire = <<>> /\ batches = <<>> /\ common < Len(chain)
     /\ wire' = [i \in 1..(Len(chain) - common) |->
                  Serve(chain[common + i], Before(chain, common + i))]
     /\ UNCHANGED <<network, filter, assoc, batches, jobs, stale, headers, coin, txBlock,
                    scanning, memory, checker, sending, counts, missed>>

\* A peer, which may not have the block of it, relays a transaction.
Relay(t) ==
  /\ t \in public /\ Matches(t) /\ counts.copies < MaxCopies
  /\ wire' = Append(wire, [kind |-> "tx", tx |-> t, block |-> NoBlock, prev |-> NoBlock])
  /\ counts' = [counts EXCEPT !.copies = @ + 1]
  /\ UNCHANGED <<network, filter, assoc, batches, jobs, stale, headers, coin, txBlock,
                 scanning, memory, checker, sending, missed>>

-----------------------------------------------------------------------------
(* Receiving. *)

\* A filtered block queues its header and says what block its transaction is of,
\* which comes next.
ProcessMerkleBlock ==
  /\ wire # <<>> /\ Head(wire).kind = "block"
  /\ LET m == Head(wire)
     IN /\ batches' = Append(batches, [block |-> m.block, prev |-> m.prev])
        /\ assoc' = IF m.tx = "none" THEN assoc ELSE [assoc EXCEPT ![m.tx] = m.block]
        /\ wire' = IF m.tx = "none" THEN Tail(wire) ELSE [wire EXCEPT ![1].kind = "tx"]
  /\ UNCHANGED <<network, filter, jobs, stale, headers, coin, txBlock, scanning, memory,
                 checker, sending, counts, missed>>

\* Whichever copy of a transaction comes next takes the association.
ProcessTransaction ==
  /\ wire # <<>> /\ Head(wire).kind = "tx"
  /\ LET t == Head(wire).tx
     IN /\ jobs' = Append(jobs, [tx |-> t, block |-> assoc[t], pc |-> "apply", debit |-> {}])
        /\ assoc' = [assoc EXCEPT ![t] = NoBlock]
  /\ wire' = Tail(wire)
  /\ UNCHANGED <<network, filter, batches, stale, headers, coin, txBlock, scanning, memory,
                 checker, sending, counts, missed>>

\* A header extends the tip or is ignored: alone it is never a longer branch.
Extends(block, prev) == block.at = Tip + 1 /\ prev = Before(headers, Tip + 1)

ApplyHeaderBatch ==
  /\ batches # <<>>
  /\ LET b == Head(batches)
     IN IF Extends(b.block, b.prev)
        THEN headers' = Append(headers, b.block) /\ stale' = TRUE
        ELSE UNCHANGED <<headers, stale>>
  /\ batches' = Tail(batches)
  /\ UNCHANGED <<network, wire, filter, assoc, jobs, coin, txBlock, scanning, memory,
                 checker, sending, counts, missed>>

KnownHeight(block) ==
  IF block.at \in DOMAIN headers /\ headers[block.at] = block THEN block.at ELSE Mempool

\* A job is not overtaken by the ones that came after it.
Stage == [apply |-> 0, debit |-> 1, record |-> 2]
MayStep(i, pc) ==
  i \in DOMAIN jobs /\ jobs[i].pc = pc /\ \A k \in 1..(i - 1) : Stage[jobs[k].pc] > Stage[pc]

Without(i) == [k \in 1..(Len(jobs) - 1) |-> IF k < i THEN jobs[k] ELSE jobs[k + 1]]

\* A faulty variant: a replay may take a confirmed coin back to unconfirmed.
MayCreditAlways(t, height) == TRUE
\* A coin known to be confirmed is not credited again by an unconfirmed copy.
MayCredit(t, height) == memory[t] < 0 \/ height >= 0

\* The containing block is looked up; the coin set in memory follows, and the row
\* of the credited coin, which is replaced, in the same turn.
ApplyTransaction(i) ==
  /\ MayStep(i, "apply")
  /\ LET t == jobs[i].tx
         height == KnownHeight(jobs[i].block)
         credit == MayCredit(t, height)
         debit == {c \in Inputs(t) : memory[c] # Absent}
     IN /\ memory' = [c \in Txs |-> IF c \in debit THEN Absent
                                    ELSE IF c = t /\ credit THEN height ELSE memory[c]]
        /\ coin' = IF credit THEN [coin EXCEPT ![t] = [height |-> height, spent |-> FALSE]]
                   ELSE coin
        /\ jobs' = IF ~credit /\ debit = {} THEN Without(i)
                   ELSE [jobs EXCEPT ![i].pc = IF debit = {} THEN "record" ELSE "debit",
                                     ![i].debit = debit]
  /\ UNCHANGED <<network, client, stale, headers, txBlock, scanning, checker, sending, counts,
                 missed>>

Spend(rows, coins) ==
  [c \in Txs |-> IF c \in coins /\ rows[c].height # Absent
                 THEN [rows[c] EXCEPT !.spent = TRUE] ELSE rows[c]]

\* The rows of the coins it spends follow.
MarkDebitsSpent(i) ==
  /\ MayStep(i, "debit")
  /\ coin' = Spend(coin, jobs[i].debit)
  /\ jobs' = [jobs EXCEPT ![i].pc = "record"]
  /\ UNCHANGED <<network, client, stale, headers, txBlock, scanning, memory, checker, sending,
                 counts, missed>>

InsertTransaction(i) ==
  /\ MayStep(i, "record")
  /\ txBlock' = [txBlock EXCEPT ![jobs[i].tx] = jobs[i].block]
  /\ jobs' = Without(i)
  /\ UNCHANGED <<network, client, stale, headers, coin, scanning, memory, checker, sending,
                 counts, missed>>

\* A coin credited before its header was stored is given its height.
ReconcileConfirmations ==
  /\ stale /\ stale' = FALSE
  /\ LET resolved == {t \in Txs : coin[t].height = Mempool /\ KnownHeight(txBlock[t]) > 0}
     IN /\ coin' = [t \in Txs |-> IF t \in resolved
                                  THEN [coin[t] EXCEPT !.height = KnownHeight(txBlock[t])]
                                  ELSE coin[t]]
        /\ memory' = [t \in Txs |-> IF t \in resolved /\ memory[t] # Absent
                                    THEN KnownHeight(txBlock[t]) ELSE memory[t]]
  /\ UNCHANGED <<network, client, jobs, headers, txBlock, scanning, checker, sending, counts,
                 missed>>

-----------------------------------------------------------------------------
(* The historical scan. *)

ResumeAt(p) == IF p.completed THEN p.target + 1 ELSE p.next
RewindRescanProgress(p, from) ==
  IF ~p.begun \/ from >= ResumeAt(p) THEN p
  ELSE [begun |-> TRUE, next |-> from, completed |-> FALSE,
        target |-> IF p.target > Tip THEN p.target ELSE Tip]

\* Where the next scan resumes; past the tip: there is nothing to scan.
PlanRescan(p) ==
  IF ~p.begun THEN 1
  ELSE IF p.completed THEN p.target + 1
  ELSE IF p.next <= Tip THEN p.next ELSE 1

\* The driver reads the height it has to go back to, then folds it in.
StartRescan ==
  /\ driver.pc = "idle" /\ Tip > 0
  /\ pendingFrom # 0 \/ PlanRescan(scan) <= Tip
  /\ driver' = [pc |-> "fold", next |-> pendingFrom, target |-> 0]
  /\ UNCHANGED <<network, client, jobs, stale, headers, coin, txBlock, scan, pendingFrom,
                 memory, checker, sending, counts, missed>>

FoldPendingRescan ==
  /\ driver.pc = "fold"
  /\ LET p == IF driver.next = 0 THEN scan ELSE RewindRescanProgress(scan, driver.next)
     IN /\ scan' = p
        /\ driver' = IF PlanRescan(p) > Tip THEN NoDriver
                     ELSE [pc |-> "request", next |-> PlanRescan(p), target |-> Tip]
  /\ pendingFrom' = IF driver.next = 0 THEN pendingFrom ELSE 0
  /\ UNCHANGED <<network, client, jobs, stale, headers, coin, txBlock, memory, checker,
                 sending, counts, missed>>

RequestMerkleBlocks ==
  /\ driver.pc = "request"
  /\ wire' = Append(wire, Serve(headers[driver.next], Before(headers, driver.next)))
  /\ driver' = [driver EXCEPT !.pc = "wait"]
  /\ UNCHANGED <<network, filter, assoc, batches, jobs, stale, headers, coin, txBlock, scan,
                 pendingFrom, memory, checker, sending, counts, missed>>

\* No peer is there to ask: the scan stops, to resume at this window.
LeaveWindow ==
  /\ driver.pc = "request"
  /\ scan' = [begun |-> TRUE, next |-> driver.next, target |-> driver.target,
              completed |-> FALSE]
  /\ driver' = NoDriver
  /\ UNCHANGED <<network, client, jobs, stale, headers, coin, txBlock, pendingFrom, memory,
                 checker, sending, counts, missed>>

\* Eight seconds after it asked, whatever has come by then, the scan goes on.
PersistWindow ==
  /\ driver.pc = "wait"
  /\ LET next == driver.next + 1
         done == next > driver.target
     IN /\ scan' = [begun |-> TRUE, next |-> next, target |-> driver.target, completed |-> done]
        /\ driver' = IF done THEN NoDriver ELSE [driver EXCEPT !.pc = "request", !.next = next]
  /\ UNCHANGED <<network, client, jobs, stale, headers, coin, txBlock, pendingFrom, memory,
                 checker, sending, counts, missed>>

\* The Explorer shows coins at an address outside the filter: the scan is sent
\* back to them, and later the address joins the filter.
CheckSocialReceiveDue(f) ==
  /\ checker = "none" /\ f \in Funds \ filter
  /\ checker' = f
  /\ LET height == HeightOn(chain, f)
     IN pendingFrom' = IF f \in Mined(chain) /\ (pendingFrom = 0 \/ height < pendingFrom)
                       THEN height ELSE pendingFrom
  /\ UNCHANGED <<network, client, jobs, stale, headers, coin, txBlock, scan, driver, memory,
                 sending, counts, missed>>

RefreshFilter ==
  /\ checker # "none"
  /\ filter' = filter \cup {checker} /\ checker' = "none"
  /\ UNCHANGED <<network, wire, assoc, batches, jobs, stale, headers, coin, txBlock, scanning,
                 memory, sending, counts, missed>>

-----------------------------------------------------------------------------
(* Sending. *)

Candidates == {c \in Txs : coin[c].height >= 0 /\ ~coin[c].spent}

\* A faulty variant: what another send reserved is not looked at.
AvailableAnyway == Candidates
Available == Candidates \ reserved

\* Coins are chosen and reserved before anything else can run.
SelectInputs(s, coins) ==
  /\ send[s].pc = "none" /\ coins # {} /\ coins \subseteq Available
  /\ send' = [send EXCEPT ![s] = [pc |-> "signing", inputs |-> coins]]
  /\ reserved' = reserved \cup coins
  /\ UNCHANGED <<network, client, jobs, stale, headers, coin, txBlock, scanning, memory,
                 checker, counts, missed>>

BroadcastTransaction(s) ==
  /\ send[s].pc = "signing"
  /\ public' = public \cup {s}
  /\ send' = [send EXCEPT ![s].pc = "broadcast"]
  /\ UNCHANGED <<chain, client, jobs, stale, headers, coin, txBlock, scanning, memory,
                 checker, reserved, counts, missed>>

\* No peer took it, or it could not be signed.
FailSend(s) ==
  /\ send[s].pc = "signing"
  /\ send' = [send EXCEPT ![s].pc = "failed"]
  /\ reserved' = reserved \ send[s].inputs
  /\ UNCHANGED <<network, client, jobs, stale, headers, coin, txBlock, scanning, memory,
                 checker, counts, missed>>

MarkInputsSpent(s) ==
  /\ send[s].pc = "broadcast"
  /\ coin' = Spend(coin, send[s].inputs)
  /\ memory' = [c \in Txs |-> IF c \in send[s].inputs THEN Absent ELSE memory[c]]
  /\ send' = [send EXCEPT ![s].pc = "marked"]
  /\ UNCHANGED <<network, client, jobs, stale, headers, txBlock, scanning, checker, reserved,
                 counts, missed>>

RecordSend(s) ==
  /\ send[s].pc = "marked"
  /\ txBlock' = [txBlock EXCEPT ![s] = NoBlock]
  /\ send' = [send EXCEPT ![s].pc = "done"]
  /\ reserved' = reserved \ send[s].inputs
  /\ UNCHANGED <<network, client, jobs, stale, headers, coin, scanning, memory, checker, counts,
                 missed>>

-----------------------------------------------------------------------------
(* What is lost. *)

\* The transactions of linked blocks, and those whose answer is on its way.
TxsAt(heights) == {headers[h].tx : h \in heights \cap DOMAIN headers} \ {"none"}
Unread ==
  {wire[i].tx : i \in {k \in DOMAIN wire :
                         wire[k].kind = "block" \/ assoc[wire[k].tx] # NoBlock}}
Unapplied ==
  {jobs[i].tx : i \in {k \in DOMAIN jobs : jobs[k].pc = "apply" /\ jobs[k].block # NoBlock}}

\* The heights a resumed scan does not ask for again, and the one it has asked for.
Behind == 1..(ResumeAt(scan) - 1)
Awaited == IF driver.pc = "wait" THEN {driver.next} ELSE {}

\* The peer goes away, and with it what it sent: the scan is not told.
Disconnect ==
  /\ counts.crashes < MaxCrashes /\ wire # <<>>
  /\ counts' = [counts EXCEPT !.crashes = @ + 1]
  /\ wire' = <<>>
  /\ missed' = missed \cup (Unread \cap TxsAt(Behind \cup Awaited))
  /\ UNCHANGED <<network, filter, assoc, batches, jobs, stale, headers, coin, txBlock,
                 scanning, memory, checker, sending>>

\* The app is killed, or locked with no send under way: the rows are what is left.
Crash ==
  /\ counts.crashes < MaxCrashes
  /\ counts' = [counts EXCEPT !.crashes = @ + 1]
  /\ wire' = <<>> /\ batches' = <<>> /\ jobs' = <<>> /\ stale' = FALSE
  /\ missed' = missed \cup ((Unread \cup Unapplied) \cap TxsAt(Behind))
  /\ assoc' = [t \in Txs |-> NoBlock]
  /\ memory' = [c \in Txs |-> IF coin[c].spent THEN Absent ELSE coin[c].height]
  /\ driver' = NoDriver /\ checker' = "none"
  /\ send' = [s \in Sends |-> IF send[s].pc \in InProgress
                              THEN [send[s] EXCEPT !.pc = "lost"] ELSE send[s]]
  /\ reserved' = {}
  /\ UNCHANGED <<network, filter, headers, coin, txBlock, scan, pendingFrom>>

Receive ==
  \/ ProcessMerkleBlock \/ ProcessTransaction \/ ApplyHeaderBatch \/ ReconcileConfirmations
  \/ \E i \in DOMAIN jobs : ApplyTransaction(i) \/ MarkDebitsSpent(i) \/ InsertTransaction(i)

Rescan ==
  \/ StartRescan \/ FoldPendingRescan \/ RequestMerkleBlocks \/ LeaveWindow \/ PersistWindow
  \/ \E f \in Late : CheckSocialReceiveDue(f)
  \/ RefreshFilter

Next ==
  \/ \E t \in Txs \cup {"none"} : Mine(t)
  \/ \E t \in Txs : Relay(t)
  \/ Reorganise \/ Announce \/ Receive \/ Rescan \/ Disconnect \/ Crash
  \/ \E s \in Sends :
       \/ \E coins \in SUBSET Txs : SelectInputs(s, coins)
       \/ BroadcastTransaction(s) \/ FailSend(s) \/ MarkInputsSpent(s) \/ RecordSend(s)

Spec == Init /\ [][Next]_vars

-----------------------------------------------------------------------------
Heights == Absent..MaxHeight
Blocks == [at : 0..MaxHeight, fork : 0..MaxForks, tx : Txs \cup {"none"}]
IsChain(blocks) ==
  /\ Len(blocks) <= MaxHeight
  /\ \A h \in DOMAIN blocks : blocks[h] \in Blocks /\ blocks[h].at = h

\* Types, and: a chain's blocks are in their places, a coin in memory is one
\* whose row will say so, reserved coins are those of sends in progress.
TypeOK ==
  /\ IsChain(chain) /\ IsChain(headers)
  /\ public \subseteq Txs /\ Funds \subseteq public /\ filter \subseteq Funds
  /\ \A i \in DOMAIN wire : wire[i].tx \in Txs \cup {"none"} /\ wire[i].block \in Blocks
  /\ \A i \in DOMAIN jobs :
       jobs[i].tx \in Txs /\ jobs[i].block \in Blocks /\ jobs[i].debit \subseteq Txs
  /\ assoc \in [Txs -> Blocks] /\ txBlock \in [Txs -> Blocks] /\ stale \in BOOLEAN
  /\ coin \in [Txs -> [height : Heights, spent : BOOLEAN]] /\ memory \in [Txs -> Heights]
  /\ scan.next \in 0..(MaxHeight + 1) /\ pendingFrom \in 0..MaxHeight
  /\ checker \in Late \cup {"none"} /\ reserved \subseteq Txs /\ missed \subseteq Txs

\* Everything the peer sent was read, linked, credited and recorded.
Quiet == wire = <<>> /\ batches = <<>> /\ jobs = <<>> /\ ~stale

\* Nothing is on its way and the scan has reached the tip of the peer's chain.
AtRest ==
  /\ Quiet /\ headers = chain /\ driver.pc = "idle" /\ checker = "none"
  /\ pendingFrom = 0 /\ (chain # <<>> => scan.completed /\ scan.target = Len(chain))
  /\ \A s \in Sends : send[s].pc \notin InProgress

\* What broadcast sends spend.
Promised == UNION {Inputs(s) : s \in public \cap Sends}

\* At rest, over replays, loose copies, headers that come late, windows the scan
\* passed unanswered, lost peers and crashes, the rows have as confirmed no coin that
\* is not in the chain, and every coin of it that no send has spent and whose answer
\* was not lost behind the scan, at the height of its block, unspent, and in memory
\* too (processIncomingTransaction, reconcileConfirmations, Rescanner).
CoinsAreTheChains ==
  AtRest =>
    \A c \in Txs \ Late :
      /\ c \in Mined(chain) \ (Promised \cup missed) =>
           /\ coin[c].height = HeightOn(chain, c) /\ ~coin[c].spent
           /\ memory[c] = coin[c].height
      /\ c \notin Mined(chain) => coin[c].height < 0

\* "Wait for peers to answer the just-requested window before the next one": a scan
\* that has reached the tip has found every coin of the chain no send has spent
\* (Rescanner).
ScanFindsAll ==
  AtRest => \A c \in Mined(chain) \ (Promised \cup Late \cup {"none"}) : coin[c].height >= 0

\* Two sends in progress never hold one coin, whatever is replayed meanwhile
\* (UtxoReservation, sendToRecipients).
SendsApart ==
  \A s, t \in Sends :
    s # t /\ send[s].pc \in InProgress /\ send[t].pc \in InProgress
      => Inputs(s) \cap Inputs(t) = {}

\* "On success the inputs are already marked spent in the DB so they won't be
\* reselected": a coin a broadcast send spends is not chosen for another one.
SpentOnce ==
  \A s, t \in Sends \cap public : s # t => Inputs(s) \cap Inputs(t) = {}
=============================================================================
