--------------------------- MODULE ReceiveAddresses ---------------------------
(***************************************************************************)
(* How FairCoin addresses are handed out in a recipient's wallet: one      *)
(* cursor per recipient, an advisory lock per recipient under which the    *)
(* daily bounds are counted, and a wallet that watches what was handed out *)
(* by asking for every index above the last one it saw.  A payment may     *)
(* need addresses of several recipients; a sender of an @username payment  *)
(* is handed again the address it holds while nothing was paid to it.      *)
(***************************************************************************)
EXTENDS Naturals, FiniteSets, FiniteSetsExt

CONSTANTS
  LastRecipient,   \* recipients are 1..LastRecipient, in the order they are locked
  Senders, Workers,
  MaxUnpaid,       \* MAX_UNPAID_PAYMENT_ADDRESSES
  MaxFresh,        \* MAX_FRESH_SOCIAL_ADDRESSES
  MaxPerSender,    \* MAX_FRESH_SOCIAL_ADDRESSES_PER_SENDER
  MaxIndex,        \* bound: addresses of one recipient
  MaxFaults        \* bound: rolled-back transactions and unanswered chain reads

Payment == "payment"

AddressBounds ==
  /\ LastRecipient \in Nat /\ MaxUnpaid \in Nat /\ MaxFresh \in Nat
  /\ MaxPerSender \in Nat /\ MaxIndex \in Nat /\ MaxFaults \in Nat
  /\ Payment \notin Senders /\ "free" \notin Workers

VARIABLES
  key,      \* per recipient: whether the identity key was replaced (0 or 1)
  cursor,   \* per recipient: social_receive_cursors, the next index and the key
  handed,   \* payment_intent_outputs and social_send_attributions
  used,     \* the addresses the chain shows used, and their payments succeeded
  pool,     \* per recipient: who holds its advisory lock
  job,      \* per request: what it holds
  wallet,   \* per recipient: its sync cursor and the addresses it watches
  faults

vars == <<key, cursor, handed, used, pool, job, wallet, faults>>

Recipients == 1..LastRecipient
Pcs == {"idle", "usage", "fresh_key", "lock", "commit"}
NoJob ==
  [pc |-> "idle", to |-> "none", plan |-> {}, key |-> [r \in Recipients |-> 0],
   seen |-> 0, locked |-> {}, unpaid |-> [r \in Recipients |-> 0]]

Init ==
  /\ key = [r \in Recipients |-> 0]
  /\ cursor = [r \in Recipients |-> [next |-> 1, key |-> 0]]
  /\ handed = {} /\ used = {}
  /\ pool = [r \in Recipients |-> "free"]
  /\ job = [w \in Workers |-> NoJob]
  /\ wallet = [r \in Recipients |-> [after |-> 0, seen |-> {}]]
  /\ faults = 0

At(w, pc) == job[w].pc = pc
Go(w, j) == job' = [job EXCEPT ![w] = j]
Of(r) == {a \in handed : a.recipient = r}
Attributions(r) == {a \in Of(r) : a.to # Payment}
HeldBy(s, r) == {a \in Of(r) : a.to = s}
LatestIndex(s, r) == Max({0} \cup {a.index : a \in HeldBy(s, r)})
Fault == faults < MaxFaults /\ faults' = faults + 1
Release(w) == pool' = [r \in Recipients |-> IF pool[r] = w THEN "free" ELSE pool[r]]

-----------------------------------------------------------------------------
\* What a request is for, and what it reads before its transaction.

\* createIntent: one address of each recipient of the payment, their keys read fresh.
PlanPayment(w) ==
  /\ At(w, "idle")
  /\ \E plan \in SUBSET Recipients \ {{}} :
       Go(w, [NoJob EXCEPT !.pc = "lock", !.to = Payment, !.plan = plan, !.key = key])
  /\ UNCHANGED <<key, cursor, handed, used, pool, wallet, faults>>

\* reuseUnpaidSocialAddress: the latest address of this pair, then its key and
\* the chain.
AskAddress(w) ==
  /\ At(w, "idle")
  /\ \E s \in Senders, r \in Recipients :
       Go(w, [NoJob EXCEPT !.to = s, !.plan = {r}, !.seen = LatestIndex(s, r),
                !.pc = IF LatestIndex(s, r) = 0 THEN "fresh_key" ELSE "usage"])
  /\ UNCHANGED <<key, cursor, handed, used, pool, wallet, faults>>

Latest(w) ==
  CHOOSE a \in handed :
    a.recipient \in job[w].plan /\ a.to = job[w].to /\ a.index = job[w].seen

\* Handed again, or a fresh one is needed: the key changed, it was paid, or the
\* explorer cannot tell.
ReuseUnpaidAddress(w) ==
  /\ At(w, "usage")
  /\ \/ /\ Latest(w).key = key[Latest(w).recipient] /\ Latest(w) \notin used
        /\ Go(w, NoJob)
        /\ UNCHANGED faults
     \/ /\ Latest(w).key # key[Latest(w).recipient] \/ Latest(w) \in used
        /\ Go(w, [job[w] EXCEPT !.pc = "fresh_key"])
        /\ UNCHANGED faults
     \/ /\ Fault
        /\ Go(w, [job[w] EXCEPT !.pc = "fresh_key"])
  /\ UNCHANGED <<key, cursor, handed, used, pool, wallet>>

ReadFreshKey(w) ==
  /\ At(w, "fresh_key")
  /\ Go(w, [job[w] EXCEPT !.pc = "lock", !.key = key])
  /\ UNCHANGED <<key, cursor, handed, used, pool, wallet, faults>>

-----------------------------------------------------------------------------
\* The transaction.

\* A faulty variant: pools are locked in the order the payment names them.
NextPoolUnsorted(w) == job[w].plan \ job[w].locked

\* The recipients are locked in one order.
NextPool(w) ==
  LET left == job[w].plan \ job[w].locked
  IN {r \in left : \A q \in left : r <= q}

Unpaid(r) == Cardinality({a \in Of(r) : a.to = Payment /\ a \notin used})

\* A faulty variant: the count is a plain read, under no lock.
LockRecipientPoolNot(w) ==
  /\ At(w, "lock")
  /\ \E r \in NextPool(w) :
       Go(w, [job[w] EXCEPT !.locked = @ \cup {r}, !.unpaid[r] = Unpaid(r),
                !.pc = IF job[w].plan = job[w].locked \cup {r} THEN "commit" ELSE "lock"])
  /\ UNCHANGED <<key, cursor, handed, used, pool, wallet, faults>>

\* lockRecipientPool, and the count that follows it under the lock.
LockRecipientPool(w) ==
  /\ At(w, "lock")
  /\ \E r \in NextPool(w) :
       /\ pool[r] = "free"
       /\ pool' = [pool EXCEPT ![r] = w]
       /\ Go(w, [job[w] EXCEPT !.locked = @ \cup {r}, !.unpaid[r] = Unpaid(r),
                   !.pc = IF job[w].plan = job[w].locked \cup {r} THEN "commit" ELSE "lock"])
  /\ UNCHANGED <<key, cursor, handed, used, wallet, faults>>

\* A faulty variant: whoever asks is refused at the whole bound alone.
HasRoomForAll(w, r) == Cardinality(Attributions(r)) < MaxFresh

\* The sender's daily bound, then the recipient's: half of it for a sender
\* served already.
HasRoom(w, r) ==
  LET mine == Cardinality(HeldBy(job[w].to, r))
  IN /\ mine < MaxPerSender
     /\ Cardinality(Attributions(r)) < (IF mine = 0 THEN MaxFresh ELSE MaxFresh \div 2)

\* A faulty variant: whatever a concurrent request of the sender reserved.
MayReserveRegardless(w) ==
  IF job[w].to = Payment
  THEN \A r \in job[w].plan : job[w].unpaid[r] < MaxUnpaid
  ELSE \A r \in job[w].plan : HasRoom(w, r)

\* A concurrent request of the same sender that reserved meanwhile is answered
\* with: nothing more is reserved.
MayReserve(w) ==
  IF job[w].to = Payment
  THEN \A r \in job[w].plan : job[w].unpaid[r] < MaxUnpaid
  ELSE \A r \in job[w].plan :
         LatestIndex(job[w].to, r) = job[w].seen /\ HasRoom(w, r)

Reserved(w, r) == [recipient |-> r, index |-> cursor[r].next, key |-> job[w].key[r],
                   to |-> job[w].to]

\* Every index, its row, and the end of the locks, in one commit.
Commit(w) ==
  /\ At(w, "commit")
  /\ \A r \in job[w].plan : cursor[r].next <= MaxIndex
  /\ IF MayReserve(w)
     THEN /\ cursor' = [r \in Recipients |-> IF r \in job[w].plan
                          THEN [next |-> cursor[r].next + 1, key |-> job[w].key[r]]
                          ELSE cursor[r]]
          /\ handed' = handed \cup {Reserved(w, r) : r \in job[w].plan}
     ELSE UNCHANGED <<cursor, handed>>
  /\ Release(w)
  /\ Go(w, NoJob)
  /\ UNCHANGED <<key, used, wallet, faults>>

\* A task dies, or the create lost its idempotency key: no index is spent.
Rollback(w) ==
  /\ job[w].pc \in {"lock", "commit"} /\ Fault
  /\ Release(w)
  /\ Go(w, NoJob)
  /\ UNCHANGED <<key, cursor, handed, used, wallet>>

-----------------------------------------------------------------------------
\* The wallet: listReceiveAddresses, a page of one index, or all there is.

Above(r) == {a \in Of(r) : a.index > wallet[r].after}

\* A faulty variant: outputs and attributions are read in two snapshots, so a
\* page may lack what was committed between them.
ReadPageTorn(r) ==
  /\ Above(r) # {}
  /\ \E page \in {Above(r), {a \in Above(r) : a.to # Payment}} :
       /\ page # {}
       /\ wallet' = [wallet EXCEPT ![r] =
            [after |-> Max({a.index : a \in page}), seen |-> @.seen \cup page]]
  /\ UNCHANGED <<key, cursor, handed, used, pool, job, faults>>

ReadPage(r) ==
  /\ Above(r) # {}
  /\ \E bound \in {a.index : a \in Above(r)} :
       LET page == {a \in Above(r) : a.index <= bound}
       IN wallet' = [wallet EXCEPT ![r] = [after |-> bound, seen |-> @.seen \cup page]]
  /\ UNCHANGED <<key, cursor, handed, used, pool, job, faults>>

\* Outside: coins arrive, a key is replaced.
Pay ==
  /\ \E a \in handed \ used : used' = used \cup {a}
  /\ UNCHANGED <<key, cursor, handed, pool, job, wallet, faults>>

ReplaceKey ==
  /\ \E r \in Recipients : key[r] = 0 /\ key' = [key EXCEPT ![r] = 1]
  /\ UNCHANGED <<cursor, handed, used, pool, job, wallet, faults>>

Step(w) ==
  \/ PlanPayment(w) \/ AskAddress(w) \/ ReuseUnpaidAddress(w) \/ ReadFreshKey(w)
  \/ LockRecipientPool(w) \/ Commit(w) \/ Rollback(w)

Next ==
  \/ \E w \in Workers : Step(w)
  \/ \E r \in Recipients : ReadPage(r)
  \/ Pay \/ ReplaceKey

Spec == Init /\ [][Next]_vars

-----------------------------------------------------------------------------
Addresses == [recipient : Recipients, index : 1..MaxIndex, key : {0, 1},
              to : Senders \cup {Payment}]

TypeOK ==
  /\ key \in [Recipients -> {0, 1}]
  /\ cursor \in [Recipients -> [next : 1..(MaxIndex + 1), key : {0, 1}]]
  /\ handed \subseteq Addresses /\ used \subseteq handed
  /\ pool \in [Recipients -> Workers \cup {"free"}]
  /\ job \in [Workers -> [pc : Pcs, to : Senders \cup {Payment, "none"},
                          plan : SUBSET Recipients, key : [Recipients -> {0, 1}],
                          seen : 0..MaxIndex, locked : SUBSET Recipients,
                          unpaid : [Recipients -> 0..MaxIndex]]]
  /\ \A r \in Recipients :
       wallet[r].after \in 0..MaxIndex /\ wallet[r].seen \subseteq handed
  /\ faults \in 0..MaxFaults

\* An address is handed to one payment or one sender, ever.
NeverReused ==
  \A a, b \in handed : a.recipient = b.recipient /\ a.index = b.index => a = b

\* The sync cursor is exact: a wallet that asks for the indices above the last
\* it saw watches everything handed out at or below it, whatever was being
\* reserved while it read.
SyncMissesNothing ==
  \A r \in Recipients : {a \in Of(r) : a.index <= wallet[r].after} \subseteq wallet[r].seen

\* Concurrent confirms cannot both take the last place under a recipient's bound.
UnpaidWithinBound == \A r \in Recipients : Unpaid(r) <= MaxUnpaid

\* However many requests a sender makes at once, it holds one unpaid address of
\* a recipient at most (while the explorer can tell).
OneUnpaidPerSender ==
  faults = 0 =>
    \A r \in Recipients, s \in Senders :
      Cardinality({a \in HeldBy(s, r) \ used : a.key = key[r]}) <= 1

\* Half of a recipient's day is kept for senders it has not served: second and
\* further addresses, with the first one before them, fit in the other half.
RepeatsWithinHalf ==
  \A r \in Recipients :
    LET repeats == Cardinality(Attributions(r)) - Cardinality({a.to : a \in Attributions(r)})
    IN repeats # 0 => repeats < MaxFresh \div 2

\* No two payments wait for each other's recipients.
NoLockCycle ==
  ~ \E v, w \in Workers :
      /\ v # w /\ At(v, "lock") /\ At(w, "lock")
      /\ NextPool(v) # {} /\ NextPool(w) # {}
      /\ \A r \in NextPool(v) : pool[r] = w
      /\ \A r \in NextPool(w) : pool[r] = v

\* Once a recipient's cursor names its new key it does not go back to the
\* previous one.
CursorKeepsNewKey ==
  [][\A r \in Recipients : cursor[r].key = 1 => cursor'[r].key = 1]_cursor
=============================================================================
