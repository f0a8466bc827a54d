--------------------------- MODULE WaysToPay_proofs ---------------------------
(*****************************************************************************)
(* How a payer pays - the addresses FairCoin is sent to, its settlement,     *)
(* checkout orders, the wallet it is sent from - proved for any values of    *)
(* their constants. The four share no row, so each is proved by itself:      *)
(* the address pool's module is extended, the others are instances.          *)
(*****************************************************************************)
EXTENDS ReceiveAddresses, Sequences, FiniteSetTheorems, FunctionTheorems, NaturalsInduction,
    TLAPS

-----------------------------------------------------------------------------
(*****************************************************************************)
(* The FairCoin address pool, for any recipients, senders, requests and      *)
(* bounds. A recipient's advisory lock is held by the request that counted   *)
(* under it, the locks are taken in one order, and an index, once handed     *)
(* out, lies below the cursor for good.                                      *)
(*****************************************************************************)
(***************************************************************************)
(* The operators the counts are made of.                                   *)
(***************************************************************************)
\* The largest of bounded numbers is one of them.
LEMMA MaxIs ==
  ASSUME NEW n \in Nat, NEW S \in SUBSET (0..n), S # {}
  PROVE  Max(S) \in S /\ \A y \in S : y <= Max(S)
<1> DEFINE B == {m \in Nat : \A y \in S : y <= m}
<1>1. n \in B OBVIOUS
<1>2. PICK m \in B : \A k \in B : m <= k
  <2>1. IsWellFoundedOn(OpToRel(<, Nat), Nat) BY NatLessThanWellFounded
  <2>2. PICK m \in B : \A k \in B : ~(<<k, m>> \in OpToRel(<, Nat))
    BY <1>1, <2>1, WFMin
  <2>3. \A k \in B : ~(k < m) BY <2>2 DEF OpToRel
  <2> QED BY <2>3
<1>3. m \in S
  <2> SUFFICES ASSUME m \notin S PROVE FALSE OBVIOUS
  <2>1. \A y \in S : y \in Nat /\ y < m BY <1>2
  <2>2. PICK y \in S : TRUE OBVIOUS
  <2>3. m \in Nat /\ m # 0 BY <2>1, <2>2
  <2>4. \A x \in S : x <= m - 1 BY <2>1, <2>3
  <2>5. m - 1 \in B BY <2>3, <2>4
  <2>6. ~(m <= m - 1) BY <2>3
  <2> QED BY <1>2, <2>5, <2>6
<1>4. \A y \in S : m >= y BY <1>2
<1>5. Max(S) = CHOOSE x \in S : \A y \in S : x >= y BY DEF Max
<1>6. Max(S) \in S /\ \A y \in S : Max(S) >= y BY <1>3, <1>4, <1>5
<1> QED BY <1>6

\* Addresses of one recipient, told apart by their index, are finitely many.
Unique(H) ==
  \A a, b \in H : a.recipient = b.recipient /\ a.index = b.index => a = b
From(H, r) == {a \in H : a.recipient = r}

LEMMA FromFinite ==
  ASSUME MaxIndex \in Nat, NEW H \in SUBSET Addresses, Unique(H), NEW r
  PROVE  IsFiniteSet(From(H, r)) /\ Cardinality(From(H, r)) \in 0..MaxIndex
<1> DEFINE S == From(H, r)
           f == [a \in S |-> a.index]
<1>1. f \in [S -> 1..MaxIndex] BY DEF From, Addresses
<1>2. \A a, b \in S : f[a] = f[b] => a = b BY DEF From, Unique
<1>3. f \in Injection(S, 1..MaxIndex) BY <1>1, <1>2 DEF Injection, IsInjective
<1>4. IsFiniteSet(1..MaxIndex) /\ Cardinality(1..MaxIndex) = MaxIndex
  BY FS_Interval
<1> HIDE DEF f, S
<1>5. IsFiniteSet(S) /\ Cardinality(S) <= Cardinality(1..MaxIndex)
  BY <1>3, <1>4, FS_Injection
<1>6. Cardinality(S) \in Nat BY <1>5, FS_CardinalityType
<1>7. IsFiniteSet(S) /\ Cardinality(S) \in 0..MaxIndex BY <1>4, <1>5, <1>6
<1> QED BY <1>7 DEF S

\* Part of a finite set counts no more than the whole.
LEMMA PartCounts ==
  ASSUME NEW S, NEW T, IsFiniteSet(T), S \subseteq T
  PROVE  /\ IsFiniteSet(S) /\ Cardinality(S) \in Nat /\ Cardinality(T) \in Nat
         /\ Cardinality(S) <= Cardinality(T)
<1>1. S \in SUBSET T OBVIOUS
<1> QED BY <1>1, FS_Subset, FS_CardinalityType

\* One more counts for one more.
LEMMA OneMore ==
  ASSUME NEW S, NEW x, IsFiniteSet(S), x \notin S
  PROVE  IsFiniteSet(S \cup {x}) /\ Cardinality(S \cup {x}) = Cardinality(S) + 1
BY FS_AddElement

\* As many senders as there are in a finite set of addresses.
LEMMA SendersFinite ==
  ASSUME NEW S, IsFiniteSet(S)
  PROVE  IsFiniteSet({a.to : a \in S}) /\ Cardinality({a.to : a \in S}) \in Nat
<1> DEFINE T == {a.to : a \in S}
           f == [a \in S |-> a.to]
<1>1. f \in Surjection(S, T) BY DEF Surjection
<1> HIDE DEF f, T
<1>2. IsFiniteSet(T) BY <1>1, FS_Surjection
<1>3. Cardinality(T) \in Nat BY <1>2, FS_CardinalityType
<1> QED BY <1>2, <1>3 DEF T

-----------------------------------------------------------------------------
(***************************************************************************)
(* The inductive invariant, in parts.                                      *)
(***************************************************************************)
JobType == [pc : Pcs, to : Senders \cup {Payment, "none"}, plan : SUBSET Recipients,
            key : [Recipients -> {0, 1}], seen : 0..MaxIndex, locked : SUBSET Recipients,
            unpaid : [Recipients -> 0..MaxIndex]]

Base ==
  /\ key \in [Recipients -> {0, 1}]
  /\ cursor \in [Recipients -> [next : 1..(MaxIndex + 1), key : {0, 1}]]
  /\ handed \in SUBSET Addresses /\ used \in SUBSET handed
  /\ pool \in [Recipients -> Workers \cup {"free"}]
  /\ wallet \in [Recipients -> [after : 0..MaxIndex, seen : SUBSET Addresses]]
  /\ faults \in 0..MaxFaults

\* What was handed out lies below its recipient's cursor, each index once, under a
\* key the recipient has or had.
Placed(H, C, K) ==
  /\ Unique(H)
  /\ \A a \in H : a.index < C[a.recipient].next /\ a.key <= K[a.recipient]

\* A wallet saw everything at or below its own cursor, which lies below the pool's.
Watched(H, C, W) ==
  \A r \in Recipients :
    /\ W[r].after < C[r].next /\ W[r].seen \subseteq H
    /\ \A a \in H : a.recipient = r /\ a.index <= W[r].after => a \in W[r].seen

\* An address that was paid, or whose key was replaced, is not handed again.
Spent(a, U, K) == a \in U \/ a.key < K[a.recipient]

\* A sender's addresses of one recipient are spent but for the latest.
Orderly(H, U, K, f) ==
  f = 0 =>
    \A a, b \in H :
      a.to # Payment /\ a.to = b.to /\ a.recipient = b.recipient /\ a.index < b.index =>
        Spent(a, U, K)

UnpaidOf(H, U, r) == {a \in H : a.recipient = r /\ a.to = Payment /\ a \notin U}
Bounded(H, U) == \A r \in Recipients : Cardinality(UnpaidOf(H, U, r)) <= MaxUnpaid

AttributedTo(H, r) == {a \in H : a.recipient = r /\ a.to # Payment}
Halved(H) ==
  \A r \in Recipients :
    LET repeats == Cardinality(AttributedTo(H, r))
                     - Cardinality({a.to : a \in AttributedTo(H, r)})
    IN repeats # 0 => repeats < MaxFresh \div 2

\* The locks a request holds are the lowest of its plan.
LocksHold(w, j, P) ==
  /\ j.locked \subseteq j.plan
  /\ j.pc \in {"idle", "usage", "fresh_key"} => j.locked = {}
  /\ j.pc = "commit" => j.locked = j.plan
  /\ \A r \in Recipients : P[r] = w <=> r \in j.locked
  /\ \A r \in j.locked, q \in j.plan \ j.locked : r < q

\* What a request read is no newer than what is true, and what it counted under a
\* lock is no less.
ReadsHold(j, H, U, K, f) ==
  /\ \A r \in Recipients : j.key[r] <= K[r]
  /\ j.to = Payment => \A r \in j.locked : Cardinality(UnpaidOf(H, U, r)) <= j.unpaid[r]
  /\ j.pc # "idle" /\ j.to # Payment =>
       /\ j.to \in Senders
       /\ \E r \in Recipients :
            /\ j.plan = {r}
            /\ \/ j.seen = 0 /\ j.pc # "usage"
               \/ \E a \in H : a.recipient = r /\ a.to = j.to /\ a.index = j.seen
  /\ j.pc = "usage" => j.to # Payment
  /\ f = 0 /\ j.to # Payment /\ j.pc \in {"fresh_key", "lock", "commit"} =>
       \A a \in H : a.recipient \in j.plan /\ a.to = j.to /\ a.index = j.seen
         => Spent(a, U, K)

JobHolds(w, j, H, U, K, P, f) == LocksHold(w, j, P) /\ ReadsHold(j, H, U, K, f)

Data ==
  /\ Base /\ Placed(handed, cursor, key) /\ Watched(handed, cursor, wallet)
  /\ Orderly(handed, used, key, faults) /\ Bounded(handed, used) /\ Halved(handed)
Jobs ==
  /\ job \in [Workers -> JobType]
  /\ \A w \in Workers : JobHolds(w, job[w], handed, used, key, pool, faults)
IInv == Data /\ Jobs

-----------------------------------------------------------------------------
(***************************************************************************)
(* Steps that hand nothing out.                                            *)
(***************************************************************************)
\* Requests and their transactions go on; what was handed out stays as it is.
Quiet ==
  /\ UNCHANGED <<key, cursor, handed, used, wallet>>
  /\ faults' \in 0..MaxFaults /\ (faults' = 0 => faults = 0)

LEMMA FaultsAre ==
  ASSUME AddressBounds, Base, UNCHANGED faults \/ Fault
  PROVE  faults' \in 0..MaxFaults /\ (faults' = 0 => faults = 0)
BY DEF AddressBounds, Base, Fault

LEMMA DataQuiet ==
  ASSUME Data, Quiet, pool' \in [Recipients -> Workers \cup {"free"}] PROVE Data'
<1>1. Base' BY DEF Data, Base, Quiet
<1>2. Placed(handed', cursor', key') /\ Watched(handed', cursor', wallet')
  BY DEF Data, Quiet
<1>3. Orderly(handed', used', key', faults') BY DEF Data, Quiet, Orderly
<1>4. Bounded(handed', used') /\ Halved(handed') BY DEF Data, Quiet
<1> QED BY <1>1, <1>2, <1>3, <1>4 DEF Data

\* A request moves; the others' locks stay theirs.
LEMMA OneJobMoves ==
  ASSUME Jobs, Quiet, NEW w \in Workers, NEW j \in JobType, Go(w, j),
         \A x \in Workers \ {w} : \A r \in Recipients : pool'[r] = x <=> pool[r] = x,
         JobHolds(w, j, handed, used, key, pool', faults')
  PROVE  Jobs'
<1>1. job' \in [Workers -> JobType] BY DEF Jobs, Go
<1>2. ASSUME NEW x \in Workers, x # w
      PROVE  JobHolds(x, job'[x], handed', used', key', pool', faults')
  <2>1. job'[x] = job[x] /\ JobHolds(x, job[x], handed, used, key, pool, faults)
    BY <1>2 DEF Jobs, Go
  <2>2. LocksHold(x, job[x], pool') BY <1>2, <2>1 DEF JobHolds, LocksHold
  <2>3. ReadsHold(job[x], handed, used, key, faults')
    BY <2>1 DEF JobHolds, ReadsHold, Quiet
  <2> QED BY <2>1, <2>2, <2>3 DEF JobHolds, Quiet
<1>3. job'[w] = j BY DEF Jobs, Go
<1>4. JobHolds(w, job'[w], handed', used', key', pool', faults') BY <1>3 DEF Quiet
<1> QED BY <1>1, <1>2, <1>4 DEF Jobs

\* A request with nothing to do holds nothing.
LEMMA NoJobIs ==
  ASSUME AddressBounds
  PROVE  /\ NoJob \in JobType /\ NoJob.pc = "idle" /\ NoJob.to = "none" /\ NoJob.plan = {}
         /\ NoJob.locked = {} /\ NoJob.seen = 0 /\ \A r \in Recipients : NoJob.key[r] = 0
<1>1. [r \in Recipients |-> 0] \in [Recipients -> {0, 1}] OBVIOUS
<1>2. [r \in Recipients |-> 0] \in [Recipients -> 0..MaxIndex] BY DEF AddressBounds
<1>3. 0 \in 0..MaxIndex BY DEF AddressBounds
<1> QED BY <1>1, <1>2, <1>3 DEF NoJob, JobType, Pcs

LEMMA NoJobHolds ==
  ASSUME AddressBounds, Base, NEW w, NEW H, NEW U, NEW f, NEW P, NEW K,
         \A r \in Recipients : P[r] # w, \A r \in Recipients : K[r] \in {0, 1}
  PROVE  JobHolds(w, NoJob, H, U, K, P, f)
<1>1. /\ NoJob.pc = "idle" /\ NoJob.to = "none" /\ NoJob.plan = {}
      /\ NoJob.locked = {} /\ \A r \in Recipients : NoJob.key[r] = 0
  BY NoJobIs
<1>2. LocksHold(w, NoJob, P) BY <1>1 DEF LocksHold
<1>3. ReadsHold(NoJob, H, U, K, f) BY <1>1 DEF ReadsHold, Payment
<1> QED BY <1>2, <1>3 DEF JobHolds

\* What a request holds before its transaction: no lock.
LEMMA Unlocked ==
  ASSUME Jobs, NEW w \in Workers, job[w].pc \in {"idle", "usage", "fresh_key"}
  PROVE  job[w].locked = {} /\ \A r \in Recipients : pool[r] # w
BY DEF Jobs, JobHolds, LocksHold

\* A payment is planned, its recipients' keys read fresh.
LEMMA PlanPaymentStep ==
  ASSUME AddressBounds, IInv, NEW w \in Workers, PlanPayment(w) PROVE IInv'
<1>1. /\ Data /\ Jobs /\ Base /\ At(w, "idle")
      /\ UNCHANGED <<key, cursor, handed, used, pool, wallet, faults>>
  BY DEF IInv, Data, PlanPayment
<1>2. PICK plan \in SUBSET Recipients \ {{}} :
        Go(w, [NoJob EXCEPT !.pc = "lock", !.to = Payment, !.plan = plan, !.key = key])
  BY DEF PlanPayment
<1> DEFINE j == [NoJob EXCEPT !.pc = "lock", !.to = Payment, !.plan = plan, !.key = key]
<1>3. /\ j \in JobType /\ j.pc = "lock" /\ j.to = Payment /\ j.plan = plan /\ j.key = key
      /\ j.locked = {}
  BY <1>1, NoJobIs DEF JobType, Base, Pcs
<1>4. Go(w, j) BY <1>2
<1> HIDE DEF j
<1>5. Quiet BY <1>1 DEF Quiet, Base
<1>6. Data' BY <1>1, <1>5, DataQuiet DEF Base
<1>7. \A r \in Recipients : pool[r] # w BY <1>1, Unlocked DEF At
<1>8. LocksHold(w, j, pool') BY <1>1, <1>3, <1>7 DEF LocksHold
<1>9. ReadsHold(j, handed, used, key, faults') BY <1>1, <1>3 DEF ReadsHold, Base
<1>10. Jobs' BY <1>1, <1>3, <1>4, <1>5, <1>8, <1>9, OneJobMoves DEF JobHolds
<1> QED BY <1>6, <1>10 DEF IInv

\* The latest index of a pair: of an address it holds, or 0.
LEMMA LatestIs ==
  ASSUME AddressBounds, Base, NEW s, NEW r
  PROVE  /\ LatestIndex(s, r) \in 0..MaxIndex
         /\ \A a \in HeldBy(s, r) : a.index <= LatestIndex(s, r)
         /\ LatestIndex(s, r) # 0 => \E a \in HeldBy(s, r) : a.index = LatestIndex(s, r)
<1> DEFINE S == {0} \cup {a.index : a \in HeldBy(s, r)}
<1>1. S \in SUBSET (0..MaxIndex) /\ S # {} /\ MaxIndex \in Nat
  BY DEF HeldBy, Of, Base, Addresses, AddressBounds
<1>2. LatestIndex(s, r) = Max(S) BY DEF LatestIndex
<1>3. \A a \in HeldBy(s, r) : a.index \in S OBVIOUS
<1>4. \A x \in S : x = 0 \/ \E a \in HeldBy(s, r) : a.index = x OBVIOUS
<1> HIDE DEF S
<1>5. Max(S) \in S /\ \A y \in S : y <= Max(S) BY <1>1, MaxIs
<1> QED BY <1>1, <1>2, <1>3, <1>4, <1>5

\* A sender asks, and the latest address it holds is read.
LEMMA AskAddressStep ==
  ASSUME AddressBounds, IInv, NEW w \in Workers, AskAddress(w) PROVE IInv'
<1>1. /\ Data /\ Jobs /\ Base /\ At(w, "idle")
      /\ UNCHANGED <<key, cursor, handed, used, pool, wallet, faults>>
  BY DEF IInv, Data, AskAddress
<1>2. PICK s \in Senders, r \in Recipients :
        Go(w, [NoJob EXCEPT !.to = s, !.plan = {r}, !.seen = LatestIndex(s, r),
                 !.pc = IF LatestIndex(s, r) = 0 THEN "fresh_key" ELSE "usage"])
  BY DEF AskAddress
<1> DEFINE n == LatestIndex(s, r)
           j == [NoJob EXCEPT !.to = s, !.plan = {r}, !.seen = n,
                   !.pc = IF n = 0 THEN "fresh_key" ELSE "usage"]
<1>3. /\ n \in 0..MaxIndex /\ (n # 0 => \E a \in HeldBy(s, r) : a.index = n)
      /\ \A a \in HeldBy(s, r) : a.index # 0
  BY <1>1, LatestIs DEF HeldBy, Of, Base, Addresses
<1>4. Go(w, j) BY <1>2
<1> HIDE DEF n
<1>5. /\ j \in JobType /\ j.to = s /\ j.plan = {r} /\ j.seen = n /\ j.locked = {}
      /\ j.pc = (IF n = 0 THEN "fresh_key" ELSE "usage") /\ \A q \in Recipients : j.key[q] = 0
  BY <1>3, NoJobIs DEF JobType, Pcs
<1> HIDE DEF j
<1>6. Quiet BY <1>1 DEF Quiet, Base
<1>7. Data' BY <1>1, <1>6, DataQuiet DEF Base
<1>8. s # Payment BY DEF AddressBounds
<1>9. LocksHold(w, j, pool') BY <1>1, <1>5, Unlocked DEF LocksHold, At
<1>10. ReadsHold(j, handed, used, key, faults')
  <2>1. \A q \in Recipients : j.key[q] <= key[q] BY <1>1, <1>5 DEF Base
  <2>2. \/ j.seen = 0 /\ j.pc # "usage"
        \/ \E a \in handed : a.recipient = r /\ a.to = j.to /\ a.index = j.seen
    BY <1>3, <1>5 DEF HeldBy, Of
  <2>3. j.pc \in {"fresh_key", "lock", "commit"} =>
          \A a \in handed : a.recipient \in j.plan /\ a.to = j.to => a.index # j.seen
    BY <1>3, <1>5 DEF HeldBy, Of
  <2> QED BY <1>5, <1>8, <2>1, <2>2, <2>3 DEF ReadsHold
<1>11. Jobs' BY <1>1, <1>4, <1>5, <1>6, <1>9, <1>10, OneJobMoves DEF JobHolds
<1> QED BY <1>7, <1>11 DEF IInv

\* The address is handed again, or a fresh one is needed.
LEMMA ReuseUnpaidAddressStep ==
  ASSUME AddressBounds, IInv, NEW w \in Workers, ReuseUnpaidAddress(w) PROVE IInv'
<1>1. /\ Data /\ Jobs /\ Base /\ At(w, "usage") /\ Placed(handed, cursor, key)
      /\ UNCHANGED <<key, cursor, handed, used, pool, wallet>>
      /\ UNCHANGED faults \/ Fault
  BY DEF IInv, Data, ReuseUnpaidAddress
<1>2. /\ job[w] \in JobType /\ job[w].pc = "usage" /\ job[w].locked = {}
      /\ \A r \in Recipients : pool[r] # w
      /\ ReadsHold(job[w], handed, used, key, faults)
  BY <1>1, Unlocked DEF Jobs, JobHolds, At
<1>3. Quiet BY <1>1, FaultsAre DEF Quiet
<1>4. Data' BY <1>1, <1>3, DataQuiet DEF Base
<1>5. CASE Go(w, NoJob)
  <2>1. NoJob \in JobType BY NoJobIs
  <2>2. JobHolds(w, NoJob, handed, used, key, pool', faults')
    BY <1>1, <1>2, NoJobHolds DEF Base
  <2> QED BY <1>1, <1>3, <1>4, <1>5, <2>1, <2>2, OneJobMoves DEF IInv
<1>6. CASE /\ Go(w, [job[w] EXCEPT !.pc = "fresh_key"])
           /\ Fault \/ Latest(w).key # key[Latest(w).recipient] \/ Latest(w) \in used
  <2> DEFINE j == [job[w] EXCEPT !.pc = "fresh_key"]
  <2>1. /\ j \in JobType /\ j.pc = "fresh_key" /\ j.to = job[w].to /\ j.plan = job[w].plan
        /\ j.seen = job[w].seen /\ j.key = job[w].key /\ j.locked = {}
    BY <1>2 DEF JobType, Pcs
  <2>2. Go(w, j) BY <1>6
  <2> HIDE DEF j
  <2>3. LocksHold(w, j, pool') BY <1>1, <1>2, <2>1 DEF LocksHold
  <2>4. PICK r \in Recipients :
          job[w].plan = {r} /\ \E a \in handed : a.recipient = r /\ a.to = job[w].to
            /\ a.index = job[w].seen
    BY <1>2 DEF ReadsHold
  <2>5. PICK a \in handed : a.recipient = r /\ a.to = job[w].to /\ a.index = job[w].seen
    BY <2>4
  <2>6. \A b \in handed : b.recipient \in job[w].plan /\ b.to = job[w].to
          /\ b.index = job[w].seen
          => b = a
    BY <1>1, <2>4, <2>5 DEF Placed, Unique
  <2>7. Latest(w) = a BY <2>4, <2>5, <2>6 DEF Latest
  <2>8. faults' = 0 => Spent(a, used, key)
    <3>1. CASE Fault BY <1>1, <3>1 DEF Fault, Base, AddressBounds
    <3>2. CASE a \in used BY <3>2 DEF Spent
    <3>3. CASE a.key # key[a.recipient]
      <4>1. a.key <= key[a.recipient] /\ a.key \in {0, 1} /\ key[a.recipient] \in {0, 1}
        BY <1>1 DEF Placed, Base, Addresses
      <4> QED BY <3>3, <4>1 DEF Spent
    <3> QED BY <1>6, <2>7, <3>1, <3>2, <3>3
  <2>9. ReadsHold(j, handed, used, key, faults')
    BY <1>2, <2>1, <2>4, <2>5, <2>6, <2>8 DEF ReadsHold
  <2> QED BY <1>1, <1>3, <1>4, <2>1, <2>2, <2>3, <2>9, OneJobMoves DEF JobHolds, IInv
<1> QED BY <1>5, <1>6 DEF ReuseUnpaidAddress

LEMMA ReadFreshKeyStep ==
  ASSUME AddressBounds, IInv, NEW w \in Workers, ReadFreshKey(w) PROVE IInv'
<1>1. /\ Data /\ Jobs /\ Base /\ At(w, "fresh_key")
      /\ UNCHANGED <<key, cursor, handed, used, pool, wallet, faults>>
  BY DEF IInv, Data, ReadFreshKey
<1>2. /\ job[w] \in JobType /\ job[w].pc = "fresh_key" /\ job[w].locked = {}
      /\ \A r \in Recipients : pool[r] # w
      /\ ReadsHold(job[w], handed, used, key, faults)
  BY <1>1, Unlocked DEF Jobs, JobHolds, At
<1> DEFINE j == [job[w] EXCEPT !.pc = "lock", !.key = key]
<1>3. /\ j \in JobType /\ j.pc = "lock" /\ j.to = job[w].to /\ j.plan = job[w].plan
      /\ j.seen = job[w].seen /\ j.key = key /\ j.locked = {} /\ j.unpaid = job[w].unpaid
  BY <1>1, <1>2 DEF JobType, Pcs, Base
<1>4. Go(w, j) BY DEF ReadFreshKey
<1> HIDE DEF j
<1>5. Quiet BY <1>1 DEF Quiet, Base
<1>6. Data' BY <1>1, <1>5, DataQuiet DEF Base
<1>7. LocksHold(w, j, pool') BY <1>1, <1>2, <1>3 DEF LocksHold
<1>8. ReadsHold(j, handed, used, key, faults')
  BY <1>1, <1>2, <1>3 DEF ReadsHold, Base
<1>9. Jobs' BY <1>1, <1>3, <1>4, <1>5, <1>7, <1>8, OneJobMoves DEF JobHolds
<1> QED BY <1>6, <1>9 DEF IInv

-----------------------------------------------------------------------------
(***************************************************************************)
(* The transaction: the locks, and what is counted under them.             *)
(***************************************************************************)
\* What is unpaid of a recipient is a number.
LEMMA UnpaidIs ==
  ASSUME AddressBounds, Base, Unique(handed), NEW r
  PROVE  /\ Unpaid(r) = Cardinality(UnpaidOf(handed, used, r)) /\ Unpaid(r) \in 0..MaxIndex
         /\ IsFiniteSet(UnpaidOf(handed, used, r))
<1>1. handed \in SUBSET Addresses /\ MaxIndex \in Nat BY DEF Base, AddressBounds
<1>2. IsFiniteSet(From(handed, r)) /\ Cardinality(From(handed, r)) \in 0..MaxIndex
  BY <1>1, FromFinite
<1>3. UnpaidOf(handed, used, r) \subseteq From(handed, r) BY DEF UnpaidOf, From
<1>4. /\ IsFiniteSet(UnpaidOf(handed, used, r))
      /\ Cardinality(UnpaidOf(handed, used, r)) \in 0..MaxIndex
  BY <1>1, <1>2, <1>3, PartCounts
<1>5. UnpaidOf(handed, used, r) = {a \in Of(r) : a.to = Payment /\ a \notin used}
  BY DEF UnpaidOf, Of
<1> QED BY <1>4, <1>5 DEF Unpaid

\* The next recipient is locked, and its unpaid addresses counted.
LEMMA LockRecipientPoolStep ==
  ASSUME AddressBounds, IInv, NEW w \in Workers, LockRecipientPool(w) PROVE IInv'
<1>1. /\ Data /\ Jobs /\ Base /\ Unique(handed)
      /\ UNCHANGED <<key, cursor, handed, used, wallet, faults>>
  BY DEF IInv, Data, Placed, LockRecipientPool
<1>2. /\ job[w] \in JobType /\ job[w].pc = "lock" /\ LocksHold(w, job[w], pool)
      /\ ReadsHold(job[w], handed, used, key, faults)
  BY <1>1 DEF Jobs, JobHolds, LockRecipientPool, At
<1>3. PICK r \in NextPool(w) :
        /\ pool[r] = "free" /\ pool' = [pool EXCEPT ![r] = w]
        /\ Go(w, [job[w] EXCEPT !.locked = @ \cup {r}, !.unpaid[r] = Unpaid(r),
                    !.pc = IF job[w].plan = job[w].locked \cup {r} THEN "commit" ELSE "lock"])
  BY DEF LockRecipientPool
<1> DEFINE j == [job[w] EXCEPT !.locked = @ \cup {r}, !.unpaid[r] = Unpaid(r),
                   !.pc = IF job[w].plan = job[w].locked \cup {r} THEN "commit" ELSE "lock"]
<1>4. /\ r \in job[w].plan /\ r \notin job[w].locked /\ r \in Recipients
      /\ \A q \in job[w].plan \ job[w].locked : r <= q
  BY <1>2 DEF NextPool, JobType
<1>5. /\ Unpaid(r) = Cardinality(UnpaidOf(handed, used, r)) /\ Unpaid(r) \in 0..MaxIndex
  BY ZenonT(60), <1>1, UnpaidIs
<1>6. /\ j \in JobType /\ j.locked = job[w].locked \cup {r} /\ j.to = job[w].to
      /\ j.pc = (IF job[w].plan = job[w].locked \cup {r} THEN "commit" ELSE "lock")
      /\ j.plan = job[w].plan /\ j.key = job[w].key /\ j.seen = job[w].seen
      /\ j.unpaid[r] = Unpaid(r)
      /\ \A q \in Recipients : q # r => j.unpaid[q] = job[w].unpaid[q]
  BY ZenonT(60), <1>2, <1>4, <1>5 DEF JobType, Pcs
<1>7. Go(w, j) BY <1>3
<1> HIDE DEF j
<1>8. Quiet BY <1>1 DEF Quiet, Base
<1>9. /\ pool' \in [Recipients -> Workers \cup {"free"}]
      /\ pool'[r] = w /\ \A q \in Recipients : q # r => pool'[q] = pool[q]
  BY <1>1, <1>3, <1>4 DEF Base
<1>10. Data' BY <1>1, <1>8, <1>9, DataQuiet
<1>11. \A x \in Workers \ {w} : \A q \in Recipients : pool'[q] = x <=> pool[q] = x
  BY <1>3, <1>9 DEF AddressBounds
<1>12. LocksHold(w, j, pool')
  <2>1. \A q \in Recipients : pool'[q] = w <=> q \in j.locked
    BY <1>2, <1>6, <1>9 DEF LocksHold
  <2>2. \A l \in j.locked, q \in j.plan \ j.locked : l < q
    BY <1>2, <1>4, <1>6 DEF LocksHold, JobType, Recipients
  <2> QED BY <1>2, <1>4, <1>6, <2>1, <2>2 DEF LocksHold
<1>13. ReadsHold(j, handed, used, key, faults')
  <2>1. j.to = Payment
          => \A q \in j.locked : Cardinality(UnpaidOf(handed, used, q)) <= j.unpaid[q]
    BY <1>2, <1>4, <1>5, <1>6 DEF ReadsHold, LocksHold, JobType
  <2> QED BY <1>1, <1>2, <1>6, <2>1 DEF ReadsHold
<1>14. Jobs' BY <1>1, <1>6, <1>7, <1>8, <1>11, <1>12, <1>13, OneJobMoves DEF JobHolds
<1> QED BY <1>10, <1>14 DEF IInv

\* The locks of a transaction end with it.
LEMMA ReleaseIs ==
  ASSUME AddressBounds, Base, NEW w \in Workers, Release(w)
  PROVE  /\ pool' \in [Recipients -> Workers \cup {"free"}]
         /\ \A r \in Recipients : pool'[r] # w
         /\ \A x \in Workers \ {w} : \A r \in Recipients : pool'[r] = x <=> pool[r] = x
<1>1. pool \in [Recipients -> Workers \cup {"free"}] /\ "free" \notin Workers
  BY DEF Base, AddressBounds
<1>2. \A r \in Recipients : pool'[r] = IF pool[r] = w THEN "free" ELSE pool[r]
  BY DEF Release
<1>3. pool' \in [Recipients -> Workers \cup {"free"}] BY <1>1 DEF Release
<1> QED BY <1>1, <1>2, <1>3

\* A transaction rolls back, or is refused: its request is over.
LEMMA OverHolds ==
  ASSUME AddressBounds, IInv, NEW w \in Workers, Quiet, Release(w), Go(w, NoJob) PROVE IInv'
<1>1. Data /\ Jobs /\ Base BY DEF IInv, Data
<1>2. /\ pool' \in [Recipients -> Workers \cup {"free"}]
      /\ \A r \in Recipients : pool'[r] # w
      /\ \A x \in Workers \ {w} : \A r \in Recipients : pool'[r] = x <=> pool[r] = x
  BY <1>1, ReleaseIs
<1>3. Data' BY <1>1, <1>2, DataQuiet
<1>4. NoJob \in JobType BY NoJobIs
<1>5. JobHolds(w, NoJob, handed, used, key, pool', faults')
  BY <1>1, <1>2, NoJobHolds DEF Base
<1>6. Jobs' BY <1>1, <1>2, <1>4, <1>5, OneJobMoves
<1> QED BY <1>3, <1>6 DEF IInv

LEMMA RollbackStep ==
  ASSUME AddressBounds, IInv, NEW w \in Workers, Rollback(w) PROVE IInv'
<1>1. Base /\ Fault /\ UNCHANGED <<key, cursor, handed, used, wallet>>
  BY DEF IInv, Data, Rollback
<1>2. Quiet BY <1>1, FaultsAre DEF Quiet
<1> QED BY <1>2, OverHolds DEF Rollback

-----------------------------------------------------------------------------
(***************************************************************************)
(* The commit: one new address of each recipient of the plan.              *)
(***************************************************************************)
\* The addresses a commit hands out.
Fresh(N, w) ==
  \A b \in N : /\ b.recipient \in job[w].plan /\ b.index = cursor[b.recipient].next
               /\ b.key = job[w].key[b.recipient] /\ b.to = job[w].to

New(w) == {Reserved(w, r) : r \in job[w].plan}

LEMMA ReservedIs ==
  ASSUME NEW w, NEW r
  PROVE  LET b == Reserved(w, r) IN
         b.recipient = r /\ b.index = cursor[r].next /\ b.key = job[w].key[r]
           /\ b.to = job[w].to
BY DEF Reserved

\* What holds of a request whose transaction commits.
Committing(w) ==
  /\ job[w] \in JobType /\ job[w].pc = "commit" /\ job[w].locked = job[w].plan
  /\ \A r \in Recipients : pool[r] = w <=> r \in job[w].plan
  /\ ReadsHold(job[w], handed, used, key, faults)
  /\ \A r \in job[w].plan : cursor[r].next <= MaxIndex
  /\ job[w].to \in Senders \cup {Payment}

LEMMA NewIs ==
  ASSUME AddressBounds, Base, Placed(handed, cursor, key), NEW w \in Workers, Committing(w)
  PROVE  /\ New(w) \in SUBSET Addresses /\ Fresh(New(w), w)
         /\ \A a \in handed, b \in New(w) : a.recipient = b.recipient => a.index < b.index
         /\ \A r \in job[w].plan : Reserved(w, r) \in New(w) /\ Reserved(w, r) \notin handed
         /\ \A b \in New(w) : b = Reserved(w, b.recipient)
<1>1. Fresh(New(w), w) /\ \A b \in New(w) : b = Reserved(w, b.recipient)
  BY ReservedIs DEF New, Fresh
<1>2. \A a \in handed, b \in New(w) : a.recipient = b.recipient => a.index < b.index
  BY <1>1 DEF Fresh, Placed
<1>3. ASSUME NEW r \in job[w].plan PROVE Reserved(w, r) \in Addresses
  <2>1. r \in Recipients BY <1>3 DEF Committing, JobType
  <2>2. cursor[r].next \in 1..MaxIndex BY <1>3, <2>1 DEF Committing, Base, AddressBounds
  <2>3. job[w].key[r] \in {0, 1} BY <2>1 DEF Committing, JobType
  <2> QED BY <2>1, <2>2, <2>3 DEF Committing, Reserved, Addresses
<1>4. ASSUME NEW r \in job[w].plan
      PROVE  Reserved(w, r) \in New(w) /\ Reserved(w, r) \notin handed
  <2>1. Reserved(w, r) \in New(w) BY DEF New
  <2>2. Reserved(w, r) \in handed => Reserved(w, r).index < Reserved(w, r).index
    BY <1>2, <2>1
  <2>3. Reserved(w, r).index \in Nat BY <1>3 DEF Addresses
  <2> QED BY <2>1, <2>2, <2>3
<1> QED BY <1>1, <1>2, <1>3, <1>4 DEF New

\* What was handed out before and what is new are told apart by recipient and index.
LEMMA PlacedAfter ==
  ASSUME AddressBounds, Base, Placed(handed, cursor, key), NEW w \in Workers, Committing(w),
         cursor' = [r \in Recipients |-> IF r \in job[w].plan
                      THEN [next |-> cursor[r].next + 1, key |-> job[w].key[r]]
                      ELSE cursor[r]]
  PROVE  /\ cursor' \in [Recipients -> [next : 1..(MaxIndex + 1), key : {0, 1}]]
         /\ \A r \in Recipients : cursor[r].next <= cursor'[r].next
         /\ Placed(handed \cup New(w), cursor', key)
<1>1. /\ New(w) \in SUBSET Addresses /\ Fresh(New(w), w)
      /\ \A a \in handed, b \in New(w) : a.recipient = b.recipient => a.index < b.index
      /\ \A b \in New(w) : b = Reserved(w, b.recipient)
  BY NewIs
<1>2. /\ handed \in SUBSET Addresses /\ MaxIndex \in Nat
      /\ cursor \in [Recipients -> [next : 1..(MaxIndex + 1), key : {0, 1}]]
      /\ key \in [Recipients -> {0, 1}]
  BY DEF Base, AddressBounds
<1>3. ASSUME NEW r \in Recipients, r \in job[w].plan
      PROVE  /\ cursor'[r] = [next |-> cursor[r].next + 1, key |-> job[w].key[r]]
             /\ cursor[r].next + 1 \in 1..(MaxIndex + 1) /\ job[w].key[r] \in {0, 1}
  BY <1>2, <1>3 DEF Committing, JobType
<1>4. \A r \in Recipients : r \notin job[w].plan => cursor'[r] = cursor[r] OBVIOUS
<1>5. \A r \in Recipients :
        /\ cursor'[r] \in [next : 1..(MaxIndex + 1), key : {0, 1}]
        /\ cursor[r].next <= cursor'[r].next
        /\ r \in job[w].plan => cursor'[r].next = cursor[r].next + 1
  BY <1>2, <1>3, <1>4
<1>6. cursor' \in [Recipients -> [next : 1..(MaxIndex + 1), key : {0, 1}]] BY <1>5
<1>7. Unique(handed \cup New(w))
  <2>1. Unique(handed) BY DEF Placed
  <2>2. \A a, b \in New(w) : a.recipient = b.recipient => a = b BY <1>1
  <2>3. \A a \in handed, b \in New(w) : a.recipient = b.recipient => a.index # b.index
    <3>1. ASSUME NEW a \in handed, NEW b \in New(w), a.recipient = b.recipient
          PROVE  a.index # b.index
      <4>1. a.index < b.index /\ a.index \in Nat /\ b.index \in Nat
        BY <1>1, <1>2, <3>1 DEF Addresses
      <4> QED BY <4>1
    <3> QED BY <3>1
  <2> QED BY <2>1, <2>2, <2>3 DEF Unique
<1>8. ASSUME NEW a \in handed \cup New(w)
      PROVE  a.index < cursor'[a.recipient].next /\ a.key <= key[a.recipient]
  <2>1. a.recipient \in Recipients /\ a.index \in Nat BY <1>1, <1>2 DEF Addresses
  <2>2. CASE a \in handed
    <3>1. a.index < cursor[a.recipient].next /\ a.key <= key[a.recipient]
      BY <2>2 DEF Placed
    <3>2. cursor[a.recipient].next \in Nat /\ cursor'[a.recipient].next \in Nat
      BY <1>2, <1>6, <2>1
    <3> QED BY <1>5, <2>1, <3>1, <3>2
  <2>3. CASE a \in New(w)
    <3>1. /\ a.recipient \in job[w].plan /\ a.index = cursor[a.recipient].next
          /\ a.key = job[w].key[a.recipient]
      BY <1>1, <2>3 DEF Fresh
    <3>2. a.key <= key[a.recipient] BY <2>1, <3>1 DEF Committing, ReadsHold
    <3> QED BY <1>5, <2>1, <3>1, <3>2
  <2> QED BY <2>2, <2>3
<1> QED BY <1>5, <1>6, <1>7, <1>8 DEF Placed

\* What a sender held before is spent when it is handed another address.
LEMMA OrderlyAfter ==
  ASSUME AddressBounds, Data, NEW w \in Workers, Committing(w), MayReserve(w)
  PROVE  Orderly(handed \cup New(w), used, key, faults)
<1>1. /\ New(w) \in SUBSET Addresses /\ Fresh(New(w), w)
      /\ \A a \in handed, b \in New(w) : a.recipient = b.recipient => a.index < b.index
      /\ \A b \in New(w) : b = Reserved(w, b.recipient)
  BY NewIs DEF Data
<1>2. handed \in SUBSET Addresses /\ Orderly(handed, used, key, faults) /\ Base
  BY DEF Data, Base
<1> SUFFICES ASSUME faults = 0, NEW a \in handed \cup New(w), NEW b \in handed \cup New(w),
                    a.to # Payment, a.to = b.to, a.recipient = b.recipient, a.index < b.index
             PROVE  Spent(a, used, key)
  BY DEF Orderly
<1>3. a.index \in Nat /\ b.index \in Nat BY <1>1, <1>2 DEF Addresses
<1>4. CASE a \in handed /\ b \in handed BY <1>2, <1>4 DEF Orderly
<1>5. CASE a \in New(w) /\ b \in handed
  <2>1. b.index < a.index BY <1>1, <1>5
  <2> QED BY <1>3, <2>1
<1>6. CASE a \in New(w) /\ b \in New(w)
  <2>1. a = b BY <1>1, <1>6
  <2> QED BY <1>3, <2>1
<1>7. CASE a \in handed /\ b \in New(w)
  <2> DEFINE s == job[w].to
             n == job[w].seen
  <2>1. b.to = s /\ b.recipient \in job[w].plan BY <1>1, <1>7 DEF Fresh
  <2>2. PICK r \in Recipients :
          /\ job[w].plan = {r}
          /\ n = 0 \/ \E c \in handed : c.recipient = r /\ c.to = s /\ c.index = n
    BY <2>1 DEF Committing, ReadsHold
  <2>3. a.recipient = r /\ a.to = s BY <2>1, <2>2
  <2>4. LatestIndex(s, r) = n BY <2>1, <2>2 DEF MayReserve
  <2>5. a \in HeldBy(s, r) BY <1>7, <2>3 DEF HeldBy, Of
  <2>6. a.index <= n BY <1>2, <2>4, <2>5, LatestIs
  <2>7. a.index # 0 BY <1>2, <1>7 DEF Addresses
  <2>8. CASE a.index = n
    BY <1>7, <2>1, <2>2, <2>3, <2>8 DEF Committing, ReadsHold
  <2>9. CASE a.index # n
    <3>1. n \in Nat BY DEF Committing, JobType
    <3>2. n # 0 /\ a.index < n BY <1>3, <2>6, <2>7, <2>9, <3>1
    <3>3. PICK c \in handed : c.recipient = r /\ c.to = s /\ c.index = n BY <2>2, <3>2
    <3> QED BY <1>2, <1>7, <2>3, <3>2, <3>3 DEF Orderly
  <2> QED BY <2>8, <2>9
<1> QED BY <1>4, <1>5, <1>6, <1>7

\* The last place under a recipient's bound is taken by who counted it.
LEMMA BoundedAfter ==
  ASSUME AddressBounds, Data, NEW w \in Workers, Committing(w), MayReserve(w)
  PROVE  Bounded(handed \cup New(w), used)
<1>1. /\ Fresh(New(w), w) /\ \A b \in New(w) : b = Reserved(w, b.recipient)
      /\ \A r \in job[w].plan : Reserved(w, r) \in New(w) /\ Reserved(w, r) \notin handed
  BY NewIs DEF Data
<1>2. Base /\ Unique(handed) /\ Bounded(handed, used) /\ used \subseteq handed
  BY DEF Data, Base, Placed
<1> SUFFICES ASSUME NEW r \in Recipients
             PROVE  Cardinality(UnpaidOf(handed \cup New(w), used, r)) <= MaxUnpaid
  BY DEF Bounded
<1> DEFINE S == UnpaidOf(handed, used, r)
           T == UnpaidOf(handed \cup New(w), used, r)
<1>3. IsFiniteSet(S) /\ Cardinality(S) \in Nat /\ Cardinality(S) <= MaxUnpaid
        /\ MaxUnpaid \in Nat
  BY <1>2, UnpaidIs DEF Bounded, AddressBounds
<1>4. CASE r \in job[w].plan /\ job[w].to = Payment
  <2> DEFINE x == Reserved(w, r)
  <2>1. x.recipient = r /\ x.to = Payment BY <1>4, ReservedIs
  <2>2. x \in New(w) /\ x \notin handed /\ x \notin used BY <1>1, <1>2, <1>4
  <2>3. \A b \in New(w) : b.recipient = r => b = x BY <1>1
  <2> HIDE DEF x
  <2>4. T = S \cup {x} /\ x \notin S BY <2>1, <2>2, <2>3 DEF UnpaidOf
  <2> HIDE DEF S, T
  <2>5. Cardinality(T) = Cardinality(S) + 1 BY <1>3, <2>4, OneMore
  <2>6. Cardinality(S) <= job[w].unpaid[r] /\ job[w].unpaid[r] < MaxUnpaid
    BY <1>4 DEF Committing, ReadsHold, MayReserve, S
  <2>7. job[w].unpaid[r] \in Nat BY DEF Committing, JobType
  <2> QED BY <1>3, <2>5, <2>6, <2>7 DEF T
<1>5. CASE r \notin job[w].plan \/ job[w].to # Payment
  <2>1. T = S BY <1>1, <1>5 DEF UnpaidOf, Fresh
  <2> HIDE DEF S, T
  <2>2. Cardinality(T) <= MaxUnpaid BY <1>3, <2>1
  <2> QED BY <2>2 DEF T
<1> QED BY <1>4, <1>5

\* A sender served already takes from one half only.
LEMMA HalvedAfter ==
  ASSUME AddressBounds, Data, NEW w \in Workers, Committing(w), MayReserve(w)
  PROVE  Halved(handed \cup New(w))
<1>1. /\ Fresh(New(w), w) /\ \A b \in New(w) : b = Reserved(w, b.recipient)
      /\ \A r \in job[w].plan : Reserved(w, r) \in New(w) /\ Reserved(w, r) \notin handed
  BY NewIs DEF Data
<1>2. Base /\ Unique(handed) /\ Halved(handed) /\ handed \in SUBSET Addresses
        /\ MaxIndex \in Nat
  BY DEF Data, Base, Placed, AddressBounds
<1> SUFFICES ASSUME NEW r \in Recipients
             PROVE  LET repeats == Cardinality(AttributedTo(handed \cup New(w), r))
                          - Cardinality({a.to : a \in AttributedTo(handed \cup New(w), r)})
                    IN repeats # 0 => repeats < MaxFresh \div 2
  BY DEF Halved
<1> DEFINE A == AttributedTo(handed, r)
           B == AttributedTo(handed \cup New(w), r)
           S == {a.to : a \in A}
           T == {a.to : a \in B}
<1>3. IsFiniteSet(A) /\ Cardinality(A) \in Nat
  <2>1. IsFiniteSet(From(handed, r)) BY <1>2, FromFinite
  <2>2. A \subseteq From(handed, r) BY DEF AttributedTo, From
  <2> QED BY <2>1, <2>2, PartCounts
<1>4. IsFiniteSet(S) /\ Cardinality(S) \in Nat BY <1>3, SendersFinite
<1>5. Cardinality(A) # Cardinality(S)
        => Cardinality(A) - Cardinality(S) < MaxFresh \div 2
  <2> HIDE DEF S
  <2>1. Cardinality(A) - Cardinality(S) # 0
          => Cardinality(A) - Cardinality(S) < MaxFresh \div 2
    BY <1>2 DEF Halved, S, A
  <2> QED BY <1>3, <1>4, <2>1
<1>6. MaxFresh \div 2 \in Nat BY DEF AddressBounds
<1>7. CASE r \in job[w].plan /\ job[w].to # Payment
  <2> DEFINE x == Reserved(w, r)
             s == job[w].to
  <2>1. x.recipient = r /\ x.to = s /\ s # Payment BY <1>7, ReservedIs
  <2>2. x \in New(w) /\ x \notin handed BY <1>1, <1>7
  <2>3. \A b \in New(w) : b.recipient = r => b = x BY <1>1
  <2>4. HasRoom(w, r) BY <1>7 DEF MayReserve
  <2> DEFINE mine == Cardinality(HeldBy(s, r))
  <2>5. Cardinality(Attributions(r)) < (IF mine = 0 THEN MaxFresh ELSE MaxFresh \div 2)
    BY <2>4 DEF HasRoom
  <2>6. Attributions(r) = A BY DEF Attributions, Of, AttributedTo
  <2>7. HeldBy(s, r) \subseteq A /\ \A a \in A : a.to = s => a \in HeldBy(s, r)
    BY <2>1 DEF HeldBy, Of, AttributedTo
  <2>8. IsFiniteSet(HeldBy(s, r)) BY <1>3, <2>7, PartCounts
  <2> HIDE DEF x
  <2>9. B = A \cup {x} /\ x \notin A BY <2>1, <2>2, <2>3 DEF AttributedTo
  <2>10. T = S \cup {s} BY <2>1, <2>9
  <2>11. s \in S => HeldBy(s, r) # {} BY <2>7
  <2> HIDE DEF A, B, S, T, s
  <2>12. Cardinality(B) = Cardinality(A) + 1 BY <1>3, <2>9, OneMore
  <2>13. CASE mine = 0
    <3>1. s \notin S BY <2>8, <2>11, <2>13, FS_EmptySet
    <3>2. Cardinality(T) = Cardinality(S) + 1 BY <1>4, <2>10, <3>1, OneMore
    <3> QED BY <1>3, <1>4, <1>5, <1>6, <2>12, <3>2 DEF B, T
  <2>14. CASE mine # 0
    <3>1. Cardinality(A) < MaxFresh \div 2 BY <2>5, <2>6, <2>14
    <3>2. IsFiniteSet(T) /\ Cardinality(T) \in Nat /\ s \in T
      BY <1>4, <2>10, FS_AddElement, FS_CardinalityType
    <3>3. Cardinality(T) # 0 BY <3>2, FS_EmptySet
    <3> QED BY <1>3, <1>6, <2>12, <3>1, <3>2, <3>3 DEF B, T
  <2> QED BY <2>13, <2>14
<1>8. CASE r \notin job[w].plan \/ job[w].to = Payment
  <2>1. B = A BY <1>1, <1>8 DEF AttributedTo, Fresh
  <2> HIDE DEF A, B, S
  <2>2. T = S BY <2>1 DEF S
  <2> HIDE DEF T
  <2>3. Cardinality(B) - Cardinality(T) # 0
          => Cardinality(B) - Cardinality(T) < MaxFresh \div 2
    BY <1>3, <1>4, <1>5, <2>1, <2>2
  <2> QED BY <2>3 DEF B, T
<1> QED BY <1>7, <1>8

\* Another request's locks and counts are of other recipients.
LEMMA OthersAfter ==
  ASSUME AddressBounds, Data, NEW w \in Workers, Committing(w), NEW x \in Workers, x # w,
         JobHolds(x, job[x], handed, used, key, pool, faults), job[x] \in JobType, Release(w)
  PROVE  JobHolds(x, job[x], handed \cup New(w), used, key, pool', faults)
<1> DEFINE j == job[x]
           H == handed \cup New(w)
<1>1. /\ New(w) \in SUBSET Addresses /\ Fresh(New(w), w)
      /\ \A a \in handed, b \in New(w) : a.recipient = b.recipient => a.index < b.index
  BY NewIs DEF Data
<1>2. Base /\ handed \in SUBSET Addresses BY DEF Data, Base
<1>3. LocksHold(x, j, pool) /\ ReadsHold(j, handed, used, key, faults) BY DEF JobHolds
<1>4. LocksHold(x, j, pool') BY <1>2, <1>3, ReleaseIs DEF LocksHold
<1>5. \A r \in j.locked : r \notin job[w].plan
  BY <1>3 DEF LocksHold, Committing, JobType
<1>6. j.to = Payment => \A r \in j.locked : Cardinality(UnpaidOf(H, used, r)) <= j.unpaid[r]
  <2>1. ASSUME NEW r \in j.locked PROVE UnpaidOf(H, used, r) = UnpaidOf(handed, used, r)
    BY <1>1, <1>5 DEF UnpaidOf, Fresh
  <2> QED BY <1>3, <2>1 DEF ReadsHold
<1>7. j.pc # "idle" /\ j.to # Payment =>
       /\ j.to \in Senders
       /\ \E r \in Recipients :
            /\ j.plan = {r}
            /\ \/ j.seen = 0 /\ j.pc # "usage"
               \/ \E a \in H : a.recipient = r /\ a.to = j.to /\ a.index = j.seen
  BY <1>3 DEF ReadsHold
<1>8. faults = 0 /\ j.to # Payment /\ j.pc \in {"fresh_key", "lock", "commit"} =>
       \A a \in H : a.recipient \in j.plan /\ a.to = j.to /\ a.index = j.seen
         => Spent(a, used, key)
  <2>1. ASSUME faults = 0, j.to # Payment, j.pc \in {"fresh_key", "lock", "commit"},
               NEW a \in New(w), a.recipient \in j.plan, a.to = j.to, a.index = j.seen
        PROVE  FALSE
    <3>1. PICK r \in Recipients :
            /\ j.plan = {r}
            /\ j.seen = 0
                 \/ \E b \in handed : b.recipient = r /\ b.to = j.to /\ b.index = j.seen
      BY <1>3, <2>1 DEF ReadsHold
    <3>2. a.index # 0 /\ a.index \in Nat BY <1>1, <2>1 DEF Addresses
    <3>3. PICK b \in handed : b.recipient = r /\ b.index = j.seen BY <2>1, <3>1, <3>2
    <3>4. b.index < a.index BY <1>1, <2>1, <3>1, <3>3
    <3> QED BY <2>1, <3>2, <3>3, <3>4
  <2> QED BY <1>3, <2>1 DEF ReadsHold
<1>9. ReadsHold(j, H, used, key, faults)
  BY <1>3, <1>6, <1>7, <1>8 DEF ReadsHold
<1> QED BY <1>4, <1>9 DEF JobHolds

\* Every index, its row and the end of the locks, in one commit.
LEMMA CommitStep ==
  ASSUME AddressBounds, IInv, NEW w \in Workers, Commit(w) PROVE IInv'
<1>1. /\ Data /\ Jobs /\ Base /\ Placed(handed, cursor, key)
           /\ Watched(handed, cursor, wallet)
      /\ UNCHANGED <<key, used, wallet, faults>> /\ Release(w) /\ Go(w, NoJob)
  BY DEF IInv, Data, Commit
<1>2. Committing(w)
  <2>1. /\ job[w] \in JobType /\ LocksHold(w, job[w], pool) /\ job[w].pc = "commit"
        /\ ReadsHold(job[w], handed, used, key, faults)
    BY <1>1 DEF Jobs, JobHolds, Commit, At
  <2>2. \A r \in job[w].plan : cursor[r].next <= MaxIndex BY DEF Commit
  <2> QED BY <2>1, <2>2 DEF Committing, LocksHold, ReadsHold
<1>3. CASE UNCHANGED <<cursor, handed>>
  <2>1. Quiet BY <1>1, <1>3 DEF Quiet, Base
  <2> QED BY <1>1, <2>1, OverHolds
<1>4. CASE /\ MayReserve(w) /\ handed' = handed \cup New(w)
           /\ cursor' = [r \in Recipients |-> IF r \in job[w].plan
                           THEN [next |-> cursor[r].next + 1, key |-> job[w].key[r]]
                           ELSE cursor[r]]
  <2>1. /\ New(w) \in SUBSET Addresses /\ Fresh(New(w), w) BY <1>1, <1>2, NewIs
  <2>2. /\ cursor' \in [Recipients -> [next : 1..(MaxIndex + 1), key : {0, 1}]]
        /\ \A r \in Recipients : cursor[r].next <= cursor'[r].next
        /\ Placed(handed', cursor', key')
    BY <1>1, <1>2, <1>4, PlacedAfter
  <2>3. /\ pool' \in [Recipients -> Workers \cup {"free"}]
        /\ \A r \in Recipients : pool'[r] # w
    BY <1>1, ReleaseIs
  <2>4. Base' BY <1>1, <1>4, <2>1, <2>2, <2>3 DEF Base
  <2>5. Watched(handed', cursor', wallet')
    <3>1. ASSUME NEW r \in Recipients
          PROVE  /\ wallet[r].after < cursor'[r].next /\ wallet[r].seen \subseteq handed'
                 /\ \A a \in handed' : a.recipient = r /\ a.index <= wallet[r].after
                      => a \in wallet[r].seen
      <4>1. /\ wallet[r].after \in Nat /\ cursor[r].next \in Nat /\ cursor'[r].next \in Nat
        BY <1>1, <2>2 DEF Base
      <4>2. wallet[r].after < cursor[r].next BY <1>1 DEF Watched
      <4>3. \A a \in New(w) : a.recipient = r => a.index = cursor[r].next BY <2>1 DEF Fresh
      <4>4. \A a \in New(w) : a.recipient = r => ~(a.index <= wallet[r].after)
        BY <4>1, <4>2, <4>3
      <4> QED BY <1>1, <1>4, <2>2, <4>1, <4>2, <4>4 DEF Watched
    <3> QED BY <1>1, <3>1 DEF Watched
  <2>6. Orderly(handed', used', key', faults') BY <1>1, <1>2, <1>4, OrderlyAfter
  <2>7. Bounded(handed', used') BY <1>1, <1>2, <1>4, BoundedAfter
  <2>8. Halved(handed') BY <1>1, <1>2, <1>4, HalvedAfter
  <2>9. Jobs'
    <3>1. NoJob \in JobType BY NoJobIs
    <3>2. job' \in [Workers -> JobType] BY <1>1, <3>1 DEF Jobs, Go
    <3>3. JobHolds(w, NoJob, handed', used', key', pool', faults')
      BY <1>1, <2>3, NoJobHolds DEF Base
    <3>4. ASSUME NEW x \in Workers, x # w
          PROVE  JobHolds(x, job'[x], handed', used', key', pool', faults')
      <4>1. job'[x] = job[x] BY <1>1, <3>4 DEF Jobs, Go
      <4>2. /\ JobHolds(x, job[x], handed, used, key, pool, faults) /\ job[x] \in JobType
        BY <1>1 DEF Jobs
      <4>3. JobHolds(x, job[x], handed \cup New(w), used, key, pool', faults)
        BY <1>1, <1>2, <3>4, <4>2, OthersAfter
      <4> QED BY <1>1, <1>4, <4>1, <4>3
    <3>5. job'[w] = NoJob BY <1>1 DEF Jobs, Go
    <3> QED BY <3>2, <3>3, <3>4, <3>5 DEF Jobs
  <2> QED BY <2>2, <2>4, <2>5, <2>6, <2>7, <2>8, <2>9 DEF IInv, Data
<1> QED BY <1>3, <1>4 DEF Commit, New

-----------------------------------------------------------------------------
(***************************************************************************)
(* The wallet, the coins, the keys.                                        *)
(***************************************************************************)
\* What requests hold stays while less is unpaid and keys only get newer.
LEMMA JobsStay ==
  ASSUME AddressBounds, Data, Jobs, UNCHANGED <<cursor, handed, pool, job, faults>>,
         used \subseteq used',
         key' \in [Recipients -> {0, 1}], \A r \in Recipients : key[r] <= key'[r]
  PROVE  Jobs'
<1>1. Base /\ Unique(handed) /\ handed \in SUBSET Addresses /\ key \in [Recipients -> {0, 1}]
  BY DEF Data, Base, Placed
<1>2. \A a \in handed : Spent(a, used, key) => Spent(a, used', key')
  BY <1>1 DEF Spent, Addresses
<1>3. ASSUME NEW r
      PROVE  Cardinality(UnpaidOf(handed, used', r)) <= Cardinality(UnpaidOf(handed, used, r))
  <2>1. UnpaidOf(handed, used', r) \subseteq UnpaidOf(handed, used, r) BY DEF UnpaidOf
  <2>2. IsFiniteSet(UnpaidOf(handed, used, r)) BY <1>1, UnpaidIs
  <2> QED BY <2>1, <2>2, PartCounts
<1>4. ASSUME NEW w \in Workers
      PROVE  JobHolds(w, job'[w], handed', used', key', pool', faults')
  <2> DEFINE j == job[w]
  <2>1. /\ j \in JobType /\ LocksHold(w, j, pool) /\ ReadsHold(j, handed, used, key, faults)
    BY DEF Jobs, JobHolds
  <2>2. \A r \in Recipients : j.key[r] \in {0, 1} BY <2>1 DEF JobType
  <2>3. \A r \in Recipients : j.key[r] <= key'[r]
    BY <1>1, <2>1, <2>2 DEF ReadsHold
  <2>4. j.to = Payment =>
          \A r \in j.locked : Cardinality(UnpaidOf(handed, used', r)) <= j.unpaid[r]
    <3>1. ASSUME j.to = Payment, NEW r \in j.locked
          PROVE  Cardinality(UnpaidOf(handed, used', r)) <= j.unpaid[r]
      <4>1. Cardinality(UnpaidOf(handed, used, r)) <= j.unpaid[r] BY <2>1, <3>1 DEF ReadsHold
      <4>2. j.unpaid[r] \in Nat BY <2>1 DEF JobType
      <4>3. /\ Cardinality(UnpaidOf(handed, used, r)) \in Nat
            /\ Cardinality(UnpaidOf(handed, used', r)) \in Nat
        <5>1. IsFiniteSet(UnpaidOf(handed, used, r)) BY <1>1, UnpaidIs
        <5>2. UnpaidOf(handed, used', r) \subseteq UnpaidOf(handed, used, r) BY DEF UnpaidOf
        <5> QED BY <5>1, <5>2, PartCounts
      <4> QED BY <1>3, <4>1, <4>2, <4>3
    <3> QED BY <3>1
  <2>5. ReadsHold(j, handed, used', key', faults)
    BY <1>2, <2>1, <2>3, <2>4 DEF ReadsHold
  <2> QED BY <2>1, <2>5 DEF JobHolds
<1> QED BY <1>4 DEF Jobs

\* A page is all that lies above the wallet's cursor, up to some index.
LEMMA ReadPageStep ==
  ASSUME AddressBounds, IInv, NEW r \in Recipients, ReadPage(r) PROVE IInv'
<1>1. /\ Data /\ Jobs /\ Base /\ Placed(handed, cursor, key)
           /\ Watched(handed, cursor, wallet)
      /\ UNCHANGED <<key, cursor, handed, used, pool, job, faults>>
  BY DEF IInv, Data, ReadPage
<1>2. PICK bound \in {a.index : a \in Above(r)} :
        wallet' = [wallet EXCEPT ![r] =
          [after |-> bound, seen |-> @.seen \cup {a \in Above(r) : a.index <= bound}]]
  BY DEF ReadPage
<1> DEFINE page == {a \in Above(r) : a.index <= bound}
<1>3. PICK a \in handed : a.recipient = r /\ a.index = bound BY <1>2 DEF Above, Of
<1>4. handed \in SUBSET Addresses BY <1>1 DEF Base
<1>5. /\ bound \in 0..MaxIndex /\ bound < cursor[r].next
  BY <1>1, <1>3, <1>4 DEF Addresses, AddressBounds, Placed
<1>6. page \subseteq handed BY DEF Above, Of
<1>7. /\ wallet[r] \in [after : 0..MaxIndex, seen : SUBSET Addresses]
      /\ wallet[r].seen \subseteq handed
  BY <1>1 DEF Base, Watched
<1>8. /\ \A b \in page : b.recipient = r /\ b.index <= bound
      /\ \A b \in handed : b.recipient = r /\ b.index > wallet[r].after /\ b.index <= bound
           => b \in page
  BY DEF Above, Of
<1> HIDE DEF page
<1>9. wallet' = [wallet EXCEPT ![r] = [after |-> bound, seen |-> wallet[r].seen \cup page]]
  BY <1>2 DEF page
<1>10. /\ wallet' \in [Recipients -> [after : 0..MaxIndex, seen : SUBSET Addresses]]
       /\ wallet'[r].after = bound /\ wallet'[r].seen = wallet[r].seen \cup page
       /\ \A q \in Recipients : q # r => wallet'[q] = wallet[q]
  BY <1>1, <1>4, <1>5, <1>6, <1>7, <1>9 DEF Base
<1>11. Base' BY <1>1, <1>10 DEF Base
<1>12. Watched(handed', cursor', wallet')
  <2>1. ASSUME NEW b \in handed, b.recipient = r, b.index <= bound
        PROVE  b \in wallet'[r].seen
    <3>1. b.index \in Nat /\ wallet[r].after \in Nat BY <1>4, <1>7 DEF Addresses
    <3>2. CASE b.index > wallet[r].after BY <1>8, <1>10, <2>1, <3>2
    <3>3. CASE b.index <= wallet[r].after BY <1>1, <1>10, <2>1, <3>3 DEF Watched
    <3> QED BY <3>1, <3>2, <3>3
  <2>2. wallet'[r].after < cursor[r].next /\ wallet'[r].seen \subseteq handed
    BY <1>5, <1>6, <1>7, <1>10
  <2> QED BY <1>1, <1>10, <2>1, <2>2 DEF Watched
<1>13. Data' BY <1>1, <1>11, <1>12 DEF Data
<1>14. Jobs' BY <1>1 DEF Jobs
<1> QED BY <1>13, <1>14 DEF IInv

\* An address is paid.
LEMMA PayStep ==
  ASSUME AddressBounds, IInv, Pay PROVE IInv'
<1>1. /\ Data /\ Jobs /\ Base /\ Unique(handed) /\ Bounded(handed, used)
      /\ UNCHANGED <<key, cursor, handed, pool, job, wallet, faults>>
  BY DEF IInv, Data, Placed, Pay
<1>2. PICK a \in handed \ used : used' = used \cup {a} BY DEF Pay
<1>3. used \subseteq used' /\ used' \in SUBSET handed BY <1>1, <1>2 DEF Base
<1>4. Base' BY <1>1, <1>3 DEF Base
<1>5. Placed(handed', cursor', key') /\ Watched(handed', cursor', wallet') /\ Halved(handed')
  BY <1>1 DEF Data
<1>6. Orderly(handed', used', key', faults')
  BY <1>1, <1>3 DEF Data, Orderly, Spent
<1>7. Bounded(handed', used')
  <2>1. ASSUME NEW r \in Recipients PROVE Cardinality(UnpaidOf(handed, used', r)) <= MaxUnpaid
    <3>1. UnpaidOf(handed, used', r) \subseteq UnpaidOf(handed, used, r) BY <1>3 DEF UnpaidOf
    <3>2. IsFiniteSet(UnpaidOf(handed, used, r)) BY <1>1, UnpaidIs
    <3>3. Cardinality(UnpaidOf(handed, used, r)) <= MaxUnpaid BY <1>1 DEF Bounded
    <3> QED BY <3>1, <3>2, <3>3, PartCounts DEF AddressBounds
  <2> QED BY <1>1, <2>1 DEF Bounded
<1>8. Data' BY <1>4, <1>5, <1>6, <1>7 DEF Data
<1>9. key' \in [Recipients -> {0, 1}] /\ \A r \in Recipients : key[r] <= key'[r]
  BY <1>1 DEF Base
<1>10. Jobs' BY <1>1, <1>3, <1>9, JobsStay
<1> QED BY <1>8, <1>10 DEF IInv

\* A recipient's key is replaced.
LEMMA ReplaceKeyStep ==
  ASSUME AddressBounds, IInv, ReplaceKey PROVE IInv'
<1>1. /\ Data /\ Jobs /\ Base
      /\ UNCHANGED <<cursor, handed, used, pool, job, wallet, faults>>
  BY DEF IInv, Data, ReplaceKey
<1>2. key' \in [Recipients -> {0, 1}] /\ \A r \in Recipients : key[r] <= key'[r]
  BY <1>1 DEF ReplaceKey, Base
<1>3. Base' BY <1>1, <1>2 DEF Base
<1>4. \A a \in handed : a.recipient \in Recipients /\ a.key \in {0, 1}
  BY <1>1 DEF Base, Addresses
<1>5. Placed(handed', cursor', key')
  BY <1>1, <1>2, <1>4 DEF Data, Base, Placed
<1>6. Orderly(handed', used', key', faults')
  <2>1. \A a \in handed : Spent(a, used, key) => Spent(a, used, key')
    BY SMTT(60), <1>1, <1>2, <1>4 DEF Spent, Base
  <2> QED BY <1>1, <2>1 DEF Data, Orderly
<1>7. Watched(handed', cursor', wallet') /\ Bounded(handed', used') /\ Halved(handed')
  BY <1>1 DEF Data
<1>8. Data' BY <1>3, <1>5, <1>6, <1>7 DEF Data
<1>9. Jobs' BY <1>1, <1>2, JobsStay
<1> QED BY <1>8, <1>9 DEF IInv

-----------------------------------------------------------------------------
\* At first nothing is handed out.
LEMMA InitHolds ==
  ASSUME AddressBounds, Init PROVE IInv
<1>1. Base BY DEF Init, Base, AddressBounds
<1>2. Placed(handed, cursor, key) BY DEF Init, Placed, Unique
<1>3. Watched(handed, cursor, wallet) BY DEF Init, Watched
<1>4. Orderly(handed, used, key, faults) BY DEF Init, Orderly
<1>5. Bounded(handed, used)
  <2>1. \A r \in Recipients : UnpaidOf(handed, used, r) = {} BY DEF Init, UnpaidOf
  <2> QED BY <2>1, FS_EmptySet DEF Bounded, AddressBounds
<1>6. Halved(handed)
  <2>1. \A r \in Recipients :
          AttributedTo(handed, r) = {} /\ {a.to : a \in AttributedTo(handed, r)} = {}
    BY DEF Init, AttributedTo
  <2> QED BY <2>1, FS_EmptySet DEF Halved
<1>7. Jobs
  <2>1. NoJob \in JobType BY NoJobIs
  <2>2. \A w \in Workers : \A r \in Recipients : pool[r] # w BY DEF Init, AddressBounds
  <2>3. \A w \in Workers : JobHolds(w, NoJob, handed, used, key, pool, faults)
    BY <1>1, <2>2, NoJobHolds DEF Base
  <2> QED BY <2>1, <2>3 DEF Jobs, Init
<1> QED BY <1>1, <1>2, <1>3, <1>4, <1>5, <1>6, <1>7 DEF IInv, Data

LEMMA NextHolds ==
  ASSUME AddressBounds, IInv, [Next]_vars PROVE IInv'
<1>1. CASE UNCHANGED vars
  <2>1. UNCHANGED <<key, cursor, handed, used, pool, job, wallet, faults>> BY <1>1 DEF vars
  <2>2. Data' BY <2>1 DEF IInv, Data, Base
  <2>3. Jobs' BY <2>1 DEF IInv, Jobs
  <2> QED BY <2>2, <2>3 DEF IInv
<1>2. ASSUME NEW w \in Workers, Step(w) PROVE IInv'
  BY <1>2, PlanPaymentStep, AskAddressStep, ReuseUnpaidAddressStep, ReadFreshKeyStep,
     LockRecipientPoolStep, CommitStep, RollbackStep DEF Step
<1>3. ASSUME NEW r \in Recipients, ReadPage(r) PROVE IInv' BY <1>3, ReadPageStep
<1> QED BY <1>1, <1>2, <1>3, PayStep, ReplaceKeyStep DEF Next

\* What was handed out, what was read and what is locked stay consistent.
THEOREM Invariance == AddressBounds /\ Spec => []IInv
<1>1. ASSUME AddressBounds PROVE Spec => []IInv
  <2>1. Init => IInv BY <1>1, InitHolds
  <2>2. IInv /\ [Next]_vars => IInv' BY <1>1, NextHolds
  <2> QED BY <2>1, <2>2, PTL DEF Spec
<1> QED BY <1>1

\* Type correctness: cursors, addresses, locks and requests are of the kinds the
\* code stores.
THEOREM TypesHold == AddressBounds /\ Spec => []TypeOK
<1>1. IInv => TypeOK
  BY DEF IInv, Data, Base, Jobs, Watched, TypeOK, JobType
<1> QED BY <1>1, Invariance, PTL

\* An address is handed to one payment or one sender, ever.
THEOREM NeverReusedHolds == AddressBounds /\ Spec => []NeverReused
<1>1. IInv => NeverReused BY DEF IInv, Data, Placed, Unique, NeverReused
<1> QED BY <1>1, Invariance, PTL

\* The sync cursor is exact: a wallet watches everything handed out at or below
\* the last index it saw (listReceiveAddresses).
THEOREM SyncMissesNothingHolds == AddressBounds /\ Spec => []SyncMissesNothing
<1>1. IInv => SyncMissesNothing BY DEF IInv, Data, Watched, SyncMissesNothing, Of
<1> QED BY <1>1, Invariance, PTL

\* Concurrent confirms cannot both take the last place under a recipient's bound.
THEOREM UnpaidWithinBoundHolds == AddressBounds /\ Spec => []UnpaidWithinBound
<1>1. ASSUME AddressBounds, IInv PROVE UnpaidWithinBound
  BY <1>1, UnpaidIs DEF IInv, Data, Placed, Bounded, UnpaidWithinBound
<1>2. ASSUME AddressBounds PROVE Spec => []UnpaidWithinBound
  <2>1. IInv => UnpaidWithinBound BY <1>1, <1>2
  <2>2. Spec => []IInv BY <1>2, Invariance
  <2> QED BY <2>1, <2>2, PTL
<1> QED BY <1>2

\* However many requests a sender makes at once, it holds one unpaid address of a
\* recipient at most, while the explorer can tell (reuseUnpaidSocialAddress).
THEOREM OneUnpaidHolds == AddressBounds /\ Spec => []OneUnpaidPerSender
<1>1. ASSUME AddressBounds, IInv PROVE OneUnpaidPerSender
  <2>1. /\ Orderly(handed, used, key, faults) /\ Unique(handed) /\ handed \in SUBSET Addresses
        /\ key \in [Recipients -> {0, 1}]
    BY <1>1 DEF IInv, Data, Placed, Base
  <2>2. ASSUME faults = 0, NEW r \in Recipients, NEW s \in Senders
        PROVE  Cardinality({a \in HeldBy(s, r) \ used : a.key = key[r]}) <= 1
    <3> DEFINE S == {a \in HeldBy(s, r) \ used : a.key = key[r]}
    <3>1. s # Payment BY <1>1 DEF AddressBounds
    <3>2. ASSUME NEW a \in S, NEW b \in S PROVE a = b
      <4>1. /\ a \in handed /\ b \in handed /\ a.recipient = r /\ b.recipient = r
            /\ a.to = s /\ b.to = s /\ a \notin used /\ b \notin used
            /\ a.key = key[r] /\ b.key = key[r]
        BY DEF HeldBy, Of
      <4>2. a.index \in Nat /\ b.index \in Nat /\ key[r] \in Nat BY <2>1, <4>1 DEF Addresses
      <4>3. ~Spent(a, used, key) /\ ~Spent(b, used, key) BY <4>1, <4>2 DEF Spent
      <4>4. ~(a.index < b.index) /\ ~(b.index < a.index)
        BY <2>1, <2>2, <3>1, <4>1, <4>3 DEF Orderly
      <4>5. a.index = b.index BY <4>2, <4>4
      <4> QED BY <2>1, <4>1, <4>5 DEF Unique
    <3> HIDE DEF S
    <3>3. Cardinality(S) <= 1
      <4>1. CASE S = {} BY <4>1, FS_EmptySet
      <4>2. CASE S # {}
        <5>1. PICK a \in S : TRUE BY <4>2
        <5>2. S = {a} BY <3>2, <5>1
        <5>3. Cardinality({a}) = 1 BY FS_Singleton
        <5> QED BY <5>2, <5>3
      <4> QED BY <4>1, <4>2
    <3> QED BY <3>3 DEF S
  <2> QED BY <2>2 DEF OneUnpaidPerSender
<1>2. ASSUME AddressBounds PROVE Spec => []OneUnpaidPerSender
  <2>1. IInv => OneUnpaidPerSender BY <1>1, <1>2
  <2>2. Spec => []IInv BY <1>2, Invariance
  <2> QED BY <2>1, <2>2, PTL
<1> QED BY <1>2

\* Half of a recipient's day is kept for senders it has not served.
THEOREM RepeatsHold == AddressBounds /\ Spec => []RepeatsWithinHalf
<1>1. ASSUME IInv PROVE RepeatsWithinHalf
  <2>1. Halved(handed) BY <1>1 DEF IInv, Data
  <2>2. \A r \in Recipients : Attributions(r) = AttributedTo(handed, r)
    BY DEF Attributions, Of, AttributedTo
  <2> QED BY <2>1, <2>2 DEF Halved, RepeatsWithinHalf
<1> QED BY <1>1, Invariance, PTL

\* No two payments wait for each other's recipients: the one that waits for the
\* higher recipient holds it no longer than it takes (lockRecipientPool, in order).
THEOREM NoLockCycleHolds == AddressBounds /\ Spec => []NoLockCycle
<1>1. ASSUME IInv PROVE NoLockCycle
  <2> SUFFICES ASSUME NEW v \in Workers, NEW w \in Workers,
                      NextPool(v) # {}, NextPool(w) # {},
                      \A r \in NextPool(v) : pool[r] = w,
                      \A r \in NextPool(w) : pool[r] = v
               PROVE  FALSE
    BY DEF NoLockCycle
  <2>1. /\ LocksHold(v, job[v], pool) /\ LocksHold(w, job[w], pool)
        /\ job[v] \in JobType /\ job[w] \in JobType
    BY <1>1 DEF IInv, Jobs, JobHolds
  <2>2. PICK p \in NextPool(v) : TRUE OBVIOUS
  <2>3. PICK q \in NextPool(w) : TRUE OBVIOUS
  <2>4. /\ p \in job[v].plan \ job[v].locked /\ q \in job[w].plan \ job[w].locked
        /\ p \in Recipients /\ q \in Recipients
    BY <2>1, <2>2, <2>3 DEF NextPool, JobType
  <2>5. p \in job[w].locked /\ q \in job[v].locked
    BY <2>1, <2>2, <2>3, <2>4 DEF LocksHold
  <2>6. p < q /\ q < p BY <2>1, <2>4, <2>5 DEF LocksHold
  <2>7. p \in Nat /\ q \in Nat BY <2>4 DEF Recipients
  <2> QED BY <2>6, <2>7
<1> QED BY <1>1, Invariance, PTL

-----------------------------------------------------------------------------
(*****************************************************************************)
(* Settling a FairCoin payment, for any tasks, overlap of their polls,       *)
(* threshold, depth and bounds. A poll writes what it concluded from a       *)
(* copy of the row and from readings that may be old by then. What makes     *)
(* that safe is that nothing it relies on is taken back: a depth that was    *)
(* reached is lost only to a reorganisation, a row that names the            *)
(* transaction that pays names it for good, and so does a stamp.             *)
(*****************************************************************************)
CONSTANTS Tasks, Overlap, Threshold, Depth, Indexed, MaxReorgs
VARIABLES row, net, tx, pays, reorgs, memory

Fair == INSTANCE FairSettlement

Txids == {"none", "own", "other"}
RowType == [status : Fair!Statuses, txid : Txids, conf : 0..Depth, stamped : BOOLEAN,
            aged : BOOLEAN]
MemoryType == [missing : Fair!Timers, suspect : Fair!Timers, unseen : Fair!Timers,
               block : 0..(MaxReorgs + 1)]
FairJobType == [pc : Fair!Pcs, old : RowType, to : Fair!Statuses, conf : 0..Depth,
    txid : Txids,
                stamp : BOOLEAN]

\* What a poll at work says of itself: success is of the payer's own
\* transaction, and so is whatever replaces another one.
Names(j) ==
  /\ j.pc # "write" => j.txid = j.old.txid
  /\ j.pc \in {"read", "tip", "judge", "keys"} => j.old.txid # "none"
  /\ j.pc \in {"judge", "keys", "usage"} => j.old.status # "succeeded"
  /\ j.pc = "tip" => j.to = "processing"
  /\ j.pc = "keys" => j.to = "succeeded"
  /\ j.pc = "write" => j.to \in {"processing", "succeeded", "canceled"}
  /\ j.pc = "write" /\ j.to # "canceled" => j.old.txid # "none"
  /\ j.pc = "write" /\ j.txid # j.old.txid => j.txid = "own" /\ j.to # "succeeded"
  /\ j.to = "succeeded" \/ j.old.status = "succeeded" => j.old.txid = "own"
  /\ j.to = "succeeded" => j.pc \in {"keys", "write"}

Types ==
  /\ row \in RowType
  /\ net \in {0, 1}
  /\ key \in {"current", "replaced", "replaced_before"}
  /\ tx \in [depth : -1..Depth, block : 1..(MaxReorgs + 1)]
  /\ pays \in BOOLEAN /\ reorgs \in 0..MaxReorgs /\ faults \in 0..MaxFaults
  /\ memory \in [Tasks -> MemoryType]
  /\ job \in [Fair!Checks -> FairJobType] /\ \A c \in Fair!Checks : Names(job[c])
  /\ tx.block <= reorgs + 1

\* The payment is deep enough, or was, and a reorganisation took that back.
Reached == tx.depth >= Threshold \/ reorgs > 0

\* What a status, a depth and a stamp written down anywhere mean.
Says(status, conf, stamped) ==
  /\ conf >= Threshold => Reached
  /\ status = "succeeded" => pays /\ Reached
  /\ status = "succeeded" /\ key = "replaced_before" => stamped

RowIsTrue ==
  /\ Says(row.status, row.conf, row.stamped)
  /\ row.status = "succeeded" => row.txid = "own"
  /\ row.status = "processing" => row.txid # "none"
  /\ row.status \in {"none", "requires_action"} => row.txid = "none"

\* A poll's copy, and what it is about to write over it.
PollIsTrue(j) ==
  /\ Says(j.old.status, j.old.conf, j.old.stamped)
  /\ Says(j.to, j.conf, j.pc = "keys" \/ j.old.stamped \/ j.stamp)
  /\ j.old.txid # "none" => row.txid # "none"
  /\ j.old.txid = "own" => row.txid = "own"
  /\ j.old.stamped => row.stamped
  /\ j.pc \in {"tip", "write"} /\ j.old.status = "succeeded" /\ j.to # "succeeded"
       => reorgs > 0 \/ faults > 1

\* Doubt about a settled payment has a cause.
DoubtIsFounded(m) ==
  reorgs = 0 =>
    /\ m.block \in {0, tx.block}
    /\ m.missing # "no" \/ m.suspect # "no" => faults > 0

Inv ==
  /\ Types
  /\ RowIsTrue
  /\ \A c \in Fair!Checks : PollIsTrue(job[c])
  /\ \A t \in Tasks : DoubtIsFounded(memory[t])
  /\ Fair!BooksFollow

-----------------------------------------------------------------------------
\* What every step leaves true of the past.
Onward ==
  /\ Reached => Reached'
  /\ pays' = pays /\ (reorgs > 0 => reorgs' > 0) /\ (faults > 0 => faults' > 0)
  /\ faults > 1 => faults' > 1
  /\ row.txid # "none" => row'.txid # "none"
  /\ row.txid = "own" => row'.txid = "own"
  /\ row.stamped => row'.stamped
  /\ key' = "replaced_before" => key = "replaced_before" \/ row.txid = "none"

\* What was true of a poll that a step leaves alone still is.
LEMMA PollStays ==
  ASSUME Onward, NEW j \in FairJobType, Names(j), PollIsTrue(j)
  PROVE  /\ Says(j.old.status, j.old.conf, j.old.stamped)'
         /\ Says(j.to, j.conf, j.pc = "keys" \/ j.old.stamped \/ j.stamp)'
         /\ PollIsTrue(j)'
<1>1. /\ j.to = "succeeded" \/ j.old.status = "succeeded" => j.old.txid = "own"
      /\ j.old.txid # "none" => row.txid # "none"
  BY DEF Names, PollIsTrue
<1>2. Says(j.old.status, j.old.conf, j.old.stamped)'
  BY <1>1 DEF PollIsTrue, Says, Onward
<1>3. Says(j.to, j.conf, j.pc = "keys" \/ j.old.stamped \/ j.stamp)'
  BY <1>1 DEF PollIsTrue, Says, Onward
<1> QED BY <1>2, <1>3 DEF PollIsTrue, Onward

\* A step that gives one poll something else to do.
LEMMA PollsFollow ==
  ASSUME Onward, Types, \A c \in Fair!Checks : PollIsTrue(job[c]),
         NEW c \in Fair!Checks, NEW j \in FairJobType, Fair!Go(c, j), Names(j), PollIsTrue(j)'
  PROVE  /\ job' \in [Fair!Checks -> FairJobType] /\ \A d \in Fair!Checks : Names(job'[d])
         /\ \A d \in Fair!Checks : PollIsTrue(job[d])'
<1>1. /\ job' \in [Fair!Checks -> FairJobType] /\ job'[c] = j
      /\ \A d \in Fair!Checks \ {c} : job'[d] = job[d]
  BY DEF Types, Fair!Go
<1>2. ASSUME NEW d \in Fair!Checks PROVE Names(job'[d]) /\ PollIsTrue(job[d])'
  <2>1. CASE d = c BY <1>1, <2>1 DEF PollIsTrue, Says
  <2>2. CASE d # c
    <3>1. PICK k \in FairJobType : k = job[d] BY DEF Types
    <3>2. Names(k) /\ PollIsTrue(k) /\ job'[d] = k BY <1>1, <2>2, <3>1 DEF Types
    <3>3. PollIsTrue(k)' BY <3>2, PollStays
    <3> QED BY <3>2, <3>3 DEF PollIsTrue, Says
  <2> QED BY <2>1, <2>2
<1> QED BY <1>1, <1>2

\* A step that moves no poll.
LEMMA PollsStay ==
  ASSUME Onward, Types, \A c \in Fair!Checks : PollIsTrue(job[c]), UNCHANGED job
  PROVE  /\ job' \in [Fair!Checks -> FairJobType] /\ \A d \in Fair!Checks : Names(job'[d])
         /\ \A d \in Fair!Checks : PollIsTrue(job[d])'
<1>1. ASSUME NEW d \in Fair!Checks PROVE PollIsTrue(job[d])'
  <2>1. PICK k \in FairJobType : k = job[d] BY DEF Types
  <2>2. PollIsTrue(k)' BY <2>1, PollStays DEF Types
  <2> QED BY <2>1, <2>2 DEF PollIsTrue, Says
<1> QED BY <1>1 DEF Types

LEMMA IdleIsTrue ==
  ASSUME Fair!SettlementBounds
  PROVE  Fair!Idle \in FairJobType /\ Names(Fair!Idle) /\ PollIsTrue(Fair!Idle)
           /\ PollIsTrue(Fair!Idle)'
BY DEF Fair!SettlementBounds, Fair!Idle, Fair!NewRow, FairJobType, RowType, Fair!Pcs,
   Fair!Statuses, Txids, Names, PollIsTrue, Says

LEMMA MemoryFollows ==
  ASSUME Types, \A t \in Tasks : DoubtIsFounded(memory[t]),
         tx' = tx, reorgs' = reorgs, faults > 0 => faults' > 0,
         NEW c \in Fair!Checks, NEW m \in MemoryType, Fair!Remember(c, m),
         reorgs = 0 => /\ m.block \in {0, tx.block}
                       /\ m.missing # "no" \/ m.suspect # "no" => faults' > 0
  PROVE  memory' \in [Tasks -> MemoryType] /\ \A t \in Tasks : DoubtIsFounded(memory[t])'
<1>1. /\ c[1] \in Tasks /\ memory' \in [Tasks -> MemoryType] /\ memory'[c[1]] = m
      /\ \A t \in Tasks \ {c[1]} : memory'[t] = memory[t]
  BY DEF Types, Fair!Remember, Fair!Checks
<1>2. ASSUME NEW t \in Tasks PROVE DoubtIsFounded(memory[t])'
  BY <1>1 DEF DoubtIsFounded
<1> QED BY <1>1, <1>2

LEMMA MemoryStays ==
  ASSUME Types, \A t \in Tasks : DoubtIsFounded(memory[t]), memory' = memory,
         tx'.block = tx.block \/ reorgs' > 0, reorgs' >= reorgs, reorgs' \in Nat,
         faults > 0 => faults' > 0
  PROVE  memory' \in [Tasks -> MemoryType] /\ \A t \in Tasks : DoubtIsFounded(memory[t])'
BY DEF Types, DoubtIsFounded

\* The compare-and-swap writes what may be said.
LEMMA RowFollows ==
  ASSUME Fair!SettlementBounds, Types, RowIsTrue, Fair!BooksFollow, Fair!chain'
    = Fair!chain, key' = key,
         NEW from, NEW to \in {"processing", "succeeded", "canceled"},
         NEW conf \in 0..Depth, NEW txid \in Txids, NEW stamp \in BOOLEAN,
         Fair!MoveRow(from, to, conf, txid, stamp),
         row.status = from => /\ conf >= Threshold => Reached
                              /\ to = "succeeded" => pays /\ Reached
                              /\ to = "succeeded" /\ key = "replaced_before"
                                   => row.stamped \/ stamp
                              /\ to = "processing" => txid # "none"
                              /\ to = "succeeded" => txid = "own"
                              /\ row.txid # "none" => txid # "none"
                              /\ row.txid = "own" => txid = "own"
  PROVE  /\ row' \in RowType /\ net' \in {0, 1} /\ RowIsTrue' /\ Fair!BooksFollow'
         /\ row.txid # "none" => row'.txid # "none"
         /\ row.txid = "own" => row'.txid = "own"
         /\ row.stamped => row'.stamped
<1>1. CASE row.status # from
  BY <1>1 DEF Fair!MoveRow, RowIsTrue, Says, Reached, Fair!chain, Fair!BooksFollow, Types
<1>2. CASE row.status = from
  <2>1. /\ row' = [status |-> to, txid |-> txid, conf |-> conf,
                   stamped |-> row.stamped \/ stamp, aged |-> FALSE]
        /\ net' = Fair!LedgerAfter(from, to)
    BY <1>2 DEF Fair!MoveRow
  <2>2. row.stamped \in BOOLEAN /\ (row.stamped \/ stamp) \in BOOLEAN
    BY DEF Types, RowType
  <2>3. row' \in RowType BY <2>1, <2>2 DEF RowType, Fair!Statuses
  <2>4. net' \in {0, 1} /\ Fair!BooksFollow'
    BY <1>2, <2>1 DEF Fair!LedgerAfter, Fair!BooksFollow, Types
  <2>5. Says(row.status, row.conf, row.stamped)'
    <3>1. row'.status = to /\ row'.conf = conf /\ row'.stamped = (row.stamped \/ stamp)
      BY <2>1
    <3>2. Says(row'.status, row'.conf, row'.stamped) BY <1>2, <3>1 DEF Says
    <3> QED BY <3>2 DEF Says, Reached, Fair!chain
  <2> QED BY <1>2, <2>1, <2>3, <2>4, <2>5 DEF RowIsTrue
<1> QED BY <1>1, <1>2

\* Where applyChainObservation leaves a poll.
LEMMA Observed ==
  ASSUME Fair!SettlementBounds, pays \in BOOLEAN, NEW j \in FairJobType, NEW conf
    \in 0..Depth,
         NEW k, k = Fair!Observe(j, conf)
  PROVE  /\ k \in FairJobType
         /\ \/ k = Fair!Idle
            \/ /\ k.old = j.old /\ k.txid = j.txid /\ k.stamp = j.stamp /\ k.conf = conf
               /\ k.to \in {"processing", "succeeded", "canceled"}
               /\ k.pc \in {"keys", "write"}
               /\ k.pc = "keys" => k.to = "succeeded"
               /\ k.to = "succeeded" => pays /\ conf >= Threshold
               /\ k.to = "succeeded" /\ k.pc = "write" => j.old.stamped
<1> DEFINE next == Fair!NextStatusFor(conf)
           pc == IF next = "succeeded" /\ ~j.old.stamped THEN "keys" ELSE "write"
<1>1. /\ next \in {"processing", "succeeded", "canceled"}
      /\ next = "succeeded" => pays /\ conf >= Threshold
  BY DEF Fair!NextStatusFor, Fair!SettlementBounds
<1>2. pc \in {"keys", "write"} OBVIOUS
<1>3. k = Fair!Idle \/ k = [j EXCEPT !.to = next, !.conf = conf, !.pc = pc]
  BY DEF Fair!Observe
<1>4. pc = "keys" => next = "succeeded" OBVIOUS
<1>5. next = "succeeded" /\ pc = "write" => j.old.stamped OBVIOUS
<1> HIDE DEF next, pc
<1>6. CASE k = Fair!Idle BY <1>6, IdleIsTrue
<1>7. CASE k = [j EXCEPT !.to = next, !.conf = conf, !.pc = pc]
  <2>1. /\ k \in FairJobType /\ k.old = j.old /\ k.txid = j.txid /\ k.stamp = j.stamp
        /\ k.conf = conf /\ k.to = next /\ k.pc = pc
    BY <1>1, <1>2, <1>7 DEF FairJobType, Fair!Pcs, Fair!Statuses
  <2> QED BY <1>1, <1>2, <1>4, <1>5, <2>1
<1> QED BY <1>3, <1>6, <1>7

-----------------------------------------------------------------------------
\* A step of a poll that leaves the row and the chain as they are.
FairQuiet == UNCHANGED <<row, net, key, Fair!chain>> /\ (UNCHANGED faults \/ Fair!Fault)

LEMMA QuietOnward ==
  ASSUME Fair!SettlementBounds, Types, FairQuiet
  PROVE  /\ Onward /\ faults' \in 0..MaxFaults /\ (faults > 0 => faults' > 0)
         /\ tx' = tx /\ reorgs' = reorgs
<1>1. /\ row' = row /\ key' = key /\ tx' = tx /\ pays' = pays /\ reorgs' = reorgs
      /\ Reached' = Reached
  BY DEF FairQuiet, Fair!chain, Reached
<1>2. faults' \in 0..MaxFaults /\ faults' >= faults
  BY DEF Fair!SettlementBounds, Types, FairQuiet, Fair!Fault
<1>3. (faults > 0 => faults' > 0) /\ (faults > 1 => faults' > 1)
  BY <1>2 DEF Fair!SettlementBounds, Types
<1> QED BY <1>1, <1>2, <1>3 DEF Onward

LEMMA PollActs ==
  ASSUME Fair!SettlementBounds, Inv, FairQuiet, NEW c \in Fair!Checks, NEW j
    \in FairJobType, Fair!Go(c, j),
         Names(j), PollIsTrue(j)', NEW m \in MemoryType, Fair!Remember(c, m),
         reorgs = 0 => /\ m.block \in {0, tx.block}
                       /\ m.missing # "no" \/ m.suspect # "no" => faults' > 0
  PROVE  Inv'
<1>1. /\ job' \in [Fair!Checks -> FairJobType] /\ \A d \in Fair!Checks : Names(job'[d])
      /\ \A d \in Fair!Checks : PollIsTrue(job[d])'
  BY QuietOnward, PollsFollow DEF Inv
<1>2. memory' \in [Tasks -> MemoryType] /\ \A t \in Tasks : DoubtIsFounded(memory[t])'
  BY QuietOnward, MemoryFollows DEF Inv
<1>3. RowIsTrue' /\ Fair!BooksFollow'
  BY DEF Inv, FairQuiet, Fair!chain, RowIsTrue, Fair!BooksFollow, Says, Reached
<1>4. Types'
  BY <1>1, <1>2, QuietOnward DEF Inv, Types, FairQuiet, Fair!chain
<1> QED BY <1>1, <1>2, <1>3, <1>4 DEF Inv

\* The same when the poll's task remembers nothing new.
LEMMA PollActsOnly ==
  ASSUME Fair!SettlementBounds, Inv, FairQuiet, NEW c \in Fair!Checks, NEW j
    \in FairJobType, Fair!Go(c, j),
         Names(j), PollIsTrue(j)', UNCHANGED memory
  PROVE  Inv'
<1>1. /\ job' \in [Fair!Checks -> FairJobType] /\ \A d \in Fair!Checks : Names(job'[d])
      /\ \A d \in Fair!Checks : PollIsTrue(job[d])'
  BY QuietOnward, PollsFollow DEF Inv
<1>2. memory' \in [Tasks -> MemoryType] /\ \A t \in Tasks : DoubtIsFounded(memory[t])'
  BY QuietOnward, MemoryStays DEF Inv, Types
<1>3. RowIsTrue' /\ Fair!BooksFollow'
  BY DEF Inv, FairQuiet, Fair!chain, RowIsTrue, Fair!BooksFollow, Says, Reached
<1>4. Types'
  BY <1>1, <1>2, QuietOnward DEF Inv, Types, FairQuiet, Fair!chain
<1> QED BY <1>1, <1>2, <1>3, <1>4 DEF Inv

\* What a poll holds before its step.
LEMMA Holds ==
  ASSUME Inv, NEW c \in Fair!Checks
  PROVE  /\ job[c] \in FairJobType /\ Names(job[c]) /\ PollIsTrue(job[c])
         /\ c[1] \in Tasks /\ memory[c[1]] \in MemoryType
         /\ DoubtIsFounded(memory[c[1]])
BY DEF Inv, Types, Fair!Checks

LEMMA ChangeIs ==
  ASSUME Fair!SettlementBounds, NEW c, job[c] \in FairJobType,
         NEW to \in Fair!Statuses, NEW conf \in 0..Depth
  PROVE  LET j == Fair!Change(c, to, conf)
         IN /\ j \in FairJobType /\ j.pc = "write" /\ j.to = to /\ j.conf = conf
            /\ j.old = job[c].old /\ j.txid = job[c].txid /\ j.stamp = job[c].stamp
BY DEF Fair!Change, FairJobType, Fair!Pcs

\* What one reading says.
LEMMA Readings ==
  ASSUME Fair!SettlementBounds, Types, NEW depth \in -1..Depth, depth <= tx.depth
  PROVE  /\ Fair!Seen(depth).found = (depth >= 0)
         /\ Fair!Seen(depth).conf \in 0..Depth
         /\ Fair!Seen(depth).conf >= Threshold => Reached
         /\ Fair!Seen(depth).conf # 0 => depth > 0 /\ Fair!Seen(depth).conf = depth
         /\ depth > 0 => Fair!Seen(depth).conf = depth
         /\ Fair!Seen(depth).block \in {0, tx.block}
BY DEF Fair!SettlementBounds, Types, Fair!Seen, Reached

\* recheckSettled rewinds only on a second reading that the chain, or two bad
\* readings, made doubtful.
LEMMA Rechecked ==
  ASSUME Fair!SettlementBounds, Inv, FairQuiet, NEW c \in Fair!Checks, Fair!At(c, "read"),
         job[c].old.status = "succeeded", NEW depth \in -1..Depth, depth <= tx.depth,
         faults' = faults => depth = tx.depth, Fair!RecheckSettled(c, Fair!Seen(depth))
  PROVE  Inv'
<1> PICK J \in FairJobType : J = job[c] BY Holds
<1> PICK m \in MemoryType : m = memory[c[1]] BY Holds
<1> PICK read : read = Fair!Seen(depth) OBVIOUS
<1> DEFINE unconfirmed == read.conf = 0
           moved == /\ m.block # 0 /\ ~unconfirmed /\ read.block # m.block
                    /\ read.conf < Threshold
<1>1. Names(J) /\ PollIsTrue(J) /\ DoubtIsFounded(m) /\ Types BY Holds DEF Inv
<1>2. /\ read.found <=> depth >= 0
      /\ read.conf \in 0..Depth
      /\ read.conf >= Threshold => Reached
      /\ depth > 0 => read.conf = depth
      /\ read.block \in {0, tx.block}
  BY <1>1, Readings
<1>b. 0 \in 0..(MaxReorgs + 1) /\ read.block \in 0..(MaxReorgs + 1)
  BY <1>1, <1>2 DEF Types, Fair!SettlementBounds
<1>3. J.pc = "read" /\ J.to # "succeeded" /\ J.txid = J.old.txid /\ J.old.txid = "own"
      /\ pays /\ Reached
  BY <1>1 DEF Names, PollIsTrue, Says, Fair!At
<1>4. ASSUME reorgs = 0, faults' = faults
      PROVE  read.found /\ read.conf >= Threshold /\ read.conf # 0
  <2>1. tx.depth >= Threshold /\ tx.depth = depth BY <1>1, <1>3, <1>4 DEF Reached, Types
  <2> QED BY <1>2, <2>1 DEF Fair!SettlementBounds
<1>5. /\ Onward /\ faults' \in 0..MaxFaults /\ faults \in Nat /\ faults' \in Nat
      /\ faults' = faults \/ faults' = faults + 1
      /\ faults > 0 => faults' > 0
      /\ tx' = tx /\ reorgs' = reorgs /\ reorgs \in Nat
  BY <1>1, QuietOnward DEF Types, FairQuiet, Fair!Fault
<1>6. reorgs = 0 /\ (~read.found \/ unconfirmed \/ moved) => faults' = faults + 1
  BY <1>2, <1>4, <1>5 DEF Fair!SettlementBounds
<1>7. reorgs = 0 => /\ m.block \in {0, tx.block}
                    /\ m.missing # "no" \/ m.suspect # "no" => faults > 0
  BY <1>1 DEF DoubtIsFounded
<1> PICK rewind : rewind = [Fair!Change(c, "processing", read.conf) EXCEPT
                                   !.pc = IF read.found THEN "write" ELSE "tip"]
  OBVIOUS
<1>8. /\ rewind \in FairJobType /\ rewind.old = J.old /\ rewind.to = "processing"
      /\ rewind.conf = read.conf /\ rewind.txid = J.txid /\ rewind.stamp = J.stamp
      /\ rewind.pc \in {"write", "tip"}
  BY <1>2, ChangeIs DEF Fair!Statuses, FairJobType, Fair!Pcs
<1>9. Names(rewind) BY <1>1, <1>3, <1>8 DEF Names
<1>10. PollIsTrue(J)' BY <1>1, <1>5, PollStays
<1>11. ASSUME reorgs = 0 => faults' > 1 PROVE PollIsTrue(rewind)'
  <2>1. Says(rewind.to, rewind.conf,
            rewind.pc = "keys" \/ rewind.old.stamped \/ rewind.stamp)'
    BY <1>2, <1>5, <1>8 DEF Says, Onward
  <2> QED BY <1>5, <1>8, <1>10, <1>11, <2>1 DEF PollIsTrue
<1>12. Fair!Idle \in FairJobType /\ Names(Fair!Idle) /\ PollIsTrue(Fair!Idle)' BY IdleIsTrue
<1>13. ASSUME ~read.found, Fair!RewindConfirmed(m.missing), Fair!Go(c, rewind),
              Fair!Remember(c, [m EXCEPT !.suspect = "no"])
       PROVE  Inv'
  <2>1. reorgs = 0 => faults' > 1
    BY <1>5, <1>6, <1>7, <1>13 DEF Fair!RewindConfirmed
  <2>2. PICK n : n = [m EXCEPT !.suspect = "no"] OBVIOUS
  <2>3. n \in MemoryType /\ n.block = m.block BY <2>2 DEF MemoryType, Fair!Timers
  <2>4. PollIsTrue(rewind)' BY <1>11, <2>1
  <2>5. reorgs = 0 => faults' > 0 BY <1>5, <2>1
  <2> QED BY <1>7, <1>8, <1>9, <1>13, <2>2, <2>3, <2>4, <2>5, PollActs
<1>14. ASSUME ~read.found, Fair!Go(c, Fair!Idle),
              Fair!Remember(c, [m EXCEPT !.suspect = "no",
                                  !.missing = IF m.missing = "no" THEN "since" ELSE @])
       PROVE  Inv'
  <2>1. PICK n : n = [m EXCEPT !.suspect = "no",
                        !.missing = IF m.missing = "no" THEN "since" ELSE @] OBVIOUS
  <2>2. n \in MemoryType /\ n.block = m.block BY <2>1 DEF MemoryType, Fair!Timers
  <2>3. reorgs = 0 => faults' > 0 BY <1>5, <1>6, <1>14
  <2> QED BY <1>7, <1>12, <1>14, <2>1, <2>2, <2>3, PollActs
<1>15. ASSUME unconfirmed \/ moved, Fair!RewindConfirmed(m.suspect), Fair!Go(c, rewind),
              Fair!Remember(c, [m EXCEPT !.missing = "no", !.suspect = "no", !.block = 0])
       PROVE  Inv'
  <2>1. reorgs = 0 => faults' > 1
    BY <1>5, <1>6, <1>7, <1>15 DEF Fair!RewindConfirmed
  <2>2. PICK n : n = [m EXCEPT !.missing = "no", !.suspect = "no", !.block = 0] OBVIOUS
  <2>3. n \in MemoryType /\ n.block = 0
    BY <1>b, <2>2 DEF MemoryType, Fair!Timers
  <2>4. PollIsTrue(rewind)' BY <1>11, <2>1
  <2>5. reorgs = 0 => faults' > 0 BY <1>5, <2>1
  <2> QED BY <1>8, <1>9, <1>15, <2>2, <2>3, <2>4, <2>5, PollActs
<1>16. ASSUME unconfirmed \/ moved, Fair!Go(c, Fair!Idle),
              Fair!Remember(c, [m EXCEPT !.missing = "no",
                                  !.suspect = IF m.suspect = "no" THEN "since" ELSE @])
       PROVE  Inv'
  <2>1. PICK n : n = [m EXCEPT !.missing = "no",
                        !.suspect = IF m.suspect = "no" THEN "since" ELSE @] OBVIOUS
  <2>2. n \in MemoryType /\ n.block = m.block BY <2>1 DEF MemoryType, Fair!Timers
  <2>3. reorgs = 0 => faults' > 0 BY <1>5, <1>6, <1>16
  <2> QED BY <1>7, <1>12, <1>16, <2>1, <2>2, <2>3, PollActs
<1>17. ASSUME ~unconfirmed, ~moved,
              Fair!Remember(c, [m EXCEPT !.missing = "no", !.suspect = "no",
                  !.block = read.block]),
              \/ Fair!Go(c, Fair!Change(c, "succeeded", read.conf))
              \/ Fair!Go(c, Fair!Idle)
       PROVE  Inv'
  <2>1. PICK n : n = [m EXCEPT !.missing = "no", !.suspect = "no", !.block = read.block]
    OBVIOUS
  <2>2. /\ n \in MemoryType /\ n.block = read.block
        /\ n.missing = "no" /\ n.suspect = "no"
    BY <1>b, <2>1 DEF MemoryType, Fair!Timers
  <2>3. PICK k : k = Fair!Change(c, "succeeded", read.conf) OBVIOUS
  <2>4. /\ k \in FairJobType /\ k.pc = "write" /\ k.to = "succeeded" /\ k.conf = read.conf
        /\ k.old = J.old /\ k.txid = J.txid /\ k.stamp = J.stamp
    BY <1>2, <2>3, ChangeIs DEF Fair!Statuses
  <2>5. Names(k) BY <1>1, <1>3, <2>4 DEF Names
  <2>6. Says(k.to, k.conf, k.pc = "keys" \/ k.old.stamped \/ k.stamp)'
    BY <1>2, <1>3, <1>5, <1>10, <2>4 DEF Says, Onward, PollIsTrue
  <2>7. PollIsTrue(k)' BY <1>10, <2>4, <2>6 DEF PollIsTrue
  <2> QED BY <1>2, <1>12, <1>17, <2>1, <2>2, <2>3, <2>4, <2>5, <2>7, PollActs
<1> QED
  <2>1. Fair!RecheckSettled(c, read) /\ J.old = job[c].old OBVIOUS
  <2> QED BY <1>13, <1>14, <1>15, <1>16, <1>17, <2>1 DEF Fair!RecheckSettled

\* A reading of a payment in processing: what it shows is written at most as deep
\* as it is, and only if it is of the payer's own transaction.
LEMMA Reconciled ==
  ASSUME Fair!SettlementBounds, Inv, FairQuiet, NEW c \in Fair!Checks, Fair!At(c, "read"),
         job[c].old.status # "succeeded", NEW depth \in -1..Depth, depth <= tx.depth,
         depth >= 0 => job[c].txid = "own", Fair!Reconcile(c, Fair!Seen(depth))
  PROVE  Inv'
<1> PICK J \in FairJobType : J = job[c] BY Holds
<1> PICK m \in MemoryType : m = memory[c[1]] BY Holds
<1> PICK read : read = Fair!Seen(depth) OBVIOUS
<1>1. Names(J) /\ PollIsTrue(J) /\ DoubtIsFounded(m) /\ Types BY Holds DEF Inv
<1>2. /\ read.found <=> depth >= 0
      /\ read.conf \in 0..Depth
      /\ read.conf >= Threshold => Reached
      /\ read.block \in {0, tx.block}
  BY <1>1, Readings
<1>3. /\ J.pc = "read" /\ J.to # "succeeded" /\ J.txid = J.old.txid
      /\ J.old.txid # "none" /\ J.old.status # "succeeded" /\ pays \in BOOLEAN
      /\ read.block \in 0..(MaxReorgs + 1)
  BY <1>1, <1>2 DEF Names, Fair!At, Types, Fair!SettlementBounds
<1>4. Onward /\ (faults > 0 => faults' > 0) /\ tx' = tx /\ reorgs' = reorgs
  BY <1>1, QuietOnward
<1>5. reorgs = 0 => /\ m.block \in {0, tx.block}
                    /\ m.missing # "no" \/ m.suspect # "no" => faults' > 0
  BY <1>1, <1>4, QuietOnward DEF DoubtIsFounded
<1>6. ASSUME read.found, Fair!Go(c, Fair!Observe(J, read.conf)),
             Fair!Remember(c, [m EXCEPT !.unseen = "no",
                                 !.block = IF read.block = 0 THEN @ ELSE read.block])
      PROVE  Inv'
  <2>1. PICK k : k = Fair!Observe(J, read.conf) OBVIOUS
  <2>2. /\ k \in FairJobType
        /\ \/ k = Fair!Idle
           \/ /\ k.old = J.old /\ k.txid = J.txid /\ k.stamp = J.stamp
              /\ k.conf = read.conf
              /\ k.to \in {"processing", "succeeded", "canceled"}
              /\ k.pc \in {"keys", "write"}
              /\ k.pc = "keys" => k.to = "succeeded"
              /\ k.to = "succeeded" => pays /\ read.conf >= Threshold
              /\ k.to = "succeeded" /\ k.pc = "write" => J.old.stamped
    BY <1>2, <1>3, <2>1, Observed
  <2>3. Names(k) /\ PollIsTrue(k)
    <3>1. CASE k = Fair!Idle BY <3>1, IdleIsTrue
    <3>2. CASE k # Fair!Idle
      <4>1. Names(k) BY <1>1, <1>2, <1>3, <1>6, <2>2, <3>2 DEF Names
      <4>2. Says(k.to, k.conf, k.pc = "keys" \/ k.old.stamped \/ k.stamp)
        BY <1>2, <2>2, <3>2 DEF Says
      <4> QED BY <1>1, <1>3, <2>2, <3>2, <4>1, <4>2 DEF PollIsTrue
    <3> QED BY <3>1, <3>2
  <2>4. PollIsTrue(k)' BY <1>4, <2>2, <2>3, PollStays
  <2>5. PICK n : n = [m EXCEPT !.unseen = "no",
                        !.block = IF read.block = 0 THEN @ ELSE read.block] OBVIOUS
  <2>6. /\ n \in MemoryType /\ n.missing = m.missing /\ n.suspect = m.suspect
        /\ n.block \in {m.block, read.block}
    BY <1>3, <2>5 DEF MemoryType, Fair!Timers
  <2>7. reorgs = 0 => /\ n.block \in {0, tx.block}
                      /\ n.missing # "no" \/ n.suspect # "no" => faults' > 0
    BY <1>2, <1>5, <2>6
  <2> QED BY <1>6, <2>1, <2>2, <2>3, <2>4, <2>5, <2>6, <2>7, PollActs
<1>7. ASSUME Fair!Remember(c, [m EXCEPT !.unseen = IF @ = "no" THEN "since" ELSE @]),
             Fair!Go(c, [J EXCEPT !.pc = "judge"]) \/ Fair!Go(c, Fair!Idle)
      PROVE  Inv'
  <2>1. PICK k : k = [J EXCEPT !.pc = "judge"] OBVIOUS
  <2>2. /\ k \in FairJobType /\ k.old = J.old /\ k.txid = J.txid /\ k.stamp = J.stamp
        /\ k.conf = J.conf /\ k.to = J.to /\ k.pc = "judge"
    BY <2>1 DEF FairJobType, Fair!Pcs
  <2>3. Names(k) BY <1>1, <1>3, <2>2 DEF Names
  <2>4. PollIsTrue(k) BY <1>1, <1>3, <2>2 DEF PollIsTrue, Says
  <2>5. PollIsTrue(k)' BY <1>4, <2>2, <2>3, <2>4, PollStays
  <2>6. PICK n : n = [m EXCEPT !.unseen = IF @ = "no" THEN "since" ELSE @] OBVIOUS
  <2>7. /\ n \in MemoryType /\ n.missing = m.missing /\ n.suspect = m.suspect
        /\ n.block = m.block
    BY <2>6 DEF MemoryType, Fair!Timers
  <2> QED BY ZenonT(60), <1>5, <1>7, <2>1, <2>2, <2>3, <2>5, <2>6, <2>7, PollActs, IdleIsTrue
<1> QED
  <2>1. Fair!Reconcile(c, read) OBVIOUS
  <2> QED BY <1>6, <1>7, <2>1 DEF Fair!Reconcile

LEMMA ReadStep ==
  ASSUME Fair!SettlementBounds, Inv, NEW c \in Fair!Checks, Fair!ReadTransaction(c) PROVE Inv'
<1>1. /\ Types /\ Fair!At(c, "read") /\ tx.depth \in -1..Depth /\ Depth \in Nat
      /\ faults \in Nat
  BY DEF Inv, Types, Fair!ReadTransaction, Fair!SettlementBounds
<1>2. /\ job[c].txid = job[c].old.txid
      /\ job[c].old.status = "succeeded" => job[c].txid = "own" /\ Reached
  BY <1>1, Holds DEF Names, Fair!At, PollIsTrue, Says
<1>3. CASE UNCHANGED faults
  <2>1. FairQuiet BY <1>3 DEF Fair!ReadTransaction, FairQuiet
  <2>2. ~Fair!Fault BY <1>1, <1>3 DEF Fair!Fault
  <2>3. IF job[c].old.status
          = "succeeded" THEN Fair!RecheckSettled(c, Fair!Truth(job[c].txid))
        ELSE Fair!Reconcile(c, Fair!Truth(job[c].txid))
    BY <2>2 DEF Fair!ReadTransaction
  <2>4. CASE job[c].txid = "own"
    <3>1. Fair!Truth(job[c].txid) = Fair!Seen(tx.depth) BY <2>4 DEF Fair!Truth
    <3> QED BY <1>1, <2>1, <2>3, <2>4, <3>1, Rechecked, Reconciled
  <2>5. CASE job[c].txid # "own"
    <3>1. Fair!Truth(job[c].txid) = Fair!Seen(-1) BY <2>5 DEF Fair!Truth
    <3>2. Fair!Reconcile(c, Fair!Seen(-1)) BY <1>2, <2>3, <2>5, <3>1
    <3>3. -1 \in -1..Depth /\ -1 <= tx.depth /\ ~(-1 >= 0) BY <1>1
    <3> QED BY <1>1, <1>2, <2>1, <2>5, <3>2, <3>3, Reconciled
  <2> QED BY <2>4, <2>5
<1>4. CASE Fair!Fault
  <2>1. FairQuiet /\ faults' # faults
    BY <1>1, <1>4 DEF Fair!ReadTransaction, FairQuiet, Fair!Fault
  <2>2. job[c].txid = "own" BY <2>1 DEF Fair!ReadTransaction
  <2>3. PICK depth \in -1..(tx.depth - 1) :
          IF job[c].old.status = "succeeded" THEN Fair!RecheckSettled(c, Fair!Seen(depth))
          ELSE Fair!Reconcile(c, Fair!Seen(depth))
    BY <2>1 DEF Fair!ReadTransaction
  <2>4. depth \in -1..Depth /\ depth <= tx.depth BY <1>1
  <2> QED BY <1>1, <2>1, <2>2, <2>3, <2>4, Rechecked, Reconciled
<1> QED BY <1>3, <1>4 DEF Fair!ReadTransaction

LEMMA StartStep ==
  ASSUME Fair!SettlementBounds, Inv, NEW c \in Fair!Checks, Fair!StartCheck(c)
    \/ Fair!StartKeySweep(c)
  PROVE  Inv'
<1>1. Types /\ RowIsTrue BY DEF Inv
<1>2. FairQuiet /\ UNCHANGED memory BY DEF Fair!StartCheck, Fair!StartKeySweep, FairQuiet
<1>3. Onward BY <1>1, <1>2, QuietOnward
<1>4. row \in RowType /\ Fair!Idle \in FairJobType BY <1>1, IdleIsTrue DEF Types
<1>5. ASSUME NEW j \in FairJobType, Fair!Go(c, j), Names(j), j.old = row,
             Says(j.to, j.conf, j.pc = "keys" \/ j.old.stamped \/ j.stamp),
             j.old.status # "succeeded" \/ j.pc = "read"
      PROVE  Inv'
  <2>1. PollIsTrue(j) BY <1>1, <1>5 DEF PollIsTrue, RowIsTrue
  <2> QED BY <1>2, <1>3, <1>5, <2>1, PollStays, PollActsOnly
<1>6. CASE Fair!StartCheck(c)
  <2>1. PICK j : j = [Fair!Idle EXCEPT !.pc = "read", !.old = row, !.txid = row.txid] OBVIOUS
  <2>2. /\ j \in FairJobType /\ j.pc = "read" /\ j.old = row /\ j.txid = row.txid
        /\ j.to = "none" /\ j.conf = 0
    BY <1>4, <2>1 DEF FairJobType, RowType, Fair!Pcs, Fair!Idle
  <2>3. Names(j) BY <1>1, <1>6, <2>2 DEF Names, Fair!StartCheck, RowIsTrue
  <2>4. Says(j.to, j.conf, j.pc = "keys" \/ j.old.stamped \/ j.stamp)
    BY <2>2 DEF Says, Fair!SettlementBounds
  <2> QED BY <1>5, <1>6, <2>1, <2>2, <2>3, <2>4 DEF Fair!StartCheck
<1>7. ASSUME row.status = "requires_action",
             Fair!Go(c, [Fair!Idle EXCEPT !.pc = "usage", !.old = row])
      PROVE  Inv'
  <2>1. PICK j : j = [Fair!Idle EXCEPT !.pc = "usage", !.old = row] OBVIOUS
  <2>2. /\ j \in FairJobType /\ j.pc = "usage" /\ j.old = row /\ j.txid = "none"
        /\ j.to = "none" /\ j.conf = 0
    BY <1>4, <2>1 DEF FairJobType, RowType, Fair!Pcs, Fair!Idle
  <2>3. Names(j) BY <1>1, <1>7, <2>2 DEF Names, RowIsTrue
  <2>4. Says(j.to, j.conf, j.pc = "keys" \/ j.old.stamped \/ j.stamp)
    BY <2>2 DEF Says, Fair!SettlementBounds
  <2> QED BY <1>5, <1>7, <2>1, <2>2, <2>3, <2>4
<1>8. ASSUME row.status = "processing",
             Fair!Go(c, [Fair!Idle EXCEPT !.pc = "write", !.old = row, !.to = "processing",
                                !.conf = row.conf, !.txid = row.txid, !.stamp = TRUE])
      PROVE  Inv'
  <2>1. PICK j : j = [Fair!Idle EXCEPT !.pc = "write", !.old = row, !.to = "processing",
                             !.conf = row.conf, !.txid = row.txid, !.stamp = TRUE] OBVIOUS
  <2>2. /\ j \in FairJobType /\ j.pc = "write" /\ j.old = row /\ j.txid = row.txid
        /\ j.to = "processing" /\ j.conf = row.conf
    BY <1>4, <2>1 DEF FairJobType, RowType, Fair!Pcs, Fair!Idle, Fair!Statuses
  <2>3. Names(j) BY <1>1, <1>8, <2>2 DEF Names, RowIsTrue
  <2>4. Says(j.to, j.conf, j.pc = "keys" \/ j.old.stamped \/ j.stamp)
    BY <1>1, <2>2 DEF Says, RowIsTrue
  <2> QED BY <1>5, <1>8, <2>1, <2>2, <2>3, <2>4
<1>9. CASE Fair!StartKeySweep(c) BY <1>7, <1>8, <1>9 DEF Fair!StartKeySweep
<1> QED BY <1>6, <1>9

\* The steps of a poll between its reading and its write.
LEMMA ThinkStep ==
  ASSUME Fair!SettlementBounds, Inv, NEW c \in Fair!Checks,
         \/ Fair!AskTip(c) \/ Fair!JudgeUnseen(c) \/ Fair!CheckRecipientKeys(c)
         \/ Fair!ChainShowsUnpaid(c) \/ Fair!GiveUp(c)
  PROVE  Inv'
<1> PICK J \in FairJobType : J = job[c] BY Holds
<1> PICK m \in MemoryType : m = memory[c[1]] BY Holds
<1>1. /\ Names(J) /\ PollIsTrue(J) /\ DoubtIsFounded(m) /\ Types
      /\ tx.depth \in -1..Depth /\ Depth \in Nat /\ 0 \in 0..(MaxReorgs + 1)
  BY Holds DEF Inv, Types, Fair!SettlementBounds
<1>2. FairQuiet
  BY DEF Fair!AskTip, Fair!JudgeUnseen, Fair!CheckRecipientKeys, Fair!ChainShowsUnpaid,
     Fair!GiveUp, FairQuiet
<1>3. Onward BY <1>1, <1>2, QuietOnward
<1>4. CASE Fair!AskTip(c)
  <2>1. PICK j : j = [J EXCEPT !.pc = "write"] OBVIOUS
  <2>2. /\ j \in FairJobType /\ j.pc = "write" /\ j.old = J.old /\ j.txid = J.txid
        /\ j.to = J.to /\ j.conf = J.conf /\ j.stamp = J.stamp
    BY <2>1 DEF FairJobType, Fair!Pcs
  <2>3. J.pc = "tip" /\ J.to = "processing" BY <1>1, <1>4 DEF Fair!AskTip, Fair!At, Names
  <2>4. Names(j) BY <1>1, <2>2, <2>3 DEF Names
  <2>5. PollIsTrue(j) BY <1>1, <2>2, <2>3 DEF PollIsTrue, Says
  <2>6. PollIsTrue(j)' BY <1>3, <2>2, <2>4, <2>5, PollStays
  <2>7. PICK n : n = [m EXCEPT !.missing = "no", !.suspect = "no", !.block = 0] OBVIOUS
  <2>8. n \in MemoryType /\ n.missing = "no" /\ n.suspect = "no" /\ n.block = 0
    BY <1>1, <2>7 DEF MemoryType, Fair!Timers
  <2> QED BY <1>2, <1>4, <2>1, <2>2, <2>4, <2>6, <2>7, <2>8, PollActs DEF Fair!AskTip
<1>5. ASSUME NEW conf \in 0..Depth, J.pc \in {"judge", "usage"},
             conf >= Threshold => Reached, Fair!Go(c, Fair!Change(c, "canceled", conf)),
             UNCHANGED memory
      PROVE  Inv'
  <2>1. PICK j : j = Fair!Change(c, "canceled", conf) OBVIOUS
  <2>2. /\ j \in FairJobType /\ j.pc = "write" /\ j.old = J.old /\ j.txid = J.txid
        /\ j.to = "canceled" /\ j.conf = conf /\ j.stamp = J.stamp
    BY <2>1, ChangeIs DEF Fair!Statuses
  <2>3. J.old.status # "succeeded" BY <1>1, <1>5 DEF Names
  <2>4. Names(j) BY <1>1, <1>5, <2>2, <2>3 DEF Names
  <2>5. PollIsTrue(j) BY <1>1, <1>5, <2>2, <2>3 DEF PollIsTrue, Says
  <2> QED BY <1>2, <1>3, <1>5, <2>1, <2>2, <2>4, <2>5, PollStays, PollActsOnly
<1>6. CASE Fair!Go(c, Fair!Idle) /\ UNCHANGED memory BY <1>2, <1>6, IdleIsTrue, PollActsOnly
<1>7. CASE Fair!JudgeUnseen(c)
  <2>1. J.pc = "judge" /\ J.old.status # "succeeded" /\ J.old.txid # "none"
    BY <1>1, <1>7 DEF Fair!JudgeUnseen, Fair!At, Names
  <2>2. CASE Fair!Go(c, Fair!Change(c, "canceled", J.old.conf))
    <3>1. J.old.conf \in 0..Depth /\ (J.old.conf >= Threshold => Reached)
      BY <1>1 DEF FairJobType, RowType, PollIsTrue, Says
    <3> QED BY <1>5, <1>7, <2>1, <2>2, <3>1 DEF Fair!JudgeUnseen
  <2>3. ASSUME tx.depth >= 0, Fair!Go(c, [Fair!Change(c, "processing",
            tx.depth) EXCEPT !.txid = "own"])
        PROVE  Inv'
    <3>1. PICK j : j = [Fair!Change(c, "processing", tx.depth) EXCEPT !.txid = "own"] OBVIOUS
    <3>2. /\ j \in FairJobType /\ j.pc = "write" /\ j.old = J.old /\ j.txid = "own"
          /\ j.to = "processing" /\ j.conf = tx.depth /\ j.stamp = J.stamp
      BY <1>1, <2>3, <3>1, ChangeIs DEF Fair!Statuses, FairJobType, Txids
    <3>3. Names(j) BY <1>1, <2>1, <3>2 DEF Names
    <3>4. PollIsTrue(j) BY <1>1, <2>1, <3>2 DEF PollIsTrue, Says, Reached
    <3>5. UNCHANGED memory BY <1>7 DEF Fair!JudgeUnseen
    <3> QED BY <1>2, <1>3, <2>3, <3>1, <3>2, <3>3, <3>4, <3>5, PollStays, PollActsOnly
  <2> QED BY <1>6, <1>7, <2>2, <2>3 DEF Fair!JudgeUnseen
<1>8. CASE Fair!CheckRecipientKeys(c)
  <2>1. PICK j : j = [J EXCEPT !.pc = "write", !.stamp = (key # "current")] OBVIOUS
  <2>2. /\ j \in FairJobType /\ j.pc = "write" /\ j.old = J.old /\ j.txid = J.txid
        /\ j.to = J.to /\ j.conf = J.conf /\ j.stamp = (key # "current")
    BY <2>1 DEF FairJobType, Fair!Pcs
  <2>3. J.pc = "keys" /\ J.to = "succeeded"
    BY <1>1, <1>8 DEF Fair!CheckRecipientKeys, Fair!At, Names
  <2>4. Names(j) BY <1>1, <2>2, <2>3 DEF Names
  <2>5. key = "replaced_before" => j.stamp BY <2>2
  <2>6. Says(j.to, j.conf, j.pc = "keys" \/ j.old.stamped \/ j.stamp)
    BY <1>1, <2>2, <2>5 DEF Says, PollIsTrue
  <2>7. PollIsTrue(j) BY <1>1, <2>2, <2>3, <2>6 DEF PollIsTrue
  <2>8. UNCHANGED memory BY <1>8 DEF Fair!CheckRecipientKeys
  <2> QED BY <1>2, <1>3, <1>8, <2>1, <2>2, <2>4, <2>7, <2>8, PollStays, PollActsOnly
       DEF Fair!CheckRecipientKeys
<1>9. CASE Fair!ChainShowsUnpaid(c)
  <2>1. J.pc = "usage" /\ UNCHANGED memory BY <1>9 DEF Fair!ChainShowsUnpaid, Fair!At
  <2>2. 0 \in 0..Depth /\ ~(0 >= Threshold) BY DEF Fair!SettlementBounds
  <2> QED BY <1>5, <1>6, <1>9, <2>1, <2>2 DEF Fair!ChainShowsUnpaid
<1>10. CASE Fair!GiveUp(c) BY <1>6, <1>10 DEF Fair!GiveUp
<1> QED BY <1>4, <1>7, <1>8, <1>9, <1>10

\* The compare-and-swap of a poll, and the observation that may follow it.
LEMMA WriteStep ==
  ASSUME Fair!SettlementBounds, Inv, NEW c \in Fair!Checks, Fair!WriteRow(c) PROVE Inv'
<1> PICK J \in FairJobType : J = job[c] BY Holds
<1> PICK m \in MemoryType : m = memory[c[1]] BY Holds
<1> PICK txid : txid = IF J.txid = J.old.txid THEN row.txid ELSE J.txid OBVIOUS
<1> PICK R : R = row' OBVIOUS
<1>1. /\ Names(J) /\ PollIsTrue(J) /\ DoubtIsFounded(m) /\ Types /\ RowIsTrue
           /\ Fair!BooksFollow
      /\ \A d \in Fair!Checks : PollIsTrue(job[d])
      /\ \A t \in Tasks : DoubtIsFounded(memory[t])
  BY Holds DEF Inv
<1>2. /\ J.pc = "write" /\ J.to \in {"processing", "succeeded", "canceled"}
      /\ Fair!chain' = Fair!chain /\ key' = key /\ faults' = faults
      /\ tx' = tx /\ pays' = pays /\ reorgs' = reorgs
      /\ Fair!MoveRow(J.old.status, J.to, J.conf, txid, J.stamp)
  BY <1>1 DEF Fair!WriteRow, Fair!At, Names, Fair!chain
<1>3. J.conf \in 0..Depth /\ J.stamp \in BOOLEAN /\ J.old \in RowType /\ txid \in Txids
  BY <1>1 DEF FairJobType, Types, RowType
<1>4. /\ J.conf >= Threshold => Reached
      /\ J.to = "succeeded" => pays /\ Reached
      /\ J.to = "succeeded" /\ key = "replaced_before" => row.stamped \/ J.stamp
  BY <1>1, <1>2 DEF PollIsTrue, Says
<1>5. /\ J.to = "processing" => txid # "none"
      /\ J.to = "succeeded" => txid = "own"
      /\ row.txid # "none" => txid # "none"
      /\ row.txid = "own" => txid = "own"
      /\ J.txid # J.old.txid => txid = "own" /\ J.to # "succeeded"
  BY <1>1, <1>2 DEF Names, PollIsTrue
<1>6. /\ row' \in RowType /\ net' \in {0, 1} /\ RowIsTrue' /\ Fair!BooksFollow'
      /\ row.txid # "none" => row'.txid # "none"
      /\ row.txid = "own" => row'.txid = "own"
      /\ row.stamped => row'.stamped
  <2> PICK from : from = J.old.status OBVIOUS
  <2> PICK to \in {"processing", "succeeded", "canceled"} : to = J.to BY <1>2
  <2> PICK conf \in 0..Depth : conf = J.conf BY <1>3
  <2> PICK stamp \in BOOLEAN : stamp = J.stamp BY <1>3
  <2>1. Fair!MoveRow(from, to, conf, txid, stamp) BY <1>2
  <2>2. /\ conf >= Threshold => Reached
        /\ to = "succeeded" => pays /\ Reached
        /\ to = "processing" => txid # "none"
        /\ to = "succeeded" => txid = "own"
        /\ row.txid # "none" => txid # "none"
        /\ row.txid = "own" => txid = "own"
        /\ Types /\ RowIsTrue /\ Fair!BooksFollow /\ Fair!chain' = Fair!chain /\ key' = key
             /\ txid \in Txids
    BY <1>1, <1>2, <1>3, <1>4, <1>5
  <2>3. to = "succeeded" /\ key = "replaced_before" => row.stamped \/ stamp
    BY <1>4
  <2> QED BY ONLY Fair!SettlementBounds, <2>1, <2>2, <2>3, RowFollows
<1>7. Onward BY <1>2, <1>6 DEF Onward, Reached
<1>8. PICK k \in FairJobType : Fair!Go(c, k) /\ Names(k) /\ PollIsTrue(k)'
  <2>1. CASE Fair!Go(c, Fair!Idle) BY <2>1, IdleIsTrue
  <2>2. CASE /\ row.status = J.old.status /\ J.txid # J.old.txid
             /\ Fair!Go(c, Fair!Observe([J EXCEPT !.old = R], J.conf))
    <3>1. PICK j : j = [J EXCEPT !.old = R] OBVIOUS
    <3>2. /\ j \in FairJobType /\ j.old = R /\ j.txid = J.txid /\ j.stamp = J.stamp
          /\ pays \in BOOLEAN
      BY <1>1, <1>6, <3>1 DEF FairJobType, Types
    <3>3. PICK k : k = Fair!Observe(j, J.conf) OBVIOUS
    <3>4. /\ k \in FairJobType
          /\ \/ k = Fair!Idle
             \/ /\ k.old = R /\ k.txid = J.txid /\ k.stamp = J.stamp /\ k.conf = J.conf
                /\ k.to \in {"processing", "succeeded", "canceled"}
                /\ k.pc \in {"keys", "write"}
                /\ k.pc = "keys" => k.to = "succeeded"
                /\ k.to = "succeeded" => pays /\ J.conf >= Threshold
                /\ k.to = "succeeded" /\ k.pc = "write" => R.stamped
      BY <1>3, <3>2, <3>3, Observed
    <3>5. /\ R.status = J.to /\ R.txid = "own" /\ J.txid = "own" /\ J.to # "succeeded"
      BY <1>1, <1>2, <1>5, <2>2 DEF Fair!MoveRow, Names
    <3>6. CASE k # Fair!Idle
      <4>1. Names(k) BY <1>2, <3>4, <3>5, <3>6 DEF Names
      <4>2. Says(k.to, k.conf, k.pc = "keys" \/ k.old.stamped \/ k.stamp)'
        BY <1>2, <1>4, <1>7, <3>4, <3>6 DEF Says, Onward
      <4>3. Says(k.old.status, k.old.conf, k.old.stamped)'
        BY <1>6, <3>4, <3>6 DEF RowIsTrue, Says
      <4>4. PollIsTrue(k)' BY <3>4, <3>5, <3>6, <4>2, <4>3 DEF PollIsTrue
      <4> QED BY <2>2, <3>1, <3>3, <3>4, <4>1, <4>4
    <3> QED BY <2>1, <2>2, <3>1, <3>3, <3>6
  <2> QED BY <2>1, <2>2 DEF Fair!WriteRow
<1>9. /\ job' \in [Fair!Checks -> FairJobType] /\ \A d \in Fair!Checks : Names(job'[d])
      /\ \A d \in Fair!Checks : PollIsTrue(job[d])'
  BY <1>1, <1>7, <1>8, PollsFollow
<1>10. memory' \in [Tasks -> MemoryType] /\ \A t \in Tasks : DoubtIsFounded(memory[t])'
  <2>1. CASE UNCHANGED memory BY <1>1, <1>2, <2>1, MemoryStays DEF Types
  <2>2. CASE Fair!Remember(c, [m EXCEPT !.unseen = "no"])
    <3>1. PICK n : n = [m EXCEPT !.unseen = "no"] OBVIOUS
    <3>2. /\ n \in MemoryType /\ n.missing = m.missing /\ n.suspect = m.suspect
          /\ n.block = m.block
      BY <3>1 DEF MemoryType, Fair!Timers
    <3> QED BY <1>1, <1>2, <2>2, <3>1, <3>2, MemoryFollows DEF DoubtIsFounded
  <2> QED BY <2>1, <2>2 DEF Fair!WriteRow
<1>11. Types' BY <1>1, <1>2, <1>6, <1>9, <1>10 DEF Types
<1> QED BY <1>6, <1>9, <1>10, <1>11 DEF Inv

\* The steps nobody's poll takes.
LEMMA RowStep ==
  ASSUME Fair!SettlementBounds, Inv, Fair!CreateIntent \/ Fair!ReportBroadcast
    \/ Fair!EndUnpaid \/ Fair!RowAges
  PROVE  Inv'
<1>1. /\ Types /\ RowIsTrue /\ Fair!BooksFollow /\ \A d \in Fair!Checks : PollIsTrue(job[d])
      /\ \A t \in Tasks : DoubtIsFounded(memory[t])
  BY DEF Inv
<1>2. /\ Fair!chain' = Fair!chain /\ key' = key /\ faults' = faults /\ job' = job
      /\ tx' = tx /\ pays' = pays /\ reorgs' = reorgs /\ memory' = memory
  BY DEF Fair!CreateIntent, Fair!ReportBroadcast, Fair!EndUnpaid, Fair!RowAges, Fair!chain
<1>3. /\ row' \in RowType /\ net' \in {0, 1} /\ RowIsTrue' /\ Fair!BooksFollow'
      /\ row.txid # "none" => row'.txid # "none"
      /\ row.txid = "own" => row'.txid = "own"
      /\ row.stamped => row'.stamped
  <2>1. CASE Fair!CreateIntent \/ Fair!RowAges
    <3>1. /\ row' \in RowType /\ row'.txid = row.txid /\ row'.conf = row.conf
          /\ row'.stamped = row.stamped /\ net' = net
          /\ row'.status = row.status
               \/ (row.status = "none" /\ row'.status = "requires_action")
      BY <1>1, <2>1 DEF Fair!CreateIntent, Fair!RowAges, Types, RowType, Fair!Statuses
    <3> QED BY <1>1, <1>2, <3>1 DEF RowIsTrue, Says, Reached, Fair!BooksFollow, Types
  <2>2. CASE Fair!ReportBroadcast
    <3>1. PICK txid \in {"own", "other"} :
            Fair!MoveRow("requires_action", "processing", 0, txid, FALSE)
      BY <2>2 DEF Fair!ReportBroadcast
    <3>2. /\ 0 \in 0..Depth /\ txid \in Txids
          /\ row.status = "requires_action" =>
               row.txid = "none" /\ ~(0 >= Threshold)
      BY <1>1 DEF RowIsTrue, Fair!SettlementBounds, Txids
    <3> QED BY <1>1, <1>2, <3>1, <3>2, RowFollows
  <2>3. CASE Fair!EndUnpaid
    <3>1. /\ row.conf \in 0..Depth /\ row.txid \in Txids
          /\ row.conf >= Threshold => Reached
      BY <1>1 DEF RowIsTrue, Says, Types, RowType
    <3> QED BY <1>1, <1>2, <2>3, <3>1, RowFollows DEF Fair!EndUnpaid
  <2> QED BY <2>1, <2>2, <2>3
<1>4. Onward BY <1>2, <1>3 DEF Onward, Reached
<1>5. /\ job' \in [Fair!Checks -> FairJobType] /\ \A d \in Fair!Checks : Names(job'[d])
      /\ \A d \in Fair!Checks : PollIsTrue(job[d])'
  BY <1>1, <1>2, <1>4, PollsStay
<1>6. memory' \in [Tasks -> MemoryType] /\ \A t \in Tasks : DoubtIsFounded(memory[t])'
  BY <1>1, <1>2, MemoryStays DEF Types
<1>7. Types' BY <1>1, <1>2, <1>3, <1>5, <1>6 DEF Types
<1> QED BY <1>3, <1>5, <1>6, <1>7 DEF Inv

LEMMA ChainStep ==
  ASSUME Fair!SettlementBounds, Inv, Fair!Broadcast \/ Fair!Mine \/ Fair!Reorganise
    \/ Fair!ReplaceKey
  PROVE  Inv'
<1>1. /\ Types /\ RowIsTrue /\ Fair!BooksFollow /\ \A d \in Fair!Checks : PollIsTrue(job[d])
      /\ \A t \in Tasks : DoubtIsFounded(memory[t])
  BY DEF Inv
<1>2. /\ row' = row /\ net' = net /\ memory' = memory /\ job' = job /\ faults' = faults
      /\ pays' = pays
  BY DEF Fair!Broadcast, Fair!Mine, Fair!Reorganise, Fair!ReplaceKey, Fair!chain
<1>3. /\ tx' \in [depth : -1..Depth, block : 1..(MaxReorgs + 1)] /\ reorgs' \in 0..MaxReorgs
      /\ tx'.block <= reorgs' + 1 /\ reorgs' >= reorgs
      /\ tx'.block = tx.block \/ reorgs' > 0
      /\ tx'.depth >= tx.depth \/ reorgs' > 0
  <2>1. /\ tx \in [depth : -1..Depth, block : 1..(MaxReorgs + 1)] /\ reorgs \in 0..MaxReorgs
        /\ tx.block <= reorgs + 1 /\ Depth \in Nat /\ MaxReorgs \in Nat
    BY <1>1 DEF Types, Fair!SettlementBounds
  <2>2. CASE Fair!Broadcast BY <2>1, <2>2 DEF Fair!Broadcast
  <2>3. CASE Fair!Mine BY <2>1, <2>3 DEF Fair!Mine
  <2>4. CASE Fair!Reorganise
    <3>1. PICK depth \in {-1, 0} : tx' = [depth |-> depth, block |-> tx.block + 1]
      BY <2>4 DEF Fair!Reorganise
    <3>2. reorgs' = reorgs + 1 /\ reorgs < MaxReorgs BY <2>4 DEF Fair!Reorganise
    <3>3. tx'.block = tx.block + 1 /\ tx'.depth = depth BY <3>1
    <3>4. depth \in -1..Depth /\ tx.block + 1 \in 1..(MaxReorgs + 1) BY <2>1, <3>2
    <3> QED BY <2>1, <3>1, <3>2, <3>3, <3>4
  <2>5. CASE Fair!ReplaceKey BY <2>1, <2>5 DEF Fair!ReplaceKey, Fair!chain
  <2> QED BY <2>2, <2>3, <2>4, <2>5
<1>4. /\ key' \in {"current", "replaced", "replaced_before"}
      /\ key' = "replaced_before" => key = "replaced_before" \/ row.txid = "none"
  BY <1>1 DEF Types, Fair!Broadcast, Fair!Mine, Fair!Reorganise, Fair!ReplaceKey
<1>5. Reached => Reached'
  BY <1>1, <1>3 DEF Reached, Types, Fair!SettlementBounds
<1>6. Onward BY <1>1, <1>2, <1>3, <1>4, <1>5 DEF Onward, Types
<1>7. /\ job' \in [Fair!Checks -> FairJobType] /\ \A d \in Fair!Checks : Names(job'[d])
      /\ \A d \in Fair!Checks : PollIsTrue(job[d])'
  BY <1>1, <1>2, <1>6, PollsStay
<1>8. memory' \in [Tasks -> MemoryType] /\ \A t \in Tasks : DoubtIsFounded(memory[t])'
  BY <1>1, <1>2, <1>3, MemoryStays
<1>9. RowIsTrue' /\ Fair!BooksFollow'
  BY <1>1, <1>2, <1>4, <1>5 DEF RowIsTrue, Says, Fair!BooksFollow
<1>10. Types' BY <1>1, <1>2, <1>3, <1>4, <1>7, <1>8 DEF Types
<1> QED BY <1>7, <1>8, <1>9, <1>10 DEF Inv

LEMMA TaskStep ==
  ASSUME Fair!SettlementBounds, Inv, NEW t \in Tasks, Fair!TimePasses(t) \/ Fair!Restart(t)
  PROVE  Inv'
<1>1. /\ Types /\ RowIsTrue /\ Fair!BooksFollow /\ \A d \in Fair!Checks : PollIsTrue(job[d])
      /\ \A u \in Tasks : DoubtIsFounded(memory[u])
  BY DEF Inv
<1>2. FairQuiet BY DEF Fair!TimePasses, Fair!Restart, FairQuiet
<1>3. /\ Onward /\ faults' \in 0..MaxFaults /\ (faults > 0 => faults' > 0)
      /\ tx' = tx /\ reorgs' = reorgs
  BY <1>1, <1>2, QuietOnward
<1>4. PICK m \in MemoryType :
        /\ memory' = [memory EXCEPT ![t] = m]
        /\ DoubtIsFounded(m)
  <2> PICK r \in MemoryType : r = memory[t] BY <1>1 DEF Types
  <2>1. CASE Fair!Restart(t)
    <3>1. Fair!NoMemory \in MemoryType /\ DoubtIsFounded(Fair!NoMemory)
      BY <1>1 DEF Fair!NoMemory, MemoryType, Fair!Timers, DoubtIsFounded, Types,
         Fair!SettlementBounds
    <3> QED BY <2>1, <3>1 DEF Fair!Restart
  <2>2. CASE Fair!TimePasses(t)
    <3>1. PICK timer \in {"missing", "suspect", "unseen"} :
            r[timer] = "since" /\ memory' = [memory EXCEPT ![t][timer] = "ripe"]
      BY <2>2 DEF Fair!TimePasses
    <3>2. PICK m : m = [r EXCEPT ![timer] = "ripe"] OBVIOUS
    <3>3. memory' = [memory EXCEPT ![t] = m] BY <3>1, <3>2
    <3>4. DoubtIsFounded(r) BY <1>1
    <3>5. m \in MemoryType /\ DoubtIsFounded(m)
      <4>1. CASE timer = "missing"
        BY <3>1, <3>2, <3>4, <4>1 DEF MemoryType, Fair!Timers, DoubtIsFounded
      <4>2. CASE timer = "suspect"
        BY <3>1, <3>2, <3>4, <4>2 DEF MemoryType, Fair!Timers, DoubtIsFounded
      <4>3. CASE timer = "unseen"
        BY <3>1, <3>2, <3>4, <4>3 DEF MemoryType, Fair!Timers, DoubtIsFounded
      <4> QED BY <4>1, <4>2, <4>3
    <3> QED BY <3>3, <3>5
  <2> QED BY <2>1, <2>2
<1>5. memory' \in [Tasks -> MemoryType] /\ \A u \in Tasks : DoubtIsFounded(memory[u])'
  <2>1. memory' \in [Tasks -> MemoryType] BY <1>1, <1>4 DEF Types
  <2>2. ASSUME NEW u \in Tasks PROVE DoubtIsFounded(memory[u])'
    BY <1>1, <1>3, <1>4 DEF DoubtIsFounded, Types
  <2> QED BY <2>1, <2>2
<1>6. /\ job' \in [Fair!Checks -> FairJobType] /\ \A d \in Fair!Checks : Names(job'[d])
      /\ \A d \in Fair!Checks : PollIsTrue(job[d])'
  <2>1. CASE UNCHANGED job BY <1>1, <1>3, <2>1, PollsStay
  <2>2. CASE Fair!Restart(t)
    <3>1. job' = [c \in Fair!Checks |-> IF c[1] = t THEN Fair!Idle ELSE job[c]]
      BY <2>2 DEF Fair!Restart
    <3>2. ASSUME NEW d \in Fair!Checks
          PROVE  job'[d] \in FairJobType /\ Names(job'[d]) /\ PollIsTrue(job[d])'
      <4>1. CASE d[1] = t
        <5>1. job'[d] = Fair!Idle BY <3>1, <4>1
        <5> QED BY <5>1, IdleIsTrue DEF PollIsTrue, Says
      <4>2. CASE d[1] # t
        <5>1. PICK k \in FairJobType : k = job[d] BY <1>1 DEF Types
        <5>2. Names(k) /\ PollIsTrue(k) /\ job'[d] = k
          BY <1>1, <3>1, <4>2, <5>1 DEF Types
        <5>3. PollIsTrue(k)' BY <1>3, <5>2, PollStays
        <5> QED BY <5>2, <5>3 DEF PollIsTrue, Says
      <4> QED BY <4>1, <4>2
    <3>3. job' \in [Fair!Checks -> FairJobType] BY <3>1, <3>2
    <3> QED BY <3>2, <3>3
  <2> QED BY <2>1, <2>2 DEF Fair!TimePasses
<1>7. RowIsTrue' /\ Fair!BooksFollow'
  BY <1>1, <1>2 DEF FairQuiet, Fair!chain, RowIsTrue, Fair!BooksFollow, Says, Reached
<1>8. Types' BY <1>1, <1>2, <1>3, <1>5, <1>6 DEF Types, FairQuiet, Fair!chain
<1> QED BY <1>5, <1>6, <1>7, <1>8 DEF Inv

-----------------------------------------------------------------------------
LEMMA InvStart == ASSUME Fair!SettlementBounds PROVE Fair!Init => Inv
<1> SUFFICES ASSUME Fair!Init PROVE Inv OBVIOUS
<1>1. row \in RowType /\ row.status = "none" /\ row.txid = "none" /\ row.conf = 0 /\ net = 0
  BY DEF Fair!Init, Fair!NewRow, RowType, Fair!Statuses, Txids, Fair!SettlementBounds
<1>2. Fair!NoMemory \in MemoryType /\ Fair!NoMemory.missing = "no"
        /\ Fair!NoMemory.suspect = "no"
      /\ Fair!NoMemory.block = 0
  BY DEF Fair!NoMemory, MemoryType, Fair!Timers, Fair!SettlementBounds
<1>3. memory \in [Tasks -> MemoryType] /\ \A t \in Tasks : DoubtIsFounded(memory[t])
  BY <1>2 DEF Fair!Init, DoubtIsFounded
<1>4. job \in [Fair!Checks -> FairJobType] /\ \A c \in Fair!Checks : Names(job[c])
        /\ PollIsTrue(job[c])
  BY IdleIsTrue DEF Fair!Init
<1>5. /\ key = "current" /\ pays \in BOOLEAN /\ reorgs = 0 /\ faults = 0
      /\ tx \in [depth : -1..Depth, block : 1..(MaxReorgs + 1)] /\ tx.block = 1
  BY DEF Fair!Init, Fair!SettlementBounds
<1>6. Types BY <1>1, <1>3, <1>4, <1>5 DEF Types, Fair!SettlementBounds
<1>7. RowIsTrue /\ Fair!BooksFollow
  BY <1>1 DEF RowIsTrue, Says, Fair!BooksFollow, Fair!SettlementBounds
<1> QED BY <1>3, <1>4, <1>6, <1>7 DEF Inv

LEMMA InvStep == ASSUME Fair!SettlementBounds PROVE Inv /\ [Fair!Next]_(Fair!vars) => Inv'
<1> SUFFICES ASSUME Inv, [Fair!Next]_(Fair!vars) PROVE Inv' OBVIOUS
<1>1. CASE Fair!CreateIntent \/ Fair!ReportBroadcast \/ Fair!EndUnpaid \/ Fair!RowAges
  BY <1>1, RowStep
<1>2. CASE Fair!Broadcast \/ Fair!Mine \/ Fair!Reorganise \/ Fair!ReplaceKey
  BY <1>2, ChainStep
<1>3. ASSUME NEW c \in Fair!Checks,
             Fair!StartCheck(c) \/ Fair!StartKeySweep(c) \/ Fair!CheckStep(c)
               \/ Fair!GiveUp(c)
      PROVE  Inv'
  BY <1>3, StartStep, ReadStep, ThinkStep, WriteStep DEF Fair!CheckStep
<1>4. ASSUME NEW t \in Tasks, Fair!TimePasses(t) \/ Fair!Restart(t) PROVE Inv'
  BY <1>4, TaskStep
<1>5. CASE UNCHANGED Fair!vars
  BY <1>5 DEF Fair!vars, Fair!chain, Inv, Types, RowIsTrue, PollIsTrue, DoubtIsFounded, Says,
     Reached, Fair!BooksFollow
<1> QED BY <1>1, <1>2, <1>3, <1>4, <1>5 DEF Fair!Next

LEMMA InvAlways == ASSUME Fair!SettlementBounds PROVE Fair!Spec => []Inv
BY InvStart, InvStep, PTL DEF Fair!Spec

\* Every variable holds what the row, the watchers' maps and their polls may hold.
THEOREM FairTypesHold == ASSUME Fair!SettlementBounds PROVE Fair!Spec => []Fair!TypeOK
<1>1. Inv => Fair!TypeOK
  BY DEF Inv, Types, Fair!TypeOK, RowType, MemoryType, FairJobType, Txids
<1> QED BY <1>1, InvAlways, PTL

\* updateIntentState writes succeeded only of a transaction that pays and that
\* reached requiredConfirmations, however long ago the poll that writes it read.
THEOREM SettledWasDeep ==
  ASSUME Fair!SettlementBounds
  PROVE  Fair!Spec => []Fair!SucceededWasDeep
<1>1. Inv => Fair!SucceededWasDeep BY DEF Inv, RowIsTrue, Says, Reached, Fair!SucceededWasDeep
<1> QED BY <1>1, InvAlways, PTL

\* recordFaircoinLedger: the books hold the payment exactly while its row is
\* settled, over any number of rewinds and polls that settle it again.
THEOREM BooksAlwaysFollow ==
  ASSUME Fair!SettlementBounds
  PROVE  Fair!Spec => []Fair!BooksFollow
<1>1. Inv => Fair!BooksFollow BY DEF Inv
<1> QED BY <1>1, InvAlways, PTL

\* checkRecipientKeys: coins at an address of a key replaced before they were
\* reported are not called received without the stamp, whichever poll settles
\* them and whenever it asked for the keys.
THEOREM ReplacedKeysAreSaid ==
  ASSUME Fair!SettlementBounds
  PROVE  Fair!Spec => []Fair!ReplacedKeyIsSaid
<1>1. Inv => Fair!ReplacedKeyIsSaid BY DEF Inv, RowIsTrue, Says, Fair!ReplacedKeyIsSaid
<1> QED BY <1>1, InvAlways, PTL

\* recheckSettled: without a reorganisation a settled payment is rewound only
\* after two bad readings, restarts counted, by any polls of any tasks.
THEOREM RewindsAreFounded ==
  ASSUME Fair!SettlementBounds PROVE Fair!Spec => Fair!OneBadReadingRewindsNothing
<1>1. ASSUME Inv, [Fair!Next]_(Fair!vars), row.status = "succeeded", row'.status # "succeeded"
      PROVE  reorgs > 0 \/ faults > 1
  <2>1. row' # row BY ZenonT(60), <1>1
  <2>2. PICK c \in Fair!Checks : Fair!WriteRow(c)
    BY <1>1, <2>1 DEF Fair!Next, Fair!vars, Fair!CreateIntent, Fair!ReportBroadcast,
       Fair!EndUnpaid, Fair!RowAges, Fair!MoveRow, Fair!chain, Fair!Broadcast, Fair!Mine,
       Fair!Reorganise, Fair!ReplaceKey, Fair!StartCheck, Fair!StartKeySweep, Fair!CheckStep,
       Fair!ReadTransaction, Fair!AskTip, Fair!JudgeUnseen, Fair!CheckRecipientKeys,
       Fair!ChainShowsUnpaid, Fair!GiveUp, Fair!TimePasses, Fair!Restart
  <2> PICK j \in FairJobType : j = job[c] BY <1>1, Holds
  <2>3. j.pc = "write" /\ PollIsTrue(j) BY <1>1, <2>2, Holds DEF Fair!WriteRow, Fair!At
  <2>4. row.status = j.old.status /\ row'.status = j.to
    BY <2>1, <2>2 DEF Fair!WriteRow, Fair!MoveRow
  <2> QED BY <1>1, <2>3, <2>4 DEF PollIsTrue
<1>2. Inv /\ [Fair!Next]_(Fair!vars) =>
        [row.status = "succeeded" /\ row'.status # "succeeded" => reorgs > 0 \/ faults > 1]_row
  BY <1>1
<1> QED BY <1>2, InvAlways, PTL DEF Fair!Spec, Fair!OneBadReadingRewindsNothing

-----------------------------------------------------------------------------
(***************************************************************************)
(* The payment keeps the promises of PaymentLifecycle, however many polls  *)
(* overlap.  Once it is deep enough no poll starts on it, so what can      *)
(* still undo it is a poll that read it as settled before; read as final   *)
(* when the last of those has ended, it is final.                          *)
(***************************************************************************)
\* A poll's copy is of a row that may still move, and a poll that found the
\* transaction that paid does not call the payment lost.
CopyIsOpen(j) ==
  /\ j.pc # "idle" => j.old.status \in {"requires_action", "processing", "succeeded"}
  /\ j.pc # "idle" /\ j.txid # j.old.txid => j.to # "canceled"

Undecided == \A c \in Fair!Checks : CopyIsOpen(job[c])

\* What a poll holds cannot move a settled row.
Moot(j) == j.pc = "idle" \/ j.old.status # "succeeded"

\* What is settled for good stays so while its row is not written.
KeepsFinal == row' = row /\ row.status = "succeeded" /\ Fair!Final => Fair!Final'

\* Between its start and its write a poll keeps its copy.
LEMMA RecheckKeepsCopy ==
  ASSUME Fair!SettlementBounds, NEW c, job[c] \in FairJobType, NEW read,
         read.conf \in 0..Depth, Fair!RecheckSettled(c, read)
  PROVE  \E k : /\ Fair!Go(c, k)
                /\ k = Fair!Idle \/ (k.old = job[c].old /\ k.txid = job[c].txid)
<1> PICK to \in Fair!Statuses : to = "processing" BY DEF Fair!Statuses
<1> PICK conf \in 0..Depth : conf = read.conf OBVIOUS
<1> PICK j : j = Fair!Change(c, to, conf) OBVIOUS
<1>1. j \in FairJobType /\ j.old = job[c].old /\ j.txid = job[c].txid BY ChangeIs
<1> PICK pc : pc = IF read.found THEN "write" ELSE "tip" OBVIOUS
<1> PICK k : k = [j EXCEPT !.pc = pc] OBVIOUS
<1>2. k.old = job[c].old /\ k.txid = job[c].txid BY <1>1 DEF FairJobType
<1> PICK deeper \in Fair!Statuses : deeper = "succeeded" BY DEF Fair!Statuses
<1> PICK n : n = Fair!Change(c, deeper, conf) OBVIOUS
<1>3. n.old = job[c].old /\ n.txid = job[c].txid BY ChangeIs
<1>4. Fair!Go(c, k) \/ Fair!Go(c, Fair!Idle) \/ Fair!Go(c, n)
  BY DEF Fair!RecheckSettled
<1> QED BY <1>2, <1>3, <1>4

LEMMA ReconcileKeepsCopy ==
  ASSUME Fair!SettlementBounds, pays \in BOOLEAN, NEW c, job[c] \in FairJobType, NEW read,
         read.conf \in 0..Depth, Fair!Reconcile(c, read)
  PROVE  \E k : /\ Fair!Go(c, k)
                /\ k = Fair!Idle \/ (k.old = job[c].old /\ k.txid = job[c].txid)
<1> PICK j \in FairJobType : j = job[c] OBVIOUS
<1> PICK conf \in 0..Depth : conf = read.conf OBVIOUS
<1> PICK k : k = Fair!Observe(j, conf) OBVIOUS
<1>1. k = Fair!Idle \/ (k.old = j.old /\ k.txid = j.txid) BY Observed
<1> PICK n : n = [j EXCEPT !.pc = "judge"] OBVIOUS
<1>2. n.old = j.old /\ n.txid = j.txid BY DEF FairJobType
<1>3. Fair!Go(c, k) \/ Fair!Go(c, n) \/ Fair!Go(c, Fair!Idle) BY DEF Fair!Reconcile
<1> QED BY <1>1, <1>2, <1>3

LEMMA StepKeepsCopy ==
  ASSUME Fair!SettlementBounds, Inv, NEW c \in Fair!Checks,
         \/ Fair!ReadTransaction(c) \/ Fair!AskTip(c) \/ Fair!JudgeUnseen(c)
         \/ Fair!CheckRecipientKeys(c) \/ Fair!ChainShowsUnpaid(c)
  PROVE  /\ job[c].pc # "idle" /\ row' = row
         /\ \E k : /\ Fair!Go(c, k)
                   /\ \/ k = Fair!Idle
                      \/ /\ k.old = job[c].old
                         /\ k.txid = job[c].old.txid \/ k.to = "processing"
<1> PICK J \in FairJobType : J = job[c] BY Holds
<1>1. Names(J) /\ Types BY Holds DEF Inv
<1>2. CASE Fair!ReadTransaction(c)
  <2>1. J.pc = "read" /\ row' = row BY <1>2 DEF Fair!ReadTransaction, Fair!At
  <2>2. J.txid = J.old.txid BY <1>1, <2>1 DEF Names
  <2>3. tx.depth \in -1..Depth /\ Depth \in Nat /\ pays \in BOOLEAN
    BY <1>1 DEF Types, Fair!SettlementBounds
  <2>4. \E depth \in -1..Depth :
          /\ depth <= tx.depth
          /\ Fair!RecheckSettled(c, Fair!Seen(depth)) \/ Fair!Reconcile(c, Fair!Seen(depth))
    BY <1>2, <2>3 DEF Fair!ReadTransaction, Fair!Truth
  <2> PICK depth \in -1..Depth :
          /\ depth <= tx.depth
          /\ Fair!RecheckSettled(c, Fair!Seen(depth)) \/ Fair!Reconcile(c, Fair!Seen(depth))
    BY <2>4
  <2> PICK read : read = Fair!Seen(depth) OBVIOUS
  <2>5. read.conf \in 0..Depth BY <1>1, Readings
  <2>6. \E k : /\ Fair!Go(c, k)
               /\ k = Fair!Idle \/ (k.old = job[c].old /\ k.txid = job[c].txid)
    BY <2>3, <2>5, RecheckKeepsCopy, ReconcileKeepsCopy
  <2> QED BY <2>1, <2>2, <2>6
<1>3. CASE Fair!AskTip(c)
  <2> PICK k : k = [J EXCEPT !.pc = "write"] OBVIOUS
  <2>1. J.pc = "tip" /\ row' = row /\ Fair!Go(c, k) BY <1>3 DEF Fair!AskTip, Fair!At
  <2>2. k.old = J.old /\ k.txid = J.txid BY DEF FairJobType
  <2> QED BY <1>1, <2>1, <2>2 DEF Names
<1>4. CASE Fair!JudgeUnseen(c)
  <2>1. J.pc = "judge" /\ row' = row BY <1>4 DEF Fair!JudgeUnseen, Fair!At
  <2>2. J.old.conf \in 0..Depth BY DEF FairJobType, RowType
  <2>3. tx.depth \in -1..Depth BY <1>1 DEF Types
  <2> PICK lost \in Fair!Statuses : lost = "canceled" BY DEF Fair!Statuses
  <2> PICK still \in Fair!Statuses : still = "processing" BY DEF Fair!Statuses
  <2> PICK k : k = Fair!Change(c, lost, J.old.conf) OBVIOUS
  <2>4. k.old = J.old /\ k.txid = J.txid BY <2>2, ChangeIs
  <2>5. CASE Fair!Go(c, Fair!Idle) BY <2>1, <2>5
  <2>6. CASE Fair!Go(c, k) BY <1>1, <2>1, <2>4, <2>6 DEF Names
  <2>7. CASE tx.depth >= 0
               /\ Fair!Go(c, [Fair!Change(c, still, tx.depth) EXCEPT !.txid = "own"])
    <3> PICK n : n = Fair!Change(c, still, tx.depth) OBVIOUS
    <3>1. n \in FairJobType /\ n.old = J.old /\ n.to = "processing" BY <2>3, <2>7, ChangeIs
    <3> PICK o : o = [n EXCEPT !.txid = "own"] OBVIOUS
    <3>2. o.old = J.old /\ o.to = "processing" BY <3>1 DEF FairJobType
    <3> QED BY <2>1, <2>7, <3>2
  <2> QED BY <1>4, <2>5, <2>6, <2>7 DEF Fair!JudgeUnseen
<1>5. CASE Fair!CheckRecipientKeys(c)
  <2> PICK k : k = [J EXCEPT !.pc = "write", !.stamp = (key # "current")] OBVIOUS
  <2>1. J.pc = "keys" /\ row' = row /\ Fair!Go(c, k)
    BY <1>5 DEF Fair!CheckRecipientKeys, Fair!At
  <2>2. k.old = J.old /\ k.txid = J.txid BY DEF FairJobType
  <2> QED BY <1>1, <2>1, <2>2 DEF Names
<1>6. CASE Fair!ChainShowsUnpaid(c)
  <2>1. J.pc = "usage" /\ row' = row BY <1>6 DEF Fair!ChainShowsUnpaid, Fair!At
  <2> PICK lost \in Fair!Statuses : lost = "canceled" BY DEF Fair!Statuses
  <2> PICK k : k = Fair!Change(c, lost, 0) OBVIOUS
  <2>2. 0 \in 0..Depth BY DEF Fair!SettlementBounds
  <2>3. k.old = J.old /\ k.txid = J.txid BY <2>2, ChangeIs
  <2>4. Fair!Go(c, k) \/ Fair!Go(c, Fair!Idle) BY <1>6 DEF Fair!ChainShowsUnpaid
  <2> QED BY <1>1, <2>1, <2>3, <2>4 DEF Names
<1> QED BY <1>2, <1>3, <1>4, <1>5, <1>6

\* What a step does to the row: it is created, or a poll or a sweep moves it on
\* from a status that is not final.
RowMoves ==
  /\ row'.status = "none" => row' = row
  /\ row'.status = "requires_action" => row.status = "none" \/ row' = row
  /\ \/ row' = row
     \/ row.status = "none" /\ row'.status = "requires_action"
     \/ /\ row.status \in {"requires_action", "processing", "succeeded"}
        /\ row.status = "succeeded" => ~Fair!Final
        /\ row'.status \in {"processing", "succeeded", "canceled"}

\* The compare-and-swap, of a copy that is of an open row.
LEMMA WriteMoves ==
  ASSUME Fair!SettlementBounds, Inv, NEW c \in Fair!Checks, Fair!WriteRow(c),
         CopyIsOpen(job[c])
  PROVE  /\ RowMoves
         /\ \E k : Fair!Go(c, k) /\ CopyIsOpen(k)
                     /\ (k.pc # "idle" => k.old.status = "processing")
<1> PICK J \in FairJobType : J = job[c] BY Holds
<1> PICK R : R = row' OBVIOUS
<1>1. /\ J.pc = "write" /\ J.to \in {"processing", "succeeded", "canceled"}
      /\ J.old.status \in {"requires_action", "processing", "succeeded"}
      /\ J.txid # J.old.txid => J.to = "processing" /\ J.txid = "own"
  BY Holds DEF Fair!WriteRow, Fair!At, Names, CopyIsOpen
<1>2. J.conf \in 0..Depth /\ pays \in BOOLEAN BY DEF FairJobType, Inv, Types
<1>3. R = row \/ (row.status = J.old.status /\ R.status = J.to)
  BY DEF Fair!WriteRow, Fair!MoveRow
<1>4. RowMoves
  <2>1. J.old.status = "succeeded" /\ row.status = "succeeded" => ~Fair!Final
    BY <1>1 DEF Fair!Final, Fair!At
  <2> QED BY <1>1, <1>3, <2>1 DEF RowMoves
<1>5. CASE Fair!Go(c, Fair!Idle) BY <1>4, <1>5 DEF CopyIsOpen, Fair!Idle
<1>6. CASE /\ row.status = J.old.status /\ J.txid # J.old.txid
           /\ Fair!Go(c, Fair!Observe([J EXCEPT !.old = R], J.conf))
  <2> PICK j : j = [J EXCEPT !.old = R] OBVIOUS
  <2> PICK conf \in 0..Depth : conf = J.conf BY <1>2
  <2> PICK k : k = Fair!Observe(j, conf) OBVIOUS
  <2>1. R \in RowType /\ R.status = "processing" /\ R.txid = "own"
    <3>1. R \in RowType BY WriteStep DEF Inv, Types
    <3>2. R.status = "processing" /\ R.txid = "own"
      BY <1>1, <1>6 DEF Fair!WriteRow, Fair!MoveRow
    <3> QED BY <3>1, <3>2
  <2>2. j \in FairJobType /\ j.old = R /\ j.txid = "own" BY <1>1, <1>6, <2>1 DEF FairJobType
  <2>3. k = Fair!Idle \/ (k.old = R /\ k.txid = "own")
    BY ONLY Fair!SettlementBounds, <1>2, <2>2,
    k = Fair!Observe(j, conf), conf \in 0..Depth, Observed
  <2>4. CopyIsOpen(k) /\ (k.pc # "idle" => k.old.status = "processing")
    BY <2>1, <2>3 DEF CopyIsOpen, Fair!Idle
  <2> QED BY <1>4, <1>6, <2>4
<1> QED BY <1>5, <1>6 DEF Fair!WriteRow

\* A step that gives one poll something else to do, which moves no final row.
LEMMA CopiesFollow ==
  ASSUME Inv, Undecided, NEW c \in Fair!Checks, NEW k, Fair!Go(c, k), CopyIsOpen(k),
         Moot(job[c]) /\ row' = row /\ row.status = "succeeded" /\ Fair!Final => Moot(k)
  PROVE  Undecided' /\ KeepsFinal
<1>1. job'[c] = k /\ \A d \in Fair!Checks \ {c} : job'[d] = job[d]
  BY DEF Inv, Types, Fair!Go
<1>2. Undecided' BY <1>1 DEF Undecided, CopyIsOpen
<1>3. ASSUME row' = row, row.status = "succeeded", Fair!Final PROVE Fair!Final'
  <2>1. row.conf >= Depth /\ \A d \in Fair!Checks : Moot(job[d])
    BY <1>3 DEF Fair!Final, Fair!At, Moot
  <2>2. \A d \in Fair!Checks : Moot(job'[d]) BY Zenon, <1>1, <1>3, <2>1
  <2> QED BY <1>3, <2>1, <2>2 DEF Fair!Final, Fair!At, Moot
<1> QED BY <1>2, <1>3 DEF KeepsFinal

LEMMA IdleIsOpen == CopyIsOpen(Fair!Idle) /\ Moot(Fair!Idle)
BY DEF CopyIsOpen, Moot, Fair!Idle

\* No poll moves.
LEMMA CopiesStay == ASSUME Undecided, UNCHANGED job PROVE Undecided' /\ KeepsFinal
BY DEF Undecided, CopyIsOpen, KeepsFinal, Fair!Final, Fair!At

LEMMA UndecidedStep ==
  ASSUME Fair!SettlementBounds, Inv, Undecided, [Fair!Next]_(Fair!vars)
  PROVE  Undecided' /\ RowMoves /\ KeepsFinal
<1> PICK r \in RowType : r = row BY DEF Inv, Types
<1>0. ASSUME row' = row PROVE RowMoves BY <1>0 DEF RowMoves
<1>1. CASE UNCHANGED Fair!vars
  BY <1>0, <1>1, CopiesStay DEF Fair!vars
<1>2. CASE Fair!CreateIntent \/ Fair!ReportBroadcast \/ Fair!EndUnpaid \/ Fair!RowAges
  <2> PICK R : R = row' OBVIOUS
  <2>1. CASE Fair!CreateIntent
    <3>1. R = [r EXCEPT !.status = "requires_action"] /\ r.status = "none" /\ UNCHANGED job
      BY <2>1 DEF Fair!CreateIntent
    <3>2. R.status = "requires_action" BY <3>1 DEF RowType
    <3> QED BY <3>1, <3>2, CopiesStay DEF RowMoves
  <2>2. CASE Fair!ReportBroadcast
    <3>1. /\ R = r \/ (r.status = "requires_action" /\ R.status = "processing")
          /\ UNCHANGED job
      BY <2>2 DEF Fair!ReportBroadcast, Fair!MoveRow
    <3> QED BY <3>1, <1>0, CopiesStay DEF RowMoves
  <2>3. CASE Fair!EndUnpaid
    <3>1. r.status = "requires_action" /\ R.status = "canceled" /\ UNCHANGED job
      BY <2>3 DEF Fair!EndUnpaid, Fair!MoveRow
    <3> QED BY <3>1, CopiesStay DEF RowMoves
  <2>4. CASE Fair!RowAges
    <3>1. R = [r EXCEPT !.aged = TRUE] /\ r.status = "processing" /\ UNCHANGED job
      BY <2>4 DEF Fair!RowAges
    <3>2. R.status = "processing" BY <3>1 DEF RowType
    <3> QED BY <3>1, <3>2, CopiesStay DEF RowMoves
  <2> QED BY <1>2, <2>1, <2>2, <2>3, <2>4
<1>3. CASE Fair!Broadcast \/ Fair!Mine \/ Fair!Reorganise \/ Fair!ReplaceKey
  <2>1. UNCHANGED <<row, job>>
    BY <1>3 DEF Fair!Broadcast, Fair!Mine, Fair!Reorganise, Fair!ReplaceKey
  <2> QED BY <1>0, <2>1, CopiesStay
<1>4. ASSUME NEW c \in Fair!Checks, Fair!StartCheck(c) \/ Fair!StartKeySweep(c)
      PROVE  Undecided' /\ RowMoves /\ KeepsFinal
  <2>1. row' = row BY <1>4 DEF Fair!StartCheck, Fair!StartKeySweep
  <2>2. Fair!Idle \in FairJobType BY IdleIsTrue
  <2>3. \E k : /\ Fair!Go(c, k) /\ k.old = r /\ CopyIsOpen(k)
               /\ r.status = "succeeded" => r.conf < Depth
    <3>1. CASE Fair!StartCheck(c)
      <4> PICK k : k = [Fair!Idle EXCEPT !.pc = "read", !.old = r, !.txid = r.txid] OBVIOUS
      <4>1. k.old = r /\ k.txid = r.txid BY <2>2 DEF FairJobType
      <4> QED BY <3>1, <4>1 DEF Fair!StartCheck, CopyIsOpen
    <3>2. CASE r.status = "requires_action"
                 /\ Fair!Go(c, [Fair!Idle EXCEPT !.pc = "usage", !.old = r])
      <4> PICK k : k = [Fair!Idle EXCEPT !.pc = "usage", !.old = r] OBVIOUS
      <4>1. k.old = r /\ k.to = "none" BY <2>2 DEF FairJobType, Fair!Idle
      <4> QED BY <3>2, <4>1 DEF CopyIsOpen
    <3>3. CASE r.status = "processing"
                 /\ Fair!Go(c, [Fair!Idle EXCEPT !.pc = "write", !.old = r,
                        !.to = "processing",
                                  !.conf = r.conf, !.txid = r.txid, !.stamp = TRUE])
      <4> PICK k : k = [Fair!Idle EXCEPT !.pc = "write", !.old = r, !.to = "processing",
                          !.conf = r.conf, !.txid = r.txid, !.stamp = TRUE] OBVIOUS
      <4>1. k.old = r /\ k.txid = r.txid BY <2>2 DEF FairJobType, Fair!Idle
      <4> QED BY <3>3, <4>1 DEF CopyIsOpen
    <3> QED BY <1>4, <3>1, <3>2, <3>3 DEF Fair!StartKeySweep
  <2>4. PICK k : /\ Fair!Go(c, k) /\ k.old = r /\ CopyIsOpen(k)
                 /\ r.status = "succeeded" => r.conf < Depth
    BY <2>3
  <2>5. r.status = "succeeded" => ~Fair!Final
    BY <2>4 DEF Fair!Final, RowType, Fair!SettlementBounds
  <2> QED BY <1>0, <2>1, <2>4, <2>5, CopiesFollow
<1>5. ASSUME NEW c \in Fair!Checks,
             \/ Fair!ReadTransaction(c) \/ Fair!AskTip(c) \/ Fair!JudgeUnseen(c)
             \/ Fair!CheckRecipientKeys(c) \/ Fair!ChainShowsUnpaid(c)
      PROVE  Undecided' /\ RowMoves /\ KeepsFinal
  <2>1. job[c].pc # "idle" /\ row' = row /\ CopyIsOpen(job[c])
    BY <1>5, StepKeepsCopy DEF Undecided
  <2>2. PICK k : /\ Fair!Go(c, k)
                 /\ \/ k = Fair!Idle
                    \/ /\ k.old = job[c].old
                       /\ k.txid = job[c].old.txid \/ k.to = "processing"
    BY <1>5, StepKeepsCopy
  <2>3. CopyIsOpen(k) /\ (Moot(job[c]) => Moot(k))
    BY <2>1, <2>2, IdleIsOpen DEF CopyIsOpen, Moot
  <2> QED BY <1>0, <2>1, <2>2, <2>3, CopiesFollow
<1>6. ASSUME NEW c \in Fair!Checks, Fair!WriteRow(c)
      PROVE  Undecided' /\ RowMoves /\ KeepsFinal
  <2>1. CopyIsOpen(job[c]) BY DEF Undecided
  <2>2. RowMoves BY <1>6, <2>1, WriteMoves
  <2>3. PICK k : Fair!Go(c, k) /\ CopyIsOpen(k)
               /\ (k.pc # "idle" => k.old.status = "processing")
    BY <1>6, <2>1, WriteMoves
  <2>4. Moot(k) BY <2>3 DEF Moot
  <2> QED BY <2>2, <2>3, <2>4, CopiesFollow
<1>7. ASSUME NEW c \in Fair!Checks, Fair!GiveUp(c)
      PROVE  Undecided' /\ RowMoves /\ KeepsFinal
  <2>1. row' = row /\ Fair!Go(c, Fair!Idle) BY <1>7 DEF Fair!GiveUp
  <2> QED BY <1>0, <2>1, IdleIsOpen, CopiesFollow
<1>8. ASSUME NEW t \in Tasks, Fair!TimePasses(t)
      PROVE  Undecided' /\ RowMoves /\ KeepsFinal
  <2>1. UNCHANGED <<row, job>> BY <1>8 DEF Fair!TimePasses
  <2> QED BY <1>0, <2>1, CopiesStay
<1>9. ASSUME NEW t \in Tasks, Fair!Restart(t) PROVE Undecided' /\ RowMoves /\ KeepsFinal
  <2>1. row' = row /\ \A d \in Fair!Checks : job'[d] = Fair!Idle \/ job'[d] = job[d]
    BY <1>9 DEF Fair!Restart
  <2>2. \A d \in Fair!Checks : CopyIsOpen(job'[d]) /\ (Moot(job[d]) => Moot(job'[d]))
    BY <2>1, IdleIsOpen DEF Undecided, CopyIsOpen, Moot
  <2>3. KeepsFinal BY <2>1, <2>2 DEF KeepsFinal, Fair!Final, Fair!At, Moot
  <2> QED BY <1>0, <2>1, <2>2, <2>3 DEF Undecided, CopyIsOpen
<1> QED BY <1>1, <1>2, <1>3, <1>4, <1>5, <1>6, <1>7, <1>8, <1>9 DEF Fair!Next, Fair!CheckStep

LEMMA UndecidedAlways ==
  ASSUME Fair!SettlementBounds PROVE Fair!Spec => []Undecided
<1>1. Fair!Init => Undecided
  BY DEF Fair!Init, Undecided, CopyIsOpen, Fair!Idle, Fair!Checks
<1>2. Inv /\ Undecided /\ [Fair!Next]_(Fair!vars) => Undecided' BY UndecidedStep
<1> QED BY <1>1, <1>2, InvAlways, PTL DEF Fair!Spec

\* The row's moves, read as FinalStatus reads them, are those of the lifecycle.
LEMMA MovesAreLifecycle ==
  ASSUME Fair!SettlementBounds, Inv, Inv', RowMoves, KeepsFinal
  PROVE  [Fair!Lifecycle!Next]_(Fair!Lifecycle!vars)
<1> PICK f : f = Fair!FinalStatus OBVIOUS
<1> PICK g : g = Fair!FinalStatus' OBVIOUS
<1>1. /\ f = IF row.status = "succeeded" /\ ~Fair!Final THEN "processing" ELSE row.status
      /\ g = IF row'.status = "succeeded" /\ ~Fair!Final' THEN "processing"
             ELSE row'.status
  <2>1. row.status # "succeeded" => Fair!Final BY DEF Fair!Final
  <2>2. row'.status # "succeeded" => Fair!Final' BY DEF Fair!Final
  <2> QED BY <2>1, <2>2 DEF Fair!FinalStatus
<1>2. \/ f = g
      \/ f = "none" /\ g = "requires_action"
      \/ f \in {"requires_action", "processing"}
           /\ g \in {"processing", "succeeded", "canceled"}
  <2>1. row' = row /\ row.status = "succeeded" /\ Fair!Final => Fair!Final'
    BY DEF KeepsFinal
  <2>2. CASE row' = row BY <1>1, <2>1, <2>2
  <2>3. CASE row' # row BY <1>1, <2>3 DEF RowMoves
  <2> QED BY <2>2, <2>3
<1>3. CASE f = g BY <1>3 DEF Fair!Lifecycle!vars
<1>4. CASE f = "none" /\ g = "requires_action"
  BY <1>4 DEF Fair!Lifecycle!Next, Fair!Lifecycle!Create, Fair!Lifecycle!ExpirableStatuses
<1>5. CASE /\ f \in {"requires_action", "processing"}
           /\ g \in {"processing", "succeeded", "canceled"} /\ f # g
  <2>1. g \in Fair!Lifecycle!Statuses /\ Fair!Lifecycle!IsValidStatusTransition(f, g)
    BY <1>5 DEF Fair!Lifecycle!IsValidStatusTransition, Fair!Lifecycle!Allowed,
       Fair!Lifecycle!Statuses
  <2>2. <<g>> = Append(<<>>, g) OBVIOUS
  <2>3. Fair!Lifecycle!Move(g)
    BY <1>5, <2>1, <2>2 DEF Fair!Lifecycle!Move, Fair!Lifecycle!TerminalStatuses
  <2> QED BY <2>1, <2>3 DEF Fair!Lifecycle!Next
<1> QED BY <1>2, <1>3, <1>4, <1>5

\* However many tasks watch a payment and however their polls overlap, the FairCoin
\* rail keeps the promises of PaymentLifecycle: read as settled once it is Depth deep
\* and no poll that read it before is at work, the payment ends once and its status
\* walks the published table, over any reorganisations, bad readings and restarts.
THEOREM RailImplementsLifecycle ==
  ASSUME Fair!SettlementBounds PROVE Fair!Spec => Fair!ImplementsLifecycle
<1>1. Fair!Init => Fair!Lifecycle!Init
  BY DEF Fair!Init, Fair!NewRow, Fair!FinalStatus, Fair!Final, Fair!Lifecycle!Init
<1>2. Inv /\ Inv' /\ Undecided /\ [Fair!Next]_(Fair!vars)
        => [Fair!Lifecycle!Next]_(Fair!Lifecycle!vars)
  BY UndecidedStep, MovesAreLifecycle
<1> QED BY <1>1, <1>2, InvAlways, UndecidedAlways, PTL
     DEF Fair!Spec, Fair!ImplementsLifecycle, Fair!Lifecycle!Spec

-----------------------------------------------------------------------------
(*****************************************************************************)
(* Checkout sessions, for any sessions, requests, methods and bounds. A      *)
(* request works on the copy of the session it read first; what holds is     *)
(* the link. Money is only ever taken by the payment its session links,      *)
(* and a link is let go of only when the payment cannot take any. The code   *)
(* is counted on top of that: what was redeemed is what was sold, and what   *)
(* the open orders hold fits what is left.                                   *)
(*****************************************************************************)
CONSTANTS Sessions, Methods, MaxRedemptions, MaxQuotes, MaxWrites
VARIABLES session, payment, acquirer, redeemed, due, told

Order == INSTANCE CheckoutSession

\* The instance counts as this module does.
LEMMA OrderCounts == ASSUME NEW S PROVE Order!Cardinality(S) = Cardinality(S)
BY DEF Order!Cardinality, Cardinality

PaymentRows == [status : Order!Statuses, order : Order!Orders]
OrderJobType == [pc : Order!Pcs, id : Sessions \cup {"none"}, copy : Order!SessionRows,
                 method : {"card", "faircoin", "none"}, fresh : Order!Ids \cup {Order!NoId},
                 was : Order!Statuses, old : Order!Ids \cup {Order!NoId}]

\* What is recorded is well formed.
OrderBase ==
       /\ session \in [Sessions -> Order!SessionRows]
       /\ payment \in [Order!Ids -> PaymentRows]
       /\ acquirer \in [Order!Ids -> {"none", "open", "paid", "canceled"}]
       /\ redeemed \in 0..MaxRedemptions /\ due \subseteq Sessions
       /\ told \in [Sessions -> [Order!News -> Nat]]
       /\ faults \in 0..MaxFaults

\* A session links a payment of its own, made at the price the order has; it is
\* paid only when it ended, and the merchant was told as often as that says.
RowTied(r, t, s, P) ==
  /\ r.link # Order!NoId => /\ r.link \in Order!Ids /\ Order!SessionOf(r.link) = s
                            /\ P[r.link].status # "none" /\ P[r.link].order = r.order
  /\ r.status = "open" => r.paid = FALSE /\ t["completed"] = 0 /\ t["expired"] = 0
  /\ r.status = "expired" => r.paid = FALSE
  /\ r.paid = TRUE => r.link # Order!NoId
  /\ r.paid = FALSE => t["async_succeeded"] = 0
  /\ t["completed"] + t["expired"] <= 1 /\ t["async_succeeded"] <= 1

\* While the chain undoes nothing, a session is paid by a payment that succeeded.
RowPaid(r, P, f) == f = 0 /\ r.paid = TRUE => P[r.link].status = "succeeded"

TakenBy(id, P, A) == A[id] = "paid" \/ P[id].status \in {"processing", "succeeded"}

\* A payment that took money is the one its session links.
IdTied(id, S, P, A) ==
  /\ A[id] # "none" => Order!Rail(id) = "card" /\ P[id].status # "none"
  /\ TakenBy(id, P, A) => S[Order!SessionOf(id)].link = id

Rows == \A s \in Sessions : RowTied(session[s], told[s], s, payment)
Paid == \A s \in Sessions : RowPaid(session[s], payment, faults)
Tied == \A id \in Order!Ids : IdTied(id, session, payment, acquirer)

\* What a request holds when the payments are P and the acquirer's are A.
OrderJobHolds(j, P, A) ==
       /\ j.pc # "idle" => j.id \in Sessions
       /\ j.pc \in {"reprice", "reread", "create", "linked", "create_other", "link"} =>
            j.method \in {"card", "faircoin"}
       /\ j.pc \in {"link", "cancel_old", "replace", "orphan", "orphan_row"} =>
            j.fresh \in Order!Ids /\ Order!SessionOf(j.fresh) = j.id
              /\ P[j.fresh].status # "none"
       /\ j.pc = "link" => j.was # "none"
       /\ j.pc = "linked" => j.copy.link \in Order!Ids /\ Order!SessionOf(j.copy.link) = j.id
       /\ j.pc \in {"create_other", "cancel_old", "replace", "read", "expire_cancel",
                    "expire_transition"} => j.old \in Order!Ids /\ Order!SessionOf(j.old) = j.id
       /\ j.pc = "cancel_old" => Order!Rail(j.old) = "card"
       /\ j.pc = "replace" /\ Order!Rail(j.old) = "card" => A[j.old] = "canceled"

OrderHolds(j) == OrderJobHolds(j, payment, acquirer)
OrderJobs == job \in [Workers -> OrderJobType] /\ \A w \in Workers : OrderHolds(job[w])

OrderData == OrderBase /\ Rows /\ Paid /\ Tied
OrderIInv == OrderData /\ OrderJobs

\* A payment that was made keeps its price; one canceled at the acquirer stays so.
OrderOnward ==
       /\ \A id \in Order!Ids : payment[id].status # "none" =>
            payment'[id].status # "none" /\ payment'[id].order = payment[id].order
       /\ \A id \in Order!Ids : acquirer[id] = "canceled" => acquirer'[id] = "canceled"

\* Deadlines pass, and faults are counted.
Clock ==
  /\ due' \subseteq Sessions
  /\ faults' \in 0..MaxFaults /\ (faults' = 0 => faults = 0)

-----------------------------------------------------------------------------
\* A payment's id: its session and its rail.
LEMMA IdIs ==
  ASSUME NEW id \in Order!Ids
  PROVE  Order!SessionOf(id) \in Sessions /\ Order!Rail(id) \in {"card", "faircoin"}
           /\ id # Order!NoId
BY DEF Order!Ids, Order!SessionOf, Order!Rail, Order!NoId

\* A session's row is written, with its stamp.
LEMMA PutIs ==
  ASSUME OrderBase, NEW s \in Sessions, NEW new \in Order!SessionRows, Order!Put(s, new)
  PROVE  /\ session' \in [Sessions -> Order!SessionRows]
         /\ \A t \in Sessions : t # s => session'[t] = session[t]
         /\ session'[s].status = new.status /\ session'[s].paid = new.paid
         /\ session'[s].order = new.order /\ session'[s].link = new.link
<1> DEFINE r == [new EXCEPT !.written = session[s].written + 1]
<1>1. session \in [Sessions -> Order!SessionRows] BY DEF OrderBase
<1>2. session[s].written + 1 \in Nat BY <1>1 DEF Order!SessionRows
<1>3. /\ r \in Order!SessionRows /\ r.status = new.status /\ r.paid = new.paid
      /\ r.order = new.order /\ r.link = new.link
  BY <1>2 DEF Order!SessionRows
<1>4. session' = [session EXCEPT ![s] = r] BY DEF Order!Put
<1> HIDE DEF r
<1> QED BY <1>1, <1>3, <1>4

\* The merchant is told of one thing more.
LEMMA TellIs ==
  ASSUME OrderBase, NEW s \in Sessions, NEW n \in Order!News, Order!Tell(s, n)
  PROVE  /\ told' \in [Sessions -> [Order!News -> Nat]]
         /\ \A t \in Sessions : t # s => told'[t] = told[t]
         /\ told'[s][n] = told[s][n] + 1
         /\ \A m \in Order!News : m # n => told'[s][m] = told[s][m]
<1>1. told \in [Sessions -> [Order!News -> Nat]] BY DEF OrderBase
<1> QED BY <1>1 DEF Order!Tell

\* Redeeming counts up to the bound.
LEMMA RedeemIs ==
  ASSUME Order!CheckoutBounds, OrderBase, NEW s \in Sessions, Order!Redeem(s)
  PROVE  redeemed' \in 0..MaxRedemptions
BY DEF Order!CheckoutBounds, OrderBase, Order!Redeem

\* A row of sessions, and a changed copy of it.
LEMMA RowIs ==
  ASSUME OrderBase, NEW s \in Sessions
  PROVE  /\ session[s] \in Order!SessionRows /\ session[s].paid \in BOOLEAN
         /\ session[s].link \in Order!Ids \cup {Order!NoId}
              /\ session[s].order \in Order!Orders
         /\ session[s].status \in {"open", "complete", "expired"}
         /\ told[s] \in [Order!News -> Nat]
<1>1. session \in [Sessions -> Order!SessionRows]
        /\ told \in [Sessions -> [Order!News -> Nat]]
  BY DEF OrderBase
<1> QED BY <1>1 DEF Order!SessionRows

\* A worker moves to a job that holds; the others' still do.
LEMMA OrderOneJobMoves ==
  ASSUME OrderJobs, OrderOnward, NEW w \in Workers, NEW j \in OrderJobType, Order!Go(w, j),
         OrderJobHolds(j, payment', acquirer')
  PROVE  OrderJobs'
<1>1. job' \in [Workers -> OrderJobType] BY DEF OrderJobs, Order!Go
<1>2. \A x \in Workers : OrderJobHolds(job'[x], payment', acquirer')
  BY DEF OrderJobs, Order!Go, OrderOnward, OrderHolds, OrderJobHolds
<1> QED BY <1>1, <1>2 DEF OrderJobs, OrderHolds

\* Nobody moves.
LEMMA OrderJobsStay ==
  ASSUME OrderJobs, OrderOnward, UNCHANGED job PROVE OrderJobs'
<1>1. \A x \in Workers : OrderJobHolds(job'[x], payment', acquirer')
  BY DEF OrderJobs, OrderOnward, OrderHolds, OrderJobHolds
<1> QED BY <1>1 DEF OrderJobs, OrderHolds

\* A worker with nothing to do holds nothing.
LEMMA IdleHolds ==
  ASSUME Order!CheckoutBounds, NEW P, NEW A
  PROVE  Order!Idle \in OrderJobType /\ OrderJobHolds(Order!Idle, P, A)
BY DEF Order!Idle, OrderJobType, OrderJobHolds, Order!Pcs, Order!NewSession,
  Order!SessionRows,
   Order!Orders, Order!Statuses, Order!NoId

\* A row nobody writes stays tied while payments go on.
LEMMA RowStays ==
  ASSUME OrderOnward, NEW s, NEW r, NEW t, RowTied(r, t, s, payment)
  PROVE  RowTied(r, t, s, payment')
BY DEF OrderOnward, RowTied

-----------------------------------------------------------------------------
(***************************************************************************)
(* What a session does when its payment moves.                             *)
(***************************************************************************)
\* The rows of the orders after a step that wrote one of them.
Wrote(s) ==
  /\ session' \in [Sessions -> Order!SessionRows]
       /\ told' \in [Sessions -> [Order!News -> Nat]]
  /\ redeemed' \in 0..MaxRedemptions
  /\ \A t \in Sessions : t # s => session'[t] = session[t] /\ told'[t] = told[t]

\* No order is written.
LEMMA WroteNothing ==
  ASSUME OrderBase, NEW s, UNCHANGED Order!orders PROVE Wrote(s)
BY DEF OrderBase, Wrote, Order!orders

\* An open order that is linked completes.
LEMMA CompletesTied ==
  ASSUME Order!CheckoutBounds, OrderBase, NEW s \in Sessions, NEW paid \in BOOLEAN, NEW P,
         RowTied(session[s], told[s], s, P), session[s].status = "open",
         session[s].link # Order!NoId, Order!CompleteAs(s, paid)
  PROVE  /\ Wrote(s) /\ RowTied(session'[s], told'[s], s, P)
         /\ session'[s].link = session[s].link /\ session'[s].paid = paid
<1> DEFINE r == [session[s] EXCEPT !.status = "complete", !.paid = paid]
<1>1. /\ r \in Order!SessionRows /\ r.status = "complete" /\ r.paid = paid
      /\ r.order = session[s].order /\ r.link = session[s].link
  BY RowIs DEF Order!SessionRows
<1>2. Order!Put(s, r) /\ Order!Redeem(s) /\ Order!Tell(s, "completed") BY DEF Order!CompleteAs
<1> HIDE DEF r
<1>3. /\ session' \in [Sessions -> Order!SessionRows]
      /\ \A t \in Sessions : t # s => session'[t] = session[t]
      /\ session'[s].status = "complete" /\ session'[s].paid = paid
      /\ session'[s].order = session[s].order /\ session'[s].link = session[s].link
  BY <1>1, <1>2, PutIs
<1>4. "completed" \in Order!News /\ "expired" \in Order!News
        /\ "async_succeeded" \in Order!News
  BY DEF Order!News
<1>5. /\ told' \in [Sessions -> [Order!News -> Nat]]
      /\ \A t \in Sessions : t # s => told'[t] = told[t]
      /\ told'[s]["completed"] = told[s]["completed"] + 1
      /\ told'[s]["expired"] = told[s]["expired"]
      /\ told'[s]["async_succeeded"] = told[s]["async_succeeded"]
  BY <1>2, <1>4, TellIs
<1>6. redeemed' \in 0..MaxRedemptions BY <1>2, RedeemIs
<1>7. told[s]["completed"] = 0 /\ told[s]["expired"] = 0 /\ told[s]["async_succeeded"] = 0
  BY DEF RowTied
<1>8. RowTied(session'[s], told'[s], s, P)
  BY <1>3, <1>5, <1>7 DEF RowTied
<1> QED BY <1>3, <1>5, <1>6, <1>8 DEF Wrote

\* An open order expires.
LEMMA ExpiresTied ==
  ASSUME OrderBase, NEW s \in Sessions, NEW P, RowTied(session[s], told[s], s, P),
         session[s].status = "open", Order!ExpireSessionRow(s)
  PROVE  /\ Wrote(s) /\ RowTied(session'[s], told'[s], s, P)
         /\ session'[s].link = session[s].link /\ session'[s].paid = FALSE
<1> DEFINE r == [session[s] EXCEPT !.status = "expired"]
<1>1. /\ r \in Order!SessionRows /\ r.status = "expired" /\ r.paid = session[s].paid
      /\ r.order = session[s].order /\ r.link = session[s].link
  BY RowIs DEF Order!SessionRows
<1>2. Order!Put(s, r) /\ UNCHANGED redeemed /\ Order!Tell(s, "expired")
  BY DEF Order!ExpireSessionRow
<1> HIDE DEF r
<1>3. /\ session' \in [Sessions -> Order!SessionRows]
      /\ \A t \in Sessions : t # s => session'[t] = session[t]
      /\ session'[s].status = "expired" /\ session'[s].paid = session[s].paid
      /\ session'[s].order = session[s].order /\ session'[s].link = session[s].link
  BY <1>1, <1>2, PutIs
<1>4. "completed" \in Order!News /\ "expired" \in Order!News
        /\ "async_succeeded" \in Order!News
  BY DEF Order!News
<1>5. /\ told' \in [Sessions -> [Order!News -> Nat]]
      /\ \A t \in Sessions : t # s => told'[t] = told[t]
      /\ told'[s]["expired"] = told[s]["expired"] + 1
      /\ told'[s]["completed"] = told[s]["completed"]
      /\ told'[s]["async_succeeded"] = told[s]["async_succeeded"]
  BY <1>2, <1>4, TellIs
<1>6. redeemed' \in 0..MaxRedemptions BY <1>2 DEF OrderBase
<1>7. /\ told[s]["completed"] = 0 /\ told[s]["expired"] = 0
      /\ told[s]["async_succeeded"] = 0 /\ session[s].paid = FALSE
  BY DEF RowTied
<1>8. RowTied(session'[s], told'[s], s, P)
  BY <1>3, <1>5, <1>7 DEF RowTied
<1> QED BY <1>3, <1>5, <1>6, <1>7, <1>8 DEF Wrote

\* What following a payment does to its session: its link stays, unless a FairCoin
\* payment was canceled, and it is paid by a payment that succeeded.
Follows(id, status, P) ==
  LET s == Order!SessionOf(id) IN
  /\ Wrote(s) /\ RowTied(session'[s], told'[s], s, P)
  /\ \/ session'[s].link = session[s].link
     \/ /\ session[s].link = id /\ session'[s].link = Order!NoId /\ session'[s].paid = FALSE
        /\ Order!Rail(id) = "faircoin" /\ status = "canceled"
  /\ session'[s].paid = TRUE =>
       session[s].paid = TRUE \/ (status = "succeeded" /\ session[s].link = id)

LEMMA FollowsSucceeded ==
  ASSUME Order!CheckoutBounds, OrderBase, NEW id \in Order!Ids, NEW P,
         RowTied(session[Order!SessionOf(id)], told[Order!SessionOf(id)], Order!SessionOf(id),
             P),
         session[Order!SessionOf(id)].link
           = id, Order!FollowSucceeded(Order!SessionOf(id), id)
  PROVE  Follows(id, "succeeded", P)
<1> DEFINE s == Order!SessionOf(id)
<1>1. s \in Sessions /\ id # Order!NoId BY IdIs
<1>2. session[s].paid \in BOOLEAN BY <1>1, RowIs
<1> HIDE DEF s
<1>3. CASE session[s].status = "open" /\ Order!CompleteAs(s, TRUE)
  BY <1>1, <1>3, CompletesTied DEF Follows, s
<1>4. CASE /\ session[s].status = "complete" /\ ~session[s].paid
           /\ Order!Put(s, [session[s] EXCEPT !.paid = TRUE])
           /\ (IF Order!Rail(id) = "faircoin" THEN Order!Tell(s,
                  "async_succeeded") ELSE UNCHANGED told)
           /\ UNCHANGED redeemed
  <2> DEFINE r == [session[s] EXCEPT !.paid = TRUE]
  <2>1. /\ r \in Order!SessionRows /\ r.status = session[s].status /\ r.paid = TRUE
        /\ r.order = session[s].order /\ r.link = session[s].link
    BY <1>1, RowIs DEF Order!SessionRows
  <2>2. Order!Put(s, r) BY <1>4
  <2> HIDE DEF r
  <2>3. /\ session' \in [Sessions -> Order!SessionRows]
        /\ \A t \in Sessions : t # s => session'[t] = session[t]
        /\ session'[s].status = "complete" /\ session'[s].paid = TRUE
        /\ session'[s].order = session[s].order /\ session'[s].link = session[s].link
    BY <1>1, <1>4, <2>1, <2>2, PutIs
  <2>4. "completed" \in Order!News /\ "expired" \in Order!News
          /\ "async_succeeded" \in Order!News
    BY DEF Order!News
  <2>5. /\ told' \in [Sessions -> [Order!News -> Nat]]
        /\ \A t \in Sessions : t # s => told'[t] = told[t]
        /\ told'[s]["async_succeeded"] \in
             {told[s]["async_succeeded"], told[s]["async_succeeded"] + 1}
        /\ told'[s]["completed"] = told[s]["completed"]
        /\ told'[s]["expired"] = told[s]["expired"]
    <3>1. CASE UNCHANGED told BY <3>1 DEF OrderBase
    <3>2. CASE Order!Tell(s, "async_succeeded") BY <1>1, <2>4, <3>2, TellIs
    <3> QED BY <1>4, <3>1, <3>2
  <2>6. redeemed' \in 0..MaxRedemptions BY <1>4 DEF OrderBase
  <2>7. RowTied(session[s], told[s], s, P) BY DEF s
  <2>8. told[s]["async_succeeded"] = 0
    BY <1>2, <1>4, <2>7 DEF RowTied
  <2>9. RowTied(session'[s], told'[s], s, P)
    BY <1>1, <2>3, <2>5, <2>7, <2>8 DEF RowTied, s
  <2> QED BY <2>3, <2>5, <2>6, <2>9 DEF Follows, Wrote, s
<1>5. CASE UNCHANGED Order!orders
  <2>1. Wrote(s) BY <1>5, WroteNothing
  <2>2. session'[s] = session[s] /\ told'[s] = told[s] BY <1>5 DEF Order!orders
  <2> QED BY <2>1, <2>2 DEF Follows, s
<1> QED BY <1>3, <1>4, <1>5 DEF Order!FollowSucceeded, s

LEMMA FollowsProcessing ==
  ASSUME Order!CheckoutBounds, OrderBase, NEW id \in Order!Ids, NEW P,
         RowTied(session[Order!SessionOf(id)], told[Order!SessionOf(id)], Order!SessionOf(id),
             P),
         session[Order!SessionOf(id)].link
           = id, Order!FollowProcessing(Order!SessionOf(id), id)
  PROVE  Follows(id, "processing", P)
<1> DEFINE s == Order!SessionOf(id)
<1>1. s \in Sessions /\ id # Order!NoId BY IdIs
<1> HIDE DEF s
<1>2. CASE session[s].status = "open" /\ Order!CompleteAs(s, FALSE)
  BY <1>1, <1>2, CompletesTied DEF Follows, s
<1>3. CASE UNCHANGED Order!orders
  <2>1. Wrote(s) BY <1>3, WroteNothing
  <2>2. session'[s] = session[s] /\ told'[s] = told[s] BY <1>3 DEF Order!orders
  <2> QED BY <2>1, <2>2 DEF Follows, s
<1> QED BY <1>2, <1>3 DEF Order!FollowProcessing, s

LEMMA FollowsCanceled ==
  ASSUME Order!CheckoutBounds, OrderBase, NEW id \in Order!Ids, NEW P,
         RowTied(session[Order!SessionOf(id)], told[Order!SessionOf(id)], Order!SessionOf(id),
             P),
         session[Order!SessionOf(id)].link = id, Order!FollowCanceled(Order!SessionOf(id), id)
  PROVE  Follows(id, "canceled", P)
<1> DEFINE s == Order!SessionOf(id)
<1>1. s \in Sessions /\ id # Order!NoId /\ Order!Rail(id) \in {"card", "faircoin"} BY IdIs
<1>2. RowTied(session[s], told[s], s, P) BY DEF s
<1> HIDE DEF s
<1>3. CASE /\ session[s].status = "open" /\ Order!Rail(id) = "faircoin"
           /\ Order!Put(s, [session[s] EXCEPT !.link = Order!NoId])
           /\ UNCHANGED <<redeemed, told>>
  <2> DEFINE r == [session[s] EXCEPT !.link = Order!NoId]
  <2>1. /\ r \in Order!SessionRows /\ r.status = session[s].status /\ r.paid = session[s].paid
        /\ r.order = session[s].order /\ r.link = Order!NoId
    BY <1>1, RowIs DEF Order!SessionRows
  <2>2. Order!Put(s, r) BY <1>3
  <2> HIDE DEF r
  <2>3. /\ session' \in [Sessions -> Order!SessionRows]
        /\ \A t \in Sessions : t # s => session'[t] = session[t]
        /\ session'[s].status = "open" /\ session'[s].paid = session[s].paid
        /\ session'[s].order = session[s].order /\ session'[s].link = Order!NoId
    BY <1>1, <1>3, <2>1, <2>2, PutIs
  <2>4. session[s].paid = FALSE BY <1>2, <1>3 DEF RowTied
  <2>5. told'[s] = told[s] BY <1>3
  <2>6. RowTied(session'[s], told'[s], s, P)
    BY <1>2, <1>3, <2>3, <2>4, <2>5 DEF RowTied
  <2>7. Wrote(s) BY <1>3, <2>3 DEF Wrote, OrderBase
  <2> QED BY <1>3, <2>3, <2>4, <2>6, <2>7 DEF Follows, s
<1>4. CASE session[s].status = "open" /\ Order!ExpireSessionRow(s)
  BY <1>1, <1>2, <1>4, ExpiresTied DEF Follows, s
<1>5. CASE /\ session[s].status = "complete" /\ Order!Tell(s, "async_failed")
           /\ UNCHANGED <<session, redeemed>>
  <2>1. {"completed", "expired", "async_succeeded", "async_failed"} \subseteq Order!News
    BY DEF Order!News
  <2>2. /\ told' \in [Sessions -> [Order!News -> Nat]]
        /\ \A t \in Sessions : t # s => told'[t] = told[t]
        /\ told'[s]["async_succeeded"] = told[s]["async_succeeded"]
        /\ told'[s]["completed"] = told[s]["completed"]
        /\ told'[s]["expired"] = told[s]["expired"]
    BY <1>1, <1>5, <2>1, TellIs
  <2>3. RowTied(session'[s], told'[s], s, P)
    BY <1>2, <1>5, <2>2 DEF RowTied
  <2>4. Wrote(s) BY <1>5, <2>2 DEF Wrote, OrderBase
  <2> QED BY <1>5, <2>3, <2>4 DEF Follows, s
<1>6. CASE UNCHANGED Order!orders
  <2>1. Wrote(s) BY <1>6, WroteNothing
  <2>2. session'[s] = session[s] /\ told'[s] = told[s] BY <1>6 DEF Order!orders
  <2> QED BY <1>2, <2>1, <2>2 DEF Follows, s
<1> QED BY <1>1, <1>3, <1>4, <1>5, <1>6 DEF Order!FollowCanceled, s

\* A session follows its payment, or is none of its.
LEMMA FollowIs ==
  ASSUME Order!CheckoutBounds, OrderBase, NEW id \in Order!Ids, NEW P,
         RowTied(session[Order!SessionOf(id)], told[Order!SessionOf(id)], Order!SessionOf(id),
             P),
         NEW status
           \in {"succeeded", "processing", "canceled"}, Order!FollowIntent(id, status)
  PROVE  Follows(id, status, P)
<1>1. CASE session[Order!SessionOf(id)].link # id
  <2> DEFINE s == Order!SessionOf(id)
  <2>1. UNCHANGED Order!orders BY <1>1 DEF Order!FollowIntent
  <2>2. Wrote(s) BY <2>1, WroteNothing
  <2>3. RowTied(session[s], told[s], s, P) OBVIOUS
  <2>4. session'[s] = session[s] /\ told'[s] = told[s] BY <2>1 DEF Order!orders
  <2> HIDE DEF s
  <2>5. RowTied(session'[s], told'[s], s, P) BY <2>3, <2>4
  <2> QED BY <2>2, <2>4, <2>5 DEF Follows, s
<1>2. CASE session[Order!SessionOf(id)].link = id
  BY <1>2, FollowsSucceeded, FollowsProcessing, FollowsCanceled DEF Order!FollowIntent
<1> QED BY <1>1, <1>2

-----------------------------------------------------------------------------
(***************************************************************************)
(* What each kind of write leaves.                                         *)
(***************************************************************************)
\* A payment moves and its session with it: it takes money only when linked, and a
\* success is undone only by the chain.
LEMMA PaymentMoved ==
  ASSUME Order!CheckoutBounds, OrderData, Clock, NEW id \in Order!Ids, NEW from
    \in Order!Statuses \ {"none"},
         NEW to \in {"succeeded", "processing", "canceled"},
         Order!MovePayment(id, from, to), UNCHANGED acquirer,
         to \in {"succeeded", "processing"} => session[Order!SessionOf(id)].link = id,
         from = "succeeded" => session[Order!SessionOf(id)].link # id \/ faults' # 0
  PROVE  OrderData' /\ OrderOnward
<1> DEFINE s == Order!SessionOf(id)
<1>1. /\ s \in Sessions /\ id # Order!NoId /\ payment \in [Order!Ids -> PaymentRows]
      /\ \A t \in Sessions : RowTied(session[t], told[t], t, payment)
      /\ \A t \in Sessions : RowPaid(session[t], payment, faults)
      /\ \A i \in Order!Ids : IdTied(i, session, payment, acquirer)
  BY IdIs DEF OrderData, OrderBase, Rows, Paid, Tied
<1>2. CASE payment[id].status # from
  <2>1. UNCHANGED <<payment, Order!orders, acquirer>> BY <1>2 DEF Order!MovePayment
  <2>2. OrderBase' BY <2>1 DEF OrderData, OrderBase, Order!orders, Clock
  <2>3. Rows' /\ Tied' BY <2>1 DEF OrderData, Rows, Tied, Order!orders
  <2>4. Paid' BY <2>1 DEF OrderData, Paid, RowPaid, Order!orders, Clock
  <2>5. OrderOnward BY <2>1 DEF OrderOnward
  <2> QED BY <2>2, <2>3, <2>4, <2>5 DEF OrderData
<1>3. CASE payment[id].status = from
  <2>1. payment' = [payment EXCEPT ![id].status = to] /\ Order!FollowIntent(id, to)
    BY <1>3 DEF Order!MovePayment
  <2>2. to \in Order!Statuses BY DEF Order!Statuses
  <2>3. /\ payment' \in [Order!Ids -> PaymentRows]
        /\ payment'[id].status = to /\ payment'[id].order = payment[id].order
        /\ \A i \in Order!Ids : i # id => payment'[i] = payment[i]
    BY <1>1, <2>1, <2>2 DEF PaymentRows
  <2>4. OrderOnward BY <1>3, <2>3 DEF OrderOnward
  <2>5. \A t \in Sessions : RowTied(session[t], told[t], t, payment')
    BY <1>1, <2>4, RowStays
  <2>6. Follows(id, to, payment')
    <3>1. RowTied(session[Order!SessionOf(id)], told[Order!SessionOf(id)],
              Order!SessionOf(id), payment')
      BY <1>1, <2>5
    <3>2. OrderBase BY DEF OrderData
    <3> QED BY <2>1, <3>1, <3>2, FollowIs
  <2>7. /\ Wrote(s) /\ RowTied(session'[s], told'[s], s, payment')
        /\ \/ session'[s].link = session[s].link
           \/ /\ session[s].link = id /\ session'[s].link = Order!NoId
                   /\ session'[s].paid = FALSE
              /\ Order!Rail(id) = "faircoin" /\ to = "canceled"
        /\ session'[s].paid = TRUE =>
             session[s].paid = TRUE \/ (to = "succeeded" /\ session[s].link = id)
    BY <2>6 DEF Follows
  <2>8. \A t \in Sessions : t # s => session'[t] = session[t] /\ told'[t] = told[t]
    BY <2>7 DEF Wrote
  <2>9. (to \in {"succeeded", "processing"} => session[s].link = id)
        /\ (from = "succeeded" => session[s].link # id \/ faults' # 0)
    OBVIOUS
  <2>10. \A i \in Order!Ids : Order!SessionOf(i) \in Sessions BY IdIs
  <2> HIDE DEF s
  <2>11. OrderBase' BY <2>3, <2>7 DEF OrderData, OrderBase, Wrote, Clock
  <2>12. Rows' BY <2>5, <2>7, <2>8 DEF Rows
  <2>13. Paid'
    <3>1. ASSUME NEW t \in Sessions, t # s PROVE RowPaid(session'[t], payment', faults')
      <4>1. session[t].paid = TRUE
              => session[t].link \in Order!Ids /\ Order!SessionOf(session[t].link) = t
        BY <1>1 DEF RowTied
      <4>2. session[t].paid = TRUE => session[t].link # id BY <3>1, <4>1 DEF s
      <4>3. RowPaid(session[t], payment', faults')
        BY <1>1, <2>3, <4>1, <4>2 DEF RowPaid, Clock
      <4> QED BY <2>8, <3>1, <4>3
    <3>2. ASSUME faults' = 0, session'[s].paid = TRUE
          PROVE  payment'[session'[s].link].status = "succeeded"
      <4>1. session'[s].link = session[s].link BY <2>7, <3>2
      <4>2. CASE to = "succeeded" /\ session[s].link = id BY <2>3, <4>1, <4>2
      <4>3. CASE session[s].paid = TRUE
        <5>1. /\ payment[session[s].link].status = "succeeded"
                   /\ session[s].link \in Order!Ids
          BY <1>1, <3>2, <4>3 DEF RowPaid, RowTied, Clock
        <5>2. session[s].link # id BY <1>3, <2>9, <3>2, <5>1
        <5> QED BY <2>3, <4>1, <5>1, <5>2
      <4> QED BY <2>7, <3>2, <4>2, <4>3
    <3>3. \A t \in Sessions : RowPaid(session'[t], payment', faults')
      BY <3>1, <3>2 DEF RowPaid
    <3> QED BY <3>3 DEF Paid
  <2>14. Tied'
    <3>1. ASSUME NEW i \in Order!Ids, i # id PROVE IdTied(i, session', payment', acquirer')
      <4>1. IdTied(i, session, payment', acquirer') BY <1>1, <2>3, <3>1 DEF IdTied, TakenBy
      <4>2. session[Order!SessionOf(i)].link = i => session'[Order!SessionOf(i)].link = i
        BY <2>7, <2>8, <2>10, <3>1
      <4> QED BY <4>1, <4>2 DEF IdTied
    <3>2. IdTied(id, session', payment', acquirer')
      <4>1. IdTied(id, session, payment, acquirer) BY <1>1
      <4>2. acquirer'[id] # "none" => Order!Rail(id) = "card" /\ payment'[id].status # "none"
        BY <2>3, <4>1 DEF IdTied
      <4>3. TakenBy(id, payment', acquirer') =>
              session[s].link = id /\ (Order!Rail(id) = "card" \/ to # "canceled")
        BY <2>3, <2>9, <4>1 DEF IdTied, TakenBy, s
      <4>4. TakenBy(id, payment', acquirer') => session'[s].link = id
        BY <2>7, <4>3
      <4> QED BY <4>2, <4>4 DEF IdTied, s
    <3>3. \A i \in Order!Ids : IdTied(i, session', payment', acquirer') BY <3>1, <3>2
    <3> QED BY <3>3 DEF Tied
  <2> QED BY <2>4, <2>11, <2>12, <2>13, <2>14 DEF OrderData
<1> QED BY <1>2, <1>3

\* Nothing that is recorded changes.
LEMMA DataSame ==
  ASSUME OrderData, Clock, UNCHANGED <<payment, acquirer, Order!orders>>
  PROVE  OrderData' /\ OrderOnward
<1>1. OrderBase' BY DEF OrderData, OrderBase, Order!orders, Clock
<1>2. Rows' /\ Tied' BY DEF OrderData, Rows, Tied, Order!orders
<1>3. Paid' BY DEF OrderData, Paid, RowPaid, Order!orders, Clock
<1>4. OrderOnward BY DEF OrderOnward
<1> QED BY <1>1, <1>2, <1>3, <1>4 DEF OrderData

\* One order is written and its payments are not: an order that was linked keeps its link.
LEMMA OrderWritten ==
  ASSUME OrderData, Clock, NEW s \in Sessions, Wrote(s), UNCHANGED <<payment, acquirer>>,
         RowTied(session'[s], told'[s], s, payment),
         session[s].link # Order!NoId => session'[s].link = session[s].link,
         session'[s].paid = TRUE => session[s].paid = TRUE
  PROVE  OrderData' /\ OrderOnward
<1>1. /\ \A t \in Sessions : RowTied(session[t], told[t], t, payment)
      /\ \A t \in Sessions : RowPaid(session[t], payment, faults)
      /\ \A i \in Order!Ids : IdTied(i, session, payment, acquirer)
      /\ \A t \in Sessions : t # s => session'[t] = session[t] /\ told'[t] = told[t]
      /\ faults' = 0 => faults = 0
  BY DEF OrderData, Rows, Paid, Tied, Wrote, Clock
<1>2. OrderBase' BY DEF OrderData, OrderBase, Wrote, Clock
<1>3. \A t \in Sessions : RowTied(session'[t], told'[t], t, payment')
  BY <1>1
<1>4. \A t \in Sessions : RowPaid(session'[t], payment', faults')
  <2>1. RowPaid(session'[s], payment', faults')
    BY <1>1 DEF RowPaid, RowTied
  <2>2. ASSUME NEW t \in Sessions, t # s PROVE RowPaid(session'[t], payment', faults')
    BY <1>1, <2>2 DEF RowPaid
  <2> QED BY <2>1, <2>2
<1>5. \A i \in Order!Ids : IdTied(i, session', payment', acquirer')
  <2>1. ASSUME NEW i \in Order!Ids PROVE IdTied(i, session', payment', acquirer')
    <3>1. session[Order!SessionOf(i)].link = i => session'[Order!SessionOf(i)].link = i
      BY <1>1, IdIs
    <3>2. IdTied(i, session, payment, acquirer) BY <1>1
    <3> QED BY <3>1, <3>2 DEF IdTied
  <2> QED BY <2>1
<1>6. OrderOnward BY DEF OrderOnward
<1> QED BY <1>2, <1>3, <1>4, <1>5, <1>6 DEF OrderData, Rows, Paid, Tied

\* A payment moves at the acquirer: it is paid only while its session links it.
LEMMA AcquirerMoved ==
  ASSUME OrderData, Clock, NEW id \in Order!Ids, NEW x \in {"paid", "canceled"},
         acquirer' = [acquirer EXCEPT ![id] = x], acquirer[id] \notin {"none", "canceled"},
         x = "paid"
           => session[Order!SessionOf(id)].link = id, UNCHANGED <<payment, Order!orders>>
  PROVE  OrderData' /\ OrderOnward
<1>1. /\ acquirer \in [Order!Ids -> {"none", "open", "paid", "canceled"}]
      /\ \A i \in Order!Ids : IdTied(i, session, payment, acquirer)
  BY DEF OrderData, OrderBase, Tied
<1>2. /\ acquirer' \in [Order!Ids -> {"none", "open", "paid", "canceled"}]
      /\ acquirer'[id] = x /\ \A i \in Order!Ids : i # id => acquirer'[i] = acquirer[i]
  BY <1>1
<1>3. OrderBase' BY <1>2 DEF OrderData, OrderBase, Order!orders, Clock
<1>4. Rows' BY DEF OrderData, Rows, Order!orders
<1>5. Paid' BY DEF OrderData, Paid, RowPaid, Order!orders, Clock
<1>6. \A i \in Order!Ids : IdTied(i, session, payment, acquirer')
  BY <1>1, <1>2 DEF IdTied, TakenBy
<1>7. Tied' BY <1>6 DEF Tied, Order!orders
<1>8. OrderOnward BY <1>2 DEF OrderOnward
<1> QED BY <1>3, <1>4, <1>5, <1>7, <1>8 DEF OrderData

\* cancelCardPaymentAtProvider: what was open is canceled, all else stays.
LEMMA ProviderCanceled ==
  ASSUME OrderData, Clock, NEW id
    \in Order!Ids, Order!CancelAtProvider(id), UNCHANGED <<payment, Order!orders>>
  PROVE  OrderData' /\ OrderOnward
<1>1. acquirer \in [Order!Ids -> {"none", "open", "paid", "canceled"}]
  BY DEF OrderData, OrderBase
<1>2. CASE acquirer[id] = "open"
  <2>1. acquirer' = [acquirer EXCEPT ![id] = "canceled"] BY <1>2 DEF Order!CancelAtProvider
  <2> QED BY <1>2, <2>1, AcquirerMoved
<1>3. CASE acquirer[id] # "open"
  <2>1. acquirer' = acquirer BY <1>1, <1>3 DEF Order!CancelAtProvider
  <2> QED BY <2>1, DataSame
<1> QED BY <1>2, <1>3

\* A session's payments are its own.
LEMMA PaymentsAre ==
  ASSUME NEW s \in Sessions, NEW order \in Order!Orders, NEW method \in {"card", "faircoin"},
         NEW id \in Order!SessionPayments(s, order, method)
  PROVE  id \in Order!Ids /\ Order!SessionOf(id) = s /\ Order!Rail(id) = method
BY DEF Order!SessionPayments, Order!Ids, Order!SessionOf, Order!Rail

\* A payment is made, open at the acquirer when it is by card, and nobody's yet.
LEMMA PaymentMade ==
  ASSUME OrderData, Clock, NEW id \in Order!Ids, NEW order
    \in Order!Orders, payment[id].status = "none",
         payment' = [payment EXCEPT ![id] = [status |-> "waiting", order |-> order]],
         \/ UNCHANGED acquirer
         \/ Order!Rail(id) = "card" /\ acquirer' = [acquirer EXCEPT ![id] = "open"],
         UNCHANGED Order!orders
  PROVE  OrderData' /\ OrderOnward
<1>1. /\ acquirer \in [Order!Ids -> {"none", "open", "paid", "canceled"}]
      /\ payment \in [Order!Ids -> PaymentRows]
      /\ \A t \in Sessions : RowTied(session[t], told[t], t, payment)
      /\ \A t \in Sessions : RowPaid(session[t], payment, faults)
      /\ \A i \in Order!Ids : IdTied(i, session, payment, acquirer)
  BY DEF OrderData, OrderBase, Rows, Paid, Tied
<1>2. /\ payment' \in [Order!Ids -> PaymentRows]
      /\ payment'[id].status = "waiting" /\ \A i \in Order!Ids : i # id
           => payment'[i] = payment[i]
  BY <1>1 DEF PaymentRows, Order!Statuses
<1>3. acquirer[id] = "none" BY <1>1 DEF IdTied
<1>4. /\ acquirer' \in [Order!Ids -> {"none", "open", "paid", "canceled"}]
      /\ acquirer'[id] \in {"none", "open"}
           /\ (acquirer'[id] = "open" => Order!Rail(id) = "card")
      /\ \A i \in Order!Ids : i # id => acquirer'[i] = acquirer[i]
  BY <1>1, <1>3
<1>5. OrderBase' BY <1>2, <1>4 DEF OrderData, OrderBase, Order!orders, Clock
<1>6. OrderOnward BY <1>2, <1>3, <1>4 DEF OrderOnward
<1>7. Rows'
  <2>1. \A t \in Sessions : RowTied(session[t], told[t], t, payment')
    BY <1>1, <1>6, RowStays
  <2> QED BY <2>1 DEF Rows, Order!orders
<1>8. Paid'
  <2>1. \A t \in Sessions : RowPaid(session[t], payment', faults')
    BY <1>1, <1>2 DEF RowPaid, RowTied, Clock
  <2> QED BY <2>1 DEF Paid, Order!orders
<1>9. Tied'
  <2>1. \A i \in Order!Ids : IdTied(i, session, payment', acquirer')
    BY <1>1, <1>2, <1>4 DEF IdTied, TakenBy
  <2> QED BY <2>1 DEF Tied, Order!orders
<1> QED BY <1>5, <1>6, <1>7, <1>8, <1>9 DEF OrderData

\* The payment that gives way cannot take money: another one is linked for it.
LEMMA PaymentReplaced ==
  ASSUME OrderData, Clock, NEW s \in Sessions, NEW old \in Order!Ids, NEW fresh \in Order!Ids,
         session[s].status = "open", session[s].link = old, Order!SessionOf(old) = s,
         Order!SessionOf(fresh) = s, payment[fresh].status # "none",
         session[s].order = payment[fresh].order, payment[old].status = "waiting",
         acquirer[old] # "paid",
         Order!Put(s, [session[s] EXCEPT !.link = fresh]),
         payment' = [payment EXCEPT ![old].status = "canceled"],
         UNCHANGED <<acquirer, redeemed, told>>
  PROVE  OrderData' /\ OrderOnward
<1> DEFINE r == [session[s] EXCEPT !.link = fresh]
<1>1. /\ payment \in [Order!Ids -> PaymentRows] /\ OrderBase
      /\ \A t \in Sessions : RowTied(session[t], told[t], t, payment)
      /\ \A t \in Sessions : RowPaid(session[t], payment, faults)
      /\ \A i \in Order!Ids : IdTied(i, session, payment, acquirer)
  BY DEF OrderData, OrderBase, Rows, Paid, Tied
<1>2. /\ r \in Order!SessionRows /\ r.status = session[s].status /\ r.paid = session[s].paid
      /\ r.order = session[s].order /\ r.link = fresh
  BY <1>1, RowIs DEF Order!SessionRows
<1> HIDE DEF r
<1>3. /\ session' \in [Sessions -> Order!SessionRows]
      /\ \A t \in Sessions : t # s => session'[t] = session[t]
      /\ session'[s].status = "open" /\ session'[s].paid = session[s].paid
      /\ session'[s].order = session[s].order /\ session'[s].link = fresh
  <2>1. Order!Put(s, r) BY DEF r
  <2> QED BY <1>1, <1>2, <2>1, PutIs
<1>4. /\ payment' \in [Order!Ids -> PaymentRows]
      /\ payment'[old].status = "canceled" /\ payment'[old].order = payment[old].order
      /\ \A i \in Order!Ids : i # old => payment'[i] = payment[i]
  BY <1>1 DEF PaymentRows, Order!Statuses
<1>5. OrderBase' BY <1>3, <1>4 DEF OrderData, OrderBase, Clock
<1>6. OrderOnward BY <1>4 DEF OrderOnward
<1>7. Rows'
  <2>1. \A t \in Sessions : RowTied(session[t], told[t], t, payment')
    BY <1>1, <1>6, RowStays
  <2>2. payment'[fresh].status # "none" /\ payment'[fresh].order = session'[s].order
    BY <1>3, <1>6 DEF OrderOnward
  <2>3. fresh # Order!NoId BY IdIs
  <2>4. RowTied(session[s], told[s], s, payment') BY <2>1
  <2>5. RowTied(session'[s], told'[s], s, payment')
    BY <1>3, <2>2, <2>3, <2>4 DEF RowTied
  <2> QED BY <1>3, <2>1, <2>5 DEF Rows
<1>8. Paid'
  <2>1. session'[s].paid = FALSE BY <1>1, <1>3 DEF RowTied
  <2>2. ASSUME NEW t \in Sessions, t # s PROVE RowPaid(session'[t], payment', faults')
    <3>1. session[t].paid = TRUE
            => session[t].link \in Order!Ids /\ Order!SessionOf(session[t].link) = t
      BY <1>1 DEF RowTied
    <3>2. session[t].paid = TRUE => session[t].link # old BY <2>2, <3>1
    <3>3. RowPaid(session[t], payment', faults')
      BY <1>1, <1>4, <3>1, <3>2 DEF RowPaid, Clock
    <3> QED BY <1>3, <2>2, <3>3
  <2>3. RowPaid(session'[s], payment', faults') BY <2>1 DEF RowPaid
  <2> QED BY <2>2, <2>3 DEF Paid
<1>9. Tied'
  <2>1. ASSUME NEW i \in Order!Ids PROVE IdTied(i, session', payment', acquirer')
    <3>1. IdTied(i, session, payment, acquirer) BY <1>1
    <3>2. TakenBy(i, payment', acquirer) => i # old /\ TakenBy(i, payment, acquirer)
      BY <1>4 DEF TakenBy
    <3>3. TakenBy(i, payment', acquirer) => Order!SessionOf(i) # s
      BY <3>1, <3>2 DEF IdTied
    <3>4. TakenBy(i, payment', acquirer) => session'[Order!SessionOf(i)].link = i
      BY <1>3, <3>1, <3>2, <3>3, IdIs DEF IdTied
    <3>5. payment[i].status # "none" => payment'[i].status # "none"
      BY <1>6 DEF OrderOnward
    <3> QED BY <3>1, <3>4, <3>5 DEF IdTied
  <2> QED BY <2>1 DEF Tied
<1> QED BY <1>5, <1>6, <1>7, <1>8, <1>9 DEF OrderData

-----------------------------------------------------------------------------
(***************************************************************************)
(* Each action keeps what is recorded and what the requests hold.          *)
(***************************************************************************)
\* A request goes on to its next step.
LEMMA JobIs ==
  ASSUME OrderJobs, NEW w \in Workers, NEW pc \in Order!Pcs
  PROVE  LET k == [job[w] EXCEPT !.pc = pc] IN
         /\ k \in OrderJobType /\ k.pc = pc /\ k.id = job[w].id /\ k.copy = job[w].copy
         /\ k.method = job[w].method /\ k.fresh = job[w].fresh /\ k.was = job[w].was
         /\ k.old = job[w].old
<1>1. job[w] \in OrderJobType BY DEF OrderJobs
<1> QED BY <1>1 DEF OrderJobType

LEMMA GoesOn ==
  ASSUME OrderJobs, OrderOnward, NEW w \in Workers, NEW pc \in Order!Pcs, Order!GoTo(w, pc),
         \A k \in OrderJobType : /\ k.pc = pc /\ k.id = job[w].id /\ k.copy = job[w].copy
                                 /\ k.method = job[w].method /\ k.fresh = job[w].fresh
                                 /\ k.was = job[w].was /\ k.old = job[w].old
                                 => OrderJobHolds(k, payment', acquirer')
  PROVE  OrderJobs'
<1> DEFINE k == [job[w] EXCEPT !.pc = pc]
<1>1. /\ k \in OrderJobType /\ k.pc = pc /\ k.id = job[w].id /\ k.copy = job[w].copy
      /\ k.method = job[w].method /\ k.fresh = job[w].fresh /\ k.was = job[w].was
      /\ k.old = job[w].old
  BY JobIs
<1>2. Order!Go(w, k) BY DEF Order!GoTo
<1> HIDE DEF k
<1>3. OrderJobHolds(k, payment', acquirer') BY <1>1
<1> QED BY <1>1, <1>2, <1>3, OrderOneJobMoves

\* The request is over.
LEMMA Ends ==
  ASSUME Order!CheckoutBounds, OrderJobs, OrderOnward, NEW w
    \in Workers, Order!Go(w, Order!Idle)
  PROVE  OrderJobs'
BY IdleHolds, OrderOneJobMoves

\* Nothing else happens meanwhile.
LEMMA ClockStays ==
  ASSUME OrderData, UNCHANGED due, \/ UNCHANGED faults
                                   \/ Order!CheckoutBounds /\ Order!Fault
  PROVE  Clock
BY DEF OrderData, OrderBase, Clock, Order!Fault, Order!CheckoutBounds

\* A request starts to confirm an open session.
LEMMA StartConfirmStep ==
  ASSUME Order!CheckoutBounds, OrderIInv, NEW w \in Workers, Order!StartConfirm(w)
  PROVE  OrderIInv'
<1>1. OrderData /\ OrderJobs /\ OrderBase /\ Rows BY DEF OrderIInv, OrderData
<1>2. PICK s \in Sessions, method \in Methods :
        Order!Go(w,
            [Order!Idle EXCEPT !.pc = IF session[s].link = Order!NoId THEN "reprice" ELSE "linked",
                             !.id = s, !.copy = session[s], !.method = method])
  BY DEF Order!StartConfirm
<1>3. UNCHANGED <<payment, acquirer, Order!orders, due, faults>> BY DEF Order!StartConfirm
<1>4. OrderData' /\ OrderOnward BY <1>1, <1>3, ClockStays, DataSame
<1> DEFINE j == [Order!Idle EXCEPT
                         !.pc = IF session[s].link = Order!NoId THEN "reprice" ELSE "linked",
                         !.id = s, !.copy = session[s], !.method = method]
<1>5. /\ session[s] \in Order!SessionRows /\ RowTied(session[s], told[s], s, payment)
      /\ session[s].link \in Order!Ids \cup {Order!NoId} /\ method \in {"card", "faircoin"}
  BY <1>1, RowIs DEF Rows, Order!CheckoutBounds
<1>6. Order!Idle \in OrderJobType BY IdleHolds
<1>7. /\ j \in OrderJobType
           /\ j.pc = (IF session[s].link = Order!NoId THEN "reprice" ELSE "linked")
      /\ j.id = s /\ j.copy = session[s] /\ j.method = method
  BY <1>5, <1>6 DEF OrderJobType, Order!Pcs
<1>8. Order!Go(w, j) BY <1>2
<1> HIDE DEF j
<1>9. OrderJobHolds(j, payment', acquirer')
  BY <1>5, <1>7 DEF OrderJobHolds, RowTied
<1> QED BY <1>1, <1>4, <1>7, <1>8, <1>9, OrderOneJobMoves DEF OrderIInv

\* The order is written as it is, if it is still open.
LEMMA SameOrder ==
  ASSUME OrderData, Clock, NEW s \in Sessions, NEW new \in Order!SessionRows,
         new.status = session[s].status, new.paid = session[s].paid,
         new.order = session[s].order \/ session[s].link = Order!NoId,
         new.link = session[s].link \/ session[s].link = Order!NoId,
         new.link # Order!NoId => /\ new.link \in Order!Ids /\ Order!SessionOf(new.link) = s
                                  /\ payment[new.link].status # "none"
                                  /\ payment[new.link].order = new.order,
         session[s].status = "open",
         Order!Put(s, new), UNCHANGED <<payment, acquirer, redeemed, told>>
  PROVE  OrderData' /\ OrderOnward
<1>1. OrderBase /\ RowTied(session[s], told[s], s, payment) BY DEF OrderData, Rows
<1>2. /\ session' \in [Sessions -> Order!SessionRows]
      /\ \A t \in Sessions : t # s => session'[t] = session[t]
      /\ session'[s].status = new.status /\ session'[s].paid = new.paid
      /\ session'[s].order = new.order /\ session'[s].link = new.link
  BY <1>1, PutIs
<1>3. Wrote(s) BY <1>1, <1>2 DEF Wrote, OrderBase
<1>4. RowTied(session'[s], told'[s], s, payment) BY <1>1, <1>2 DEF RowTied
<1>5. /\ session[s].link # Order!NoId => session'[s].link = session[s].link
      /\ session'[s].paid = TRUE => session[s].paid = TRUE
  BY <1>2
<1> QED BY <1>3, <1>4, <1>5, OrderWritten

\* The order is priced again, or found written meanwhile.
LEMMA WriteSessionOrderStep ==
  ASSUME Order!CheckoutBounds, OrderIInv, NEW w \in Workers, Order!WriteSessionOrder(w)
  PROVE  OrderIInv'
<1> DEFINE s == job[w].id
<1>1. OrderData /\ OrderJobs /\ OrderBase
        /\ UNCHANGED <<payment, acquirer, redeemed, due, told, faults>>
  BY DEF OrderIInv, OrderData, Order!WriteSessionOrder
<1>2. Order!At(w, "reprice") /\ OrderJobHolds(job[w], payment, acquirer)
  BY <1>1 DEF Order!WriteSessionOrder, OrderJobs, OrderHolds
<1>3. s \in Sessions /\ job[w].method \in {"card", "faircoin"}
  BY <1>2 DEF OrderJobHolds, Order!At
<1>4. Clock BY <1>1, ClockStays
<1>5. CASE /\ session[s].status = "open" /\ session[s].link = Order!NoId
           /\ Order!Put(s, session[s]) /\ Order!GoTo(w, "reread")
  <2>1. session[s] \in Order!SessionRows BY <1>1, <1>3, RowIs
  <2>2. OrderData' /\ OrderOnward BY <1>1, <1>3, <1>4, <1>5, <2>1, SameOrder
  <2>3. "reread" \in Order!Pcs BY DEF Order!Pcs
  <2>4. OrderJobs'
    BY <1>1, <1>2, <1>3, <1>5, <2>2, <2>3, GoesOn DEF OrderJobHolds
  <2> QED BY <2>2, <2>4 DEF OrderIInv
<1>6. CASE UNCHANGED session /\ Order!Go(w, Order!Idle)
  <2>1. OrderData' /\ OrderOnward BY <1>1, <1>4, <1>6, DataSame DEF Order!orders
  <2> QED BY <1>1, <1>6, <2>1, Ends DEF OrderIInv
<1> QED BY <1>5, <1>6 DEF Order!WriteSessionOrder

\* The request reads the row it locked.
LEMMA RereadSessionStep ==
  ASSUME Order!CheckoutBounds, OrderIInv, NEW w \in Workers, Order!RereadSession(w)
  PROVE  OrderIInv'
<1> DEFINE j == [job[w] EXCEPT !.pc = "create", !.copy = session[job[w].id]]
<1>1. OrderData /\ OrderJobs /\ OrderBase
        /\ UNCHANGED <<payment, acquirer, Order!orders, due, faults>>
  BY DEF OrderIInv, OrderData, Order!RereadSession
<1>2. Order!At(w, "reread") /\ OrderJobHolds(job[w], payment, acquirer)
  BY <1>1 DEF Order!RereadSession, OrderJobs, OrderHolds
<1>3. job[w].id \in Sessions /\ job[w].method \in {"card", "faircoin"}
  BY <1>2 DEF OrderJobHolds, Order!At
<1>4. OrderData' /\ OrderOnward BY <1>1, ClockStays, DataSame
<1>5. session[job[w].id] \in Order!SessionRows BY <1>1, <1>3, RowIs
<1>6. /\ j \in OrderJobType /\ j.pc = "create" /\ j.id = job[w].id /\ j.method = job[w].method
  BY ZenonT(60), <1>1, <1>5 DEF OrderJobs, OrderJobType, Order!Pcs
<1>7. Order!Go(w, j) BY DEF Order!RereadSession
<1> HIDE DEF j
<1>8. OrderJobHolds(j, payment', acquirer') BY <1>3, <1>6 DEF OrderJobHolds
<1> QED BY <1>1, <1>4, <1>6, <1>7, <1>8, OrderOneJobMoves DEF OrderIInv

\* The payment is made, or the one of that name is answered.
LEMMA CreateSessionPaymentStep ==
  ASSUME Order!CheckoutBounds, OrderIInv, NEW w \in Workers, Order!CreateSessionPayment(w)
  PROVE  OrderIInv'
<1>1. OrderData /\ OrderJobs /\ OrderBase /\ UNCHANGED <<Order!orders, due, faults>>
  BY DEF OrderIInv, OrderData, Order!CreateSessionPayment
<1>2. job[w] \in OrderJobType /\ OrderJobHolds(job[w], payment, acquirer)
  BY <1>1 DEF OrderJobs, OrderHolds
<1>3. job[w].pc \in {"create", "create_other"} BY DEF Order!CreateSessionPayment
<1>4. /\ job[w].id \in Sessions /\ job[w].method \in {"card", "faircoin"}
      /\ job[w].copy.order \in Order!Orders
  <2>1. job[w].copy \in Order!SessionRows BY <1>2 DEF OrderJobType
  <2> QED BY <1>2, <1>3, <2>1 DEF OrderJobHolds, Order!SessionRows
<1>5. PICK id \in Order!SessionPayments(job[w].id, job[w].copy.order, job[w].method) :
       LET new == payment[id].status = "none"
       IN /\ payment' = IF new
                        THEN [payment EXCEPT ![id] = [status |-> "waiting",
                                                      order |-> job[w].copy.order]]
                        ELSE payment
          /\ acquirer' = IF new /\ job[w].method = "card"
                         THEN [acquirer EXCEPT ![id] = "open"] ELSE acquirer
          /\ Order!Go(w, [job[w] EXCEPT !.fresh = id, !.was = payment'[id].status,
                            !.pc = CASE Order!At(w, "create") -> "link"
                                     [] Order!At(w, "create_other")
                                       /\ Order!Rail(job[w].old) = "card" -> "cancel_old"
                                     [] Order!At(w, "create_other")
                                       /\ Order!Rail(job[w].old) # "card" -> "replace"])
  BY DEF Order!CreateSessionPayment
<1>6. id \in Order!Ids /\ Order!SessionOf(id) = job[w].id /\ Order!Rail(id) = job[w].method
  BY <1>4, PaymentsAre
<1>7. Clock BY <1>1, ClockStays
<1>8. OrderData' /\ OrderOnward /\ payment'[id].status # "none"
        /\ payment'[id].status \in Order!Statuses
  <2>1. CASE payment[id].status = "none"
    <3>1. payment' = [payment EXCEPT ![id] = [status |-> "waiting",
              order |-> job[w].copy.order]]
      BY <1>5, <2>1
    <3>2. \/ UNCHANGED acquirer
          \/ Order!Rail(id) = "card" /\ acquirer' = [acquirer EXCEPT ![id] = "open"]
      BY <1>5, <1>6, <2>1
    <3>3. OrderData' /\ OrderOnward BY <1>1, <1>4, <1>6, <1>7, <2>1, <3>1, <3>2, PaymentMade
    <3>4. payment'[id].status = "waiting" BY <1>1, <1>6, <3>1 DEF OrderBase
    <3> QED BY <3>3, <3>4 DEF Order!Statuses
  <2>2. CASE payment[id].status # "none"
    <3>1. UNCHANGED <<payment, acquirer>> BY <1>5, <2>2
    <3>2. OrderData' /\ OrderOnward BY <1>1, <1>7, <3>1, DataSame
    <3> QED BY <1>1, <1>6, <2>2, <3>1, <3>2 DEF OrderBase, PaymentRows
  <2> QED BY <2>1, <2>2
<1> DEFINE x == CASE Order!At(w, "create") -> "link"
                  [] Order!At(w, "create_other")
                    /\ Order!Rail(job[w].old) = "card" -> "cancel_old"
                  [] Order!At(w, "create_other")
                    /\ Order!Rail(job[w].old) # "card" -> "replace"
           j == [job[w] EXCEPT !.fresh = id, !.was = payment'[id].status, !.pc = x]
<1>9. Order!Go(w, j) BY <1>5
<1>10. /\ Order!At(w, "create") => x = "link"
       /\ Order!At(w, "create_other")
            => x = (IF Order!Rail(job[w].old) = "card" THEN "cancel_old" ELSE "replace")
       /\ Order!At(w, "create") \/ Order!At(w, "create_other")
  BY <1>3 DEF Order!At
<1>11. x \in Order!Pcs BY <1>10 DEF Order!Pcs
<1> HIDE DEF x
<1>12. /\ j \in OrderJobType /\ j.pc = x /\ j.id = job[w].id /\ j.fresh = id
       /\ j.was = payment'[id].status /\ j.old = job[w].old /\ j.method = job[w].method
  BY <1>2, <1>6, <1>8, <1>11 DEF OrderJobType
<1> HIDE DEF j
<1>13. OrderJobHolds(j, payment', acquirer')
  <2>1. CASE Order!At(w, "create")
    BY <1>4, <1>6, <1>8, <1>10, <1>12, <2>1 DEF OrderJobHolds
  <2>2. CASE Order!At(w, "create_other")
    <3>1. job[w].old \in Order!Ids /\ Order!SessionOf(job[w].old) = job[w].id
      BY <1>2, <2>2 DEF OrderJobHolds, Order!At
    <3> QED BY <1>4, <1>6, <1>8, <1>10, <1>12, <2>2, <3>1 DEF OrderJobHolds
  <2> QED BY <1>10, <2>1, <2>2
<1> QED BY <1>1, <1>8, <1>9, <1>12, <1>13, OrderOneJobMoves DEF OrderIInv

\* The payment is linked at the price it was made at, or it is nobody's.
LEMMA LinkSessionObjectStep ==
  ASSUME Order!CheckoutBounds, OrderIInv, NEW w \in Workers, Order!LinkSessionObject(w)
  PROVE  OrderIInv'
<1> DEFINE s == job[w].id
           id == job[w].fresh
<1>1. OrderData /\ OrderJobs /\ OrderBase /\ UNCHANGED <<acquirer, due, faults>>
  BY DEF OrderIInv, OrderData, Order!LinkSessionObject
<1>2. Order!At(w, "link") /\ job[w] \in OrderJobType
        /\ OrderJobHolds(job[w], payment, acquirer)
  BY <1>1 DEF Order!LinkSessionObject, OrderJobs, OrderHolds
<1>3. /\ s \in Sessions /\ id \in Order!Ids /\ Order!SessionOf(id) = s
           /\ payment[id].status # "none"
      /\ job[w].method \in {"card", "faircoin"} /\ job[w].was \in Order!Statuses \ {"none"}
  BY <1>2 DEF OrderJobHolds, Order!At, OrderJobType
<1>4. Clock BY <1>1, ClockStays
<1> HIDE DEF id
<1>5. CASE /\ Order!Links(w) /\ Order!Put(s, [session[s] EXCEPT !.link = id])
           /\ Order!Go(w, Order!Idle) /\ UNCHANGED <<payment, redeemed, told>>
  <2> DEFINE r == [session[s] EXCEPT !.link = id]
  <2>1. /\ r \in Order!SessionRows /\ r.status = session[s].status /\ r.paid = session[s].paid
        /\ r.order = session[s].order /\ r.link = id
    BY <1>1, <1>3, RowIs DEF Order!SessionRows
  <2>2. /\ session[s].status = "open" /\ session[s].link = Order!NoId
        /\ session[s].order = payment[id].order
    BY <1>5 DEF Order!Links, id
  <2>3. Order!Put(s, r) BY <1>5
  <2> HIDE DEF r
  <2>4. OrderData' /\ OrderOnward BY <1>1, <1>3, <1>4, <1>5, <2>1, <2>2, <2>3, SameOrder
  <2> QED BY <1>1, <1>5, <2>4, Ends DEF OrderIInv
<1>6. CASE Order!GoTo(w, "orphan") /\ UNCHANGED <<payment, Order!orders>>
  <2>1. OrderData' /\ OrderOnward BY <1>1, <1>4, <1>6, DataSame
  <2>2. "orphan" \in Order!Pcs BY DEF Order!Pcs
  <2>3. OrderJobs' BY <1>1, <1>3, <1>6, <2>1, <2>2, GoesOn DEF OrderJobHolds, id
  <2> QED BY <2>1, <2>3 DEF OrderIInv
<1>7. CASE Order!Go(w, Order!Idle) /\ UNCHANGED <<payment, Order!orders>>
  <2>1. OrderData' /\ OrderOnward BY <1>1, <1>4, <1>7, DataSame
  <2> QED BY <1>1, <1>7, <2>1, Ends DEF OrderIInv
<1>8. CASE session[s].link # id /\ Order!MovePayment(id, job[w].was, "canceled")
             /\ Order!Go(w, Order!Idle)
  <2>1. OrderData' /\ OrderOnward BY <1>1, <1>3, <1>4, <1>8, PaymentMoved
  <2> QED BY <1>1, <1>8, <2>1, Ends DEF OrderIInv
<1> QED BY <1>5, <1>6, <1>7, <1>8 DEF Order!LinkSessionObject, id

\* The session had a payment: it stays, or another one is made for it.
LEMMA ReadLinkedStep ==
  ASSUME Order!CheckoutBounds, OrderIInv, NEW w \in Workers, Order!ReadLinked(w)
  PROVE  OrderIInv'
<1> DEFINE old == job[w].copy.link
<1>1. OrderData /\ OrderJobs /\ OrderBase
        /\ UNCHANGED <<payment, acquirer, Order!orders, due, faults>>
  BY DEF OrderIInv, OrderData, Order!ReadLinked
<1>2. Order!At(w, "linked") /\ job[w] \in OrderJobType
        /\ OrderJobHolds(job[w], payment, acquirer)
  BY <1>1 DEF Order!ReadLinked, OrderJobs, OrderHolds
<1>3. /\ job[w].id \in Sessions /\ job[w].method \in {"card", "faircoin"}
      /\ old \in Order!Ids /\ Order!SessionOf(old) = job[w].id
  BY <1>2 DEF OrderJobHolds, Order!At
<1>4. OrderData' /\ OrderOnward BY <1>1, ClockStays, DataSame
<1> HIDE DEF old
<1>5. CASE Order!Go(w, Order!Idle) BY <1>1, <1>4, <1>5, Ends DEF OrderIInv
<1>6. CASE Order!Go(w, [job[w] EXCEPT !.pc = "create_other", !.old = old])
  <2> DEFINE j == [job[w] EXCEPT !.pc = "create_other", !.old = old]
  <2>1. /\ j \in OrderJobType /\ j.pc = "create_other" /\ j.id = job[w].id
        /\ j.method = job[w].method /\ j.old = old
    BY <1>2, <1>3 DEF OrderJobType, Order!Pcs
  <2>2. Order!Go(w, j) BY <1>6
  <2> HIDE DEF j
  <2>3. OrderJobHolds(j, payment', acquirer') BY <1>3, <2>1 DEF OrderJobHolds
  <2> QED BY <1>1, <1>4, <2>1, <2>2, <2>3, OrderOneJobMoves DEF OrderIInv
<1> QED BY <1>5, <1>6 DEF Order!ReadLinked, old

\* A card payment that gives way is canceled at the acquirer first.
LEMMA CancelOldAtProviderStep ==
  ASSUME Order!CheckoutBounds, OrderIInv, NEW w \in Workers, Order!CancelOldAtProvider(w)
  PROVE  OrderIInv'
<1>1. OrderData /\ OrderJobs /\ OrderBase /\ UNCHANGED <<payment, Order!orders, due>>
  BY DEF OrderIInv, OrderData, Order!CancelOldAtProvider
<1>2. /\ Order!At(w, "cancel_old") /\ Order!CancelAtProvider(job[w].old)
      /\ job[w] \in OrderJobType /\ OrderJobHolds(job[w], payment, acquirer)
  BY <1>1 DEF Order!CancelOldAtProvider, OrderJobs, OrderHolds
<1>3. /\ job[w].id \in Sessions /\ job[w].old \in Order!Ids
           /\ Order!SessionOf(job[w].old) = job[w].id
      /\ job[w].fresh \in Order!Ids /\ Order!SessionOf(job[w].fresh) = job[w].id
      /\ payment[job[w].fresh].status # "none"
  BY <1>2 DEF OrderJobHolds, Order!At
<1>4. Clock BY <1>1, ClockStays DEF Order!CancelOldAtProvider
<1>5. OrderData' /\ OrderOnward BY <1>1, <1>2, <1>3, <1>4, ProviderCanceled
<1>6. "orphan" \in Order!Pcs /\ "replace" \in Order!Pcs BY DEF Order!Pcs
<1>7. CASE Order!GoTo(w, "orphan")
  BY <1>1, <1>3, <1>5, <1>6, <1>7, GoesOn DEF OrderJobHolds, OrderIInv
<1>8. CASE Order!GoTo(w, "replace") /\ acquirer'[job[w].old] = "canceled"
  BY <1>1, <1>3, <1>5, <1>6, <1>8, GoesOn DEF OrderJobHolds, OrderIInv
<1> QED BY <1>7, <1>8 DEF Order!CancelOldAtProvider

\* The payment is replaced by another, while the first is still waiting.
LEMMA ReplaceSessionPaymentStep ==
  ASSUME Order!CheckoutBounds, OrderIInv, NEW w \in Workers, Order!ReplaceSessionPayment(w)
  PROVE  OrderIInv'
<1> DEFINE s == job[w].id
           old == job[w].old
           fresh == job[w].fresh
<1>1. OrderData /\ OrderJobs /\ Tied /\ UNCHANGED <<acquirer, redeemed, due, told, faults>>
  BY DEF OrderIInv, OrderData, Order!ReplaceSessionPayment
<1>2. /\ Order!At(w, "replace") /\ job[w] \in OrderJobType
           /\ OrderJobHolds(job[w], payment, acquirer)
  BY <1>1 DEF Order!ReplaceSessionPayment, OrderJobs, OrderHolds
<1>3. /\ s \in Sessions /\ old \in Order!Ids /\ Order!SessionOf(old) = s
      /\ fresh \in Order!Ids /\ Order!SessionOf(fresh) = s /\ payment[fresh].status # "none"
      /\ Order!Rail(old) = "card" => acquirer[old] = "canceled"
  BY <1>2 DEF OrderJobHolds, Order!At
<1>4. Clock BY <1>1, ClockStays
<1>5. acquirer[old] # "paid" BY <1>1, <1>3 DEF Tied, IdTied
<1>6. CASE /\ session[s].status = "open" /\ session[s].link = old
           /\ session[s].order = payment[fresh].order /\ payment[old].status = "waiting"
  <2>1. /\ Order!Put(s, [session[s] EXCEPT !.link = fresh])
        /\ payment' = [payment EXCEPT ![old].status = "canceled"] /\ Order!Go(w, Order!Idle)
    BY <1>6 DEF Order!ReplaceSessionPayment
  <2> HIDE DEF s, old, fresh
  <2>2. OrderData' /\ OrderOnward BY <1>1, <1>3, <1>4, <1>5, <1>6, <2>1, PaymentReplaced
  <2> QED BY <1>1, <2>1, <2>2, Ends DEF OrderIInv
<1>7. CASE Order!GoTo(w, "orphan") /\ UNCHANGED <<session, payment>>
  <2>1. OrderData' /\ OrderOnward BY <1>1, <1>4, <1>7, DataSame DEF Order!orders
  <2>2. "orphan" \in Order!Pcs BY DEF Order!Pcs
  <2>3. OrderJobs' BY <1>1, <1>3, <1>7, <2>1, <2>2, GoesOn DEF OrderJobHolds
  <2> QED BY <2>1, <2>3 DEF OrderIInv
<1> QED BY <1>6, <1>7 DEF Order!ReplaceSessionPayment

\* A payment that is nobody's is canceled, at the acquirer first.
LEMMA CancelOrphanStep ==
  ASSUME Order!CheckoutBounds, OrderIInv, NEW w \in Workers, Order!CancelOrphan(w)
  PROVE  OrderIInv'
<1> DEFINE id == job[w].fresh
<1>1. OrderData /\ OrderJobs /\ OrderBase /\ UNCHANGED <<payment, Order!orders, due>>
  BY DEF OrderIInv, OrderData, Order!CancelOrphan
<1>2. Order!At(w, "orphan") /\ OrderJobHolds(job[w], payment, acquirer)
  BY <1>1 DEF Order!CancelOrphan, OrderJobs, OrderHolds
<1>3. /\ job[w].id \in Sessions /\ id \in Order!Ids /\ Order!SessionOf(id) = job[w].id
      /\ payment[id].status # "none"
  BY <1>2 DEF OrderJobHolds, Order!At
<1>4. /\ UNCHANGED acquirer \/ Order!CancelAtProvider(id)
      /\ UNCHANGED faults \/ Order!Fault
      /\ Order!Go(w, Order!Idle) \/ Order!GoTo(w, "orphan_row")
  BY DEF Order!CancelOrphan
<1>5. Clock BY <1>1, <1>4, ClockStays
<1>6. OrderData' /\ OrderOnward
  BY <1>1, <1>3, <1>4, <1>5, DataSame, ProviderCanceled
<1>7. CASE Order!GoTo(w, "orphan_row")
  <2>1. "orphan_row" \in Order!Pcs BY DEF Order!Pcs
  <2> QED BY <1>1, <1>3, <1>6, <1>7, <2>1, GoesOn DEF OrderJobHolds, OrderIInv
<1>8. CASE Order!Go(w, Order!Idle) BY <1>1, <1>6, <1>8, Ends DEF OrderIInv
<1> QED BY <1>4, <1>7, <1>8

LEMMA CancelOrphanRowStep ==
  ASSUME Order!CheckoutBounds, OrderIInv, NEW w \in Workers, Order!CancelOrphanRow(w)
  PROVE  OrderIInv'
<1>1. OrderData /\ OrderJobs /\ OrderBase /\ UNCHANGED <<acquirer, due, faults>>
  BY DEF OrderIInv, OrderData, Order!CancelOrphanRow
<1>2. Order!At(w, "orphan_row") /\ OrderJobHolds(job[w], payment, acquirer)
  BY <1>1 DEF Order!CancelOrphanRow, OrderJobs, OrderHolds
<1>3. job[w].fresh \in Order!Ids BY <1>2 DEF OrderJobHolds, Order!At
<1>4. Order!MovePayment(job[w].fresh, "waiting", "canceled") /\ Order!Go(w, Order!Idle)
  BY DEF Order!CancelOrphanRow
<1>5. Clock BY <1>1, ClockStays
<1>6. "waiting" \in Order!Statuses \ {"none"} BY DEF Order!Statuses
<1>7. OrderData' /\ OrderOnward BY <1>1, <1>3, <1>4, <1>5, <1>6, PaymentMoved
<1> QED BY <1>1, <1>4, <1>7, Ends DEF OrderIInv

\* The merchant starts to expire an open session.
LEMMA StartExpireStep ==
  ASSUME Order!CheckoutBounds, OrderIInv, NEW w \in Workers, Order!StartExpire(w)
  PROVE  OrderIInv'
<1>1. OrderData /\ OrderJobs /\ OrderBase /\ Rows BY DEF OrderIInv, OrderData
<1>2. PICK s \in Sessions :
        Order!Go(w,
            [Order!Idle EXCEPT !.pc = IF session[s].link = Order!NoId THEN "expire_row" ELSE "read",
                             !.id = s, !.copy = session[s], !.old = session[s].link])
  BY DEF Order!StartExpire
<1>3. UNCHANGED <<payment, acquirer, Order!orders, due, faults>> BY DEF Order!StartExpire
<1>4. OrderData' /\ OrderOnward BY <1>1, <1>3, ClockStays, DataSame
<1> DEFINE j == [Order!Idle EXCEPT
                         !.pc = IF session[s].link = Order!NoId THEN "expire_row" ELSE "read",
                         !.id = s, !.copy = session[s], !.old = session[s].link]
<1>5. /\ session[s] \in Order!SessionRows /\ RowTied(session[s], told[s], s, payment)
      /\ session[s].link \in Order!Ids \cup {Order!NoId}
  BY <1>1, RowIs DEF Rows
<1>6. Order!Idle \in OrderJobType BY IdleHolds
<1>7. /\ j \in OrderJobType
           /\ j.pc = (IF session[s].link = Order!NoId THEN "expire_row" ELSE "read")
      /\ j.id = s /\ j.old = session[s].link
  BY <1>5, <1>6 DEF OrderJobType, Order!Pcs
<1>8. Order!Go(w, j) BY <1>2
<1> HIDE DEF j
<1>9. OrderJobHolds(j, payment', acquirer')
  BY <1>5, <1>7 DEF OrderJobHolds, RowTied
<1> QED BY <1>1, <1>4, <1>7, <1>8, <1>9, OrderOneJobMoves DEF OrderIInv

\* It reads the payment.
LEMMA ReadPaymentStep ==
  ASSUME Order!CheckoutBounds, OrderIInv, NEW w \in Workers, Order!ReadPayment(w)
  PROVE  OrderIInv'
<1>1. OrderData /\ OrderJobs /\ UNCHANGED <<payment, acquirer, Order!orders, due, faults>>
  BY DEF OrderIInv, OrderData, Order!ReadPayment
<1>2. Order!At(w, "read") /\ OrderJobHolds(job[w], payment, acquirer)
  BY <1>1 DEF Order!ReadPayment, OrderJobs, OrderHolds
<1>3. job[w].id \in Sessions /\ job[w].old \in Order!Ids
        /\ Order!SessionOf(job[w].old) = job[w].id
  BY <1>2 DEF OrderJobHolds, Order!At
<1>4. OrderData' /\ OrderOnward BY <1>1, ClockStays, DataSame
<1>5. "expire_row" \in Order!Pcs /\ "expire_cancel" \in Order!Pcs BY DEF Order!Pcs
<1>6. CASE Order!GoTo(w, "expire_row")
  BY <1>1, <1>3, <1>4, <1>5, <1>6, GoesOn DEF OrderJobHolds, OrderIInv
<1>7. CASE Order!GoTo(w, "expire_cancel")
  BY <1>1, <1>3, <1>4, <1>5, <1>7, GoesOn DEF OrderJobHolds, OrderIInv
<1>8. CASE Order!Go(w, Order!Idle) BY <1>1, <1>4, <1>8, Ends DEF OrderIInv
<1> QED BY <1>6, <1>7, <1>8 DEF Order!ReadPayment

\* It cancels the payment, at the acquirer first.
LEMMA ExpireCancelStep ==
  ASSUME Order!CheckoutBounds, OrderIInv, NEW w \in Workers, Order!ExpireCancel(w)
  PROVE  OrderIInv'
<1> DEFINE id == job[w].old
<1>1. OrderData /\ OrderJobs /\ OrderBase /\ UNCHANGED <<payment, Order!orders, due>>
  BY DEF OrderIInv, OrderData, Order!ExpireCancel
<1>2. Order!At(w, "expire_cancel") /\ OrderJobHolds(job[w], payment, acquirer)
  BY <1>1 DEF Order!ExpireCancel, OrderJobs, OrderHolds
<1>3. job[w].id \in Sessions /\ id \in Order!Ids /\ Order!SessionOf(id) = job[w].id
  BY <1>2 DEF OrderJobHolds, Order!At
<1>4. /\ UNCHANGED acquirer \/ Order!CancelAtProvider(id)
      /\ UNCHANGED faults \/ Order!Fault
      /\ Order!Go(w, Order!Idle) \/ Order!GoTo(w, "expire_transition")
  BY DEF Order!ExpireCancel
<1>5. Clock BY <1>1, <1>4, ClockStays
<1>6. OrderData' /\ OrderOnward BY <1>1, <1>3, <1>4, <1>5, DataSame, ProviderCanceled
<1>7. CASE Order!GoTo(w, "expire_transition")
  <2>1. "expire_transition" \in Order!Pcs BY DEF Order!Pcs
  <2> QED BY <1>1, <1>3, <1>6, <1>7, <2>1, GoesOn DEF OrderJobHolds, OrderIInv
<1>8. CASE Order!Go(w, Order!Idle) BY <1>1, <1>6, <1>8, Ends DEF OrderIInv
<1> QED BY <1>4, <1>7, <1>8

LEMMA ExpireTransitionStep ==
  ASSUME Order!CheckoutBounds, OrderIInv, NEW w \in Workers, Order!ExpireTransition(w)
  PROVE  OrderIInv'
<1>1. OrderData /\ OrderJobs /\ UNCHANGED <<acquirer, due, faults>>
  BY DEF OrderIInv, OrderData, Order!ExpireTransition
<1>2. Order!At(w, "expire_transition") /\ OrderJobHolds(job[w], payment, acquirer)
  BY <1>1 DEF Order!ExpireTransition, OrderJobs, OrderHolds
<1>3. job[w].id \in Sessions /\ job[w].old \in Order!Ids BY <1>2 DEF OrderJobHolds, Order!At
<1>4. /\ Order!MovePayment(job[w].old, "waiting", "canceled")
      /\ Order!GoTo(w, "expire_row") \/ Order!Go(w, Order!Idle)
  BY DEF Order!ExpireTransition
<1>5. Clock BY <1>1, ClockStays
<1>6. "waiting" \in Order!Statuses \ {"none"} /\ "expire_row" \in Order!Pcs
  BY DEF Order!Statuses, Order!Pcs
<1>7. OrderData' /\ OrderOnward BY <1>1, <1>3, <1>4, <1>5, <1>6, PaymentMoved
<1>8. CASE Order!GoTo(w, "expire_row")
  BY <1>1, <1>3, <1>6, <1>7, <1>8, GoesOn DEF OrderJobHolds, OrderIInv
<1>9. CASE Order!Go(w, Order!Idle) BY <1>1, <1>7, <1>9, Ends DEF OrderIInv
<1> QED BY <1>4, <1>8, <1>9

\* An open session expires and keeps its link.
LEMMA SessionExpires ==
  ASSUME OrderData, Clock, NEW s
    \in Sessions, session[s].status = "open", Order!ExpireSessionRow(s),
         UNCHANGED <<payment, acquirer>>
  PROVE  OrderData' /\ OrderOnward
<1>1. OrderBase /\ RowTied(session[s], told[s], s, payment) BY DEF OrderData, Rows
<1>2. /\ Wrote(s) /\ RowTied(session'[s], told'[s], s, payment)
      /\ session'[s].link = session[s].link /\ session'[s].paid = FALSE
  BY <1>1, ExpiresTied
<1> QED BY <1>2, OrderWritten

LEMMA ExpireRowStep ==
  ASSUME Order!CheckoutBounds, OrderIInv, NEW w \in Workers, Order!ExpireRow(w)
  PROVE  OrderIInv'
<1>1. OrderData /\ OrderJobs /\ UNCHANGED <<payment, acquirer, due, faults>>
        /\ Order!Go(w, Order!Idle)
  BY DEF OrderIInv, OrderData, Order!ExpireRow
<1>2. Order!At(w, "expire_row") /\ OrderJobHolds(job[w], payment, acquirer)
  BY <1>1 DEF Order!ExpireRow, OrderJobs, OrderHolds
<1>3. job[w].id \in Sessions BY <1>2 DEF OrderJobHolds, Order!At
<1>4. Clock BY <1>1, ClockStays
<1>5. OrderData' /\ OrderOnward
  <2>1. CASE session[job[w].id].status = "open" /\ Order!ExpireSessionRow(job[w].id)
    BY <1>1, <1>3, <1>4, <2>1, SessionExpires
  <2>2. CASE UNCHANGED Order!orders BY <1>1, <1>4, <2>2, DataSame
  <2> QED BY <2>1, <2>2 DEF Order!ExpireRow
<1> QED BY <1>1, <1>5, Ends DEF OrderIInv

\* A request dies.
LEMMA AbortStep ==
  ASSUME Order!CheckoutBounds, OrderIInv, NEW w \in Workers, Order!Abort(w) PROVE OrderIInv'
<1>1. /\ OrderData /\ OrderJobs /\ UNCHANGED <<payment, acquirer, Order!orders, due>>
      /\ Order!Fault /\ Order!Go(w, Order!Idle)
  BY DEF OrderIInv, OrderData, Order!Abort
<1>2. OrderData' /\ OrderOnward BY <1>1, ClockStays, DataSame
<1> QED BY <1>1, <1>2, Ends DEF OrderIInv

\* A sweep expires what is due, a deadline passes, the payer edits the order.
LEMMA ExpireDueSessionsStep ==
  ASSUME Order!CheckoutBounds, OrderIInv, NEW s \in Sessions, Order!ExpireDueSessions(s)
  PROVE  OrderIInv'
<1>1. OrderData /\ OrderJobs /\ UNCHANGED <<payment, acquirer, due, job, faults>>
  BY DEF OrderIInv, OrderData, Order!ExpireDueSessions
<1>2. session[s].status = "open" /\ Order!ExpireSessionRow(s) BY DEF Order!ExpireDueSessions
<1>3. OrderData' /\ OrderOnward BY <1>1, <1>2, ClockStays, SessionExpires
<1> QED BY <1>1, <1>3, OrderJobsStay DEF OrderIInv

LEMMA DeadlinePassesStep ==
  ASSUME Order!CheckoutBounds, OrderIInv, NEW s \in Sessions, Order!DeadlinePasses(s)
  PROVE  OrderIInv'
<1>1. /\ OrderData /\ OrderJobs /\ OrderBase /\ due' = due \cup {s}
      /\ UNCHANGED <<payment, acquirer, Order!orders, job, faults>>
  BY DEF OrderIInv, OrderData, Order!DeadlinePasses
<1>2. Clock BY <1>1 DEF Clock, OrderBase
<1>3. OrderData' /\ OrderOnward BY <1>1, <1>2, DataSame
<1> QED BY <1>1, <1>3, OrderJobsStay DEF OrderIInv

LEMMA UpdateSessionAsPayerStep ==
  ASSUME Order!CheckoutBounds, OrderIInv, NEW s \in Sessions, Order!UpdateSessionAsPayer(s)
  PROVE  OrderIInv'
<1> DEFINE r == [session[s] EXCEPT !.order = IF @ = "full" THEN "discounted" ELSE "full"]
<1>1. OrderData /\ OrderJobs /\ OrderBase
        /\ UNCHANGED <<payment, acquirer, redeemed, due, told, job, faults>>
  BY DEF OrderIInv, OrderData, Order!UpdateSessionAsPayer
<1>2. /\ r \in Order!SessionRows /\ r.status = session[s].status /\ r.paid = session[s].paid
      /\ r.link = session[s].link
  BY <1>1, RowIs DEF Order!SessionRows, Order!Orders
<1>3. session[s].status = "open" /\ session[s].link = Order!NoId /\ Order!Put(s, r)
  BY DEF Order!UpdateSessionAsPayer
<1>4. Clock BY <1>1, ClockStays
<1> HIDE DEF r
<1>5. OrderData' /\ OrderOnward BY <1>1, <1>2, <1>3, <1>4, SameOrder
<1> QED BY <1>1, <1>5, OrderJobsStay DEF OrderIInv

-----------------------------------------------------------------------------
\* The payments move: a quote lapses, the payer pays, the chain decides.
LEMMA QuoteLapsesStep ==
  ASSUME Order!CheckoutBounds, OrderIInv, NEW id \in Order!Ids, Order!QuoteLapses(id)
  PROVE  OrderIInv'
<1>1. /\ OrderData /\ OrderJobs /\ UNCHANGED <<acquirer, due, job, faults>>
      /\ Order!MovePayment(id, "waiting", "canceled")
  BY DEF OrderIInv, OrderData, Order!QuoteLapses
<1>2. "waiting" \in Order!Statuses \ {"none"} BY DEF Order!Statuses
<1>3. OrderData' /\ OrderOnward BY <1>1, <1>2, ClockStays, PaymentMoved
<1> QED BY <1>1, <1>3, OrderJobsStay DEF OrderIInv

LEMMA CardExpiresStep ==
  ASSUME Order!CheckoutBounds, OrderIInv, NEW id \in Order!Ids, Order!CardExpires(id)
  PROVE  OrderIInv'
<1>1. /\ OrderData /\ OrderJobs /\ UNCHANGED <<payment, Order!orders, due, job, faults>>
           /\ Order!CancelAtProvider(id)
  BY DEF OrderIInv, OrderData, Order!CardExpires
<1>2. OrderData' /\ OrderOnward BY <1>1, ClockStays, ProviderCanceled
<1> QED BY <1>1, <1>2, OrderJobsStay DEF OrderIInv

LEMMA CardReportedStep ==
  ASSUME Order!CheckoutBounds, OrderIInv, NEW id \in Order!Ids, Order!CardReported(id)
  PROVE  OrderIInv'
<1> DEFINE to == IF acquirer[id] = "paid" THEN "succeeded" ELSE "canceled"
<1>1. /\ OrderData /\ OrderJobs /\ Tied /\ UNCHANGED <<acquirer, due, job, faults>>
      /\ Order!MovePayment(id, "waiting", to)
  BY DEF OrderIInv, OrderData, Order!CardReported
<1>2. "waiting" \in Order!Statuses \ {"none"} BY DEF Order!Statuses
<1>3. to \in {"succeeded", "processing"} => session[Order!SessionOf(id)].link = id
  BY <1>1 DEF Tied, IdTied, TakenBy
<1>4. to \in {"succeeded", "processing", "canceled"} OBVIOUS
<1> HIDE DEF to
<1>5. OrderData' /\ OrderOnward BY <1>1, <1>2, <1>3, <1>4, ClockStays, PaymentMoved
<1> QED BY <1>1, <1>5, OrderJobsStay DEF OrderIInv

LEMMA PayCardStep ==
  ASSUME Order!CheckoutBounds, OrderIInv, NEW id \in Order!Ids, Order!PayCard(id)
  PROVE  OrderIInv'
<1>1. /\ OrderData /\ OrderJobs /\ UNCHANGED <<payment, Order!orders, due, job, faults>>
      /\ session[Order!SessionOf(id)].link = id /\ acquirer[id] = "open"
      /\ acquirer' = [acquirer EXCEPT ![id] = "paid"]
  BY DEF OrderIInv, OrderData, Order!PayCard
<1>2. OrderData' /\ OrderOnward BY <1>1, ClockStays, AcquirerMoved
<1> QED BY <1>1, <1>2, OrderJobsStay DEF OrderIInv

LEMMA BroadcastStep ==
  ASSUME Order!CheckoutBounds, OrderIInv, NEW id \in Order!Ids, Order!Broadcast(id)
  PROVE  OrderIInv'
<1>1. /\ OrderData /\ OrderJobs /\ UNCHANGED <<acquirer, due, job, faults>>
      /\ session[Order!SessionOf(id)].link = id
           /\ Order!MovePayment(id, "waiting", "processing")
  BY DEF OrderIInv, OrderData, Order!Broadcast
<1>2. "waiting" \in Order!Statuses \ {"none"} BY DEF Order!Statuses
<1>3. OrderData' /\ OrderOnward BY <1>1, <1>2, ClockStays, PaymentMoved
<1> QED BY <1>1, <1>3, OrderJobsStay DEF OrderIInv

LEMMA ChainDecidesStep ==
  ASSUME Order!CheckoutBounds, OrderIInv, NEW id \in Order!Ids, Order!ChainDecides(id)
  PROVE  OrderIInv'
<1>1. /\ OrderData /\ OrderJobs /\ Tied /\ UNCHANGED <<acquirer, due, job, faults>>
      /\ payment[id].status = "processing"
  BY DEF OrderIInv, OrderData, Order!ChainDecides
<1>2. PICK to \in {"succeeded", "canceled"} : Order!MovePayment(id, "processing", to)
  BY DEF Order!ChainDecides
<1>3. "processing" \in Order!Statuses \ {"none"} BY DEF Order!Statuses
<1>4. session[Order!SessionOf(id)].link = id BY <1>1 DEF Tied, IdTied, TakenBy
<1>5. OrderData' /\ OrderOnward BY <1>1, <1>2, <1>3, <1>4, ClockStays, PaymentMoved
<1> QED BY <1>1, <1>5, OrderJobsStay DEF OrderIInv

\* The chain undoes a payment: that is a fault.
LEMMA ChainRewindsStep ==
  ASSUME Order!CheckoutBounds, OrderIInv, NEW id \in Order!Ids, Order!ChainRewinds(id)
  PROVE  OrderIInv'
<1>1. /\ OrderData /\ OrderBase /\ OrderJobs /\ Tied /\ UNCHANGED <<acquirer, due, job>>
           /\ Order!Fault
      /\ payment[id].status = "succeeded" /\ Order!MovePayment(id, "succeeded", "processing")
  BY DEF OrderIInv, OrderData, Order!ChainRewinds
<1>2. "succeeded" \in Order!Statuses \ {"none"} BY DEF Order!Statuses
<1>3. session[Order!SessionOf(id)].link = id BY <1>1 DEF Tied, IdTied, TakenBy
<1>4. faults' # 0 BY <1>1 DEF Order!Fault, OrderBase, Order!CheckoutBounds
<1>5. OrderData' /\ OrderOnward BY <1>1, <1>2, <1>3, <1>4, ClockStays, PaymentMoved
<1> QED BY <1>1, <1>5, OrderJobsStay DEF OrderIInv

-----------------------------------------------------------------------------
\* Every session starts open, unpaid and without a payment.
LEMMA OrderInitHolds ==
  ASSUME Order!CheckoutBounds, Order!Init PROVE OrderIInv
<1>1. Order!NewSession \in Order!SessionRows
  BY DEF Order!NewSession, Order!SessionRows, Order!Orders
<1>2. Order!NoPayment \in PaymentRows
  BY DEF Order!NoPayment, PaymentRows, Order!Statuses, Order!Orders
<1>3. OrderBase BY <1>1, <1>2 DEF Order!Init, OrderBase, Order!CheckoutBounds
<1>4. "completed" \in Order!News /\ "expired" \in Order!News
        /\ "async_succeeded" \in Order!News
  BY DEF Order!News
<1>5. Rows BY <1>4 DEF Order!Init, Rows, RowTied, Order!NewSession
<1>6. Paid BY DEF Order!Init, Paid, RowPaid, Order!NewSession
<1>7. Tied BY DEF Order!Init, Tied, IdTied, TakenBy, Order!NoPayment
<1>8. OrderJobs BY IdleHolds DEF Order!Init, OrderJobs, OrderHolds
<1> QED BY <1>3, <1>5, <1>6, <1>7, <1>8 DEF OrderIInv, OrderData

LEMMA OrderNextHolds ==
  ASSUME Order!CheckoutBounds, OrderIInv, [Order!Next]_(Order!vars) PROVE OrderIInv'
<1>1. CASE UNCHANGED Order!vars
  <2>1. UNCHANGED <<payment, acquirer, Order!orders, due, job, faults>>
    BY <1>1 DEF Order!vars, Order!orders
  <2>2. OrderData /\ OrderJobs BY DEF OrderIInv
  <2>3. OrderData' /\ OrderOnward BY <2>1, <2>2, ClockStays, DataSame
  <2> QED BY <2>1, <2>2, <2>3, OrderJobsStay DEF OrderIInv
<1>2. ASSUME NEW w \in Workers,
             Order!StartConfirm(w) \/ Order!Confirm(w) \/ Order!StartExpire(w)
               \/ Order!Expire(w) \/ Order!Abort(w)
      PROVE  OrderIInv'
  <2>1. CASE Order!StartConfirm(w) BY <2>1, StartConfirmStep
  <2>2. CASE Order!Confirm(w)
    BY <2>2, WriteSessionOrderStep, RereadSessionStep, CreateSessionPaymentStep,
       LinkSessionObjectStep, ReadLinkedStep, CancelOldAtProviderStep,
       ReplaceSessionPaymentStep, CancelOrphanStep, CancelOrphanRowStep DEF Order!Confirm
  <2>3. CASE Order!StartExpire(w) BY <2>3, StartExpireStep
  <2>4. CASE Order!Expire(w)
    BY <2>4, ReadPaymentStep, ExpireCancelStep, ExpireTransitionStep, ExpireRowStep DEF
       Order!Expire
  <2>5. CASE Order!Abort(w) BY <2>5, AbortStep
  <2> QED BY <1>2, <2>1, <2>2, <2>3, <2>4, <2>5
<1>3. ASSUME NEW s \in Sessions,
             Order!UpdateSessionAsPayer(s) \/ Order!ExpireDueSessions(s)
               \/ Order!DeadlinePasses(s)
      PROVE  OrderIInv'
  BY <1>3, UpdateSessionAsPayerStep, ExpireDueSessionsStep, DeadlinePassesStep
<1>4. ASSUME NEW id \in Order!Ids,
             \/ Order!QuoteLapses(id) \/ Order!CardExpires(id) \/ Order!CardReported(id)
                  \/ Order!PayCard(id)
             \/ Order!Broadcast(id) \/ Order!ChainDecides(id) \/ Order!ChainRewinds(id)
      PROVE  OrderIInv'
  BY <1>4, QuoteLapsesStep, CardExpiresStep, CardReportedStep, PayCardStep, BroadcastStep,
     ChainDecidesStep, ChainRewindsStep
<1> QED BY <1>1, <1>2, <1>3, <1>4 DEF Order!Next

\* Everything recorded and every request stays consistent, whoever works on which
\* copy of which session.
THEOREM OrderInvariance == Order!CheckoutBounds /\ Order!Spec => []OrderIInv
<1>1. Order!CheckoutBounds /\ Order!Init => OrderIInv BY OrderInitHolds
<1>2. Order!CheckoutBounds /\ OrderIInv /\ [Order!Next]_(Order!vars) => OrderIInv'
  BY OrderNextHolds
<1> QED
  <2>1. ASSUME Order!CheckoutBounds PROVE Order!Spec => []OrderIInv
    <3>1. Order!Init => OrderIInv BY <1>1, <2>1
    <3>2. OrderIInv /\ [Order!Next]_(Order!vars) => OrderIInv' BY <1>2, <2>1
    <3> QED BY <3>1, <3>2, PTL DEF Order!Spec
  <2> QED BY <2>1

\* Type correctness: every row, answer and request is of the kind the code stores.
THEOREM OrderTypesHold == Order!CheckoutBounds /\ Order!Spec => []Order!TypeOK
<1>1. OrderIInv => Order!TypeOK
  BY DEF OrderIInv, OrderData, OrderBase, OrderJobs, Order!TypeOK, OrderJobType, PaymentRows
<1> QED BY <1>1, OrderInvariance, PTL

\* An order is paid once: two payments of a session that both took money would
\* both be the one it links (linkSessionObject, replaceSessionPaymentAsPayer).
THEOREM PaidOnceHolds == Order!CheckoutBounds /\ Order!Spec => []Order!PaidOnce
<1>1. ASSUME OrderIInv PROVE Order!PaidOnce
  <2>1. \A id \in Order!Ids : Order!Took(id) => session[Order!SessionOf(id)].link = id
    BY <1>1 DEF OrderIInv, OrderData, Tied, IdTied, TakenBy, Order!Took
  <2>2. ASSUME NEW s \in Sessions
        PROVE  Cardinality({id \in Order!Ids : Order!SessionOf(id) = s /\ Order!Took(id)}) <= 1
    <3> DEFINE T == {id \in Order!Ids : Order!SessionOf(id) = s /\ Order!Took(id)}
    <3>1. CASE T = {} BY <3>1, FS_EmptySet
    <3>2. CASE T # {}
      <4>1. T = {session[s].link} BY <2>1, <3>2
      <4>2. Cardinality({session[s].link}) = 1 BY FS_Singleton
      <4> HIDE DEF T
      <4>3. Cardinality(T) <= 1 BY <4>1, <4>2
      <4> QED BY <4>3 DEF T
    <3> QED BY <3>1, <3>2
  <2> QED BY <2>2, OrderCounts DEF Order!PaidOnce
<1> QED BY <1>1, OrderInvariance, PTL

\* A session that says it was paid was, by the payment it links and at the price
\* the order has, while the chain undoes nothing (completion.ts).
THEOREM PaidIsReceivedHolds == Order!CheckoutBounds /\ Order!Spec => []Order!PaidIsReceived
<1>1. ASSUME OrderIInv PROVE Order!PaidIsReceived
  <2>1. \A s \in Sessions : RowTied(session[s], told[s], s, payment)
          /\ session[s].paid \in BOOLEAN
    BY <1>1, RowIs DEF OrderIInv, OrderData, Rows
  <2>2. \A s \in Sessions : RowPaid(session[s], payment, faults)
    BY <1>1 DEF OrderIInv, OrderData, Paid
  <2> QED BY <2>1, <2>2 DEF RowTied, RowPaid, Order!PaidIsReceived
<1> QED BY <1>1, OrderInvariance, PTL

\* The merchant is told once how the order ended, and once that a payment which
\* was still being confirmed arrived (completion.ts).
THEOREM NewsOnceHolds == Order!CheckoutBounds /\ Order!Spec => []Order!NewsOnce
<1>1. ASSUME OrderIInv PROVE Order!NewsOnce
  BY <1>1 DEF OrderIInv, OrderData, Rows, RowTied, Order!NewsOnce
<1> QED BY <1>1, OrderInvariance, PTL

-----------------------------------------------------------------------------
(***************************************************************************)
(* A promotion code sells no more often than it may.  What was redeemed is *)
(* what was sold, and every open order with a payment holds a redemption   *)
(* until it is sold or lets go.                                            *)
(***************************************************************************)
Sold(r) == r.status = "complete" /\ r.order = "discounted"
Held1(r) == r.status = "open" /\ r.link # Order!NoId /\ r.order = "discounted"
Taking(S) == {s \in Sessions : Sold(S[s])}
Holding(S) == {s \in Sessions : Held1(S[s])}

Counted ==
  /\ Cardinality(Taking(session)) = redeemed
  /\ redeemed + Cardinality(Holding(session)) <= MaxRedemptions

\* What one write does to an order: nothing that counts, sell it, let go of what
\* it holds, or take hold of one more.
Sells(s) ==
  /\ session[s].status = "open" /\ session[s].link # Order!NoId
  /\ session'[s].status = "complete" /\ session'[s].order = session[s].order
  /\ redeemed' = IF session[s].order = "discounted" /\ redeemed < MaxRedemptions
                 THEN redeemed + 1 ELSE redeemed
LetsGo(s) ==
  /\ session[s].status = "open" /\ redeemed' = redeemed
  /\ ~Sold(session'[s]) /\ ~Held1(session'[s])
TakesHold(s) ==
  /\ session[s].status = "open" /\ session[s].link = Order!NoId /\ redeemed' = redeemed
  /\ session'[s].status = "open" /\ session'[s].order = session[s].order
  /\ session[s].order = "discounted" => redeemed + Order!Held(s) < MaxRedemptions
Same(s) ==
  /\ redeemed' = redeemed
  /\ Sold(session'[s]) <=> Sold(session[s])
  /\ Held1(session'[s]) <=> Held1(session[s])

Counts(s) ==
  /\ \A t \in Sessions : t # s => session'[t] = session[t]
  /\ Sells(s) \/ LetsGo(s) \/ TakesHold(s) \/ Same(s)

\* The sets that are counted are finite.
LEMMA CountedSets ==
  ASSUME IsFiniteSet(Sessions), NEW S
  PROVE  IsFiniteSet(Taking(S)) /\ IsFiniteSet(Holding(S))
<1>1. Taking(S) \in SUBSET Sessions /\ Holding(S) \in SUBSET Sessions
  BY DEF Taking, Holding
<1> QED BY <1>1, FS_Subset

\* The rest of what is held, as reserveDiscount counts it.
LEMMA HeldIs ==
  ASSUME IsFiniteSet(Sessions), NEW s \in Sessions, session[s].link = Order!NoId
  PROVE  Order!Held(s) = Cardinality(Holding(session))
<1>1. Holding(session) =
        {o \in Sessions \ {s} : /\ session[o].status = "open" /\ session[o].link # Order!NoId
                                /\ session[o].order = "discounted"}
  BY DEF Holding, Held1
<1> QED BY <1>1, OrderCounts DEF Order!Held

LEMMA CountsHold ==
  ASSUME Order!CheckoutBounds, IsFiniteSet(Sessions), OrderBase, Counted, NEW s
    \in Sessions, Counts(s)
  PROVE  Counted'
<1> DEFINE T == Taking(session)
           H == Holding(session)
           U == Taking(session')
           I == Holding(session')
<1>1. /\ redeemed \in Nat /\ MaxRedemptions \in Nat
      /\ session[s].order \in Order!Orders
      /\ \A t \in Sessions : t # s => session'[t] = session[t]
  BY RowIs DEF Order!CheckoutBounds, OrderBase, Counts
<1>2. IsFiniteSet(T) /\ IsFiniteSet(H) /\ Cardinality(T) \in Nat /\ Cardinality(H) \in Nat
  BY CountedSets, FS_CardinalityType
<1>3. Cardinality(T) = redeemed /\ redeemed + Cardinality(H) <= MaxRedemptions
  BY DEF Counted
<1>4. /\ s \in T <=> Sold(session[s])
      /\ s \in H <=> Held1(session[s])
  BY DEF Taking, Holding
<1>5. /\ U = IF Sold(session'[s]) THEN T \cup {s} ELSE T \ {s}
      /\ I = IF Held1(session'[s]) THEN H \cup {s} ELSE H \ {s}
  BY <1>1 DEF Taking, Holding
<1>6. Counted' <=> Cardinality(U) = redeemed' /\ redeemed' + Cardinality(I) <= MaxRedemptions
  BY DEF Counted
<1>7. Order!Held(s) = Cardinality(H) \/ session[s].link # Order!NoId BY HeldIs
<1> HIDE DEF T, H, U, I
<1>8. CASE Sells(s)
  <2>1. ~Held1(session'[s]) /\ s \notin T BY <1>4, <1>8 DEF Sells, Held1, Sold
  <2>2. Cardinality(I) = IF s \in H THEN Cardinality(H) - 1 ELSE Cardinality(H)
    BY <1>2, <1>5, <2>1, FS_RemoveElement
  <2>3. CASE session[s].order = "discounted"
    <3>1. s \in H /\ Sold(session'[s]) BY <1>4, <1>8, <2>3 DEF Sells, Held1, Sold
    <3>2. Cardinality(U) = Cardinality(T) + 1 BY <1>2, <1>5, <2>1, <3>1, FS_AddElement
    <3>3. Cardinality(H) # 0 BY <1>2, <3>1, FS_EmptySet
    <3>4. redeemed < MaxRedemptions BY <1>1, <1>2, <1>3, <3>3
    <3>5. redeemed' = redeemed + 1 BY <1>8, <2>3, <3>4 DEF Sells
    <3> QED BY <1>1, <1>2, <1>3, <1>6, <2>2, <3>1, <3>2, <3>5
  <2>4. CASE session[s].order # "discounted"
    <3>1. ~Sold(session'[s]) /\ s \notin H BY <1>4, <1>8, <2>4 DEF Sells, Sold, Held1
    <3>2. Cardinality(U) = Cardinality(T) BY <1>2, <1>5, <2>1, <3>1, FS_RemoveElement
    <3>3. redeemed' = redeemed BY <1>8, <2>4 DEF Sells
    <3> QED BY <1>3, <1>6, <2>2, <3>1, <3>2, <3>3
  <2> QED BY <2>3, <2>4
<1>9. CASE LetsGo(s)
  <2>1. s \notin T /\ ~Sold(session'[s]) /\ ~Held1(session'[s]) /\ redeemed' = redeemed
    BY <1>4, <1>9 DEF LetsGo, Sold
  <2>2. Cardinality(U) = Cardinality(T) BY <1>2, <1>5, <2>1, FS_RemoveElement
  <2>3. Cardinality(I) = IF s \in H THEN Cardinality(H) - 1 ELSE Cardinality(H)
    BY <1>2, <1>5, <2>1, FS_RemoveElement
  <2> QED BY <1>1, <1>2, <1>3, <1>6, <2>1, <2>2, <2>3
<1>10. CASE TakesHold(s)
  <2>1. s \notin T /\ s \notin H /\ ~Sold(session'[s]) /\ redeemed' = redeemed
    BY <1>4, <1>10 DEF TakesHold, Sold, Held1
  <2>2. Cardinality(U) = Cardinality(T) BY <1>2, <1>5, <2>1, FS_RemoveElement
  <2>3. CASE session[s].order = "discounted"
    <3>1. redeemed + Cardinality(H) < MaxRedemptions BY <1>7, <1>10, <2>3 DEF TakesHold
    <3>2. Cardinality(I) \in {Cardinality(H), Cardinality(H) + 1}
      BY <1>2, <1>5, <2>1, FS_AddElement, FS_RemoveElement
    <3> QED BY <1>1, <1>2, <1>3, <1>6, <2>1, <2>2, <3>1, <3>2
  <2>4. CASE session[s].order # "discounted"
    <3>1. ~Held1(session'[s]) BY <1>10, <2>4 DEF TakesHold, Held1
    <3>2. Cardinality(I) = Cardinality(H) BY <1>2, <1>5, <2>1, <3>1, FS_RemoveElement
    <3> QED BY <1>3, <1>6, <2>1, <2>2, <3>2
  <2> QED BY <2>3, <2>4
<1>11. CASE Same(s)
  <2>1. U = T /\ I = H BY <1>4, <1>5, <1>11 DEF Same
  <2> QED BY <1>3, <1>6, <1>11, <2>1 DEF Same
<1> QED BY <1>8, <1>9, <1>10, <1>11 DEF Counts

\* Nothing of what is counted is written.
LEMMA CountedStays ==
  ASSUME Counted, UNCHANGED session, UNCHANGED redeemed PROVE Counted'
BY DEF Counted, Taking, Holding

\* An order left alone counts as it did.
LEMMA StaysSame ==
  ASSUME NEW s, UNCHANGED session, UNCHANGED redeemed PROVE Counts(s)
BY DEF Counts, Same

\* An order is written with the fields its count depends on.
LEMMA SellsIs ==
  ASSUME OrderBase, NEW s \in Sessions, NEW paid \in BOOLEAN, session[s].status = "open",
         session[s].link # Order!NoId, Order!CompleteAs(s, paid)
  PROVE  Counts(s)
<1> DEFINE r == [session[s] EXCEPT !.status = "complete", !.paid = paid]
<1>1. r \in Order!SessionRows /\ r.status = "complete" /\ r.order = session[s].order
  BY RowIs DEF Order!SessionRows
<1>2. Order!Put(s, r) /\ Order!Redeem(s) BY DEF Order!CompleteAs
<1> HIDE DEF r
<1>3. /\ \A t \in Sessions : t # s => session'[t] = session[t]
      /\ session'[s].status = "complete" /\ session'[s].order = session[s].order
  BY <1>1, <1>2, PutIs
<1>4. Sells(s) BY <1>2, <1>3 DEF Sells, Order!Redeem
<1> QED BY <1>3, <1>4 DEF Counts

LEMMA ExpiresIs ==
  ASSUME OrderBase, NEW s \in Sessions, session[s].status = "open", Order!ExpireSessionRow(s)
  PROVE  Counts(s)
<1> DEFINE r == [session[s] EXCEPT !.status = "expired"]
<1>1. r \in Order!SessionRows /\ r.status = "expired" BY RowIs DEF Order!SessionRows
<1>2. Order!Put(s, r) /\ UNCHANGED redeemed BY DEF Order!ExpireSessionRow
<1> HIDE DEF r
<1>3. /\ \A t \in Sessions : t # s => session'[t] = session[t]
      /\ session'[s].status = "expired"
  BY <1>1, <1>2, PutIs
<1>4. LetsGo(s) BY <1>2, <1>3 DEF LetsGo, Sold, Held1
<1> QED BY <1>3, <1>4 DEF Counts

\* What following a payment does to the count.
LEMMA FollowCounts ==
  ASSUME OrderBase, NEW id \in Order!Ids, NEW status
    \in {"succeeded", "processing", "canceled"},
         Order!FollowIntent(id, status)
  PROVE  Counts(Order!SessionOf(id))
<1> DEFINE s == Order!SessionOf(id)
<1> SUFFICES Counts(s) OBVIOUS
<1>1. s \in Sessions /\ id # Order!NoId BY IdIs
<1>2. CASE UNCHANGED Order!orders BY <1>2, StaysSame DEF Order!orders
<1>3. CASE session[s].link = id /\ status = "succeeded"
  <2>1. Order!FollowSucceeded(s, id) BY <1>3 DEF Order!FollowIntent
  <2> HIDE DEF s
  <2>2. CASE session[s].status = "open" /\ Order!CompleteAs(s, TRUE)
    BY <1>1, <1>3, <2>2, SellsIs
  <2>3. CASE session[s].status = "complete" /\ Order!Put(s, [session[s] EXCEPT !.paid = TRUE])
             /\ UNCHANGED redeemed
    <3> DEFINE r == [session[s] EXCEPT !.paid = TRUE]
    <3>1. /\ r \in Order!SessionRows /\ r.status = session[s].status
               /\ r.order = session[s].order
          /\ r.link = session[s].link
      BY <1>1, RowIs DEF Order!SessionRows
    <3>2. Order!Put(s, r) BY <2>3
    <3> HIDE DEF r
    <3>3. /\ \A t \in Sessions : t # s => session'[t] = session[t]
          /\ session'[s].status = session[s].status /\ session'[s].order = session[s].order
          /\ session'[s].link = session[s].link
      BY <1>1, <3>1, <3>2, PutIs
    <3>4. Same(s) BY <2>3, <3>3 DEF Same, Sold, Held1
    <3> QED BY <3>3, <3>4 DEF Counts
  <2>4. CASE UNCHANGED Order!orders BY <2>4, StaysSame DEF Order!orders
  <2> QED BY <2>1, <2>2, <2>3, <2>4 DEF Order!FollowSucceeded
<1>4. CASE session[s].link = id /\ status = "processing"
  <2>1. Order!FollowProcessing(s, id) BY <1>4 DEF Order!FollowIntent
  <2> HIDE DEF s
  <2>2. CASE session[s].status = "open" /\ Order!CompleteAs(s, FALSE)
    BY <1>1, <1>4, <2>2, SellsIs
  <2>3. CASE UNCHANGED Order!orders BY <2>3, StaysSame DEF Order!orders
  <2> QED BY <2>1, <2>2, <2>3 DEF Order!FollowProcessing
<1>5. CASE session[s].link = id /\ status = "canceled"
  <2>1. Order!FollowCanceled(s, id) BY <1>5 DEF Order!FollowIntent
  <2> HIDE DEF s
  <2>2. CASE /\ session[s].status = "open"
                  /\ Order!Put(s, [session[s] EXCEPT !.link = Order!NoId])
             /\ UNCHANGED <<redeemed, told>>
    <3> DEFINE r == [session[s] EXCEPT !.link = Order!NoId]
    <3>1. r \in Order!SessionRows /\ r.status = session[s].status /\ r.link = Order!NoId
      BY <1>1, RowIs DEF Order!SessionRows
    <3>2. Order!Put(s, r) BY <2>2
    <3> HIDE DEF r
    <3>3. /\ \A t \in Sessions : t # s => session'[t] = session[t]
          /\ session'[s].status = "open" /\ session'[s].link = Order!NoId
      BY <1>1, <2>2, <3>1, <3>2, PutIs
    <3>4. LetsGo(s) BY <2>2, <3>3 DEF LetsGo, Sold, Held1
    <3> QED BY <3>3, <3>4 DEF Counts
  <2>3. CASE session[s].status = "open" /\ Order!ExpireSessionRow(s) BY <1>1, <2>3, ExpiresIs
  <2>4. CASE UNCHANGED <<session, redeemed>> BY <2>4, StaysSame
  <2>5. CASE UNCHANGED Order!orders BY <2>5, StaysSame DEF Order!orders
  <2> QED BY <2>1, <2>2, <2>3, <2>4, <2>5 DEF Order!FollowCanceled
<1> QED BY <1>2, <1>3, <1>4, <1>5 DEF Order!FollowIntent

LEMMA MoveCounts ==
  ASSUME OrderBase, NEW id \in Order!Ids, NEW from, NEW to
    \in {"succeeded", "processing", "canceled"},
         Order!MovePayment(id, from, to)
  PROVE  Counts(Order!SessionOf(id))
<1>1. CASE Order!FollowIntent(id, to) BY <1>1, FollowCounts
<1>2. CASE UNCHANGED Order!orders BY <1>2, StaysSame DEF Order!orders
<1> QED BY <1>1, <1>2 DEF Order!MovePayment

\* Every step of a request counts.
LEMMA RequestCounts ==
  ASSUME Order!CheckoutBounds, IsFiniteSet(Sessions), OrderIInv, Counted, NEW w \in Workers,
         Order!StartConfirm(w) \/ Order!Confirm(w) \/ Order!StartExpire(w) \/ Order!Expire(w)
           \/ Order!Abort(w)
  PROVE  Counted'
<1>1. OrderBase /\ job[w] \in OrderJobType /\ OrderJobHolds(job[w], payment, acquirer)
  BY DEF OrderIInv, OrderData, OrderJobs, OrderHolds
<1>2. CASE UNCHANGED session /\ UNCHANGED redeemed BY <1>2, CountedStays
<1>3. CASE Order!WriteSessionOrder(w)
  <2>1. job[w].id \in Sessions
    BY <1>1, <1>3 DEF OrderJobHolds, Order!WriteSessionOrder, Order!At
  <2>2. CASE UNCHANGED session BY <1>2, <1>3, <2>2 DEF Order!WriteSessionOrder
  <2>3. CASE Order!Put(job[w].id, session[job[w].id])
    <3> DEFINE s == job[w].id
    <3>1. session[s] \in Order!SessionRows BY <1>1, <2>1, RowIs
    <3>2. /\ \A t \in Sessions : t # s => session'[t] = session[t]
          /\ session'[s].status = session[s].status /\ session'[s].order = session[s].order
          /\ session'[s].link = session[s].link
      BY <1>1, <2>1, <2>3, <3>1, PutIs
    <3> HIDE DEF s
    <3>3. redeemed' = redeemed BY <1>3 DEF Order!WriteSessionOrder
    <3>4. Counts(s) BY <3>2, <3>3 DEF Counts, Same, Sold, Held1
    <3> QED BY <1>1, <2>1, <3>4, CountsHold DEF s
  <2> QED BY <1>3, <2>2, <2>3 DEF Order!WriteSessionOrder
<1>4. CASE Order!LinkSessionObject(w)
  <2> DEFINE s == job[w].id
             id == job[w].fresh
  <2>1. s \in Sessions /\ id \in Order!Ids /\ id # Order!NoId
    BY <1>1, <1>4, IdIs DEF OrderJobHolds, Order!LinkSessionObject, Order!At
  <2> HIDE DEF s, id
  <2>2. CASE UNCHANGED Order!orders BY <1>2, <2>2 DEF Order!orders
  <2>3. CASE /\ Order!Links(w) /\ Order!MayRedeem(s)
                  /\ Order!Put(s, [session[s] EXCEPT !.link = id])
             /\ UNCHANGED <<payment, redeemed, told>>
    <3> DEFINE r == [session[s] EXCEPT !.link = id]
    <3>1. /\ r \in Order!SessionRows /\ r.status = session[s].status
               /\ r.order = session[s].order
      BY <1>1, <2>1, RowIs DEF Order!SessionRows
    <3>2. Order!Put(s, r) BY <2>3
    <3> HIDE DEF r
    <3>3. /\ \A t \in Sessions : t # s => session'[t] = session[t]
          /\ session'[s].status = session[s].status /\ session'[s].order = session[s].order
      BY <1>1, <2>1, <3>1, <3>2, PutIs
    <3>4. session[s].status = "open" /\ session[s].link = Order!NoId
      BY <2>3 DEF Order!Links, s
    <3>5. TakesHold(s) BY <2>3, <3>3, <3>4 DEF TakesHold, Order!MayRedeem
    <3>6. Counts(s) BY <3>3, <3>5 DEF Counts
    <3> QED BY <1>1, <2>1, <3>6, CountsHold
  <2>4. CASE Order!MovePayment(id, job[w].was, "canceled")
    <3>1. Counts(Order!SessionOf(id)) /\ Order!SessionOf(id) \in Sessions
      BY <1>1, <2>1, <2>4, MoveCounts, IdIs
    <3> QED BY <1>1, <3>1, CountsHold
  <2> QED BY <1>4, <2>2, <2>3, <2>4 DEF Order!LinkSessionObject, s, id
<1>5. CASE Order!ReplaceSessionPayment(w)
  <2> DEFINE s == job[w].id
             id == job[w].fresh
  <2>1. /\ s \in Sessions /\ id \in Order!Ids /\ id # Order!NoId /\ job[w].old \in Order!Ids
        /\ job[w].old # Order!NoId
    BY <1>1, <1>5, IdIs DEF OrderJobHolds, Order!ReplaceSessionPayment, Order!At
  <2> HIDE DEF s, id
  <2>2. CASE UNCHANGED session BY <1>2, <1>5, <2>2 DEF Order!ReplaceSessionPayment
  <2>3. CASE /\ session[s].status = "open" /\ session[s].link = job[w].old
             /\ Order!Put(s, [session[s] EXCEPT !.link = id])
    <3> DEFINE r == [session[s] EXCEPT !.link = id]
    <3>1. /\ r \in Order!SessionRows /\ r.status = session[s].status
               /\ r.order = session[s].order
          /\ r.link = id
      BY <1>1, <2>1, RowIs DEF Order!SessionRows
    <3>2. Order!Put(s, r) BY <2>3
    <3> HIDE DEF r
    <3>3. /\ \A t \in Sessions : t # s => session'[t] = session[t]
          /\ session'[s].status = session[s].status /\ session'[s].order = session[s].order
          /\ session'[s].link = id
      BY <1>1, <2>1, <3>1, <3>2, PutIs
    <3>4. redeemed' = redeemed BY <1>5 DEF Order!ReplaceSessionPayment
    <3>5. Same(s) BY <2>1, <2>3, <3>3, <3>4 DEF Same, Sold, Held1
    <3>6. Counts(s) BY <3>3, <3>5 DEF Counts
    <3> QED BY <1>1, <2>1, <3>6, CountsHold
  <2> QED BY <1>5, <2>2, <2>3 DEF Order!ReplaceSessionPayment, s, id
<1>6. CASE Order!CancelOrphanRow(w)
  <2>1. job[w].fresh \in Order!Ids
    BY <1>1, <1>6 DEF OrderJobHolds, Order!CancelOrphanRow, Order!At
  <2>2. Counts(Order!SessionOf(job[w].fresh)) /\ Order!SessionOf(job[w].fresh) \in Sessions
    BY <1>1, <1>6, <2>1, MoveCounts, IdIs DEF Order!CancelOrphanRow
  <2> QED BY <1>1, <2>2, CountsHold
<1>7. CASE Order!ExpireTransition(w)
  <2>1. job[w].old \in Order!Ids
    BY <1>1, <1>7 DEF OrderJobHolds, Order!ExpireTransition, Order!At
  <2>2. Counts(Order!SessionOf(job[w].old)) /\ Order!SessionOf(job[w].old) \in Sessions
    BY <1>1, <1>7, <2>1, MoveCounts, IdIs DEF Order!ExpireTransition
  <2> QED BY <1>1, <2>2, CountsHold
<1>8. CASE Order!ExpireRow(w)
  <2>1. job[w].id \in Sessions BY <1>1, <1>8 DEF OrderJobHolds, Order!ExpireRow, Order!At
  <2>2. CASE UNCHANGED Order!orders BY <1>2, <2>2 DEF Order!orders
  <2>3. CASE session[job[w].id].status = "open" /\ Order!ExpireSessionRow(job[w].id)
    BY <1>1, <2>1, <2>3, ExpiresIs, CountsHold
  <2> QED BY <1>8, <2>2, <2>3 DEF Order!ExpireRow
<1>9. CASE UNCHANGED Order!orders BY <1>2, <1>9 DEF Order!orders
<1> QED
  <2>1. CASE Order!Confirm(w)
    <3>1. CASE Order!RereadSession(w) BY <1>9, <3>1 DEF Order!RereadSession
    <3>2. CASE Order!CreateSessionPayment(w) BY <1>9, <3>2 DEF Order!CreateSessionPayment
    <3>3. CASE Order!ReadLinked(w) BY <1>9, <3>3 DEF Order!ReadLinked
    <3>4. CASE Order!CancelOldAtProvider(w) BY <1>9, <3>4 DEF Order!CancelOldAtProvider
    <3>5. CASE Order!CancelOrphan(w) BY <1>9, <3>5 DEF Order!CancelOrphan
    <3> QED BY <1>3, <1>4, <1>5, <1>6, <2>1, <3>1, <3>2, <3>3, <3>4, <3>5 DEF Order!Confirm
  <2>2. CASE Order!Expire(w)
    <3>1. CASE Order!ReadPayment(w) BY <1>9, <3>1 DEF Order!ReadPayment
    <3>2. CASE Order!ExpireCancel(w) BY <1>9, <3>2 DEF Order!ExpireCancel
    <3> QED BY <1>7, <1>8, <2>2, <3>1, <3>2 DEF Order!Expire
  <2>3. CASE Order!StartConfirm(w) BY <1>9, <2>3 DEF Order!StartConfirm
  <2>4. CASE Order!StartExpire(w) BY <1>9, <2>4 DEF Order!StartExpire
  <2>5. CASE Order!Abort(w) BY <1>9, <2>5 DEF Order!Abort
  <2> QED BY <2>1, <2>2, <2>3, <2>4, <2>5

LEMMA NextCounts ==
  ASSUME Order!CheckoutBounds, IsFiniteSet(Sessions), OrderIInv, Counted,
      [Order!Next]_(Order!vars)
  PROVE  Counted'
<1>1. OrderBase BY DEF OrderIInv, OrderData
<1>2. CASE UNCHANGED Order!vars BY <1>2, CountedStays DEF Order!vars
<1>3. ASSUME NEW w \in Workers,
             Order!StartConfirm(w) \/ Order!Confirm(w) \/ Order!StartExpire(w)
               \/ Order!Expire(w) \/ Order!Abort(w)
      PROVE  Counted'
  BY <1>3, RequestCounts
<1>4. ASSUME NEW s \in Sessions,
             Order!UpdateSessionAsPayer(s) \/ Order!ExpireDueSessions(s)
               \/ Order!DeadlinePasses(s)
      PROVE  Counted'
  <2>1. CASE Order!UpdateSessionAsPayer(s)
    <3> DEFINE r == [session[s] EXCEPT !.order = IF @ = "full" THEN "discounted" ELSE "full"]
    <3>1. r \in Order!SessionRows /\ r.status = session[s].status /\ r.link = session[s].link
      BY <1>1, RowIs DEF Order!SessionRows, Order!Orders
    <3>2. Order!Put(s, r) /\ session[s].status = "open" /\ session[s].link = Order!NoId
            /\ redeemed' = redeemed
      BY <2>1 DEF Order!UpdateSessionAsPayer
    <3> HIDE DEF r
    <3>3. /\ \A t \in Sessions : t # s => session'[t] = session[t]
          /\ session'[s].status = "open" /\ session'[s].link = Order!NoId
      BY <1>1, <3>1, <3>2, PutIs
    <3>4. Counts(s) BY <3>2, <3>3 DEF Counts, LetsGo, Sold, Held1
    <3> QED BY <1>1, <3>4, CountsHold
  <2>2. CASE Order!ExpireDueSessions(s)
    BY <1>1, <2>2, ExpiresIs, CountsHold DEF Order!ExpireDueSessions
  <2>3. CASE Order!DeadlinePasses(s)
    BY <2>3, CountedStays DEF Order!DeadlinePasses, Order!orders
  <2> QED BY <1>4, <2>1, <2>2, <2>3
<1>5. ASSUME NEW id \in Order!Ids,
             \/ Order!QuoteLapses(id) \/ Order!CardExpires(id) \/ Order!CardReported(id)
                  \/ Order!PayCard(id)
             \/ Order!Broadcast(id) \/ Order!ChainDecides(id) \/ Order!ChainRewinds(id)
      PROVE  Counted'
  <2>1. CASE UNCHANGED Order!orders BY <2>1, CountedStays DEF Order!orders
  <2>2. ASSUME NEW from, NEW to \in {"succeeded", "processing", "canceled"},
               Order!MovePayment(id, from, to)
        PROVE  Counted'
    BY <1>1, <2>2, MoveCounts, IdIs, CountsHold
  <2>3. CASE Order!QuoteLapses(id) BY <2>2, <2>3 DEF Order!QuoteLapses
  <2>4. CASE Order!CardReported(id)
    <3>1. Order!MovePayment(id, "waiting", "succeeded")
            \/ Order!MovePayment(id, "waiting", "canceled")
      BY <2>4 DEF Order!CardReported
    <3> QED BY <2>2, <3>1
  <2>5. CASE Order!Broadcast(id) BY <2>2, <2>5 DEF Order!Broadcast
  <2>6. CASE Order!ChainDecides(id) BY <2>2, <2>6 DEF Order!ChainDecides
  <2>7. CASE Order!ChainRewinds(id) BY <2>2, <2>7 DEF Order!ChainRewinds
  <2>8. CASE Order!CardExpires(id) BY <2>1, <2>8 DEF Order!CardExpires
  <2>9. CASE Order!PayCard(id) BY <2>1, <2>9 DEF Order!PayCard
  <2> QED BY <1>5, <2>3, <2>4, <2>5, <2>6, <2>7, <2>8, <2>9
<1> QED BY <1>2, <1>3, <1>4, <1>5 DEF Order!Next

LEMMA CountedAtFirst ==
  ASSUME Order!CheckoutBounds, Order!Init PROVE Counted
<1>1. Taking(session) = {} /\ Holding(session) = {}
  BY DEF Order!Init, Order!NewSession, Taking, Holding, Sold, Held1
<1>2. redeemed = 0 /\ MaxRedemptions \in Nat BY DEF Order!Init, Order!CheckoutBounds
<1> QED BY <1>1, <1>2, FS_EmptySet DEF Counted

\* A code sells as often as it may: what was redeemed is what was sold, and what
\* open orders hold fits in what is left (reserveDiscount).
THEOREM CodeWithinBoundHolds ==
  Order!CheckoutBounds /\ IsFiniteSet(Sessions) /\ Order!Spec => []Order!CodeWithinBound
<1>1. ASSUME Order!CheckoutBounds, IsFiniteSet(Sessions), OrderIInv, Counted
      PROVE  Order!CodeWithinBound
  <2>1. Cardinality(Holding(session)) \in Nat /\ Cardinality(Taking(session)) \in Nat
    BY <1>1, CountedSets, FS_CardinalityType
  <2>2. redeemed \in Nat /\ MaxRedemptions \in Nat
    BY <1>1 DEF OrderIInv, OrderData, OrderBase, Order!CheckoutBounds
  <2>3. Cardinality(Taking(session)) <= MaxRedemptions BY <1>1, <2>1, <2>2 DEF Counted
  <2> QED BY <2>3, OrderCounts DEF Order!CodeWithinBound, Taking, Sold
<1> QED
  <2>1. ASSUME Order!CheckoutBounds, IsFiniteSet(Sessions)
        PROVE  Order!Spec => []Order!CodeWithinBound
    <3>1. Order!Init => OrderIInv /\ Counted BY <2>1, OrderInitHolds, CountedAtFirst
    <3>2. OrderIInv /\ Counted /\ [Order!Next]_(Order!vars) => OrderIInv' /\ Counted'
      BY <2>1, OrderNextHolds, NextCounts
    <3>3. OrderIInv /\ Counted => Order!CodeWithinBound BY <1>1, <2>1
    <3> QED BY <3>1, <3>2, <3>3, PTL DEF Order!Spec
  <2> QED BY <2>1

-----------------------------------------------------------------------------
(*****************************************************************************)
(* The light wallet, for any payments, sends, length of the chain and        *)
(* bounds. A chain's blocks stand in their places because a header is only   *)
(* ever put behind the tip, a scan asks for headers there are because        *)
(* headers are never taken away, and two sends are apart because a send      *)
(* holds its coins reserved, each for itself, until it ends.                 *)
(*****************************************************************************)
CONSTANTS Funds, Late, Sends, MaxHeight, MaxForks, MaxCopies, MaxCrashes
VARIABLES chain, public, wire, filter, assoc, batches, jobs, stale, headers,
  coin, txBlock, scan, pendingFrom, driver, checker, send, reserved, counts, missed,
  coins

Purse == INSTANCE Wallet WITH memory <- coins

\* It counts as this module does, too.
LEMMA PurseCounts == ASSUME NEW S PROVE Purse!Cardinality(S) = Cardinality(S)
BY DEF Purse!Cardinality, Cardinality

(***************************************************************************)
(* The inductive invariant: TypeOK with what it leaves out of messages,    *)
(* batches, jobs and the driver, and what is reserved.                     *)
(***************************************************************************)
Messages ==
  [kind : {"block", "tx"}, tx : Purse!Txs \cup {"none"}, block : Purse!Blocks,
      prev : Purse!Blocks]
Batches == [block : Purse!Blocks, prev : Purse!Blocks]
PurseJobs == [tx : Purse!Txs, block : Purse!Blocks, pc : {"apply", "debit", "record"},
    debit : SUBSET Purse!Txs]
Coins == [height : Purse!Heights, spent : BOOLEAN]
ScanType == [begun : BOOLEAN, next : 1..(MaxHeight + 1), target : 0..MaxHeight,
             completed : BOOLEAN]
DriverType == [pc : {"idle", "fold", "request", "wait"}, next : 0..(MaxHeight + 1),
               target : 0..MaxHeight]
SendType == [pc : {"none", "signing", "broadcast", "marked", "failed", "done", "lost"},
             inputs : SUBSET Purse!Txs]

ChainType(blocks) == blocks \in Seq(Purse!Blocks) /\ Purse!IsChain(blocks)

NetworkTyped ==
  /\ ChainType(chain)
  /\ public \subseteq Purse!Txs /\ Funds \subseteq public
  /\ counts \in [forks : 0..MaxForks, copies : 0..MaxCopies, crashes : 0..MaxCrashes]
  /\ missed \subseteq Purse!Txs
\* A message of a transaction names one.
ClientTyped ==
  /\ wire \in Seq(Messages)
  /\ \A i \in 1..Len(wire) : wire[i].kind = "tx" => wire[i].tx \in Purse!Txs
  /\ filter \subseteq Funds
  /\ assoc \in [Purse!Txs -> Purse!Blocks] /\ batches \in Seq(Batches)
RowsTyped ==
  /\ ChainType(headers) /\ jobs \in Seq(PurseJobs) /\ stale \in BOOLEAN
  /\ coin \in [Purse!Txs -> Coins] /\ txBlock \in [Purse!Txs -> Purse!Blocks]
  /\ coins \in [Purse!Txs -> Purse!Heights]
\* The scan asks for headers there are.
ScanTyped ==
  /\ scan \in ScanType /\ pendingFrom \in 0..MaxHeight /\ checker \in Late \cup {"none"}
  /\ driver \in DriverType /\ (driver.pc = "fold" => driver.next <= MaxHeight)
  /\ driver.pc \in {"request", "wait"} =>
       driver.next \in 1..driver.target /\ driver.target <= Len(headers)
\* What a send in progress spends is reserved, and for it alone.
SendsTyped ==
  /\ send \in [Sends -> SendType] /\ reserved \subseteq Purse!Txs
  /\ \A s \in Sends : send[s].pc \in Purse!InProgress => send[s].inputs \subseteq reserved
  /\ Purse!SendsApart

PurseInv == NetworkTyped /\ ClientTyped /\ RowsTyped /\ ScanTyped /\ SendsTyped

\* What stands for no block is one.
LEMMA BlockTypes ==
  ASSUME Purse!WalletBounds
  PROVE  Purse!NoBlock \in Purse!Blocks /\ Purse!Mempool \in Purse!Heights
           /\ Purse!Absent \in Purse!Heights
BY DEF Purse!WalletBounds, Purse!NoBlock, Purse!Blocks, Purse!Heights, Purse!Mempool,
   Purse!Absent

\* An empty device.
LEMMA InitInv == ASSUME Purse!WalletBounds, Purse!Init PROVE PurseInv
<1>1. NetworkTyped
  BY DEF Purse!Init, NetworkTyped, ChainType, Purse!IsChain, Purse!WalletBounds, Purse!Txs
<1>2. ClientTyped
  BY BlockTypes DEF Purse!Init, ClientTyped
<1>3. RowsTyped
  <2>1. Purse!NoCoin \in Coins BY BlockTypes DEF Purse!NoCoin, Coins
  <2>2. ChainType(headers) BY DEF Purse!Init, ChainType, Purse!IsChain, Purse!WalletBounds
  <2>3. jobs \in Seq(PurseJobs) BY DEF Purse!Init
  <2>6. stale \in BOOLEAN BY DEF Purse!Init
  <2>4. coin \in [Purse!Txs -> Coins] BY <2>1 DEF Purse!Init
  <2>5. txBlock \in [Purse!Txs -> Purse!Blocks] /\ coins \in [Purse!Txs -> Purse!Heights]
    BY BlockTypes DEF Purse!Init
  <2> QED BY <2>2, <2>3, <2>4, <2>5, <2>6 DEF RowsTyped
<1>4. ScanTyped
  BY DEF Purse!Init, ScanTyped, ScanType, DriverType, Purse!NoDriver, Purse!WalletBounds
<1>5. SendsTyped
  BY DEF Purse!Init, SendsTyped, SendType, Purse!SendsApart, Purse!InProgress
<1> QED BY <1>1, <1>2, <1>3, <1>4, <1>5 DEF PurseInv

-----------------------------------------------------------------------------
\* The predecessor of a block, and the message a block is served as.
LEMMA BeforeType ==
  ASSUME Purse!WalletBounds, NEW blocks \in Seq(Purse!Blocks), NEW h \in 1..(Len(blocks) + 1)
  PROVE  Purse!Before(blocks, h) \in Purse!Blocks
<1>1. CASE h = 1 BY <1>1, BlockTypes DEF Purse!Before
<1>2. CASE h # 1
  <2>1. h - 1 \in 1..Len(blocks) BY <1>2
  <2> QED BY <1>2, <2>1 DEF Purse!Before
<1> QED BY <1>1, <1>2

LEMMA ServeType ==
  ASSUME Purse!WalletBounds, PurseInv, NEW b \in Purse!Blocks, NEW p \in Purse!Blocks
  PROVE  Purse!Serve(b, p) \in Messages /\ Purse!Serve(b, p).kind # "tx"
BY DEF Purse!Serve, Messages, Purse!Matches, PurseInv, ClientTyped, Purse!Txs, Purse!Blocks

\* The invariant is the type invariant and more.
LEMMA TypeOKFromInv == ASSUME Purse!WalletBounds, PurseInv PROVE Purse!TypeOK
<1>1. ChainType(chain) /\ ChainType(headers) BY DEF PurseInv, NetworkTyped, RowsTyped
<1>2. \A i \in DOMAIN wire : wire[i].tx \in Purse!Txs \cup {"none"}
        /\ wire[i].block \in Purse!Blocks
  <2>1. wire \in Seq(Messages) BY DEF PurseInv, ClientTyped
  <2>2. \A i \in DOMAIN wire : wire[i] \in Messages BY <2>1
  <2> QED BY <2>2 DEF Messages
<1>3. \A i \in DOMAIN jobs :
        jobs[i].tx \in Purse!Txs /\ jobs[i].block \in Purse!Blocks
          /\ jobs[i].debit \subseteq Purse!Txs
  <2>1. jobs \in Seq(PurseJobs) BY DEF PurseInv, RowsTyped
  <2>2. \A i \in DOMAIN jobs : jobs[i] \in PurseJobs BY <2>1
  <2> QED BY <2>2 DEF PurseJobs
<1>4. scan.next \in 0..(MaxHeight + 1)
  BY DEF PurseInv, ScanTyped, ScanType, Purse!WalletBounds
<1> QED BY <1>1, <1>2, <1>3, <1>4 DEF PurseInv, NetworkTyped, ClientTyped, RowsTyped,
           ScanTyped, SendsTyped, Purse!TypeOK, ChainType, Coins

-----------------------------------------------------------------------------
\* What no part of a step touches stays as it was.
LEMMA Untouched ==
  ASSUME PurseInv
  PROVE  /\ UNCHANGED Purse!network /\ UNCHANGED <<counts, missed>> => NetworkTyped'
         /\ UNCHANGED Purse!client => ClientTyped'
         /\ UNCHANGED <<headers, jobs, stale, coin, txBlock, coins>> => RowsTyped'
         /\ UNCHANGED <<Purse!scanning, checker, headers>> => ScanTyped'
         /\ UNCHANGED Purse!sending => SendsTyped'
<1>1. UNCHANGED Purse!network /\ UNCHANGED <<counts, missed>> => NetworkTyped'
  BY DEF PurseInv, NetworkTyped, ChainType, Purse!IsChain, Purse!network, Purse!Txs
<1>2. UNCHANGED Purse!client => ClientTyped' BY DEF PurseInv, ClientTyped, Purse!client
<1>3. UNCHANGED <<headers, jobs, stale, coin, txBlock, coins>> => RowsTyped'
  BY DEF PurseInv, RowsTyped, ChainType, Purse!IsChain
<1>4. UNCHANGED <<Purse!scanning, checker, headers>> => ScanTyped'
  BY DEF PurseInv, ScanTyped, Purse!scanning
<1>5. UNCHANGED Purse!sending => SendsTyped'
  BY DEF PurseInv, SendsTyped, Purse!SendsApart, Purse!Inputs, Purse!sending
<1> QED BY <1>1, <1>2, <1>3, <1>4, <1>5

(* The network. *)

LEMMA MineInv ==
  ASSUME Purse!WalletBounds, PurseInv, NEW t \in Purse!Txs \cup {"none"}, Purse!Mine(t)
  PROVE  PurseInv'
<1> DEFINE b == [at |-> Len(chain) + 1, fork |-> counts.forks, tx |-> t]
<1>1. ChainType(chain) /\ counts.forks \in 0..MaxForks /\ Len(chain) < MaxHeight
  BY DEF PurseInv, NetworkTyped, Purse!Mine
<1>2. b \in Purse!Blocks BY <1>1 DEF Purse!Blocks, Purse!WalletBounds, ChainType
<1>3. chain' = Append(chain, b) BY DEF Purse!Mine
<1> HIDE DEF b
<1>4. chain' \in Seq(Purse!Blocks) /\ Len(chain') = Len(chain) + 1
  BY <1>1, <1>2, <1>3 DEF ChainType
<1>5. \A h \in 1..Len(chain) + 1 : chain'[h].at = h
  <2> SUFFICES ASSUME NEW h \in 1..Len(chain) + 1 PROVE chain'[h].at = h OBVIOUS
  <2>1. CASE h \in 1..Len(chain) BY <1>1, <1>2, <1>3, <2>1 DEF ChainType, Purse!IsChain
  <2>2. CASE h = Len(chain) + 1
    <3>1. chain'[h] = b BY <1>1, <1>2, <1>3, <2>2 DEF ChainType
    <3> QED BY <3>1, <2>2 DEF b
  <2> QED BY <2>1, <2>2, <1>1 DEF ChainType
<1>6. Purse!IsChain(chain')
  BY <1>1, <1>4, <1>5 DEF Purse!IsChain, Purse!WalletBounds, ChainType
<1>7. NetworkTyped'
  BY <1>4, <1>6 DEF Purse!Mine, PurseInv, NetworkTyped, ChainType, Purse!IsChain
<1> QED BY <1>7, Untouched DEF Purse!Mine, PurseInv, Purse!scanning, Purse!sending,
           Purse!client

LEMMA ReorganiseInv ==
  ASSUME Purse!WalletBounds, PurseInv, Purse!Reorganise PROVE PurseInv'
<1> DEFINE Empty(h) == [at |-> h, fork |-> counts.forks + 1, tx |-> "none"]
<1>1. /\ ChainType(chain) /\ counts.forks \in 0..MaxForks /\ counts.forks < MaxForks
      /\ Len(chain) \in 1..(MaxHeight - 1)
  BY DEF PurseInv, NetworkTyped, Purse!Reorganise
<1>2. chain' = [h \in 1..(Len(chain) + 1) |-> IF h < Len(chain) THEN chain[h] ELSE Empty(h)]
  BY DEF Purse!Reorganise
<1>3. \A h \in 1..(Len(chain) + 1) : Empty(h) \in Purse!Blocks /\ Empty(h).at = h
  BY SMTT(60), <1>1 DEF Purse!Blocks, Purse!WalletBounds, ChainType
<1> HIDE DEF Empty
<1>4. \A h \in 1..(Len(chain) + 1) : chain'[h] \in Purse!Blocks /\ chain'[h].at = h
  BY <1>1, <1>2, <1>3 DEF ChainType, Purse!IsChain
<1>5. chain' \in Seq(Purse!Blocks) /\ Len(chain') = Len(chain) + 1
  <2>1. chain' \in [1..(Len(chain) + 1) -> Purse!Blocks] BY <1>2, <1>4
  <2>2. Len(chain) + 1 \in Nat BY <1>1 DEF ChainType
  <2> QED BY <2>1, <2>2
<1>6. ChainType(chain') BY <1>1, <1>4, <1>5 DEF ChainType, Purse!IsChain, Purse!WalletBounds
<1>7. counts' \in [forks : 0..MaxForks, copies : 0..MaxCopies, crashes : 0..MaxCrashes]
  BY SMTT(60), <1>1 DEF Purse!Reorganise, PurseInv, NetworkTyped, Purse!WalletBounds
<1>8. NetworkTyped'
  BY <1>6, <1>7 DEF Purse!Reorganise, PurseInv, NetworkTyped, ChainType, Purse!IsChain
<1> QED BY <1>8, Untouched DEF Purse!Reorganise, PurseInv, Purse!scanning, Purse!sending,
           Purse!client

LEMMA AnnounceInv ==
  ASSUME Purse!WalletBounds, PurseInv, Purse!Announce PROVE PurseInv'
<1> DEFINE common ==
             Purse!Cardinality({h \in DOMAIN headers : h <= Len(chain) /\ headers[h] = chain[h]})
           n == Len(chain) - common
<1>1. ChainType(chain) /\ ChainType(headers) BY DEF PurseInv, NetworkTyped, RowsTyped
<1>2. common \in Nat
  <2>1. IsFiniteSet(1..Len(headers)) BY <1>1, FS_Interval DEF ChainType
  <2>2. {h \in DOMAIN headers : h <= Len(chain) /\ headers[h] = chain[h]}
          \in SUBSET (1..Len(headers))
    BY <1>1 DEF ChainType
  <2> QED BY <2>1, <2>2, FS_Subset, FS_CardinalityType, PurseCounts
<1>3. common < Len(chain)
      /\ wire' = [i \in 1..n |-> Purse!Serve(chain[common + i], Purse!Before(chain,
             common + i))]
  BY DEF Purse!Announce
<1> HIDE DEF common
<1>4. \A i \in 1..n :
        Purse!Serve(chain[common + i], Purse!Before(chain, common + i)) \in Messages
                      /\ Purse!Serve(chain[common + i], Purse!Before(chain,
                             common + i)).kind # "tx"
  <2> SUFFICES ASSUME NEW i \in 1..n
               PROVE  Purse!Serve(chain[common + i], Purse!Before(chain, common + i))
                        \in Messages
                      /\ Purse!Serve(chain[common + i], Purse!Before(chain,
                             common + i)).kind # "tx"
    OBVIOUS
  <2>1. common + i \in 1..Len(chain) BY <1>1, <1>2, <1>3 DEF ChainType
  <2>2. chain[common + i] \in Purse!Blocks BY <2>1, <1>1 DEF ChainType
  <2>3. Purse!Before(chain, common + i) \in Purse!Blocks
    BY <2>1, <1>1, BeforeType DEF ChainType
  <2> QED BY <2>2, <2>3, ServeType
<1>5. n \in Nat BY <1>1, <1>2, <1>3 DEF ChainType
<1>6. wire' \in Seq(Messages) /\ Len(wire') = n
  <2>1. wire' \in [1..n -> Messages] BY <1>3, <1>4
  <2> QED BY <2>1, <1>5
<1>7. \A i \in 1..Len(wire') : wire'[i].kind # "tx" BY <1>3, <1>4, <1>6
<1>8. ClientTyped'
  <2>1. UNCHANGED <<filter, assoc, batches>> BY DEF Purse!Announce
  <2> QED BY <1>6, <1>7, <2>1 DEF PurseInv, ClientTyped
<1> QED BY <1>8, Untouched DEF Purse!Announce, PurseInv, Purse!scanning, Purse!sending,
           Purse!network

LEMMA RelayInv ==
  ASSUME Purse!WalletBounds, PurseInv, NEW t \in Purse!Txs, Purse!Relay(t) PROVE PurseInv'
<1> DEFINE m == [kind |-> "tx", tx |-> t, block |-> Purse!NoBlock, prev |-> Purse!NoBlock]
<1>1. m \in Messages BY BlockTypes DEF Messages
<1>2. wire' = Append(wire, m) /\ m.tx = t BY DEF Purse!Relay
<1> HIDE DEF m
<1>3. wire' \in Seq(Messages) BY <1>1, <1>2 DEF PurseInv, ClientTyped
<1>4. \A i \in 1..Len(wire') : wire'[i].kind = "tx" => wire'[i].tx \in Purse!Txs
  BY <1>1, <1>2 DEF PurseInv, ClientTyped
<1>5. ClientTyped'
  <2>1. UNCHANGED <<filter, assoc, batches>> BY DEF Purse!Relay
  <2> QED BY <1>3, <1>4, <2>1 DEF PurseInv, ClientTyped
<1>6. NetworkTyped'
  <2>1. counts' \in [forks : 0..MaxForks, copies : 0..MaxCopies, crashes : 0..MaxCrashes]
    BY DEF Purse!Relay, PurseInv, NetworkTyped, Purse!WalletBounds
  <2> QED BY <2>1 DEF Purse!Relay, PurseInv, NetworkTyped, Purse!network, ChainType,
             Purse!IsChain
<1> QED BY <1>5, <1>6, Untouched DEF Purse!Relay, PurseInv, Purse!scanning, Purse!sending

-----------------------------------------------------------------------------
(* Receiving. *)

LEMMA ProcessMerkleBlockInv ==
  ASSUME Purse!WalletBounds, PurseInv, Purse!ProcessMerkleBlock PROVE PurseInv'
<1> DEFINE m == Head(wire)
<1>1. /\ wire \in Seq(Messages) /\ wire # <<>> /\ m.kind = "block"
      /\ \A i \in 1..Len(wire) : wire[i].kind = "tx" => wire[i].tx \in Purse!Txs
  BY DEF PurseInv, ClientTyped, Purse!ProcessMerkleBlock
<1>2. m \in Messages /\ m = wire[1] /\ Len(wire) \in Nat /\ Len(wire) >= 1 BY <1>1
<1>3. /\ batches' = Append(batches, [block |-> m.block, prev |-> m.prev])
      /\ assoc' = IF m.tx = "none" THEN assoc ELSE [assoc EXCEPT ![m.tx] = m.block]
      /\ wire' = IF m.tx = "none" THEN Tail(wire) ELSE [wire EXCEPT ![1].kind = "tx"]
      /\ UNCHANGED filter
  BY DEF Purse!ProcessMerkleBlock
<1> HIDE DEF m
<1>4. batches' \in Seq(Batches)
  <2>1. [block |-> m.block, prev |-> m.prev] \in Batches BY <1>2 DEF Messages, Batches
  <2> QED BY <1>3, <2>1 DEF PurseInv, ClientTyped
<1>5. assoc' \in [Purse!Txs -> Purse!Blocks] BY <1>2, <1>3 DEF PurseInv, ClientTyped, Messages
<1>6. wire' \in Seq(Messages) /\ \A i \in 1..Len(wire') : wire'[i].kind = "tx"
        => wire'[i].tx \in Purse!Txs
  <2>1. CASE m.tx = "none" BY SMTT(60), <1>1, <1>2, <1>3, <2>1
  <2>2. CASE m.tx # "none"
    <3> DEFINE n == [m EXCEPT !.kind = "tx"]
    <3>1. n \in Messages /\ n.tx \in Purse!Txs BY <1>2, <2>2 DEF Messages
    <3>2. wire' = [wire EXCEPT ![1] = n] BY <1>2, <1>3, <2>2
    <3> HIDE DEF n
    <3>3. wire' \in Seq(Messages) /\ Len(wire') = Len(wire) BY <1>1, <1>2, <3>1, <3>2
    <3>4. \A i \in 1..Len(wire) : wire'[i] = IF i = 1 THEN n ELSE wire[i]
      BY <1>1, <1>2, <3>2
    <3> QED BY <1>1, <3>1, <3>3, <3>4
  <2> QED BY <2>1, <2>2
<1>7. ClientTyped' BY <1>3, <1>4, <1>5, <1>6 DEF PurseInv, ClientTyped
<1> QED BY <1>7, Untouched DEF Purse!ProcessMerkleBlock, PurseInv, Purse!scanning,
           Purse!sending, Purse!network

LEMMA ProcessTransactionInv ==
  ASSUME Purse!WalletBounds, PurseInv, Purse!ProcessTransaction PROVE PurseInv'
<1> DEFINE t == Head(wire).tx
<1>1. /\ wire \in Seq(Messages) /\ wire # <<>> /\ Head(wire).kind = "tx"
      /\ \A i \in 1..Len(wire) : wire[i].kind = "tx" => wire[i].tx \in Purse!Txs
  BY DEF PurseInv, ClientTyped, Purse!ProcessTransaction
<1>2. t \in Purse!Txs BY <1>1
<1>3. /\ jobs' = Append(jobs, [tx |-> t, block |-> assoc[t], pc |-> "apply", debit |-> {}])
      /\ assoc' = [assoc EXCEPT ![t] = Purse!NoBlock] /\ wire' = Tail(wire)
      /\ UNCHANGED <<filter, batches, headers, stale, coin, txBlock, coins>>
  BY DEF Purse!ProcessTransaction
<1> HIDE DEF t
<1>4. wire' \in Seq(Messages) /\ \A i \in 1..Len(wire') : wire'[i].kind = "tx"
        => wire'[i].tx \in Purse!Txs
  BY <1>1, <1>3
<1>5. ClientTyped'
  <2>1. assoc' \in [Purse!Txs -> Purse!Blocks]
    BY <1>2, <1>3, BlockTypes DEF PurseInv, ClientTyped
  <2> QED BY <1>3, <1>4, <2>1 DEF PurseInv, ClientTyped
<1>6. RowsTyped'
  <2>1. [tx |-> t, block |-> assoc[t], pc |-> "apply", debit |-> {}] \in PurseJobs
    BY <1>2 DEF PurseJobs, PurseInv, ClientTyped
  <2>2. jobs' \in Seq(PurseJobs) BY <1>3, <2>1 DEF PurseInv, RowsTyped
  <2> QED BY <1>3, <2>2 DEF PurseInv, RowsTyped, ChainType, Purse!IsChain
<1> QED BY <1>5, <1>6, Untouched DEF Purse!ProcessTransaction, PurseInv, Purse!scanning,
           Purse!sending, Purse!network

LEMMA ApplyHeaderBatchInv ==
  ASSUME Purse!WalletBounds, PurseInv, Purse!ApplyHeaderBatch PROVE PurseInv'
<1> DEFINE b == Head(batches)
<1>1. /\ batches \in Seq(Batches) /\ batches # <<>> /\ b \in Batches /\ ChainType(headers)
      /\ headers \in Seq(Purse!Blocks)
  BY DEF PurseInv, ClientTyped, RowsTyped, Purse!ApplyHeaderBatch, ChainType
<1>2. /\ batches' = Tail(batches)
           /\ UNCHANGED <<wire, filter, assoc, jobs, coin, txBlock, coins>>
      /\ IF Purse!Extends(b.block, b.prev) THEN headers' = Append(headers, b.block)
           /\ stale' = TRUE
         ELSE UNCHANGED <<headers, stale>>
  BY DEF Purse!ApplyHeaderBatch
<1> HIDE DEF b
<1>3. ClientTyped'
  <2>1. batches' \in Seq(Batches) BY <1>1, <1>2
  <2> QED BY <1>2, <2>1 DEF PurseInv, ClientTyped
<1>4. CASE Purse!Extends(b.block, b.prev)
  <2>1. /\ b.block \in Purse!Blocks /\ b.block.at = Len(headers) + 1
        /\ headers' = Append(headers, b.block) /\ stale' = TRUE
    BY <1>1, <1>2, <1>4 DEF Batches, Purse!Extends, Purse!Tip
  <2>2. Len(headers) + 1 <= MaxHeight BY <2>1, <1>1 DEF Purse!Blocks, Purse!WalletBounds
  <2>3. headers' \in Seq(Purse!Blocks) /\ Len(headers') = Len(headers) + 1 BY <1>1, <2>1
  <2>4. \A h \in 1..Len(headers) + 1 : headers'[h].at = h
    <3> SUFFICES ASSUME NEW h \in 1..Len(headers) + 1 PROVE headers'[h].at = h OBVIOUS
    <3>1. CASE h \in 1..Len(headers) BY <1>1, <2>1, <3>1 DEF ChainType, Purse!IsChain
    <3>2. CASE h = Len(headers) + 1 BY <1>1, <2>1, <3>2
    <3> QED BY <3>1, <3>2, <1>1
  <2>5. ChainType(headers') BY <2>2, <2>3, <2>4 DEF ChainType, Purse!IsChain
  <2>6. stale' \in BOOLEAN BY <2>1
  <2>7. RowsTyped' BY <1>2, <2>5, <2>6 DEF PurseInv, RowsTyped, ChainType, Purse!IsChain
  <2>8. ScanTyped'
    <3>1. UNCHANGED <<scan, pendingFrom, driver, checker>>
      BY DEF Purse!ApplyHeaderBatch, Purse!scanning
    <3>2. driver.target \in Nat BY DEF PurseInv, ScanTyped, DriverType, Purse!WalletBounds
    <3> QED BY <1>1, <2>3, <3>1, <3>2 DEF PurseInv, ScanTyped
  <2> QED BY <1>3, <2>7, <2>8, Untouched DEF Purse!ApplyHeaderBatch, PurseInv, Purse!sending,
             Purse!network
<1>5. CASE ~Purse!Extends(b.block, b.prev)
  BY <1>2, <1>3, <1>5, Untouched DEF Purse!ApplyHeaderBatch, PurseInv, Purse!sending,
     Purse!network, Purse!scanning
<1> QED BY <1>4, <1>5

\* What the jobs compute with.
LEMMA KnownHeightType ==
  ASSUME Purse!WalletBounds, PurseInv, NEW b \in Purse!Blocks
  PROVE  Purse!KnownHeight(b) \in Purse!Heights
BY BlockTypes DEF Purse!KnownHeight, Purse!Blocks, Purse!Heights, Purse!Absent,
   Purse!WalletBounds

LEMMA WithoutType ==
  ASSUME NEW i \in DOMAIN jobs, jobs \in Seq(PurseJobs)
  PROVE  Purse!Without(i) \in Seq(PurseJobs)
<1>1. Len(jobs) \in Nat /\ Len(jobs) >= 1 /\ i \in 1..Len(jobs) OBVIOUS
<1>2. \A k \in 1..(Len(jobs) - 1) : jobs[k] \in PurseJobs /\ jobs[k + 1] \in PurseJobs BY <1>1
<1>3. Purse!Without(i) \in [1..(Len(jobs) - 1) -> PurseJobs] BY <1>2 DEF Purse!Without
<1> QED BY <1>1, <1>3

LEMMA ApplyTransactionInv ==
  ASSUME Purse!WalletBounds, PurseInv, NEW i \in DOMAIN jobs, Purse!ApplyTransaction(i)
  PROVE  PurseInv'
<1> DEFINE t == jobs[i].tx
           height == Purse!KnownHeight(jobs[i].block)
           credit == Purse!MayCredit(t, height)
           debit == {c \in Purse!Inputs(t) : coins[c] # Purse!Absent}
<1>1. jobs \in Seq(PurseJobs) /\ jobs[i] \in PurseJobs BY DEF PurseInv, RowsTyped
<1>2. t \in Purse!Txs /\ height \in Purse!Heights
  BY <1>1, KnownHeightType DEF PurseJobs
<1>3. debit \subseteq Purse!Txs
  BY <1>2 DEF Purse!Inputs, PurseInv, SendsTyped, SendType
<1>4. /\ coins' = [c \in Purse!Txs |-> IF c \in debit THEN Purse!Absent
                                       ELSE IF c = t /\ credit THEN height ELSE coins[c]]
      /\ coin' = IF credit THEN [coin EXCEPT ![t] = [height |-> height, spent |-> FALSE]]
                 ELSE coin
      /\ jobs' = IF ~credit /\ debit = {} THEN Purse!Without(i)
                 ELSE [jobs EXCEPT ![i].pc = IF debit = {} THEN "record" ELSE "debit",
                                   ![i].debit = debit]
      /\ UNCHANGED <<headers, stale, txBlock>>
  BY DEF Purse!ApplyTransaction
<1> HIDE DEF t, height, credit, debit
<1>5. coins' \in [Purse!Txs -> Purse!Heights]
  BY <1>2, <1>4, BlockTypes DEF PurseInv, RowsTyped
<1>6. coin' \in [Purse!Txs -> Coins] BY <1>2, <1>4 DEF PurseInv, RowsTyped, Coins
<1>7. jobs' \in Seq(PurseJobs)
  <2>1. CASE ~credit /\ debit = {} BY <1>1, <1>4, <2>1, WithoutType
  <2>2. CASE ~(~credit /\ debit = {})
    <3> DEFINE j == [jobs[i] EXCEPT !.pc = IF debit = {} THEN "record" ELSE "debit",
                                    !.debit = debit]
    <3>1. j \in PurseJobs BY <1>1, <1>3 DEF PurseJobs
    <3>2. jobs' = [jobs EXCEPT ![i] = j] BY <1>1, <1>4, <2>2
    <3> HIDE DEF j
    <3> QED BY <1>1, <3>1, <3>2
  <2> QED BY <2>1, <2>2
<1>8. RowsTyped' BY <1>4, <1>5, <1>6, <1>7 DEF PurseInv, RowsTyped, ChainType, Purse!IsChain
<1> QED BY <1>8, Untouched DEF Purse!ApplyTransaction, PurseInv, Purse!scanning,
        Purse!sending,
           Purse!network

LEMMA SpendType ==
  ASSUME NEW rows \in [Purse!Txs -> Coins], NEW S
  PROVE  Purse!Spend(rows, S) \in [Purse!Txs -> Coins]
BY DEF Purse!Spend, Coins

LEMMA MarkDebitsSpentInv ==
  ASSUME Purse!WalletBounds, PurseInv, NEW i \in DOMAIN jobs, Purse!MarkDebitsSpent(i)
  PROVE  PurseInv'
<1>1. jobs \in Seq(PurseJobs) /\ jobs[i] \in PurseJobs BY DEF PurseInv, RowsTyped
<1>2. jobs' \in Seq(PurseJobs)
  <2>1. [jobs[i] EXCEPT !.pc = "record"] \in PurseJobs BY <1>1 DEF PurseJobs
  <2>2. jobs' = [jobs EXCEPT ![i] = [jobs[i] EXCEPT !.pc = "record"]]
    BY <1>1 DEF Purse!MarkDebitsSpent
  <2> QED BY <1>1, <2>1, <2>2
<1>3. coin' \in [Purse!Txs -> Coins]
  BY SpendType DEF Purse!MarkDebitsSpent, PurseInv, RowsTyped
<1>4. RowsTyped'
  BY <1>2, <1>3 DEF Purse!MarkDebitsSpent, PurseInv, RowsTyped, ChainType, Purse!IsChain
<1> QED BY <1>4, Untouched DEF Purse!MarkDebitsSpent, PurseInv, Purse!scanning, Purse!sending,
           Purse!network

LEMMA InsertTransactionInv ==
  ASSUME Purse!WalletBounds, PurseInv, NEW i \in DOMAIN jobs, Purse!InsertTransaction(i)
  PROVE  PurseInv'
<1>1. jobs \in Seq(PurseJobs) /\ jobs[i] \in PurseJobs BY DEF PurseInv, RowsTyped
<1>2. jobs' \in Seq(PurseJobs) BY <1>1, WithoutType DEF Purse!InsertTransaction
<1>3. txBlock' \in [Purse!Txs -> Purse!Blocks]
  BY <1>1 DEF Purse!InsertTransaction, PurseInv, RowsTyped, PurseJobs
<1>4. RowsTyped'
  BY <1>2, <1>3 DEF Purse!InsertTransaction, PurseInv, RowsTyped, ChainType, Purse!IsChain
<1> QED BY <1>4, Untouched DEF Purse!InsertTransaction, PurseInv, Purse!scanning,
           Purse!sending, Purse!network

LEMMA ReconcileConfirmationsInv ==
  ASSUME Purse!WalletBounds, PurseInv, Purse!ReconcileConfirmations PROVE PurseInv'
<1> DEFINE resolved ==
      {t \in Purse!Txs : coin[t].height = Purse!Mempool /\ Purse!KnownHeight(txBlock[t]) > 0}
<1>1. \A t \in Purse!Txs : Purse!KnownHeight(txBlock[t]) \in Purse!Heights
  BY KnownHeightType DEF PurseInv, RowsTyped
<1>2. /\ stale' = FALSE
      /\ coin' = [t \in Purse!Txs |-> IF t \in resolved
                                      THEN [coin[t] EXCEPT !.height = Purse!KnownHeight(txBlock[t])]
                                      ELSE coin[t]]
      /\ coins' = [t \in Purse!Txs |-> IF t \in resolved /\ coins[t] # Purse!Absent
                                       THEN Purse!KnownHeight(txBlock[t]) ELSE coins[t]]
      /\ UNCHANGED <<headers, jobs, txBlock>>
  BY DEF Purse!ReconcileConfirmations
<1> HIDE DEF resolved
<1>3. coin' \in [Purse!Txs -> Coins] BY <1>1, <1>2 DEF PurseInv, RowsTyped, Coins
<1>4. coins' \in [Purse!Txs -> Purse!Heights] BY <1>1, <1>2 DEF PurseInv, RowsTyped
<1>5. stale' \in BOOLEAN BY <1>2
<1>6. RowsTyped' BY <1>2, <1>3, <1>4, <1>5 DEF PurseInv, RowsTyped, ChainType, Purse!IsChain
<1> QED BY <1>6, Untouched DEF Purse!ReconcileConfirmations, PurseInv, Purse!scanning,
           Purse!sending, Purse!network

-----------------------------------------------------------------------------
(* The historical scan. *)

\* Going back keeps what the scan is, and what is planned is a height there is.
LEMMA RewindType ==
  ASSUME Purse!WalletBounds, PurseInv, NEW p \in ScanType, NEW h \in 1..MaxHeight
  PROVE  Purse!RewindRescanProgress(p, h) \in ScanType
<1>1. Purse!Tip \in 0..MaxHeight
  BY DEF Purse!Tip, PurseInv, RowsTyped, ChainType, Purse!IsChain, Purse!WalletBounds
<1> QED BY <1>1 DEF Purse!RewindRescanProgress, ScanType, Purse!WalletBounds

LEMMA PlanType ==
  ASSUME Purse!WalletBounds, NEW p \in ScanType
  PROVE  Purse!PlanRescan(p) \in 1..(MaxHeight + 1)
BY DEF Purse!PlanRescan, ScanType, Purse!WalletBounds

LEMMA StartRescanInv ==
  ASSUME Purse!WalletBounds, PurseInv, Purse!StartRescan PROVE PurseInv'
<1>1. ScanTyped'
  <2>1. driver' = [pc |-> "fold", next |-> pendingFrom, target |-> 0] BY DEF Purse!StartRescan
  <2>2. driver' \in DriverType BY <2>1 DEF PurseInv, ScanTyped, DriverType, Purse!WalletBounds
  <2>3. driver'.pc = "fold" /\ driver'.next = pendingFrom /\ pendingFrom <= MaxHeight
    BY <2>1 DEF PurseInv, ScanTyped, Purse!WalletBounds
  <2> QED BY <2>2, <2>3 DEF Purse!StartRescan, PurseInv, ScanTyped
<1> QED BY <1>1, Untouched DEF Purse!StartRescan, PurseInv, Purse!sending, Purse!network,
           Purse!client

LEMMA FoldPendingRescanInv ==
  ASSUME Purse!WalletBounds, PurseInv, Purse!FoldPendingRescan PROVE PurseInv'
<1> DEFINE p == IF driver.next
             = 0 THEN scan ELSE Purse!RewindRescanProgress(scan, driver.next)
<1>1. scan \in ScanType /\ pendingFrom \in 0..MaxHeight /\ driver \in DriverType
  BY DEF PurseInv, ScanTyped
<1>2. Purse!Tip \in 0..MaxHeight /\ Purse!Tip = Len(headers)
  BY DEF Purse!Tip, PurseInv, RowsTyped, ChainType, Purse!IsChain, Purse!WalletBounds
<1>3. /\ scan' = p
      /\ driver' = IF Purse!PlanRescan(p) > Purse!Tip THEN Purse!NoDriver
                   ELSE [pc |-> "request", next |-> Purse!PlanRescan(p), target |-> Purse!Tip]
      /\ pendingFrom' = IF driver.next = 0 THEN pendingFrom ELSE 0
      /\ UNCHANGED <<headers, checker>>
  BY DEF Purse!FoldPendingRescan
<1>4. p \in ScanType
  <2>1. driver.next \in 0..MaxHeight
    BY <1>1 DEF Purse!FoldPendingRescan, PurseInv, ScanTyped, DriverType, Purse!WalletBounds
  <2>2. CASE driver.next = 0 BY <1>1, <2>2
  <2>3. CASE driver.next # 0
    <3>1. driver.next \in 1..MaxHeight BY <2>1, <2>3
    <3>2. Purse!RewindRescanProgress(scan, driver.next) \in ScanType BY <1>1, <3>1, RewindType
    <3> QED BY <2>3, <3>2
  <2> QED BY <2>2, <2>3
<1>5. Purse!PlanRescan(p) \in 1..(MaxHeight + 1) BY <1>4, PlanType
<1> HIDE DEF p
<1>6. ScanTyped'
  <2>1. CASE Purse!PlanRescan(p) > Purse!Tip
    <3>1. driver' = Purse!NoDriver BY <1>3, <2>1
    <3>2. driver' \in DriverType /\ driver'.pc = "idle"
      BY <3>1 DEF Purse!NoDriver, DriverType, Purse!WalletBounds
    <3>3. pendingFrom' \in 0..MaxHeight BY <1>1, <1>3 DEF Purse!WalletBounds
    <3> QED BY <1>3, <1>4, <3>2, <3>3 DEF PurseInv, ScanTyped
  <2>2. CASE ~(Purse!PlanRescan(p) > Purse!Tip)
    <3>1. driver' = [pc |-> "request", next |-> Purse!PlanRescan(p), target |-> Purse!Tip]
      BY <1>3, <2>2
    <3>2. driver' \in DriverType /\ driver'.pc = "request"
            /\ driver'.next \in 1..driver'.target
          /\ driver'.target <= Len(headers')
      BY <1>2, <1>3, <1>5, <2>2, <3>1 DEF DriverType, Purse!WalletBounds
    <3>3. pendingFrom' \in 0..MaxHeight BY <1>1, <1>3 DEF Purse!WalletBounds
    <3> QED BY <1>3, <1>4, <3>2, <3>3 DEF PurseInv, ScanTyped
  <2> QED BY <2>1, <2>2
<1> QED BY <1>6, Untouched DEF Purse!FoldPendingRescan, PurseInv, Purse!sending,
        Purse!network,
           Purse!client

LEMMA RequestMerkleBlocksInv ==
  ASSUME Purse!WalletBounds, PurseInv, Purse!RequestMerkleBlocks PROVE PurseInv'
<1> DEFINE m == Purse!Serve(headers[driver.next], Purse!Before(headers, driver.next))
<1>1. driver.next \in 1..driver.target /\ driver.target <= Len(headers)
      /\ driver \in DriverType /\ driver.pc = "request"
  BY DEF PurseInv, ScanTyped, Purse!RequestMerkleBlocks
<1>2. headers \in Seq(Purse!Blocks) BY DEF PurseInv, RowsTyped, ChainType
<1>3. driver.next \in 1..Len(headers) BY <1>1, <1>2 DEF DriverType, Purse!WalletBounds
<1>4. headers[driver.next] \in Purse!Blocks
        /\ Purse!Before(headers, driver.next) \in Purse!Blocks
  BY <1>2, <1>3, BeforeType
<1>5. m \in Messages /\ m.kind # "tx" BY <1>4, ServeType
<1>6. /\ wire' = Append(wire, m) /\ driver' = [driver EXCEPT !.pc = "wait"]
      /\ UNCHANGED <<filter, assoc, batches, headers, scan, pendingFrom, checker>>
  BY DEF Purse!RequestMerkleBlocks
<1> HIDE DEF m
<1>7. ClientTyped'
  <2>1. wire' \in Seq(Messages) BY <1>5, <1>6 DEF PurseInv, ClientTyped
  <2>2. \A i \in 1..Len(wire') : wire'[i].kind = "tx" => wire'[i].tx \in Purse!Txs
    BY <1>5, <1>6 DEF PurseInv, ClientTyped
  <2> QED BY <1>6, <2>1, <2>2 DEF PurseInv, ClientTyped
<1>8. ScanTyped'
  <2>1. driver' \in DriverType /\ driver'.pc = "wait" /\ driver'.next = driver.next
        /\ driver'.target = driver.target
    BY <1>1, <1>6 DEF DriverType
  <2> QED BY <1>1, <1>6, <2>1 DEF PurseInv, ScanTyped
<1> QED BY <1>7, <1>8, Untouched DEF Purse!RequestMerkleBlocks, PurseInv, Purse!sending,
           Purse!network

LEMMA PersistWindowInv ==
  ASSUME Purse!WalletBounds, PurseInv, Purse!PersistWindow PROVE PurseInv'
<1> DEFINE next == driver.next + 1
           done == next > driver.target
<1>1. /\ driver.next \in 1..driver.target /\ driver.target <= Len(headers)
      /\ driver \in DriverType /\ Len(headers) <= MaxHeight
  BY DEF PurseInv, ScanTyped, Purse!PersistWindow, RowsTyped, ChainType, Purse!IsChain
<1>2. /\ scan' = [begun |-> TRUE, next |-> next, target |-> driver.target, completed |-> done]
      /\ driver' = IF done THEN Purse!NoDriver ELSE [driver EXCEPT !.pc = "request",
             !.next = next]
      /\ UNCHANGED <<headers, pendingFrom, checker>>
  BY DEF Purse!PersistWindow
<1>3. next \in 1..(MaxHeight + 1) /\ driver.target \in 0..MaxHeight /\ done \in BOOLEAN
  BY <1>1 DEF DriverType, Purse!WalletBounds
<1>4. scan' \in ScanType BY <1>2, <1>3 DEF ScanType
<1>5. /\ driver' \in DriverType /\ driver'.pc # "fold"
      /\ driver'.pc \in {"request", "wait"} =>
           driver'.next \in 1..driver'.target /\ driver'.target <= Len(headers)
  <2>1. CASE done
    <3>1. driver' = Purse!NoDriver BY <1>2, <2>1
    <3> QED BY <3>1 DEF Purse!NoDriver, DriverType, Purse!WalletBounds
  <2>2. CASE ~done
    <3>1. driver' = [driver EXCEPT !.pc = "request", !.next = next] BY <1>2, <2>2
    <3>2. next <= driver.target BY <1>1, <2>2 DEF DriverType, Purse!WalletBounds
    <3>3. /\ driver'.pc = "request" /\ driver'.next = next
          /\ driver'.target = driver.target
      BY <1>1, <3>1 DEF DriverType
    <3>4. driver' \in DriverType
      <4>1. next \in 0..(MaxHeight + 1) BY <1>3 DEF Purse!WalletBounds
      <4> HIDE DEF next
      <4> QED BY <1>1, <3>1, <4>1 DEF DriverType
    <3>5. next \in 1..driver.target BY <1>1, <1>3, <3>2 DEF DriverType, Purse!WalletBounds
    <3> QED BY <1>1, <3>3, <3>4, <3>5
  <2> QED BY <2>1, <2>2
<1>6. ScanTyped' BY <1>2, <1>4, <1>5 DEF PurseInv, ScanTyped
<1> QED BY <1>6, Untouched DEF Purse!PersistWindow, PurseInv, Purse!sending, Purse!network,
           Purse!client

LEMMA CheckSocialReceiveDueInv ==
  ASSUME Purse!WalletBounds, PurseInv, NEW f \in Late, Purse!CheckSocialReceiveDue(f)
  PROVE  PurseInv'
<1>1. chain \in Seq(Purse!Blocks) /\ Len(chain) <= MaxHeight
  BY DEF PurseInv, NetworkTyped, ChainType, Purse!IsChain
<1>2. f \in Purse!Mined(chain) => Purse!HeightOn(chain, f) \in 1..Len(chain)
  BY <1>1 DEF Purse!Mined, Purse!HeightOn
<1>3. pendingFrom' \in 0..MaxHeight
  BY <1>1, <1>2 DEF Purse!CheckSocialReceiveDue, PurseInv, ScanTyped, Purse!WalletBounds
<1>4. checker' = f /\ UNCHANGED <<scan, driver, headers>>
  BY DEF Purse!CheckSocialReceiveDue
<1>5. ScanTyped' BY <1>3, <1>4 DEF PurseInv, ScanTyped
<1> QED BY <1>5, Untouched DEF Purse!CheckSocialReceiveDue, PurseInv, Purse!sending,
           Purse!network, Purse!client

LEMMA RefreshFilterInv ==
  ASSUME Purse!WalletBounds, PurseInv, Purse!RefreshFilter PROVE PurseInv'
<1>1. filter' = filter \cup {checker} /\ checker' = "none" /\ checker \in Late
      /\ UNCHANGED <<wire, assoc, batches, scan, pendingFrom, driver, headers>>
  BY DEF Purse!RefreshFilter, PurseInv, ScanTyped, Purse!scanning
<1>2. ClientTyped' BY <1>1 DEF PurseInv, ClientTyped, Purse!WalletBounds
<1>3. ScanTyped' BY <1>1 DEF PurseInv, ScanTyped
<1> QED BY <1>2, <1>3, Untouched DEF Purse!RefreshFilter, PurseInv, Purse!sending,
           Purse!network

-----------------------------------------------------------------------------
(* Sending. *)

LEMMA SelectInputsInv ==
  ASSUME Purse!WalletBounds, PurseInv, NEW s \in Sends, NEW chosen
    \in SUBSET Purse!Txs, Purse!SelectInputs(s, chosen)
  PROVE  PurseInv'
<1>1. send \in [Sends -> SendType] /\ reserved \subseteq Purse!Txs
      /\ \A r \in Sends : send[r].pc \in Purse!InProgress => send[r].inputs \subseteq reserved
  BY DEF PurseInv, SendsTyped
<1>2. /\ send' = [send EXCEPT ![s] = [pc |-> "signing", inputs |-> chosen]]
      /\ reserved' = reserved \cup chosen /\ chosen \cap reserved = {}
  BY DEF Purse!SelectInputs, Purse!Available
<1>3. send' \in [Sends -> SendType] BY <1>1, <1>2 DEF SendType
<1>4. \A r \in Sends :
        send'[r] = IF r = s THEN [pc |-> "signing", inputs |-> chosen] ELSE send[r]
  BY <1>1, <1>2
<1>5. SendsTyped'
  BY <1>1, <1>2, <1>3, <1>4 DEF SendsTyped, Purse!SendsApart, Purse!Inputs, PurseInv
<1> QED BY <1>5, Untouched DEF Purse!SelectInputs, PurseInv, Purse!client, Purse!scanning,
           Purse!network

\* A send that moves on, or ends and lets its chosen go, leaves the others theirs.
LEMMA SendMoves ==
  ASSUME Purse!WalletBounds, PurseInv, NEW s \in Sends, send[s].pc \in Purse!InProgress,
         NEW pc \in {"broadcast", "marked", "failed", "done"},
         send' = [send EXCEPT ![s].pc = pc],
         IF pc \in Purse!InProgress THEN reserved' = reserved
                                    ELSE reserved' = reserved \ send[s].inputs
  PROVE  SendsTyped'
<1>1. send \in [Sends -> SendType] /\ reserved \subseteq Purse!Txs /\ Purse!SendsApart
      /\ \A r \in Sends : send[r].pc \in Purse!InProgress => send[r].inputs \subseteq reserved
  BY DEF PurseInv, SendsTyped
<1>2. \A r \in Sends : send'[r].inputs = send[r].inputs
                       /\ send'[r].pc = IF r = s THEN pc ELSE send[r].pc
  BY <1>1 DEF SendType
<1>3. send' \in [Sends -> SendType] BY <1>1 DEF SendType
<1>4. \A q, r \in Sends : q # r /\ send[q].pc \in Purse!InProgress
        /\ send[r].pc \in Purse!InProgress
        => send[q].inputs \cap send[r].inputs = {}
  BY <1>1 DEF Purse!SendsApart, Purse!Inputs
<1>5. Purse!SendsApart' BY <1>2, <1>4 DEF Purse!SendsApart, Purse!Inputs
<1>6. \A r \in Sends : send'[r].pc \in Purse!InProgress => send'[r].inputs \subseteq reserved'
  BY <1>1, <1>2, <1>4
<1>7. reserved' \subseteq Purse!Txs BY <1>1
<1> QED BY <1>3, <1>5, <1>6, <1>7 DEF SendsTyped

LEMMA BroadcastTransactionInv ==
  ASSUME Purse!WalletBounds, PurseInv, NEW s \in Sends, Purse!BroadcastTransaction(s)
  PROVE  PurseInv'
<1>1. SendsTyped' BY SendMoves DEF Purse!BroadcastTransaction, Purse!InProgress
<1>2. NetworkTyped'
  BY DEF Purse!BroadcastTransaction, PurseInv, NetworkTyped, ChainType, Purse!IsChain,
     Purse!Txs
<1> QED BY <1>1, <1>2, Untouched DEF Purse!BroadcastTransaction, PurseInv, Purse!client,
           Purse!scanning

LEMMA FailSendInv ==
  ASSUME Purse!WalletBounds, PurseInv, NEW s \in Sends, Purse!FailSend(s) PROVE PurseInv'
<1>1. SendsTyped' BY SendMoves DEF Purse!FailSend, Purse!InProgress
<1> QED BY <1>1, Untouched DEF Purse!FailSend, PurseInv, Purse!client, Purse!scanning,
           Purse!network

LEMMA MarkInputsSpentInv ==
  ASSUME Purse!WalletBounds, PurseInv, NEW s \in Sends, Purse!MarkInputsSpent(s)
  PROVE  PurseInv'
<1>1. SendsTyped' BY SendMoves DEF Purse!MarkInputsSpent, Purse!InProgress
<1>2. RowsTyped'
  <2>1. coin' \in [Purse!Txs -> Coins]
    BY SpendType DEF Purse!MarkInputsSpent, PurseInv, RowsTyped
  <2>2. coins' \in [Purse!Txs -> Purse!Heights]
    BY BlockTypes DEF Purse!MarkInputsSpent, PurseInv, RowsTyped
  <2> QED BY <2>1, <2>2 DEF Purse!MarkInputsSpent, PurseInv, RowsTyped, ChainType,
             Purse!IsChain
<1> QED BY <1>1, <1>2, Untouched DEF Purse!MarkInputsSpent, PurseInv, Purse!client,
           Purse!scanning, Purse!network

LEMMA RecordSendInv ==
  ASSUME Purse!WalletBounds, PurseInv, NEW s \in Sends, Purse!RecordSend(s) PROVE PurseInv'
<1>1. SendsTyped' BY SendMoves DEF Purse!RecordSend, Purse!InProgress
<1>2. RowsTyped'
  BY BlockTypes DEF Purse!RecordSend, PurseInv, RowsTyped, ChainType, Purse!IsChain
<1> QED BY <1>1, <1>2, Untouched DEF Purse!RecordSend, PurseInv, Purse!client, Purse!scanning,
           Purse!network

LEMMA LeaveWindowInv ==
  ASSUME Purse!WalletBounds, PurseInv, Purse!LeaveWindow PROVE PurseInv'
<1>1. /\ driver.next \in 1..driver.target /\ driver.target <= Len(headers)
      /\ driver \in DriverType /\ Len(headers) <= MaxHeight
  BY DEF PurseInv, ScanTyped, Purse!LeaveWindow, RowsTyped, ChainType, Purse!IsChain
<1>2. /\ scan' = [begun |-> TRUE, next |-> driver.next, target |-> driver.target,
                  completed |-> FALSE]
      /\ driver' = Purse!NoDriver /\ UNCHANGED <<headers, pendingFrom, checker>>
  BY DEF Purse!LeaveWindow
<1>3. driver.next \in 1..(MaxHeight + 1) /\ driver.target \in 0..MaxHeight
  BY <1>1 DEF DriverType, Purse!WalletBounds
<1>4. scan' \in ScanType BY <1>2, <1>3 DEF ScanType
<1>5. driver' \in DriverType /\ driver'.pc = "idle"
  BY <1>2 DEF Purse!NoDriver, DriverType, Purse!WalletBounds
<1>6. ScanTyped' BY <1>2, <1>4, <1>5 DEF PurseInv, ScanTyped
<1> QED BY <1>6, Untouched DEF Purse!LeaveWindow, PurseInv, Purse!sending, Purse!network,
           Purse!client

\* What a linked block holds is a transaction of the wallet's.
LEMMA TxsAtType == ASSUME PurseInv, NEW H PROVE Purse!TxsAt(H) \subseteq Purse!Txs
<1>1. headers \in Seq(Purse!Blocks) BY DEF PurseInv, RowsTyped, ChainType
<1>2. ASSUME NEW t \in Purse!TxsAt(H) PROVE t \in Purse!Txs
  <2>1. PICK h \in H \cap DOMAIN headers : t = headers[h].tx /\ t # "none"
    BY DEF Purse!TxsAt
  <2>2. headers[h] \in Purse!Blocks BY <1>1, <2>1
  <2> QED BY <2>1, <2>2 DEF Purse!Blocks
<1> QED BY <1>2

LEMMA DisconnectInv ==
  ASSUME Purse!WalletBounds, PurseInv, Purse!Disconnect PROVE PurseInv'
<1>1. NetworkTyped'
  <2>1. counts' \in [forks : 0..MaxForks, copies : 0..MaxCopies, crashes : 0..MaxCrashes]
    BY DEF Purse!Disconnect, PurseInv, NetworkTyped, Purse!WalletBounds
  <2>2. missed' \subseteq Purse!Txs
    BY TxsAtType DEF Purse!Disconnect, PurseInv, NetworkTyped
  <2> QED BY <2>1, <2>2 DEF Purse!Disconnect, PurseInv, NetworkTyped, Purse!network,
             ChainType, Purse!IsChain, Purse!Txs
<1>2. ClientTyped' BY DEF Purse!Disconnect, PurseInv, ClientTyped
<1> QED BY <1>1, <1>2, Untouched DEF Purse!Disconnect, PurseInv, Purse!sending,
           Purse!scanning

LEMMA CrashInv ==
  ASSUME Purse!WalletBounds, PurseInv, Purse!Crash PROVE PurseInv'
<1>1. NetworkTyped'
  <2>1. counts' \in [forks : 0..MaxForks, copies : 0..MaxCopies, crashes : 0..MaxCrashes]
    BY DEF Purse!Crash, PurseInv, NetworkTyped, Purse!WalletBounds
  <2>2. missed' \subseteq Purse!Txs BY TxsAtType DEF Purse!Crash, PurseInv, NetworkTyped
  <2> QED BY <2>1, <2>2 DEF Purse!Crash, PurseInv, NetworkTyped, Purse!network, ChainType,
             Purse!IsChain, Purse!Txs
<1>2. ClientTyped' BY BlockTypes DEF Purse!Crash, PurseInv, ClientTyped
<1>3. RowsTyped'
  <2>1. coins' \in [Purse!Txs -> Purse!Heights]
    BY BlockTypes DEF Purse!Crash, PurseInv, RowsTyped, Coins
  <2>2. jobs' \in Seq(PurseJobs) BY DEF Purse!Crash
  <2>3. stale' \in BOOLEAN BY DEF Purse!Crash
  <2> QED BY <2>1, <2>2, <2>3 DEF Purse!Crash, PurseInv, RowsTyped, ChainType, Purse!IsChain
<1>4. ScanTyped'
  <2>1. driver' \in DriverType /\ driver'.pc = "idle"
    BY DEF Purse!Crash, Purse!NoDriver, DriverType, Purse!WalletBounds
  <2> QED BY <2>1 DEF Purse!Crash, PurseInv, ScanTyped
<1>5. SendsTyped'
  <2>1. send \in [Sends -> SendType] BY DEF PurseInv, SendsTyped
  <2>2. \A s \in Sends : send'[s] = IF send[s].pc \in Purse!InProgress
                                    THEN [send[s] EXCEPT !.pc = "lost"] ELSE send[s]
    BY DEF Purse!Crash
  <2>3. \A s \in Sends : send'[s] \in SendType /\ send'[s].pc \notin Purse!InProgress
    BY <2>1, <2>2 DEF SendType, Purse!InProgress
  <2>4. send' \in [Sends -> SendType] BY <2>3 DEF Purse!Crash
  <2>5. reserved' = {} BY DEF Purse!Crash
  <2> QED BY <2>3, <2>4, <2>5 DEF SendsTyped, Purse!SendsApart
<1> QED BY <1>1, <1>2, <1>3, <1>4, <1>5 DEF PurseInv

-----------------------------------------------------------------------------
\* Every step keeps it.
LEMMA NextInv == ASSUME Purse!WalletBounds, PurseInv, [Purse!Next]_(Purse!vars)
                 PROVE  PurseInv'
<1>1. CASE UNCHANGED Purse!vars
  BY <1>1, Untouched DEF PurseInv, Purse!vars, Purse!network, Purse!client, Purse!scanning,
     Purse!sending
<1>2. ASSUME NEW t \in Purse!Txs \cup {"none"}, Purse!Mine(t) PROVE PurseInv' BY <1>2, MineInv
<1>3. ASSUME NEW t \in Purse!Txs, Purse!Relay(t) PROVE PurseInv' BY <1>3, RelayInv
<1>4. CASE Purse!Reorganise \/ Purse!Announce \/ Purse!Disconnect \/ Purse!Crash
  BY <1>4, ReorganiseInv, AnnounceInv, DisconnectInv, CrashInv
<1>5. CASE Purse!Receive
  BY <1>5, ProcessMerkleBlockInv, ProcessTransactionInv, ApplyHeaderBatchInv,
     ReconcileConfirmationsInv, ApplyTransactionInv, MarkDebitsSpentInv, InsertTransactionInv
     DEF Purse!Receive
<1>6. CASE Purse!Rescan
  BY <1>6, StartRescanInv, FoldPendingRescanInv, RequestMerkleBlocksInv, LeaveWindowInv,
     PersistWindowInv, CheckSocialReceiveDueInv, RefreshFilterInv
     DEF Purse!Rescan
<1>7. ASSUME NEW s \in Sends, NEW chosen \in SUBSET Purse!Txs, Purse!SelectInputs(s, chosen)
      PROVE  PurseInv'
  BY <1>7, SelectInputsInv
<1>8. ASSUME NEW s \in Sends,
             Purse!BroadcastTransaction(s) \/ Purse!FailSend(s) \/ Purse!MarkInputsSpent(s)
               \/ Purse!RecordSend(s)
      PROVE  PurseInv'
  BY <1>8, BroadcastTransactionInv, FailSendInv, MarkInputsSpentInv, RecordSendInv
<1> QED BY <1>1, <1>2, <1>3, <1>4, <1>5, <1>6, <1>7, <1>8 DEF Purse!Next

\* The wallet's rows, and what it holds of them in memory, stay what they may be:
\* a scan asks for headers there are, and its blocks stand in their places.
THEOREM PurseTypesHold == ASSUME Purse!WalletBounds PROVE Purse!Spec => []Purse!TypeOK
<1>1. Purse!Init => PurseInv BY InitInv
<1>2. PurseInv /\ [Purse!Next]_(Purse!vars) => PurseInv' BY NextInv
<1>3. PurseInv => Purse!TypeOK BY TypeOKFromInv
<1> QED BY <1>1, <1>2, <1>3, PTL DEF Purse!Spec

\* UtxoReservation: two sends in progress never hold one coin, whatever is replayed,
\* credited again or rescanned meanwhile and wherever the app dies.
THEOREM SendsStayApart == ASSUME Purse!WalletBounds PROVE Purse!Spec => []Purse!SendsApart
<1>1. Purse!Init => PurseInv BY InitInv
<1>2. PurseInv /\ [Purse!Next]_(Purse!vars) => PurseInv' BY NextInv
<1>3. PurseInv => Purse!SendsApart BY DEF PurseInv, SendsTyped
<1> QED BY <1>1, <1>2, <1>3, PTL DEF Purse!Spec

-----------------------------------------------------------------------------
(***************************************************************************)
(* The coins. Under what the rows say of a coin no send has promised lies  *)
(* the scan: a block it has passed was asked for again once its header was *)
(* linked, and the answer was credited, is still on its way, or was lost   *)
(* with the app or the peer. Credits name a block by the transaction in    *)
(* it, and a linked block that the chain still has is the only one of its  *)
(* transaction. Where the chain has dropped a linked block nothing is      *)
(* said: no header extends it any more, so the wallet is not at rest again.*)
(***************************************************************************)
\* A block the peer has, or had before a branch replaced it.
KnownBlock(b) ==
  /\ b \in Purse!Blocks
  /\ \/ b = Purse!NoBlock
     \/ b.at \in 1..Len(chain) /\ b.fork <= counts.forks /\ b.tx \in public \cup {"none"}
BlocksKnown ==
  /\ \A h \in 1..Len(chain) : KnownBlock(chain[h])
  /\ \A h \in 1..Len(headers) : KnownBlock(headers[h])
  /\ \A i \in 1..Len(wire) : KnownBlock(wire[i].block)
  /\ \A i \in 1..Len(batches) : KnownBlock(batches[i].block)

MinedOnce ==
  \A h, k \in 1..Len(chain) : chain[h].tx = chain[k].tx /\ chain[h].tx # "none" => h = k

\* A filtered block tells the transaction it has, unless its address came late.
MessageTold(m) ==
  /\ m.tx \in public \cup {"none"}
  /\ m.kind = "block" =>
       m.tx \in {"none", m.block.tx} /\ (m.block.tx \notin Late => m.tx = m.block.tx)
WireTold == Funds \ Late \subseteq filter /\ \A i \in 1..Len(wire) : MessageTold(wire[i])

\* A block is taken to be of a transaction only if it holds it, and only what a
\* transaction spends is debited for it.
BlockOf(b, t) == b = Purse!NoBlock \/ b.tx = t
JobTold(j) == BlockOf(j.block, j.tx) /\ j.tx \in public /\ j.debit \subseteq Purse!Inputs(j.tx)
BlocksFit ==
  /\ \A t \in Purse!Txs : BlockOf(assoc[t], t) /\ BlockOf(txBlock[t], t)
  /\ \A i \in 1..Len(jobs) : JobTold(jobs[i])

SendsPublic ==
  \A s \in Sends :
    /\ s \in public => send[s].pc \in {"broadcast", "marked", "done", "lost"}
    /\ send[s].pc \in {"broadcast", "marked"} => s \in public

\* Of a coin nothing has promised, memory and row say the same.
Alike(c) == coins[c] = coin[c].height /\ ~coin[c].spent
RowsFollow == \A c \in Purse!Txs \ Purse!Promised : Alike(c)

\* The linked headers are still the chain's.
OnChain == \A h \in 1..Len(headers) : headers[h] = chain[h]

InPlace ==
  \A c \in Purse!Txs :
    coin[c].height >= 0 =>
      coin[c].height \in 1..Len(headers) /\ headers[coin[c].height].tx = c
Credited(h) ==
  headers[h].tx \notin Late \cup Purse!Promised \cup {"none"} => coin[headers[h].tx].height = h

\* A block asked for again is on its way until its transaction is credited.
Served(b) == \E i \in 1..Len(wire) : wire[i].kind = "block" /\ wire[i].block = b
Arriving(b) ==
  wire # <<>> /\ Head(wire).kind = "tx" /\ Head(wire).tx = b.tx /\ assoc[b.tx] = b
Applying(b) == \E i \in 1..Len(jobs) : jobs[i].block = b /\ jobs[i].pc = "apply"
Comes(b) == Served(b) \/ Arriving(b) \/ Applying(b)

\* The scan is past a block, or waits for it; then the block is told of.
Passed(h) == h < Purse!ResumeAt(scan) \/ (driver.pc = "wait" /\ h = driver.next)
Told(h) == Credited(h) \/ Comes(headers[h]) \/ headers[h].tx \in missed
Scanned == \A h \in 1..Len(headers) : Passed(h) => Told(h)
\* A scan asks for what it resumes at, or below.
AsksBehind == driver.pc \in {"request", "wait"} => driver.next <= Purse!ResumeAt(scan)
WithinTip == Purse!ResumeAt(scan) <= Len(headers) + 1

CoinsInv ==
  /\ BlocksKnown /\ MinedOnce /\ WireTold /\ BlocksFit /\ SendsPublic /\ RowsFollow /\ WithinTip
  /\ AsksBehind
  /\ OnChain => InPlace /\ Scanned

\* What no step takes back: the chain's length, its branches, what was published,
\* the filter's addresses, and what a published send spends.
Monotone ==
  /\ Len(chain) <= Len(chain') /\ counts.forks <= counts'.forks
  /\ public \subseteq public' /\ filter \subseteq filter'
  /\ \A s \in Sends \cap public : send'[s].inputs = send[s].inputs

\* What the types say of what the coins are about.
LEMMA CoinTypes ==
  ASSUME Purse!WalletBounds, PurseInv
  PROVE  /\ chain \in Seq(Purse!Blocks) /\ headers \in Seq(Purse!Blocks)
         /\ Len(chain) \in Nat /\ Len(headers) \in Nat /\ counts.forks \in Nat
         /\ \A h \in 1..Len(chain) : chain[h] \in Purse!Blocks /\ chain[h].at = h
         /\ \A h \in 1..Len(headers) : headers[h] \in Purse!Blocks /\ headers[h].at = h
         /\ wire \in Seq(Messages) /\ jobs \in Seq(PurseJobs) /\ batches \in Seq(Batches)
         /\ send \in [Sends -> SendType]
<1>1. ChainType(chain) /\ ChainType(headers) BY DEF PurseInv, NetworkTyped, RowsTyped
<1>2. counts.forks \in Nat BY DEF PurseInv, NetworkTyped, Purse!WalletBounds
<1> QED BY <1>1, <1>2 DEF ChainType, Purse!IsChain, PurseInv, ClientTyped, RowsTyped, SendsTyped

\* A send is public from its broadcast on, and what it spends is settled before.
LEMMA Monotonically ==
  ASSUME Purse!WalletBounds, PurseInv, SendsPublic, [Purse!Next]_(Purse!vars)
  PROVE  Monotone /\ SendsPublic'
<1>0. /\ Len(chain) \in Nat /\ counts.forks \in Nat /\ send \in [Sends -> SendType]
      /\ chain \in Seq(Purse!Blocks)
      /\ counts \in [forks : 0..MaxForks, copies : 0..MaxCopies, crashes : 0..MaxCrashes]
  BY CoinTypes DEF PurseInv, NetworkTyped
<1>1. ASSUME Len(chain) <= Len(chain'), counts.forks <= counts'.forks, filter \subseteq filter',
             UNCHANGED <<public, send>>
      PROVE  Monotone /\ SendsPublic'
  BY <1>1 DEF Monotone, SendsPublic
<1>2. ASSUME UNCHANGED <<chain, counts, filter, public, send>>
      PROVE  Monotone /\ SendsPublic'
  BY <1>0, <1>1, <1>2
<1>3. ASSUME NEW t \in Purse!Txs \cup {"none"}, Purse!Mine(t) PROVE Monotone /\ SendsPublic'
  <2>1. /\ chain' = Append(chain, [at |-> Len(chain) + 1, fork |-> counts.forks, tx |-> t])
        /\ UNCHANGED <<counts, filter, public, send>>
    BY <1>3 DEF Purse!Mine, Purse!client, Purse!sending
  <2>2. Len(chain') = Len(chain) + 1 BY <1>0, <2>1
  <2> QED BY <1>0, <1>1, <2>1, <2>2
<1>4. CASE Purse!Reorganise
  <2>1. /\ Len(chain') = Len(chain) + 1
        /\ counts' = [counts EXCEPT !.forks = @ + 1]
        /\ UNCHANGED <<filter, public, send>>
    BY <1>0, <1>4 DEF Purse!Reorganise, Purse!client, Purse!sending
  <2>2. counts'.forks = counts.forks + 1 BY <1>0, <2>1
  <2> QED BY <1>0, <1>1, <2>1, <2>2
<1>5. ASSUME NEW t \in Purse!Txs, Purse!Relay(t) PROVE Monotone /\ SendsPublic'
  <2>1. /\ counts' = [counts EXCEPT !.copies = @ + 1]
        /\ UNCHANGED <<chain, filter, public, send>>
    BY <1>5 DEF Purse!Relay, Purse!network, Purse!sending
  <2>2. counts'.forks = counts.forks BY <1>0, <2>1
  <2> QED BY <1>0, <1>1, <2>1, <2>2
<1>6. CASE Purse!Crash
  <2>1. /\ counts' = [counts EXCEPT !.crashes = @ + 1]
        /\ UNCHANGED <<chain, filter, public>>
    BY <1>6 DEF Purse!Crash, Purse!network
  <2>2. counts'.forks = counts.forks BY <1>0, <2>1
  <2>3. \A s \in Sends : send'[s] = IF send[s].pc \in Purse!InProgress
                                    THEN [send[s] EXCEPT !.pc = "lost"] ELSE send[s]
    BY <1>6 DEF Purse!Crash
  <2>4. \A s \in Sends :
          send'[s].inputs = send[s].inputs
          /\ send'[s].pc = IF send[s].pc \in Purse!InProgress THEN "lost" ELSE send[s].pc
    BY <1>0, <2>3 DEF SendType
  <2>5. SendsPublic' BY <2>1, <2>4 DEF SendsPublic, Purse!InProgress
  <2> QED BY <1>0, <2>1, <2>2, <2>4, <2>5 DEF Monotone
<1>7. ASSUME NEW s \in Sends, NEW chosen \in SUBSET Purse!Txs, Purse!SelectInputs(s, chosen)
      PROVE  Monotone /\ SendsPublic'
  <2>1. /\ send[s].pc = "none"
        /\ send' = [send EXCEPT ![s] = [pc |-> "signing", inputs |-> chosen]]
        /\ UNCHANGED <<chain, counts, filter, public>>
    BY <1>7 DEF Purse!SelectInputs, Purse!network, Purse!client
  <2>2. s \notin public BY <2>1 DEF SendsPublic
  <2>3. \A r \in Sends :
          send'[r] = IF r = s THEN [pc |-> "signing", inputs |-> chosen] ELSE send[r]
    BY <1>0, <2>1
  <2>4. SendsPublic' BY <2>1, <2>2, <2>3 DEF SendsPublic
  <2> QED BY <1>0, <2>1, <2>2, <2>3, <2>4 DEF Monotone
<1>8. ASSUME NEW s \in Sends,
             Purse!BroadcastTransaction(s) \/ Purse!FailSend(s) \/ Purse!MarkInputsSpent(s)
               \/ Purse!RecordSend(s)
      PROVE  Monotone /\ SendsPublic'
  <2>1. PICK pc : /\ send' = [send EXCEPT ![s].pc = pc]
                  /\ \/ send[s].pc = "signing" /\ pc = "broadcast" /\ public' = public \cup {s}
                     \/ send[s].pc = "signing" /\ pc = "failed" /\ public' = public
                     \/ send[s].pc = "broadcast" /\ pc = "marked" /\ public' = public
                     \/ send[s].pc = "marked" /\ pc = "done" /\ public' = public
    BY <1>8 DEF Purse!BroadcastTransaction, Purse!FailSend, Purse!MarkInputsSpent,
       Purse!RecordSend, Purse!network
  <2>2. UNCHANGED <<chain, counts, filter>>
    BY <1>8 DEF Purse!BroadcastTransaction, Purse!FailSend, Purse!MarkInputsSpent,
       Purse!RecordSend, Purse!network, Purse!client
  <2>3. \A r \in Sends : send'[r].inputs = send[r].inputs
                         /\ send'[r].pc = IF r = s THEN pc ELSE send[r].pc
    BY <1>0, <2>1 DEF SendType
  <2>4. SendsPublic' BY <2>1, <2>3 DEF SendsPublic
  <2> QED BY <1>0, <2>1, <2>2, <2>3, <2>4 DEF Monotone
<1>9. CASE Purse!Announce \/ Purse!Receive
  <2>1. UNCHANGED <<chain, counts, filter, public, send>>
    BY <1>9 DEF Purse!Announce, Purse!Receive, Purse!ProcessMerkleBlock,
       Purse!ProcessTransaction, Purse!ApplyHeaderBatch, Purse!ReconcileConfirmations,
       Purse!ApplyTransaction, Purse!MarkDebitsSpent, Purse!InsertTransaction,
       Purse!network, Purse!client, Purse!sending
  <2> QED BY <1>2, <2>1
<1>10. CASE Purse!Rescan
  <2>1. filter \subseteq filter' /\ UNCHANGED <<chain, counts, public, send>>
    BY <1>10 DEF Purse!Rescan, Purse!StartRescan, Purse!FoldPendingRescan,
       Purse!RequestMerkleBlocks, Purse!LeaveWindow, Purse!PersistWindow,
       Purse!CheckSocialReceiveDue, Purse!RefreshFilter, Purse!network, Purse!client,
       Purse!sending
  <2> QED BY <1>0, <1>1, <2>1
<1>11. CASE UNCHANGED Purse!vars
  <2>1. UNCHANGED <<chain, counts, filter, public, send>>
    BY <1>11 DEF Purse!vars, Purse!network, Purse!client, Purse!sending
  <2> QED BY <1>2, <2>1
<1>12. CASE Purse!Disconnect
  <2>1. /\ counts' = [counts EXCEPT !.crashes = @ + 1]
        /\ UNCHANGED <<chain, filter, public, send>>
    BY <1>12 DEF Purse!Disconnect, Purse!network, Purse!sending
  <2>2. counts'.forks = counts.forks BY <1>0, <2>1
  <2> QED BY <1>0, <1>1, <2>1, <2>2
<1> QED BY <1>3, <1>4, <1>5, <1>6, <1>7, <1>8, <1>9, <1>10, <1>11, <1>12 DEF Purse!Next

\* What is known, promised and spent by a published transaction stays so.
LEMMA StillKnown ==
  ASSUME Purse!WalletBounds, PurseInv, PurseInv', Monotone
  PROVE  /\ \A b : KnownBlock(b) => KnownBlock(b)'
         /\ Purse!Promised \subseteq Purse!Promised'
         /\ \A t \in public : Purse!Inputs(t)' = Purse!Inputs(t)
<1>1. /\ Len(chain) \in Nat /\ Len(chain') \in Nat /\ counts.forks \in Nat
      /\ counts'.forks \in Nat
  BY CoinTypes DEF PurseInv, NetworkTyped, ChainType, Purse!WalletBounds
<1>2. ASSUME NEW b, KnownBlock(b) PROVE KnownBlock(b)'
  <2>1. CASE b = Purse!NoBlock
    BY <1>2, <2>1 DEF KnownBlock, Purse!NoBlock, Purse!Blocks, Purse!Txs
  <2>2. CASE b.at \in 1..Len(chain) /\ b.fork <= counts.forks /\ b.tx \in public \cup {"none"}
    <3>1. b.at \in 1..Len(chain') BY <1>1, <2>2 DEF Monotone
    <3>2. b.tx \in public' \cup {"none"} BY <2>2 DEF Monotone
    <3>3. b.fork \in Nat BY <1>2 DEF KnownBlock, Purse!Blocks, Purse!WalletBounds
    <3>4. b.fork <= counts'.forks BY <1>1, <2>2, <3>3 DEF Monotone
    <3>5. (b \in Purse!Blocks)' BY <1>2 DEF KnownBlock, Purse!Blocks, Purse!Txs
    <3> QED BY <3>1, <3>2, <3>4, <3>5 DEF KnownBlock
  <2> QED BY <1>2, <2>1, <2>2 DEF KnownBlock
<1>3. \A t \in public : Purse!Inputs(t)' = Purse!Inputs(t)
  BY DEF Purse!Inputs, Monotone
<1>4. Purse!Promised \subseteq Purse!Promised'
  BY <1>3 DEF Purse!Promised, Monotone
<1> QED BY <1>2, <1>3, <1>4

\* Which actions change what the coins are about.
Arrives == \/ Purse!Announce \/ Purse!ProcessMerkleBlock \/ Purse!ProcessTransaction
           \/ Purse!RequestMerkleBlocks \/ Purse!Disconnect \/ Purse!Crash
           \/ \E t \in Purse!Txs : Purse!Relay(t)
Works(i) == Purse!ApplyTransaction(i) \/ Purse!MarkDebitsSpent(i) \/ Purse!InsertTransaction(i)

LEMMA Footprints ==
  ASSUME [Purse!Next]_(Purse!vars)
  PROVE  /\ UNCHANGED chain \/ Purse!Reorganise
              \/ \E t \in Purse!Txs \cup {"none"} : Purse!Mine(t)
         /\ UNCHANGED headers \/ Purse!ApplyHeaderBatch
         /\ UNCHANGED wire \/ Arrives
         /\ UNCHANGED batches \/ Purse!ProcessMerkleBlock \/ Purse!ApplyHeaderBatch \/ Purse!Crash
         /\ UNCHANGED assoc \/ Purse!ProcessMerkleBlock \/ Purse!ProcessTransaction \/ Purse!Crash
         /\ \/ UNCHANGED txBlock
            \/ \E i \in DOMAIN jobs : Purse!InsertTransaction(i)
            \/ \E s \in Sends : Purse!RecordSend(s)
         /\ \/ UNCHANGED jobs \/ Purse!ProcessTransaction \/ Purse!Crash
            \/ \E i \in DOMAIN jobs : Works(i)
         /\ \/ UNCHANGED coin \/ Purse!ReconcileConfirmations
            \/ \E i \in DOMAIN jobs : Purse!ApplyTransaction(i) \/ Purse!MarkDebitsSpent(i)
            \/ \E s \in Sends : Purse!MarkInputsSpent(s)
         /\ \/ UNCHANGED coins \/ Purse!ReconcileConfirmations \/ Purse!Crash
            \/ \E i \in DOMAIN jobs : Purse!ApplyTransaction(i)
            \/ \E s \in Sends : Purse!MarkInputsSpent(s)
         /\ \/ UNCHANGED scan \/ Purse!FoldPendingRescan \/ Purse!LeaveWindow
            \/ Purse!PersistWindow
         /\ \/ UNCHANGED driver \/ Purse!StartRescan \/ Purse!FoldPendingRescan
            \/ Purse!RequestMerkleBlocks \/ Purse!LeaveWindow \/ Purse!PersistWindow
            \/ Purse!Crash
         /\ UNCHANGED missed \/ Purse!Disconnect \/ Purse!Crash
<1>1. CASE UNCHANGED Purse!vars
  BY <1>1 DEF Purse!vars, Purse!network, Purse!client, Purse!scanning, Purse!sending
<1>2. CASE Purse!Reorganise \/ \E t \in Purse!Txs \cup {"none"} : Purse!Mine(t)
  BY <1>2 DEF Purse!Reorganise, Purse!Mine, Purse!client, Purse!scanning, Purse!sending
<1>3. CASE Purse!Announce \/ \E t \in Purse!Txs : Purse!Relay(t)
  BY <1>3 DEF Arrives, Purse!Announce, Purse!Relay, Purse!network, Purse!scanning, Purse!sending
<1>4. CASE Purse!Disconnect \/ Purse!Crash
  BY <1>4 DEF Arrives, Purse!Disconnect, Purse!Crash, Purse!network, Purse!scanning
<1>5. CASE Purse!ProcessMerkleBlock \/ Purse!ProcessTransaction
  BY <1>5 DEF Arrives, Purse!ProcessMerkleBlock, Purse!ProcessTransaction, Purse!network,
     Purse!scanning, Purse!sending
<1>6. CASE Purse!ApplyHeaderBatch \/ Purse!ReconcileConfirmations
  BY <1>6 DEF Purse!ApplyHeaderBatch, Purse!ReconcileConfirmations, Purse!network,
     Purse!client, Purse!scanning, Purse!sending
<1>7. ASSUME NEW i \in DOMAIN jobs, Works(i)
      PROVE  /\ UNCHANGED <<chain, headers, wire, batches, assoc, scan, driver, missed>>
             /\ UNCHANGED txBlock \/ Purse!InsertTransaction(i)
             /\ UNCHANGED coin \/ Purse!ApplyTransaction(i) \/ Purse!MarkDebitsSpent(i)
             /\ UNCHANGED coins \/ Purse!ApplyTransaction(i)
  BY <1>7 DEF Works, Purse!ApplyTransaction, Purse!MarkDebitsSpent, Purse!InsertTransaction,
     Purse!network, Purse!client, Purse!scanning, Purse!sending
<1>8. CASE Purse!Rescan
  BY <1>8 DEF Arrives, Purse!Rescan, Purse!StartRescan, Purse!FoldPendingRescan,
     Purse!RequestMerkleBlocks, Purse!LeaveWindow, Purse!PersistWindow,
     Purse!CheckSocialReceiveDue, Purse!RefreshFilter, Purse!network, Purse!client,
     Purse!scanning, Purse!sending
<1>9. ASSUME NEW s \in Sends, NEW chosen \in SUBSET Purse!Txs, Purse!SelectInputs(s, chosen)
      PROVE  UNCHANGED <<chain, headers, wire, batches, assoc, txBlock, jobs, coin, coins,
                         scan, driver, missed>>
  BY <1>9 DEF Purse!SelectInputs, Purse!network, Purse!client, Purse!scanning
<1>10. ASSUME NEW s \in Sends,
              Purse!BroadcastTransaction(s) \/ Purse!FailSend(s) \/ Purse!MarkInputsSpent(s)
                \/ Purse!RecordSend(s)
      PROVE  /\ UNCHANGED <<chain, headers, wire, batches, assoc, jobs, scan, driver, missed>>
             /\ UNCHANGED txBlock \/ Purse!RecordSend(s)
             /\ UNCHANGED <<coin, coins>> \/ Purse!MarkInputsSpent(s)
  BY <1>10 DEF Purse!BroadcastTransaction, Purse!FailSend, Purse!MarkInputsSpent,
     Purse!RecordSend, Purse!network, Purse!client, Purse!scanning
<1>11. CASE \E i \in DOMAIN jobs : Works(i) BY <1>7, <1>11
<1>12. CASE \E s \in Sends, chosen \in SUBSET Purse!Txs : Purse!SelectInputs(s, chosen)
  BY <1>9, <1>12
<1>13. CASE \E s \in Sends : Purse!BroadcastTransaction(s) \/ Purse!FailSend(s)
                               \/ Purse!MarkInputsSpent(s) \/ Purse!RecordSend(s)
  BY <1>10, <1>13
<1> QED BY <1>1, <1>2, <1>3, <1>4, <1>5, <1>6, <1>8, <1>11, <1>12, <1>13
        DEF Purse!Next, Purse!Receive, Works

\* A chain is taken by places, and a step leaves a linked header where it is.
LEMMA HeadersGrow ==
  ASSUME Purse!WalletBounds, PurseInv, [Purse!Next]_(Purse!vars)
  PROVE  /\ Len(headers) <= Len(headers') /\ Len(headers') <= Len(headers) + 1
         /\ \A h \in 1..Len(headers) : headers'[h] = headers[h]
         /\ headers' # headers =>
              /\ Purse!ApplyHeaderBatch /\ Len(headers') = Len(headers) + 1
              /\ headers'[Len(headers) + 1] = Head(batches).block
<1>1. headers \in Seq(Purse!Blocks) /\ Len(headers) \in Nat BY CoinTypes
<1>2. CASE UNCHANGED headers BY <1>1, <1>2
<1>3. CASE Purse!ApplyHeaderBatch /\ headers' # headers
  <2>1. headers' = Append(headers, Head(batches).block)
    BY <1>3 DEF Purse!ApplyHeaderBatch
  <2>2. Len(headers') = Len(headers) + 1 /\ headers'[Len(headers) + 1] = Head(batches).block
        /\ \A h \in 1..Len(headers) : headers'[h] = headers[h]
    BY <1>1, <2>1
  <2> QED BY <1>1, <1>3, <2>2
<1> QED BY <1>2, <1>3, Footprints

\* The peer answers with blocks of its chain.
LEMMA AnnounceSends ==
  ASSUME Purse!WalletBounds, PurseInv, Purse!Announce
  PROVE  \A i \in 1..Len(wire') : \E h \in 1..Len(chain) :
           wire'[i] = Purse!Serve(chain[h], Purse!Before(chain, h))
<1> DEFINE shared == {h \in DOMAIN headers : h <= Len(chain) /\ headers[h] = chain[h]}
           common == Purse!Cardinality(shared)
<1>1. Len(chain) \in Nat /\ Len(headers) \in Nat /\ headers \in Seq(Purse!Blocks)
  BY CoinTypes
<1>2. common < Len(chain)
      /\ wire' = [i \in 1..(Len(chain) - common) |->
                   Purse!Serve(chain[common + i], Purse!Before(chain, common + i))]
  BY DEF Purse!Announce
<1>3. shared \in SUBSET (1..Len(headers)) BY <1>1
<1> HIDE DEF shared
<1>4. common \in Nat
  <2>1. 1 \in Int /\ Len(headers) \in Int BY <1>1
  <2>2. IsFiniteSet(1..Len(headers)) BY <2>1, FS_Interval
  <2> QED BY <1>3, <2>2, FS_Subset, FS_CardinalityType, PurseCounts
<1> HIDE DEF common
<1>5. Len(wire') = Len(chain) - common BY <1>1, <1>2, <1>4
<1>6. \A i \in 1..Len(wire') : common + i \in 1..Len(chain)
        /\ wire'[i] = Purse!Serve(chain[common + i], Purse!Before(chain, common + i))
  BY <1>1, <1>2, <1>4, <1>5
<1> QED BY <1>6

\* What makes a block known once the step is done.
KnownNext(b) ==
  /\ b \in Purse!Blocks
  /\ \/ b = Purse!NoBlock
     \/ b.at \in 1..Len(chain') /\ b.fork <= counts'.forks /\ b.tx \in public' \cup {"none"}

\* The blocks that are about stay known; new ones are.
LEMMA BlocksStayKnown ==
  ASSUME Purse!WalletBounds, PurseInv, PurseInv', BlocksKnown, Monotone,
         [Purse!Next]_(Purse!vars)
  PROVE  BlocksKnown'
<1>1. \A b : KnownBlock(b) => KnownNext(b) BY StillKnown DEF KnownBlock, KnownNext, Purse!NoBlock,
  Purse!Blocks, Purse!Txs
<1>2. /\ chain \in Seq(Purse!Blocks) /\ wire \in Seq(Messages) /\ batches \in Seq(Batches)
      /\ Len(chain) \in Nat /\ Len(wire) \in Nat /\ Len(batches) \in Nat
      /\ Len(headers) \in Nat /\ counts.forks \in Nat /\ counts'.forks \in Nat
  BY CoinTypes DEF PurseInv, NetworkTyped, Purse!WalletBounds
<1>3. KnownNext(Purse!NoBlock) BY BlockTypes DEF KnownNext, Purse!NoBlock, Purse!Blocks, Purse!Txs
<1>4. \A h \in 1..Len(chain') : KnownNext(chain'[h])
  <2>0. \A h \in 1..Len(chain') : chain'[h] \in Purse!Blocks /\ chain'[h].at = h
    BY SMTT(60) DEF PurseInv, NetworkTyped, ChainType, Purse!IsChain, Purse!Blocks, Purse!Txs
  <2>1. CASE UNCHANGED chain BY <1>1, <2>1 DEF BlocksKnown
  <2>2. ASSUME NEW t \in Purse!Txs \cup {"none"}, Purse!Mine(t)
        PROVE  \A h \in 1..Len(chain') : KnownNext(chain'[h])
    <3> DEFINE n == [at |-> Len(chain) + 1, fork |-> counts.forks, tx |-> t]
    <3>1. chain' = Append(chain, n) /\ t \in public \cup {"none"} /\ UNCHANGED <<counts, public>>
      BY <2>2 DEF Purse!Mine
    <3>2. Len(chain') = Len(chain) + 1 /\ chain'[Len(chain) + 1] = n
          /\ \A h \in 1..Len(chain) : chain'[h] = chain[h]
      BY <1>2, <3>1
    <3>3. KnownNext(n)
      BY <1>2, <2>0, <3>1, <3>2 DEF KnownNext, Purse!Blocks, Purse!Txs
    <3> HIDE DEF n
    <3>4. \A h \in 1..Len(chain') : h \in 1..Len(chain) \/ h = Len(chain) + 1 BY <1>2, <3>2
    <3>5. \A h \in 1..Len(chain) : KnownNext(chain'[h]) BY <1>1, <3>2 DEF BlocksKnown
    <3> QED BY <3>2, <3>3, <3>4, <3>5
  <2>3. CASE Purse!Reorganise
    <3> DEFINE Empty(h) == [at |-> h, fork |-> counts.forks + 1, tx |-> "none"]
    <3>1. /\ Len(chain) \in 1..(MaxHeight - 1)
          /\ chain' = [h \in 1..(Len(chain) + 1) |->
                         IF h < Len(chain) THEN chain[h] ELSE Empty(h)]
          /\ counts' = [counts EXCEPT !.forks = @ + 1] /\ UNCHANGED public
      BY <2>3 DEF Purse!Reorganise
    <3>2. Len(chain') = Len(chain) + 1 /\ counts'.forks = counts.forks + 1
      BY <1>2, <3>1 DEF PurseInv, NetworkTyped
    <3>3. \A h \in 1..Len(chain') : chain'[h] = IF h < Len(chain) THEN chain[h] ELSE Empty(h)
      BY <1>2, <3>1, <3>2
    <3>4. ASSUME NEW h \in 1..Len(chain') PROVE KnownNext(chain'[h])
      <4>1. CASE h < Len(chain)
        <5>1. h \in 1..Len(chain) /\ chain'[h] = chain[h] BY <1>2, <3>2, <3>3, <4>1
        <5> QED BY <1>1, <5>1 DEF BlocksKnown
      <4>2. CASE ~(h < Len(chain))
        <5>1. chain'[h].at = h /\ chain'[h].fork = counts.forks + 1 /\ chain'[h].tx = "none"
          BY <1>2, <3>2, <3>3, <4>2
        <5> QED BY <1>2, <2>0, <3>2, <5>1 DEF KnownNext, Purse!Blocks, Purse!Txs
      <4> QED BY <4>1, <4>2
    <3> QED BY <3>4
  <2> QED BY <2>1, <2>2, <2>3, Footprints
<1>5. \A h \in 1..Len(headers') : KnownNext(headers'[h])
  <2>1. CASE UNCHANGED headers BY <1>1, <2>1 DEF BlocksKnown
  <2>2. CASE headers' # headers
    <3>1. Purse!ApplyHeaderBatch /\ Len(headers') = Len(headers) + 1
          /\ headers'[Len(headers) + 1] = Head(batches).block
          /\ \A h \in 1..Len(headers) : headers'[h] = headers[h]
      BY <2>2, HeadersGrow
    <3>2. batches # <<>> BY <3>1 DEF Purse!ApplyHeaderBatch
    <3>3. Head(batches) = batches[1] /\ 1 \in 1..Len(batches) BY <1>2, <3>2
    <3>4. KnownNext(headers'[Len(headers) + 1]) BY <1>1, <3>1, <3>3 DEF BlocksKnown
    <3>5. \A h \in 1..Len(headers) : KnownNext(headers'[h]) BY <1>1, <3>1 DEF BlocksKnown
    <3>6. \A h \in 1..Len(headers') : h \in 1..Len(headers) \/ h = Len(headers) + 1
      BY <1>2, <3>1
    <3> QED BY <3>4, <3>5, <3>6
  <2> QED BY <2>1, <2>2
<1>6. \A i \in 1..Len(wire') : KnownNext(wire'[i].block)
  <2>1. CASE UNCHANGED wire BY <1>1, <2>1 DEF BlocksKnown
  <2>2. CASE Purse!Announce
    <3>1. ASSUME NEW i \in 1..Len(wire') PROVE KnownNext(wire'[i].block)
      <4>1. PICK h \in 1..Len(chain) :
              wire'[i] = Purse!Serve(chain[h], Purse!Before(chain, h))
        BY <2>2, AnnounceSends
      <4>2. wire'[i].block = chain[h] BY <4>1 DEF Purse!Serve
      <4> QED BY <1>1, <4>2 DEF BlocksKnown
    <3> QED BY <3>1
  <2>3. ASSUME NEW t \in Purse!Txs, Purse!Relay(t)
        PROVE  \A i \in 1..Len(wire') : KnownNext(wire'[i].block)
    <3> DEFINE m == [kind |-> "tx", tx |-> t, block |-> Purse!NoBlock, prev |-> Purse!NoBlock]
    <3>1. wire' = Append(wire, m) BY <2>3 DEF Purse!Relay
    <3>2. m.block = Purse!NoBlock OBVIOUS
    <3> HIDE DEF m
    <3>3. Len(wire') = Len(wire) + 1 /\ \A i \in 1..Len(wire') :
            wire'[i] = IF i <= Len(wire) THEN wire[i] ELSE m
      BY <1>2, <3>1
    <3> QED BY SMTT(60), <1>1, <1>2, <1>3, <3>2, <3>3 DEF BlocksKnown
  <2>4. CASE Purse!RequestMerkleBlocks
    <3> DEFINE m == Purse!Serve(headers[driver.next], Purse!Before(headers, driver.next))
    <3>1. wire' = Append(wire, m) /\ driver.pc = "request"
      BY <2>4 DEF Purse!RequestMerkleBlocks
    <3>2. m.block = headers[driver.next] BY DEF Purse!Serve
    <3> HIDE DEF m
    <3>3. driver.next \in 1..Len(headers)
      BY <1>2, <3>1 DEF PurseInv, ScanTyped, DriverType, Purse!WalletBounds
    <3>4. Len(wire') = Len(wire) + 1 /\ \A i \in 1..Len(wire') :
            wire'[i] = IF i <= Len(wire) THEN wire[i] ELSE m
      BY <1>2, <3>1
    <3> QED BY SMTT(60), <1>1, <1>2, <3>2, <3>3, <3>4 DEF BlocksKnown
  <2>5. CASE Purse!ProcessMerkleBlock \/ Purse!ProcessTransaction
    <3>1. wire # <<>> /\ (wire' = Tail(wire) \/ wire' = [wire EXCEPT ![1].kind = "tx"])
      BY <2>5 DEF Purse!ProcessMerkleBlock, Purse!ProcessTransaction
    <3>2. CASE wire' = Tail(wire)
      <4>1. Len(wire') = Len(wire) - 1 /\ \A i \in 1..Len(wire') : wire'[i] = wire[i + 1]
        BY <1>2, <3>1, <3>2
      <4>2. \A i \in 1..Len(wire') : i + 1 \in 1..Len(wire) BY <1>2, <4>1
      <4> QED BY <1>1, <4>1, <4>2 DEF BlocksKnown
    <3>3. CASE wire' = [wire EXCEPT ![1].kind = "tx"]
      <4>1. Len(wire') = Len(wire) /\ 1 \in 1..Len(wire) BY <1>2, <3>1, <3>3
      <4>2. wire[1] \in Messages BY <1>2, <4>1
      <4>3. \A i \in 1..Len(wire) : wire'[i].block = wire[i].block
        BY <1>2, <3>3, <4>1, <4>2 DEF Messages
      <4> QED BY <1>1, <4>1, <4>3 DEF BlocksKnown
    <3> QED BY <3>1, <3>2, <3>3
  <2>6. CASE Purse!Disconnect \/ Purse!Crash
    <3>1. wire' = <<>> BY <2>6 DEF Purse!Disconnect, Purse!Crash
    <3> QED BY <3>1
  <2> QED BY <2>1, <2>2, <2>3, <2>4, <2>5, <2>6, Footprints DEF Arrives
<1>7. \A i \in 1..Len(batches') : KnownNext(batches'[i].block)
  <2>1. CASE UNCHANGED batches BY <1>1, <2>1 DEF BlocksKnown
  <2>2. CASE Purse!ProcessMerkleBlock
    <3> DEFINE n == [block |-> Head(wire).block, prev |-> Head(wire).prev]
    <3>1. wire # <<>> /\ batches' = Append(batches, n) BY <2>2 DEF Purse!ProcessMerkleBlock
    <3>2. Head(wire) = wire[1] /\ 1 \in 1..Len(wire) BY <1>2, <3>1
    <3>3. KnownNext(n.block) BY <1>1, <3>2 DEF BlocksKnown
    <3> HIDE DEF n
    <3>4. Len(batches') = Len(batches) + 1 /\ \A i \in 1..Len(batches') :
            batches'[i] = IF i <= Len(batches) THEN batches[i] ELSE n
      BY <1>2, <3>1
    <3> QED BY SMTT(60), <1>1, <1>2, <3>3, <3>4 DEF BlocksKnown
  <2>3. CASE Purse!ApplyHeaderBatch
    <3>1. batches # <<>> /\ batches' = Tail(batches) BY <2>3 DEF Purse!ApplyHeaderBatch
    <3>2. Len(batches') = Len(batches) - 1
          /\ \A i \in 1..Len(batches') : batches'[i] = batches[i + 1]
      BY <1>2, <3>1
    <3>3. \A i \in 1..Len(batches') : i + 1 \in 1..Len(batches) BY <1>2, <3>2
    <3> QED BY <1>1, <3>2, <3>3 DEF BlocksKnown
  <2>4. CASE Purse!Crash
    <3>1. batches' = <<>> BY <2>4 DEF Purse!Crash
    <3> QED BY <3>1
  <2> QED BY <2>1, <2>2, <2>3, <2>4, Footprints
<1> QED BY <1>4, <1>5, <1>6, <1>7
        DEF BlocksKnown, KnownBlock, KnownNext, Purse!NoBlock, Purse!Blocks, Purse!Txs

\* A transaction is mined once: a block has one of those not mined, or none.
LEMMA MinedOnceStays ==
  ASSUME Purse!WalletBounds, PurseInv, MinedOnce, [Purse!Next]_(Purse!vars)
  PROVE  MinedOnce'
<1>1. chain \in Seq(Purse!Blocks) /\ Len(chain) \in Nat BY CoinTypes
<1>2. CASE UNCHANGED chain BY <1>2 DEF MinedOnce
<1>3. ASSUME NEW t \in Purse!Txs \cup {"none"}, Purse!Mine(t) PROVE MinedOnce'
  <2> DEFINE n == [at |-> Len(chain) + 1, fork |-> counts.forks, tx |-> t]
  <2>1. chain' = Append(chain, n) /\ (t = "none" \/ t \notin Purse!Mined(chain))
    BY <1>3 DEF Purse!Mine
  <2>2. n.tx = t OBVIOUS
  <2> HIDE DEF n
  <2>3. Len(chain') = Len(chain) + 1 /\ chain'[Len(chain) + 1] = n
        /\ \A h \in 1..Len(chain) : chain'[h] = chain[h]
    BY <1>1, <2>1
  <2>4. t # "none" => \A h \in 1..Len(chain) : chain[h].tx # t BY <1>1, <2>1 DEF Purse!Mined
  <2>5. \A h \in 1..Len(chain') : h \in 1..Len(chain) \/ h = Len(chain) + 1 BY <1>1, <2>3
  <2> QED BY <2>2, <2>3, <2>4, <2>5 DEF MinedOnce
<1>4. CASE Purse!Reorganise
  <2> DEFINE Empty(h) == [at |-> h, fork |-> counts.forks + 1, tx |-> "none"]
  <2>1. chain' = [h \in 1..(Len(chain) + 1) |-> IF h < Len(chain) THEN chain[h] ELSE Empty(h)]
    BY <1>4 DEF Purse!Reorganise
  <2>2. \A h : Empty(h).tx = "none" OBVIOUS
  <2> HIDE DEF Empty
  <2>3. Len(chain') = Len(chain) + 1 BY <1>1, <2>1
  <2>4. \A h \in 1..Len(chain') : \/ h \in 1..Len(chain) /\ chain'[h] = chain[h]
                                 \/ chain'[h].tx = "none"
    BY <1>1, <2>1, <2>2, <2>3
  <2> QED BY <2>4 DEF MinedOnce
<1> QED BY <1>2, <1>3, <1>4, Footprints

\* The peer's filter has every address that did not come late.
LEMMA ServedTells ==
  ASSUME Purse!WalletBounds, PurseInv, WireTold, NEW b \in Purse!Blocks,
         b.tx \in public \cup {"none"}, NEW p
  PROVE  MessageTold(Purse!Serve(b, p)) /\ Purse!Serve(b, p).block = b
           /\ Purse!Serve(b, p).kind = "block"
<1>1. b.tx = "none" \/ b.tx \in Funds \cup Sends BY DEF PurseInv, NetworkTyped, Purse!Txs
<1>2. /\ Purse!Serve(b, p).tx = IF b.tx \in filter \cup Sends THEN b.tx ELSE "none"
      /\ Purse!Serve(b, p).block = b /\ Purse!Serve(b, p).kind = "block"
  BY DEF Purse!Serve, Purse!Matches
<1>3. b.tx \in (Funds \cup Sends) \ Late => b.tx \in filter \cup Sends BY DEF WireTold
<1> QED BY <1>1, <1>2, <1>3 DEF MessageTold

LEMMA WireStaysTold ==
  ASSUME Purse!WalletBounds, PurseInv, BlocksKnown, WireTold, Monotone,
         [Purse!Next]_(Purse!vars)
  PROVE  WireTold'
<1>1. /\ chain \in Seq(Purse!Blocks) /\ wire \in Seq(Messages) /\ Len(wire) \in Nat
      /\ Len(chain) \in Nat /\ Len(headers) \in Nat
      /\ \A h \in 1..Len(chain) : chain[h] \in Purse!Blocks
      /\ \A h \in 1..Len(headers) : headers[h] \in Purse!Blocks
  BY CoinTypes
<1>2. /\ \A h \in 1..Len(chain) : chain[h].tx \in public \cup {"none"}
      /\ \A h \in 1..Len(headers) : headers[h].tx \in public \cup {"none"}
  BY DEF BlocksKnown, KnownBlock, Purse!NoBlock
<1>3. \A i \in 1..Len(wire') : MessageTold(wire'[i])
  <2>1. CASE UNCHANGED wire BY <2>1 DEF WireTold
  <2>2. CASE Purse!Announce
    <3>1. ASSUME NEW i \in 1..Len(wire') PROVE MessageTold(wire'[i])
      <4>1. PICK h \in 1..Len(chain) :
              wire'[i] = Purse!Serve(chain[h], Purse!Before(chain, h))
        BY <2>2, AnnounceSends
      <4> QED BY <1>1, <1>2, <4>1, ServedTells
    <3> QED BY <3>1
  <2>3. ASSUME NEW t \in Purse!Txs, Purse!Relay(t)
        PROVE  \A i \in 1..Len(wire') : MessageTold(wire'[i])
    <3> DEFINE m == [kind |-> "tx", tx |-> t, block |-> Purse!NoBlock, prev |-> Purse!NoBlock]
    <3>1. wire' = Append(wire, m) /\ t \in public BY <2>3 DEF Purse!Relay
    <3>2. MessageTold(m) BY <3>1 DEF MessageTold
    <3> HIDE DEF m
    <3>3. Len(wire') = Len(wire) + 1 /\ \A i \in 1..Len(wire') :
            wire'[i] = IF i <= Len(wire) THEN wire[i] ELSE m
      BY <1>1, <3>1
    <3> QED BY <1>1, <3>2, <3>3 DEF WireTold
  <2>4. CASE Purse!RequestMerkleBlocks
    <3> DEFINE m == Purse!Serve(headers[driver.next], Purse!Before(headers, driver.next))
    <3>1. wire' = Append(wire, m) /\ driver.pc = "request"
      BY <2>4 DEF Purse!RequestMerkleBlocks
    <3>2. driver.next \in 1..Len(headers)
      BY <1>1, <3>1 DEF PurseInv, ScanTyped, DriverType, Purse!WalletBounds
    <3>3. MessageTold(m) BY <1>1, <1>2, <3>2, ServedTells
    <3> HIDE DEF m
    <3>4. Len(wire') = Len(wire) + 1 /\ \A i \in 1..Len(wire') :
            wire'[i] = IF i <= Len(wire) THEN wire[i] ELSE m
      BY <1>1, <3>1
    <3> QED BY <1>1, <3>3, <3>4 DEF WireTold
  <2>5. CASE Purse!ProcessMerkleBlock \/ Purse!ProcessTransaction
    <3>1. wire # <<>> /\ (wire' = Tail(wire) \/ wire' = [wire EXCEPT ![1].kind = "tx"])
      BY <2>5 DEF Purse!ProcessMerkleBlock, Purse!ProcessTransaction
    <3>2. CASE wire' = Tail(wire)
      <4>1. Len(wire') = Len(wire) - 1 /\ \A i \in 1..Len(wire') : wire'[i] = wire[i + 1]
        BY <1>1, <3>1, <3>2
      <4>2. \A i \in 1..Len(wire') : i + 1 \in 1..Len(wire) BY <1>1, <4>1
      <4> QED BY <4>1, <4>2 DEF WireTold
    <3>3. CASE wire' = [wire EXCEPT ![1].kind = "tx"]
      <4>1. Len(wire') = Len(wire) /\ 1 \in 1..Len(wire) BY <1>1, <3>1, <3>3
      <4>2. wire[1] \in Messages /\ MessageTold(wire[1]) BY <1>1, <4>1 DEF WireTold
      <4>3. \A i \in 1..Len(wire) : wire'[i] = IF i = 1 THEN [wire[1] EXCEPT !.kind = "tx"]
                                               ELSE wire[i]
        BY <1>1, <3>3, <4>1
      <4>4. MessageTold([wire[1] EXCEPT !.kind = "tx"])
        BY <4>2 DEF MessageTold, Messages
      <4> QED BY <4>1, <4>3, <4>4 DEF WireTold
    <3> QED BY <3>1, <3>2, <3>3
  <2>6. CASE Purse!Disconnect \/ Purse!Crash
    <3>1. wire' = <<>> BY <2>6 DEF Purse!Disconnect, Purse!Crash
    <3> QED BY <3>1
  <2> QED BY <2>1, <2>2, <2>3, <2>4, <2>5, <2>6, Footprints DEF Arrives
<1>4. public \subseteq public' /\ filter \subseteq filter' BY DEF Monotone
<1> QED BY <1>3, <1>4 DEF WireTold, MessageTold

\* What a transaction is taken to be of holds it, and what is debited for it is
\* what it spends.
LEMMA BlocksStayFit ==
  ASSUME Purse!WalletBounds, PurseInv, PurseInv', WireTold, BlocksFit, SendsPublic, Monotone,
         [Purse!Next]_(Purse!vars)
  PROVE  BlocksFit'
<1>1. /\ wire \in Seq(Messages) /\ Len(wire) \in Nat /\ jobs \in Seq(PurseJobs)
      /\ Len(jobs) \in Nat
      /\ assoc \in [Purse!Txs -> Purse!Blocks] /\ txBlock \in [Purse!Txs -> Purse!Blocks]
      /\ \A i \in 1..Len(wire) : wire[i].kind = "tx" => wire[i].tx \in Purse!Txs
  BY CoinTypes DEF PurseInv, ClientTyped, RowsTyped
<1>2. \A t : BlockOf(Purse!NoBlock, t) BY DEF BlockOf
<1>3. \A t \in Purse!Txs : BlockOf(assoc'[t], t)
  <2>1. CASE UNCHANGED assoc BY <2>1 DEF BlocksFit
  <2>2. CASE Purse!ProcessMerkleBlock
    <3>1. /\ wire # <<>> /\ Head(wire).kind = "block"
          /\ assoc' = IF Head(wire).tx = "none" THEN assoc
                      ELSE [assoc EXCEPT ![Head(wire).tx] = Head(wire).block]
      BY <2>2 DEF Purse!ProcessMerkleBlock
    <3>2. Head(wire) = wire[1] /\ 1 \in 1..Len(wire) BY <1>1, <3>1
    <3>3. Head(wire).tx \in {"none", Head(wire).block.tx}
      BY <3>1, <3>2 DEF WireTold, MessageTold
    <3> QED BY <1>1, <3>1, <3>3 DEF BlocksFit, BlockOf
  <2>3. CASE Purse!ProcessTransaction
    <3>1. assoc' = [assoc EXCEPT ![Head(wire).tx] = Purse!NoBlock]
      BY <2>3 DEF Purse!ProcessTransaction
    <3> QED BY <1>1, <3>1 DEF BlocksFit, BlockOf
  <2>4. CASE Purse!Crash BY <1>2, <2>4 DEF Purse!Crash
  <2> QED BY <2>1, <2>2, <2>3, <2>4, Footprints
<1>4. \A t \in Purse!Txs : BlockOf(txBlock'[t], t)
  <2>1. CASE UNCHANGED txBlock BY <2>1 DEF BlocksFit
  <2>2. ASSUME NEW i \in DOMAIN jobs, Purse!InsertTransaction(i)
        PROVE  \A t \in Purse!Txs : BlockOf(txBlock'[t], t)
    <3>1. txBlock' = [txBlock EXCEPT ![jobs[i].tx] = jobs[i].block]
      BY <2>2 DEF Purse!InsertTransaction
    <3>2. i \in 1..Len(jobs) BY <1>1
    <3>3. BlockOf(jobs[i].block, jobs[i].tx) BY <3>2 DEF BlocksFit, JobTold
    <3> QED BY <1>1, <3>1, <3>3 DEF BlocksFit
  <2>3. ASSUME NEW s \in Sends, Purse!RecordSend(s)
        PROVE  \A t \in Purse!Txs : BlockOf(txBlock'[t], t)
    <3>1. txBlock' = [txBlock EXCEPT ![s] = Purse!NoBlock] BY <2>3 DEF Purse!RecordSend
    <3> QED BY <1>1, <1>2, <3>1 DEF BlocksFit
  <2> QED BY <2>1, <2>2, <2>3, Footprints
<1>5. \A i \in 1..Len(jobs') : JobTold(jobs'[i])
  <2>1. CASE UNCHANGED jobs BY <2>1 DEF BlocksFit
  <2>2. CASE Purse!ProcessTransaction
    <3> DEFINE t == Head(wire).tx
               n == [tx |-> t, block |-> assoc[t], pc |-> "apply", debit |-> {}]
    <3>1. wire # <<>> /\ Head(wire).kind = "tx" /\ jobs' = Append(jobs, n)
      BY <2>2 DEF Purse!ProcessTransaction
    <3>2. Head(wire) = wire[1] /\ 1 \in 1..Len(wire) BY <1>1, <3>1
    <3>3. t \in Purse!Txs /\ t \in public
      BY <1>1, <3>1, <3>2 DEF WireTold, MessageTold, Purse!WalletBounds, Purse!Txs
    <3>4. JobTold(n) BY <3>3 DEF JobTold, BlocksFit
    <3> HIDE DEF n
    <3>5. Len(jobs') = Len(jobs) + 1 /\ \A i \in 1..Len(jobs') :
            jobs'[i] = IF i <= Len(jobs) THEN jobs[i] ELSE n
      BY <1>1, <3>1
    <3> QED BY <1>1, <3>4, <3>5 DEF BlocksFit
  <2>3. CASE Purse!Crash
    <3>1. jobs' = <<>> BY <2>3 DEF Purse!Crash
    <3> QED BY <3>1
  <2>4. ASSUME NEW i \in DOMAIN jobs, Works(i)
        PROVE  \A k \in 1..Len(jobs') : JobTold(jobs'[k])
    <3> DEFINE debit == {c \in Purse!Inputs(jobs[i].tx) : coins[c] # Purse!Absent}
    <3>0. i \in 1..Len(jobs) /\ jobs[i] \in PurseJobs /\ JobTold(jobs[i])
      BY <1>1 DEF BlocksFit
    <3>1. PICK pc, d : /\ d \in {debit, jobs[i].debit}
                       /\ \/ jobs' = Purse!Without(i)
                          \/ jobs' = [jobs EXCEPT ![i].pc = pc, ![i].debit = d]
                          \/ jobs' = [jobs EXCEPT ![i].pc = pc]
      BY <2>4 DEF Works, Purse!ApplyTransaction, Purse!MarkDebitsSpent, Purse!InsertTransaction
    <3>2. d \subseteq Purse!Inputs(jobs[i].tx) BY <3>0, <3>1 DEF JobTold
    <3> HIDE DEF debit
    <3>3. CASE jobs' = Purse!Without(i)
      <4>1. jobs' = [k \in 1..(Len(jobs) - 1) |-> IF k < i THEN jobs[k] ELSE jobs[k + 1]]
        BY <3>3 DEF Purse!Without
      <4>2. Len(jobs') = Len(jobs) - 1 BY <1>1, <3>0, <4>1
      <4>3. \A k \in 1..Len(jobs') : k \in 1..Len(jobs) /\ k + 1 \in 1..Len(jobs)
               /\ jobs'[k] \in {jobs[k], jobs[k + 1]}
        BY <1>1, <3>0, <4>1, <4>2
      <4> QED BY <4>3 DEF BlocksFit
    <3>4. CASE \/ jobs' = [jobs EXCEPT ![i].pc = pc, ![i].debit = d]
               \/ jobs' = [jobs EXCEPT ![i].pc = pc]
      <4>1. Len(jobs') = Len(jobs) BY <1>1, <3>0, <3>4
      <4>2. \A k \in 1..Len(jobs) : k # i => jobs'[k] = jobs[k] BY <1>1, <3>0, <3>4
      <4>3. jobs'[i].tx = jobs[i].tx /\ jobs'[i].block = jobs[i].block
              /\ jobs'[i].debit \in {d, jobs[i].debit}
        BY <1>1, <3>0, <3>4 DEF PurseJobs
      <4>4. JobTold(jobs'[i]) BY <3>0, <3>2, <4>3 DEF JobTold
      <4> QED BY <4>1, <4>2, <4>4 DEF BlocksFit
    <3> QED BY <3>1, <3>3, <3>4
  <2> QED BY <2>1, <2>2, <2>3, <2>4, Footprints
<1>6. public \subseteq public' /\ \A t \in public : Purse!Inputs(t)' = Purse!Inputs(t)
  BY StillKnown DEF Monotone
<1>7. \A i \in 1..Len(jobs') : JobTold(jobs[i])'
  <2> SUFFICES ASSUME NEW i \in 1..Len(jobs') PROVE JobTold(jobs[i])'
    OBVIOUS
  <2>1. JobTold(jobs'[i]) BY <1>5
  <2> QED BY <1>6, <2>1 DEF JobTold, BlockOf, Purse!NoBlock, Purse!Inputs
<1> QED BY <1>3, <1>4, <1>7 DEF BlocksFit, BlockOf, Purse!NoBlock, Purse!Txs

\* A coin no send has promised is credited in memory and in its row at once, and
\* nothing debits it.
LEMMA RowsStayAlike ==
  ASSUME Purse!WalletBounds, PurseInv, PurseInv', BlocksFit, SendsPublic, RowsFollow, Monotone,
         [Purse!Next]_(Purse!vars)
  PROVE  RowsFollow'
<1>1. /\ jobs \in Seq(PurseJobs) /\ coin \in [Purse!Txs -> Coins]
      /\ coins \in [Purse!Txs -> Purse!Heights] /\ send \in [Sends -> SendType]
  BY CoinTypes DEF PurseInv, RowsTyped
<1>2. ASSUME NEW t \in public, NEW c \in Purse!Inputs(t) PROVE c \in Purse!Promised
  BY <1>2 DEF Purse!Promised, Purse!Inputs
<1>3. Purse!Promised \subseteq Purse!Promised' BY StillKnown
<1>4. SUFFICES ASSUME NEW c \in Purse!Txs \ Purse!Promised
               PROVE  coins'[c] = coin'[c].height /\ ~coin'[c].spent
  BY <1>3 DEF RowsFollow, Alike, Purse!Txs
<1>5. coins[c] = coin[c].height /\ ~coin[c].spent BY DEF RowsFollow, Alike
<1>6. ASSUME NEW i \in DOMAIN jobs, Purse!ApplyTransaction(i)
      PROVE  coins'[c] = coin'[c].height /\ ~coin'[c].spent
  <2> DEFINE t == jobs[i].tx
             height == Purse!KnownHeight(jobs[i].block)
             credit == Purse!MayCredit(t, height)
             debit == {d \in Purse!Inputs(t) : coins[d] # Purse!Absent}
  <2>1. coins' = [d \in Purse!Txs |-> IF d \in debit THEN Purse!Absent
                                      ELSE IF d = t /\ credit THEN height ELSE coins[d]]
        /\ coin' = IF credit THEN [coin EXCEPT ![t] = [height |-> height, spent |-> FALSE]]
                   ELSE coin
    BY <1>6 DEF Purse!ApplyTransaction
  <2>2. t \in public BY <1>1 DEF BlocksFit, JobTold
  <2>3. c \notin debit BY <1>2, <2>2
  <2> HIDE DEF t, height, credit, debit
  <2> QED BY <1>1, <1>5, <2>1, <2>3
<1>7. ASSUME NEW i \in DOMAIN jobs, Purse!MarkDebitsSpent(i)
      PROVE  coins'[c] = coin'[c].height /\ ~coin'[c].spent
  <2>1. coin' = Purse!Spend(coin, jobs[i].debit) /\ UNCHANGED coins
    BY <1>7 DEF Purse!MarkDebitsSpent
  <2>2. jobs[i].tx \in public /\ jobs[i].debit \subseteq Purse!Inputs(jobs[i].tx)
    BY <1>1 DEF BlocksFit, JobTold
  <2>3. c \notin jobs[i].debit BY <1>2, <2>2
  <2> QED BY <1>5, <2>1, <2>3 DEF Purse!Spend
<1>8. ASSUME NEW s \in Sends, Purse!MarkInputsSpent(s)
      PROVE  coins'[c] = coin'[c].height /\ ~coin'[c].spent
  <2>1. /\ coin' = Purse!Spend(coin, send[s].inputs) /\ send[s].pc = "broadcast"
        /\ coins' = [d \in Purse!Txs |-> IF d \in send[s].inputs THEN Purse!Absent ELSE coins[d]]
    BY <1>8 DEF Purse!MarkInputsSpent
  <2>2. s \in public BY <2>1 DEF SendsPublic
  <2>3. c \notin send[s].inputs BY <1>2, <2>2 DEF Purse!Inputs
  <2> QED BY <1>5, <2>1, <2>3 DEF Purse!Spend
<1>9. CASE Purse!ReconcileConfirmations
  <2> DEFINE resolved ==
        {t \in Purse!Txs : coin[t].height = Purse!Mempool /\ Purse!KnownHeight(txBlock[t]) > 0}
  <2>1. /\ coin' = [t \in Purse!Txs |-> IF t \in resolved
                       THEN [coin[t] EXCEPT !.height = Purse!KnownHeight(txBlock[t])] ELSE coin[t]]
        /\ coins' = [t \in Purse!Txs |-> IF t \in resolved /\ coins[t] # Purse!Absent
                                         THEN Purse!KnownHeight(txBlock[t]) ELSE coins[t]]
    BY <1>9 DEF Purse!ReconcileConfirmations
  <2>2. c \in resolved => coins[c] # Purse!Absent
    BY <1>5 DEF Purse!Mempool, Purse!Absent
  <2> HIDE DEF resolved
  <2>3. coin[c] \in Coins BY <1>1
  <2> QED BY <1>5, <2>1, <2>2, <2>3 DEF Coins
<1>10. CASE Purse!Crash
  <2>1. coins'[c] = (IF coin[c].spent THEN Purse!Absent ELSE coin[c].height) /\ UNCHANGED coin
    BY <1>10 DEF Purse!Crash
  <2> QED BY <1>5, <2>1
<1>11. CASE UNCHANGED <<coin, coins>> BY <1>5, <1>11
<1> QED BY <1>6, <1>7, <1>8, <1>9, <1>10, <1>11, Footprints

\* A chain's next block, or the one that replaces its last, was never linked.
LEMMA OnChainBack ==
  ASSUME Purse!WalletBounds, PurseInv, BlocksKnown, OnChain', [Purse!Next]_(Purse!vars)
  PROVE  OnChain
<1>1. /\ chain \in Seq(Purse!Blocks) /\ Len(chain) \in Nat /\ Len(headers) \in Nat
      /\ counts.forks \in Nat
      /\ \A h \in 1..Len(headers) : headers[h] \in Purse!Blocks /\ headers[h].at = h
  BY CoinTypes
<1>2. \A h \in 1..Len(headers) : h \in 1..Len(chain) /\ headers[h].fork <= counts.forks
  BY <1>1 DEF BlocksKnown, KnownBlock, Purse!NoBlock
<1>3. \A h \in 1..Len(headers) : h \in 1..Len(headers') /\ headers'[h] = headers[h]
  <2>1. /\ Len(headers) <= Len(headers') /\ Len(headers') <= Len(headers) + 1
        /\ \A h \in 1..Len(headers) : headers'[h] = headers[h]
        /\ headers' # headers => Len(headers') = Len(headers) + 1
    BY HeadersGrow
  <2>2. Len(headers') = Len(headers) \/ Len(headers') = Len(headers) + 1 BY <2>1
  <2> QED BY <1>1, <2>1, <2>2
<1>4. \A h \in 1..Len(headers) : headers[h] = chain'[h] BY <1>3 DEF OnChain
<1>5. CASE UNCHANGED chain BY <1>4, <1>5 DEF OnChain
<1>6. ASSUME NEW t \in Purse!Txs \cup {"none"}, Purse!Mine(t) PROVE OnChain
  <2>1. chain' = Append(chain, [at |-> Len(chain) + 1, fork |-> counts.forks, tx |-> t])
    BY <1>6 DEF Purse!Mine
  <2>2. \A h \in 1..Len(chain) : chain'[h] = chain[h] BY <1>1, <2>1
  <2> QED BY <1>2, <1>4, <2>2 DEF OnChain
<1>7. CASE Purse!Reorganise
  <2> DEFINE Empty(h) == [at |-> h, fork |-> counts.forks + 1, tx |-> "none"]
  <2>1. chain' = [h \in 1..(Len(chain) + 1) |-> IF h < Len(chain) THEN chain[h] ELSE Empty(h)]
    BY <1>7 DEF Purse!Reorganise
  <2>2. \A h : Empty(h).fork = counts.forks + 1 OBVIOUS
  <2> HIDE DEF Empty
  <2>3. \A h \in 1..Len(chain) : chain'[h] = IF h < Len(chain) THEN chain[h] ELSE Empty(h)
    BY <1>1, <2>1
  <2>4. ASSUME NEW h \in 1..Len(headers) PROVE headers[h] = chain[h]
    <3>1. headers[h].fork \in Nat BY <1>1 DEF Purse!Blocks, Purse!WalletBounds
    <3>2. headers[h] # Empty(h) BY <1>1, <1>2, <2>2, <3>1
    <3> QED BY <1>2, <1>4, <2>3, <3>2
  <2> QED BY <2>4 DEF OnChain
<1> QED BY <1>5, <1>6, <1>7, Footprints

\* What a block found among the headers, of a transaction, is.
LEMMA KnownHeightFinds ==
  ASSUME Purse!WalletBounds, PurseInv, NEW b \in Purse!Blocks, Purse!KnownHeight(b) >= 0
  PROVE  /\ Purse!KnownHeight(b) \in 1..Len(headers) /\ headers[Purse!KnownHeight(b)] = b
         /\ Purse!KnownHeight(b) = b.at /\ b # Purse!NoBlock
<1>1. headers \in Seq(Purse!Blocks) BY CoinTypes
<1>2. b.at \in DOMAIN headers /\ headers[b.at] = b /\ Purse!KnownHeight(b) = b.at
  BY DEF Purse!KnownHeight, Purse!Mempool
<1> QED BY <1>1, <1>2 DEF Purse!NoBlock

\* A confirmed coin's row names the block that holds its transaction.
LEMMA InPlaceStays ==
  ASSUME Purse!WalletBounds, PurseInv, PurseInv', BlocksFit, InPlace,
         [Purse!Next]_(Purse!vars)
  PROVE  InPlace'
<1>1. /\ jobs \in Seq(PurseJobs) /\ coin \in [Purse!Txs -> Coins]
      /\ txBlock \in [Purse!Txs -> Purse!Blocks] /\ headers \in Seq(Purse!Blocks)
      /\ Len(headers) \in Nat
  BY CoinTypes DEF PurseInv, RowsTyped
<1>2. \A h \in 1..Len(headers) : h \in 1..Len(headers') /\ headers'[h] = headers[h]
  <2>1. /\ Len(headers) <= Len(headers') /\ Len(headers') <= Len(headers) + 1
        /\ \A h \in 1..Len(headers) : headers'[h] = headers[h]
        /\ headers' # headers => Len(headers') = Len(headers) + 1
    BY HeadersGrow
  <2>2. Len(headers') = Len(headers) \/ Len(headers') = Len(headers) + 1 BY <2>1
  <2> QED BY <1>1, <2>1, <2>2
<1>3. SUFFICES ASSUME NEW c \in Purse!Txs, coin'[c].height >= 0
               PROVE  coin'[c].height \in 1..Len(headers) /\ headers[coin'[c].height].tx = c
  BY <1>2 DEF InPlace, Purse!Txs
<1>4. CASE coin'[c].height = coin[c].height BY <1>3, <1>4 DEF InPlace
<1>5. ASSUME NEW i \in DOMAIN jobs, Purse!ApplyTransaction(i), coin'[c].height # coin[c].height
      PROVE  coin'[c].height \in 1..Len(headers) /\ headers[coin'[c].height].tx = c
  <2> DEFINE t == jobs[i].tx
             height == Purse!KnownHeight(jobs[i].block)
  <2>1. coin' = coin \/ coin' = [coin EXCEPT ![t] = [height |-> height, spent |-> FALSE]]
    BY <1>5 DEF Purse!ApplyTransaction
  <2>2. c = t /\ coin'[c].height = height BY <1>1, <1>5, <2>1
  <2>3. jobs[i].block \in Purse!Blocks /\ BlockOf(jobs[i].block, t)
    <3>1. jobs[i] \in PurseJobs /\ i \in 1..Len(jobs) BY <1>1
    <3>2. JobTold(jobs[i]) BY <3>1 DEF BlocksFit
    <3> QED BY <3>1, <3>2 DEF JobTold, PurseJobs
  <2>4. height \in 1..Len(headers) /\ headers[height] = jobs[i].block
        /\ jobs[i].block # Purse!NoBlock
    BY <1>3, <2>2, <2>3, KnownHeightFinds
  <2> QED BY <2>2, <2>3, <2>4 DEF BlockOf
<1>6. CASE Purse!ReconcileConfirmations /\ coin'[c].height # coin[c].height
  <2> DEFINE resolved ==
        {t \in Purse!Txs : coin[t].height = Purse!Mempool /\ Purse!KnownHeight(txBlock[t]) > 0}
  <2>1. coin' = [t \in Purse!Txs |-> IF t \in resolved
                   THEN [coin[t] EXCEPT !.height = Purse!KnownHeight(txBlock[t])] ELSE coin[t]]
    BY <1>6 DEF Purse!ReconcileConfirmations
  <2> HIDE DEF resolved
  <2>2. coin[c] \in Coins BY <1>1
  <2>3. coin'[c].height = Purse!KnownHeight(txBlock[c]) BY <1>6, <2>1, <2>2 DEF Coins
  <2>4. txBlock[c] \in Purse!Blocks /\ BlockOf(txBlock[c], c) BY <1>1 DEF BlocksFit
  <2>5. coin'[c].height \in 1..Len(headers) /\ headers[coin'[c].height] = txBlock[c]
        /\ txBlock[c] # Purse!NoBlock
    BY <1>3, <2>3, <2>4, KnownHeightFinds
  <2> QED BY <2>4, <2>5 DEF BlockOf
<1>7. \A rows, S : rows = coin => Purse!Spend(rows, S)[c].height = coin[c].height
  <2>1. coin[c] \in Coins BY <1>1
  <2> QED BY <2>1 DEF Purse!Spend, Coins
<1>8. ASSUME NEW i \in DOMAIN jobs, Purse!MarkDebitsSpent(i)
      PROVE  coin'[c].height = coin[c].height
  BY <1>7, <1>8 DEF Purse!MarkDebitsSpent
<1>9. ASSUME NEW s \in Sends, Purse!MarkInputsSpent(s) PROVE coin'[c].height = coin[c].height
  BY <1>7, <1>9 DEF Purse!MarkInputsSpent
<1> QED BY <1>4, <1>5, <1>6, <1>8, <1>9, Footprints

\* A scan begins and goes on at or below where it left off.
LEMMA PlanBelow ==
  ASSUME Purse!WalletBounds, NEW p \in ScanType
  PROVE  Purse!PlanRescan(p) <= Purse!ResumeAt(p) \/ Purse!PlanRescan(p) = 1
BY DEF Purse!PlanRescan, Purse!ResumeAt, ScanType, Purse!WalletBounds

LEMMA RewindBelow ==
  ASSUME Purse!WalletBounds, NEW p \in ScanType, NEW h \in Nat
  PROVE  Purse!ResumeAt(Purse!RewindRescanProgress(p, h)) <= Purse!ResumeAt(p)
<1>1. Purse!ResumeAt(p) \in Nat BY DEF Purse!ResumeAt, ScanType, Purse!WalletBounds
<1>2. CASE ~p.begun \/ h >= Purse!ResumeAt(p)
  BY <1>1, <1>2 DEF Purse!RewindRescanProgress
<1>3. CASE ~(~p.begun \/ h >= Purse!ResumeAt(p))
  <2>1. Purse!RewindRescanProgress(p, h).completed = FALSE
        /\ Purse!RewindRescanProgress(p, h).next = h
    BY <1>3 DEF Purse!RewindRescanProgress
  <2>2. Purse!ResumeAt(Purse!RewindRescanProgress(p, h)) = h BY <2>1 DEF Purse!ResumeAt
  <2> QED BY <1>1, <1>3, <2>2
<1> QED BY <1>2, <1>3

\* How a step moves the scan.
LEMMA ScanMoves ==
  ASSUME Purse!WalletBounds, PurseInv, AsksBehind, [Purse!Next]_(Purse!vars)
  PROVE  \/ UNCHANGED <<scan, driver>>
         \/ driver'.pc \in {"idle", "fold"} /\ UNCHANGED scan
         \/ /\ driver.pc = "request" /\ driver'.pc = "wait" /\ driver'.next = driver.next
            /\ UNCHANGED scan
            /\ wire' = Append(wire, Purse!Serve(headers[driver.next],
                                                Purse!Before(headers, driver.next)))
         \/ /\ Purse!ResumeAt(scan') <= Purse!ResumeAt(scan) /\ UNCHANGED headers
            /\ driver'.pc # "wait"
            /\ driver'.pc = "request" =>
                 driver'.next = 1 \/ driver'.next <= Purse!ResumeAt(scan')
         \/ /\ driver.pc = "wait" /\ UNCHANGED headers
            /\ Purse!ResumeAt(scan') <= driver.next + 1
            /\ driver'.pc # "wait"
            /\ driver'.pc = "request" => driver'.next <= Purse!ResumeAt(scan')
<1>1. scan \in ScanType /\ driver \in DriverType BY DEF PurseInv, ScanTyped
<1>2. CASE UNCHANGED <<scan, driver>> BY <1>2
<1>3. CASE Purse!StartRescan \/ Purse!Crash
  <2>1. driver'.pc \in {"idle", "fold"} /\ UNCHANGED scan
    BY <1>3 DEF Purse!StartRescan, Purse!Crash, Purse!NoDriver
  <2> QED BY <2>1
<1>4. CASE Purse!RequestMerkleBlocks
  <2>1. /\ driver.pc = "request" /\ driver' = [driver EXCEPT !.pc = "wait"] /\ UNCHANGED scan
        /\ wire' = Append(wire, Purse!Serve(headers[driver.next],
                                            Purse!Before(headers, driver.next)))
    BY <1>4 DEF Purse!RequestMerkleBlocks
  <2>2. driver'.pc = "wait" /\ driver'.next = driver.next BY <1>1, <2>1 DEF DriverType
  <2> QED BY <2>1, <2>2
<1>5. CASE Purse!FoldPendingRescan
  <2> DEFINE p == IF driver.next = 0 THEN scan
                  ELSE Purse!RewindRescanProgress(scan, driver.next)
  <2>1. /\ scan' = p /\ driver.pc = "fold" /\ UNCHANGED headers
        /\ driver' = IF Purse!PlanRescan(p) > Purse!Tip THEN Purse!NoDriver
                     ELSE [pc |-> "request", next |-> Purse!PlanRescan(p), target |-> Purse!Tip]
    BY <1>5 DEF Purse!FoldPendingRescan
  <2>2. driver.next = 0 \/ driver.next \in 1..MaxHeight
    BY <1>1, <2>1 DEF PurseInv, ScanTyped, DriverType, Purse!WalletBounds
  <2>3. Purse!ResumeAt(scan) \in Nat
    BY <1>1 DEF Purse!ResumeAt, ScanType, Purse!WalletBounds
  <2>4. p \in ScanType /\ Purse!ResumeAt(p) <= Purse!ResumeAt(scan)
    <3>1. CASE driver.next = 0 BY <1>1, <2>3, <3>1
    <3>2. CASE driver.next # 0
      <4>1. driver.next \in 1..MaxHeight /\ driver.next \in Nat
        BY <2>2, <3>2 DEF Purse!WalletBounds
      <4> QED BY <1>1, <3>2, <4>1, RewindType, RewindBelow
    <3> QED BY <3>1, <3>2
  <2> HIDE DEF p
  <2>5. driver'.pc # "wait" /\ (driver'.pc = "request" => driver'.next = Purse!PlanRescan(p))
    BY <2>1 DEF Purse!NoDriver
  <2>6. driver'.pc = "request" => driver'.next = 1 \/ driver'.next <= Purse!ResumeAt(scan')
    BY <2>1, <2>4, <2>5, PlanBelow
  <2> QED BY <2>1, <2>4, <2>5, <2>6
<1>6. CASE Purse!PersistWindow
  <2> DEFINE next == driver.next + 1
             done == next > driver.target
  <2>1. /\ driver.pc = "wait" /\ UNCHANGED headers
        /\ scan' = [begun |-> TRUE, next |-> next, target |-> driver.target, completed |-> done]
        /\ driver' = IF done THEN Purse!NoDriver
                     ELSE [driver EXCEPT !.pc = "request", !.next = next]
    BY <1>6 DEF Purse!PersistWindow
  <2>2. driver.next \in Nat /\ driver.target \in Nat
    BY <1>1 DEF DriverType, Purse!WalletBounds
  <2>3. Purse!ResumeAt(scan') = IF done THEN driver.target + 1 ELSE next
    BY <2>1 DEF Purse!ResumeAt
  <2>4. Purse!ResumeAt(scan') <= driver.next + 1 BY <2>2, <2>3
  <2>5. driver'.pc # "wait" /\ (driver'.pc = "request" => ~done /\ driver'.next = next)
    BY <1>1, <2>1 DEF Purse!NoDriver, DriverType
  <2>6. driver'.pc = "request" => driver'.next <= Purse!ResumeAt(scan') BY <2>2, <2>3, <2>5
  <2> QED BY <2>1, <2>4, <2>5, <2>6
<1>7. CASE Purse!LeaveWindow
  <2>1. /\ driver.pc = "request" /\ UNCHANGED headers
        /\ scan' = [begun |-> TRUE, next |-> driver.next, target |-> driver.target,
                    completed |-> FALSE]
        /\ driver' = Purse!NoDriver
    BY <1>7 DEF Purse!LeaveWindow
  <2>2. Purse!ResumeAt(scan') = driver.next BY <2>1 DEF Purse!ResumeAt
  <2>3. driver'.pc = "idle" BY <2>1 DEF Purse!NoDriver
  <2> QED BY <2>1, <2>2, <2>3 DEF AsksBehind
<1> QED BY <1>2, <1>3, <1>4, <1>5, <1>6, <1>7, Footprints

\* The scan never resumes beyond the headers there are.
LEMMA WithinTipStays ==
  ASSUME Purse!WalletBounds, PurseInv, PurseInv', WithinTip, AsksBehind,
         [Purse!Next]_(Purse!vars)
  PROVE  WithinTip' /\ AsksBehind'
<1>1. /\ Len(headers) \in Nat /\ Len(headers') \in Nat /\ Len(headers) <= Len(headers')
  BY CoinTypes, HeadersGrow DEF PurseInv, RowsTyped, ChainType
<1>2. Purse!ResumeAt(scan) \in Nat /\ Purse!ResumeAt(scan') \in Nat
  BY DEF PurseInv, ScanTyped, ScanType, Purse!ResumeAt, Purse!WalletBounds
<1>3. driver.pc = "wait" => driver.next \in Nat /\ driver.next <= Len(headers)
  BY <1>1 DEF PurseInv, ScanTyped, DriverType, Purse!WalletBounds
<1>4. \/ Purse!ResumeAt(scan') <= Purse!ResumeAt(scan)
      \/ driver.pc = "wait" /\ Purse!ResumeAt(scan') <= driver.next + 1
  BY <1>2, ScanMoves
<1>5. Purse!ResumeAt(scan') <= Len(headers') + 1 BY <1>1, <1>2, <1>3, <1>4 DEF WithinTip
<1>6. driver'.pc \in {"request", "wait"} => driver'.next <= Purse!ResumeAt(scan')
  <2>1. Purse!ResumeAt(scan') >= 1
    BY DEF PurseInv, ScanTyped, ScanType, Purse!ResumeAt, Purse!WalletBounds
  <2> QED BY <1>2, <2>1, ScanMoves DEF AsksBehind
<1> QED BY <1>5, <1>6 DEF WithinTip, AsksBehind, Purse!ResumeAt

\* A credited block stays so: only a credit changes the height of a confirmed coin,
\* and the one block of its transaction among the headers is that one.
LEMMA CreditStays ==
  ASSUME Purse!WalletBounds, PurseInv, PurseInv', MinedOnce, BlocksKnown, BlocksFit, RowsFollow,
         OnChain, Monotone, [Purse!Next]_(Purse!vars),
         NEW h \in 1..Len(headers), Credited(h)
  PROVE  Credited(h)'
<1> DEFINE c == headers[h].tx
<1>1. /\ jobs \in Seq(PurseJobs) /\ coin \in [Purse!Txs -> Coins]
      /\ Len(chain) \in Nat /\ Len(headers) \in Nat
      /\ headers[h] \in Purse!Blocks /\ headers[h].at = h
  BY CoinTypes DEF PurseInv, RowsTyped
<1>2. headers'[h] = headers[h] BY HeadersGrow
<1>3. Purse!Promised \subseteq Purse!Promised' BY StillKnown
<1>4. SUFFICES ASSUME c \notin Late \cup Purse!Promised \cup {"none"} PROVE coin'[c].height = h
  BY <1>2, <1>3 DEF Credited
<1>5. coin[c].height = h /\ c \in Purse!Txs BY <1>1, <1>4 DEF Credited, Purse!Blocks
<1>6. coins[c] = h BY <1>4, <1>5 DEF RowsFollow, Alike
<1>7. ASSUME NEW i \in DOMAIN jobs, Purse!ApplyTransaction(i) PROVE coin'[c].height = h
  <2> DEFINE t == jobs[i].tx
             height == Purse!KnownHeight(jobs[i].block)
             credit == Purse!MayCredit(t, height)
  <2>1. coin' = IF credit THEN [coin EXCEPT ![t] = [height |-> height, spent |-> FALSE]]
                ELSE coin
    BY <1>7 DEF Purse!ApplyTransaction
  <2>2. CASE c = t /\ credit
    <3>1. height >= 0 BY <1>6, <2>2 DEF Purse!MayCredit
    <3>2. jobs[i] \in PurseJobs /\ i \in 1..Len(jobs) BY <1>1
    <3>3. jobs[i].block \in Purse!Blocks /\ BlockOf(jobs[i].block, t)
      BY <3>2 DEF BlocksFit, JobTold, PurseJobs
    <3>4. height \in 1..Len(headers) /\ headers[height] = jobs[i].block
          /\ jobs[i].block # Purse!NoBlock
      BY <3>1, <3>3, KnownHeightFinds
    <3>5. headers[height].tx = c BY <2>2, <3>3, <3>4 DEF BlockOf
    <3>6. \A k \in 1..Len(headers) : k \in 1..Len(chain) /\ headers[k] = chain[k]
      <4>1. \A k \in 1..Len(headers) : headers[k].at = k BY CoinTypes
      <4> QED BY <4>1 DEF OnChain, BlocksKnown, KnownBlock, Purse!NoBlock
    <3>7. height = h BY <1>4, <3>4, <3>5, <3>6 DEF MinedOnce
    <3>8. coin'[c] = [height |-> height, spent |-> FALSE] BY <1>1, <1>5, <2>1, <2>2
    <3> QED BY <3>7, <3>8
  <2>3. CASE ~(c = t /\ credit)
    <3> HIDE DEF credit
    <3>1. coin'[c] = coin[c] BY <1>1, <1>5, <2>1, <2>3
    <3> QED BY <1>5, <3>1
  <2> QED BY <2>2, <2>3
<1>8. \A S : Purse!Spend(coin, S)[c].height = coin[c].height
  <2>1. coin[c] \in Coins BY <1>1, <1>5
  <2> QED BY <1>5, <2>1 DEF Purse!Spend, Coins
<1>9. ASSUME NEW i \in DOMAIN jobs, Purse!MarkDebitsSpent(i) PROVE coin'[c].height = h
  BY <1>5, <1>8, <1>9 DEF Purse!MarkDebitsSpent
<1>10. ASSUME NEW s \in Sends, Purse!MarkInputsSpent(s) PROVE coin'[c].height = h
  BY <1>5, <1>8, <1>10 DEF Purse!MarkInputsSpent
<1>11. CASE Purse!ReconcileConfirmations
  <2> DEFINE resolved ==
        {t \in Purse!Txs : coin[t].height = Purse!Mempool /\ Purse!KnownHeight(txBlock[t]) > 0}
  <2>1. coin' = [t \in Purse!Txs |-> IF t \in resolved
                   THEN [coin[t] EXCEPT !.height = Purse!KnownHeight(txBlock[t])] ELSE coin[t]]
    BY <1>11 DEF Purse!ReconcileConfirmations
  <2>2. c \notin resolved BY <1>5 DEF Purse!Mempool
  <2> HIDE DEF resolved
  <2> QED BY <1>5, <2>1, <2>2
<1>12. CASE UNCHANGED coin BY <1>5, <1>12
<1> QED BY <1>7, <1>9, <1>10, <1>11, <1>12, Footprints

\* Nothing comes when all that was sent was dealt with.
LEMMA QuietIsOver == ASSUME Purse!Quiet PROVE \A b : ~Comes(b)
BY DEF Purse!Quiet, Comes, Served, Arriving, Applying

\* The answer is read, taken to be of its block, and credited at its height.
LEMMA ComesThrough ==
  ASSUME Purse!WalletBounds, PurseInv, PurseInv', WireTold, BlocksFit, BlocksKnown, Monotone,
         [Purse!Next]_(Purse!vars), ~Purse!Disconnect, ~Purse!Crash,
         NEW h \in 1..Len(headers), Comes(headers[h]),
         headers[h].tx \notin Late \cup {"none"}
  PROVE  Comes(headers[h])' \/ Credited(h)'
<1> DEFINE b == headers[h]
<1>1. /\ wire \in Seq(Messages) /\ jobs \in Seq(PurseJobs) /\ coin \in [Purse!Txs -> Coins]
      /\ assoc \in [Purse!Txs -> Purse!Blocks]
      /\ Len(wire) \in Nat /\ Len(jobs) \in Nat
      /\ b \in Purse!Blocks /\ b.at = h
  BY CoinTypes DEF PurseInv, RowsTyped, ClientTyped
<1>2. headers'[h] = b BY HeadersGrow
<1>3. b.tx \in Purse!Txs BY <1>1 DEF Purse!Blocks
<1> DEFINE ServedNext == \E i \in 1..Len(wire') : wire'[i].kind = "block" /\ wire'[i].block = b
           ArrivingNext == /\ wire' # <<>> /\ Head(wire').kind = "tx" /\ Head(wire').tx = b.tx
                           /\ assoc'[b.tx] = b
           ApplyingNext == \E i \in 1..Len(jobs') : jobs'[i].block = b /\ jobs'[i].pc = "apply"
<1>5. SUFFICES ServedNext \/ ArrivingNext \/ ApplyingNext \/ coin'[b.tx].height = h
  BY <1>2 DEF Comes, Served, Arriving, Applying, Credited
<1>6. ASSUME Served(b), ~Purse!ProcessMerkleBlock PROVE ServedNext
  <2>1. PICK i \in 1..Len(wire) : wire[i].kind = "block" /\ wire[i].block = b
    BY <1>6 DEF Served
  <2>2. CASE UNCHANGED wire BY <2>1, <2>2
  <2>3. ASSUME NEW m, wire' = Append(wire, m) PROVE ServedNext
    <3>1. i \in 1..Len(wire') /\ wire'[i] = wire[i] BY <1>1, <2>1, <2>3
    <3> QED BY <2>1, <3>1
  <2>4. CASE Purse!RequestMerkleBlocks \/ \E t \in Purse!Txs : Purse!Relay(t)
    BY <2>3, <2>4 DEF Purse!RequestMerkleBlocks, Purse!Relay
  <2>5. CASE Purse!ProcessTransaction
    <3>1. wire # <<>> /\ Head(wire).kind = "tx" /\ wire' = Tail(wire)
      BY <2>5 DEF Purse!ProcessTransaction
    <3>2. i # 1 BY <1>1, <2>1, <3>1
    <3>3. i - 1 \in 1..Len(wire') /\ wire'[i - 1] = wire[i] BY <1>1, <2>1, <3>1, <3>2
    <3> QED BY <2>1, <3>3
  <2>6. ~Purse!Announce BY <1>1, <2>1 DEF Purse!Announce
  <2> QED BY <1>6, <2>2, <2>4, <2>5, <2>6, Footprints DEF Arrives
<1>7. ASSUME Served(b), Purse!ProcessMerkleBlock PROVE ServedNext \/ ArrivingNext
  <2>1. PICK i \in 1..Len(wire) : wire[i].kind = "block" /\ wire[i].block = b
    BY <1>7 DEF Served
  <2> DEFINE m == Head(wire)
  <2>2. /\ wire # <<>>
        /\ assoc' = IF m.tx = "none" THEN assoc ELSE [assoc EXCEPT ![m.tx] = m.block]
        /\ wire' = IF m.tx = "none" THEN Tail(wire) ELSE [wire EXCEPT ![1].kind = "tx"]
    BY <1>7 DEF Purse!ProcessMerkleBlock
  <2>3. m = wire[1] /\ 1 \in 1..Len(wire) /\ wire[1] \in Messages BY <1>1, <2>2
  <2> HIDE DEF m
  <2>4. CASE i = 1
    <3>1. m.tx = b.tx BY <2>1, <2>3, <2>4 DEF WireTold, MessageTold
    <3>2. assoc'[b.tx] = b BY <1>1, <1>3, <2>1, <2>2, <2>3, <2>4, <3>1
    <3>3. wire' = [wire EXCEPT ![1].kind = "tx"] BY <2>2, <3>1
    <3>4. Len(wire') = Len(wire) /\ wire'[1] = [wire[1] EXCEPT !.kind = "tx"]
      BY <1>1, <2>3, <3>3
    <3>5. wire'[1].kind = "tx" /\ wire'[1].tx = b.tx BY <2>3, <3>1, <3>4 DEF Messages
    <3>6. wire' \in Seq(Messages) BY DEF PurseInv, ClientTyped, Messages, Purse!Txs, Purse!Blocks
    <3>7. wire' # <<>> /\ Head(wire') = wire'[1] BY <1>1, <2>3, <3>4, <3>6
    <3> QED BY <3>2, <3>5, <3>7
  <2>5. CASE i # 1 /\ m.tx = "none"
    <3>1. i - 1 \in 1..Len(wire') /\ wire'[i - 1] = wire[i] BY <1>1, <2>1, <2>2, <2>5
    <3> QED BY <2>1, <3>1
  <2>6. CASE i # 1 /\ m.tx # "none"
    <3>1. i \in 1..Len(wire') /\ wire'[i] = wire[i] BY <1>1, <2>1, <2>2, <2>6
    <3> QED BY <2>1, <3>1
  <2> QED BY <2>4, <2>5, <2>6
<1>8. ASSUME Arriving(b) PROVE ArrivingNext \/ ApplyingNext
  <2>1. wire # <<>> /\ Head(wire).kind = "tx" /\ Head(wire).tx = b.tx /\ assoc[b.tx] = b
    BY <1>8 DEF Arriving
  <2>2. ~Purse!ProcessMerkleBlock BY <2>1 DEF Purse!ProcessMerkleBlock
  <2>3. CASE Purse!ProcessTransaction
    <3> DEFINE n == [tx |-> b.tx, block |-> assoc[b.tx], pc |-> "apply", debit |-> {}]
    <3>1. jobs' = Append(jobs, n) BY <2>1, <2>3 DEF Purse!ProcessTransaction
    <3>2. n.block = b /\ n.pc = "apply" BY <2>1
    <3> HIDE DEF n
    <3>3. Len(jobs') = Len(jobs) + 1 /\ jobs'[Len(jobs) + 1] = n BY <1>1, <3>1
    <3>4. Len(jobs) + 1 \in 1..Len(jobs') BY <1>1, <3>3
    <3> QED BY <3>2, <3>3, <3>4
  <2>4. CASE ~Purse!ProcessTransaction
    <3>1. assoc' = assoc BY <2>2, <2>4, Footprints
    <3>2. ASSUME NEW m, wire' = Append(wire, m) PROVE ArrivingNext
      <4>1. wire' # <<>> /\ Head(wire') = Head(wire)
        <5>1. Len(wire') = Len(wire) + 1 /\ wire'[1] = wire[1] BY <1>1, <2>1, <3>2
        <5> QED BY <1>1, <2>1, <3>2, <5>1
      <4> QED BY <2>1, <3>1, <4>1
    <3>3. CASE Purse!RequestMerkleBlocks \/ \E t \in Purse!Txs : Purse!Relay(t)
      BY <3>2, <3>3 DEF Purse!RequestMerkleBlocks, Purse!Relay
    <3>4. CASE UNCHANGED wire BY <2>1, <3>1, <3>4
    <3>5. ~Purse!Announce BY <2>1 DEF Purse!Announce
    <3> QED BY <2>2, <2>4, <3>3, <3>4, <3>5, Footprints DEF Arrives
  <2> QED BY <2>3, <2>4
<1>9. ASSUME Applying(b) PROVE ApplyingNext \/ coin'[b.tx].height = h
  <2>1. PICK k \in 1..Len(jobs) : jobs[k].block = b /\ jobs[k].pc = "apply"
    BY <1>9 DEF Applying
  <2>2. jobs[k] \in PurseJobs /\ JobTold(jobs[k]) BY <1>1 DEF BlocksFit
  <2>3. CASE UNCHANGED jobs BY <2>1, <2>3
  <2>4. CASE Purse!ProcessTransaction
    <3>1. PICK n : jobs' = Append(jobs, n) BY <2>4 DEF Purse!ProcessTransaction
    <3>2. k \in 1..Len(jobs') /\ jobs'[k] = jobs[k] BY <1>1, <2>1, <3>1
    <3> QED BY <2>1, <3>2
  <2>5. ASSUME Purse!ApplyTransaction(k) PROVE coin'[b.tx].height = h
    <3>1. b # Purse!NoBlock BY <1>1 DEF Purse!NoBlock
    <3>2. jobs[k].tx = b.tx BY <2>1, <2>2, <3>1 DEF JobTold, BlockOf
    <3>3. Purse!KnownHeight(b) = h BY <1>1, CoinTypes DEF Purse!KnownHeight
    <3>4. coin' = [coin EXCEPT ![b.tx] = [height |-> h, spent |-> FALSE]]
      BY <2>1, <2>5, <3>2, <3>3 DEF Purse!ApplyTransaction, Purse!MayCredit
    <3> QED BY <1>1, <1>3, <3>4
  <2>6. ASSUME NEW i \in DOMAIN jobs, i # k, Works(i) PROVE ApplyingNext
    <3>0. i \in 1..Len(jobs) BY <1>1
    <3>1. CASE jobs' = Purse!Without(i)
      <4>1. jobs' = [j \in 1..(Len(jobs) - 1) |-> IF j < i THEN jobs[j] ELSE jobs[j + 1]]
        BY <3>1 DEF Purse!Without
      <4>2. Len(jobs') = Len(jobs) - 1 BY <1>1, <3>0, <4>1
      <4>3. CASE k < i
        <5>1. k \in 1..Len(jobs') /\ jobs'[k] = jobs[k] BY <1>1, <3>0, <4>1, <4>2, <4>3
        <5> QED BY <2>1, <5>1
      <4>4. CASE k > i
        <5>1. k - 1 \in 1..Len(jobs') /\ jobs'[k - 1] = jobs[k]
          BY <1>1, <3>0, <4>1, <4>2, <4>4
        <5> QED BY <2>1, <5>1
      <4> QED BY <2>6, <3>0, <4>3, <4>4
    <3>2. CASE \E pc, d : \/ jobs' = [jobs EXCEPT ![i].pc = pc, ![i].debit = d]
                          \/ jobs' = [jobs EXCEPT ![i].pc = pc]
      <4>1. k \in 1..Len(jobs') /\ jobs'[k] = jobs[k] BY <1>1, <2>1, <2>6, <3>0, <3>2
      <4> QED BY <2>1, <4>1
    <3> QED BY <2>6, <3>1, <3>2
        DEF Works, Purse!ApplyTransaction, Purse!MarkDebitsSpent, Purse!InsertTransaction
  <2>7. ~Purse!MarkDebitsSpent(k) /\ ~Purse!InsertTransaction(k)
    BY <2>1 DEF Purse!MarkDebitsSpent, Purse!InsertTransaction, Purse!MayStep
  <2> QED BY <2>3, <2>4, <2>5, <2>6, <2>7, Footprints DEF Works
<1> QED BY <1>6, <1>7, <1>8, <1>9 DEF Comes

\* What is lost behind the scan is known to be: an answer on its way is a filtered
\* block, a transaction said to be of one, or a job of one.
LEMMA LossIsTold ==
  ASSUME Purse!WalletBounds, PurseInv, WireTold, BlocksFit, Purse!Disconnect \/ Purse!Crash,
         NEW h \in 1..Len(headers), Passed(h)', Passed(h), Comes(headers[h]),
         headers[h].tx \notin Late \cup {"none"}
  PROVE  Told(h)'
<1> DEFINE b == headers[h]
<1>1. /\ wire \in Seq(Messages) /\ jobs \in Seq(PurseJobs) /\ headers \in Seq(Purse!Blocks)
      /\ b \in Purse!Blocks /\ b.at = h /\ b # Purse!NoBlock
  BY CoinTypes DEF Purse!NoBlock
<1>2. UNCHANGED headers /\ UNCHANGED scan
  BY DEF Purse!Disconnect, Purse!Crash, Purse!scanning
<1>3. Served(b) \/ Arriving(b) => b.tx \in Purse!Unread
  <2>1. ASSUME NEW i \in 1..Len(wire), wire[i].kind = "block", wire[i].block = b
        PROVE  b.tx \in Purse!Unread
    <3>1. wire[i].tx = b.tx BY <2>1 DEF WireTold, MessageTold
    <3>2. i \in DOMAIN wire BY <1>1
    <3> QED BY <2>1, <3>1, <3>2 DEF Purse!Unread
  <2>2. CASE Arriving(b)
    <3>1. wire # <<>> /\ Head(wire).tx = b.tx /\ assoc[b.tx] = b BY <2>2 DEF Arriving
    <3>2. 1 \in DOMAIN wire /\ Head(wire) = wire[1] BY <1>1, <3>1
    <3> QED BY <1>1, <3>1, <3>2 DEF Purse!Unread
  <2> QED BY <2>1, <2>2 DEF Served
<1>4. Applying(b) => b.tx \in Purse!Unapplied
  <2>1. ASSUME NEW i \in 1..Len(jobs), jobs[i].block = b, jobs[i].pc = "apply"
        PROVE  b.tx \in Purse!Unapplied
    <3>1. jobs[i].tx = b.tx BY <1>1, <2>1 DEF BlocksFit, JobTold, BlockOf
    <3>2. i \in DOMAIN jobs BY <1>1
    <3> QED BY <1>1, <2>1, <3>1, <3>2 DEF Purse!Unapplied
  <2> QED BY <2>1 DEF Applying
<1>5. /\ h < Purse!ResumeAt(scan) => b.tx \in Purse!TxsAt(Purse!Behind)
      /\ b.tx \in Purse!TxsAt(Purse!Behind \cup Purse!Awaited)
  <2>1. h \in DOMAIN headers /\ h \in Nat /\ h >= 1 BY <1>1
  <2>2. Purse!ResumeAt(scan) \in Nat
    BY DEF PurseInv, ScanTyped, ScanType, Purse!ResumeAt, Purse!WalletBounds
  <2>3. h < Purse!ResumeAt(scan) => h \in Purse!Behind BY <2>1, <2>2 DEF Purse!Behind
  <2>4. h \in Purse!Behind \/ h \in Purse!Awaited BY <2>3 DEF Passed, Purse!Awaited
  <2> QED BY <2>1, <2>3, <2>4 DEF Purse!TxsAt
<1>6. CASE Purse!Disconnect
  <2>1. /\ UNCHANGED jobs
        /\ missed' = missed \cup (Purse!Unread
                                  \cap Purse!TxsAt(Purse!Behind \cup Purse!Awaited))
    BY <1>6 DEF Purse!Disconnect
  <2>2. CASE Applying(b)
    BY <1>2, <2>1, <2>2 DEF Told, Comes, Applying
  <2>3. CASE Served(b) \/ Arriving(b)
    <3>1. b.tx \in missed' BY <1>3, <1>5, <2>1, <2>3
    <3> QED BY <1>2, <3>1 DEF Told
  <2> QED BY <2>2, <2>3 DEF Comes
<1>7. CASE Purse!Crash
  <2>1. /\ driver' = Purse!NoDriver
        /\ missed' = missed \cup ((Purse!Unread \cup Purse!Unapplied)
                                  \cap Purse!TxsAt(Purse!Behind))
    BY <1>7 DEF Purse!Crash
  <2>2. h < Purse!ResumeAt(scan)
    BY <1>2, <2>1 DEF Passed, Purse!NoDriver, Purse!ResumeAt
  <2>3. b.tx \in missed' BY <1>3, <1>4, <1>5, <2>1, <2>2 DEF Comes
  <2> QED BY <1>2, <2>3 DEF Told
<1> QED BY <1>6, <1>7

\* A block the scan is past, or waits for, is told of.
LEMMA ScannedStays ==
  ASSUME Purse!WalletBounds, PurseInv, PurseInv', CoinsInv, OnChain, Scanned, Monotone,
         [Purse!Next]_(Purse!vars)
  PROVE  Scanned'
<1>1. /\ Len(headers) \in Nat /\ Len(headers') \in Nat /\ wire \in Seq(Messages)
      /\ Len(wire) \in Nat /\ scan \in ScanType /\ driver \in DriverType
      /\ scan' \in ScanType /\ driver' \in DriverType
  BY SMTT(60), CoinTypes DEF PurseInv, RowsTyped, ChainType, ScanTyped, ScanType, DriverType
<1>2. Purse!ResumeAt(scan) \in Nat /\ Purse!ResumeAt(scan') \in Nat
      /\ driver.next \in Nat /\ driver'.next \in Nat
  BY SMTT(60), <1>1 DEF ScanType, DriverType, Purse!ResumeAt, Purse!WalletBounds
<1>3. driver.pc \in {"request", "wait"} => driver.next <= Len(headers)
  BY <1>1, <1>2 DEF PurseInv, ScanTyped, DriverType, Purse!WalletBounds
<1>4. \A h \in 1..Len(headers) : Credited(h) => Credited(h)'
  BY CreditStays DEF CoinsInv
<1>5. \A h \in 1..Len(headers) : headers'[h] = headers[h] BY HeadersGrow
<1>6. missed \subseteq missed'
  BY Footprints DEF Purse!Disconnect, Purse!Crash
<1>7. ASSUME NEW h \in 1..Len(headers), Passed(h), Passed(h)' PROVE Told(h)'
  <2>1. CASE Credited(h) BY <1>4, <2>1 DEF Told
  <2>2. CASE headers[h].tx \in missed BY <1>5, <1>6, <2>2 DEF Told
  <2>3. CASE ~Credited(h) /\ Comes(headers[h])
    <3>1. headers[h].tx \notin Late \cup {"none"} BY <2>3 DEF Credited
    <3>2. CASE Purse!Disconnect \/ Purse!Crash
      BY <1>7, <2>3, <3>1, <3>2, LossIsTold DEF CoinsInv
    <3>3. CASE ~Purse!Disconnect /\ ~Purse!Crash
      <4>1. Comes(headers[h])' \/ Credited(h)' BY <2>3, <3>1, <3>3, ComesThrough DEF CoinsInv
      <4> QED BY <4>1 DEF Told
    <3> QED BY <3>2, <3>3
  <2>4. Told(h) BY <1>7 DEF Scanned
  <2> QED BY <2>1, <2>2, <2>3, <2>4 DEF Told
<1>8. ASSUME NEW h \in 1..Len(headers), ~Passed(h), Passed(h)' PROVE Told(h)'
  <2>1. ~(h < Purse!ResumeAt(scan)) /\ ~(driver.pc = "wait" /\ h = driver.next)
    BY <1>8 DEF Passed
  <2>2. h < Purse!ResumeAt(scan') \/ (driver'.pc = "wait" /\ h = driver'.next)
    BY <1>8 DEF Passed, Purse!ResumeAt
  <2>3. CASE UNCHANGED <<scan, driver>> BY <2>1, <2>2, <2>3 DEF Purse!ResumeAt
  <2>4. CASE driver'.pc \in {"idle", "fold"} /\ UNCHANGED scan
    BY <2>1, <2>2, <2>4 DEF Purse!ResumeAt
  <2>5. CASE /\ driver.pc = "request" /\ driver'.pc = "wait" /\ driver'.next = driver.next
             /\ UNCHANGED scan
             /\ wire' = Append(wire, Purse!Serve(headers[driver.next],
                                                 Purse!Before(headers, driver.next)))
    <3> DEFINE m == Purse!Serve(headers[driver.next], Purse!Before(headers, driver.next))
    <3>1. m.kind = "block" /\ m.block = headers[driver.next] BY DEF Purse!Serve
    <3>2. wire' = Append(wire, m) BY <2>5
    <3> HIDE DEF m
    <3>3. Len(wire') = Len(wire) + 1 /\ wire'[Len(wire) + 1] = m BY <1>1, <3>2
    <3>4. Len(wire) + 1 \in 1..Len(wire') BY <1>1, <3>3
    <3>5. h = driver.next BY <2>1, <2>2, <2>5 DEF Purse!ResumeAt
    <3>6. Comes(headers[h])' BY <1>5, <3>1, <3>3, <3>4, <3>5 DEF Comes, Served
    <3> QED BY <3>6 DEF Told
  <2>6. CASE Purse!ResumeAt(scan') <= Purse!ResumeAt(scan) /\ driver'.pc # "wait"
    BY <1>1, <1>2, <2>1, <2>2, <2>6
  <2>7. CASE /\ driver.pc = "wait" /\ Purse!ResumeAt(scan') <= driver.next + 1
             /\ driver'.pc # "wait"
    <3>1. driver.next <= Purse!ResumeAt(scan) BY <2>7 DEF CoinsInv, AsksBehind
    <3> QED BY <1>1, <1>2, <2>1, <2>2, <2>7, <3>1
  <2>8. AsksBehind BY DEF CoinsInv
  <2> QED BY <2>3, <2>4, <2>5, <2>6, <2>7, <2>8, ScanMoves
<1>9. ASSUME NEW h \in 1..Len(headers'), h \notin 1..Len(headers) PROVE ~Passed(h)'
  <2>1. headers' # headers BY <1>9
  <2>2. Purse!ApplyHeaderBatch BY <2>1, HeadersGrow
  <2>3. UNCHANGED <<scan, driver>> BY <2>2 DEF Purse!ApplyHeaderBatch, Purse!scanning
  <2>4. h >= Len(headers) + 1 BY <1>1, <1>9
  <2>5. ~(h < Purse!ResumeAt(scan)) BY <1>1, <1>2, <2>4 DEF CoinsInv, WithinTip
  <2>6. driver.pc = "wait" => h # driver.next BY <1>1, <1>2, <1>3, <2>4
  <2> QED BY <2>3, <2>5, <2>6 DEF Passed, Purse!ResumeAt
<1>10. \A h \in 1..Len(headers') : Passed(h)' => Told(h)' BY <1>7, <1>8, <1>9
<1> QED BY <1>10 DEF Scanned

\* An empty device follows an empty chain.
LEMMA CoinsStart == ASSUME Purse!WalletBounds, Purse!Init PROVE CoinsInv
<1>1. /\ chain = <<>> /\ headers = <<>> /\ wire = <<>> /\ batches = <<>> /\ jobs = <<>>
      /\ Len(chain) = 0 /\ Len(headers) = 0 /\ Len(wire) = 0 /\ Len(batches) = 0
      /\ Len(jobs) = 0
  BY DEF Purse!Init
<1>2. BlocksKnown BY <1>1 DEF BlocksKnown
<1>3. MinedOnce BY <1>1 DEF MinedOnce
<1>4. WireTold BY <1>1 DEF WireTold, Purse!Init
<1>5. BlocksFit BY <1>1 DEF BlocksFit, BlockOf, Purse!Init
<1>6. SendsPublic BY DEF SendsPublic, Purse!Init, Purse!WalletBounds
<1>7. RowsFollow BY DEF RowsFollow, Alike, Purse!Init, Purse!NoCoin
<1>8. WithinTip /\ AsksBehind
  BY <1>1 DEF WithinTip, AsksBehind, Purse!Init, Purse!ResumeAt, Purse!NoDriver
<1>9. InPlace BY DEF InPlace, Purse!Init, Purse!NoCoin, Purse!Absent
<1>10. Scanned BY <1>1 DEF Scanned
<1> QED BY <1>2, <1>3, <1>4, <1>5, <1>6, <1>7, <1>8, <1>9, <1>10 DEF CoinsInv

LEMMA CoinsStep ==
  ASSUME Purse!WalletBounds, PurseInv, CoinsInv, [Purse!Next]_(Purse!vars)
  PROVE  CoinsInv'
<1>1. PurseInv' BY NextInv
<1>2. /\ BlocksKnown /\ MinedOnce /\ WireTold /\ BlocksFit /\ SendsPublic /\ RowsFollow
      /\ WithinTip /\ AsksBehind
  BY DEF CoinsInv
<1>3. Monotone /\ SendsPublic' BY <1>2, Monotonically
<1>4. BlocksKnown' BY <1>1, <1>2, <1>3, BlocksStayKnown
<1>5. MinedOnce' BY <1>2, MinedOnceStays
<1>6. WireTold' BY <1>2, <1>3, WireStaysTold
<1>7. BlocksFit' BY <1>1, <1>2, <1>3, BlocksStayFit
<1>8. RowsFollow' BY <1>1, <1>2, <1>3, RowsStayAlike
<1>9. WithinTip' /\ AsksBehind' BY <1>1, <1>2, WithinTipStays
<1>10. ASSUME OnChain' PROVE InPlace' /\ Scanned'
  <2>1. OnChain BY <1>2, <1>10, OnChainBack
  <2>2. InPlace /\ Scanned BY <2>1 DEF CoinsInv
  <2>3. InPlace' BY <1>1, <1>2, <2>2, InPlaceStays
  <2>4. Scanned' BY <1>1, <1>3, <2>1, <2>2, ScannedStays
  <2> QED BY <2>3, <2>4
<1> QED BY <1>3, <1>4, <1>5, <1>6, <1>7, <1>8, <1>9, <1>10 DEF CoinsInv

\* At rest every block was passed.
LEMMA AtRestCoins ==
  ASSUME Purse!WalletBounds, PurseInv, CoinsInv PROVE Purse!CoinsAreTheChains
<1> SUFFICES ASSUME Purse!AtRest, NEW c \in Purse!Txs \ Late
             PROVE  /\ c \in Purse!Mined(chain) \ (Purse!Promised \cup missed) =>
                         /\ coin[c].height = Purse!HeightOn(chain, c) /\ ~coin[c].spent
                         /\ coins[c] = coin[c].height
                    /\ c \notin Purse!Mined(chain) => coin[c].height < 0
  BY DEF Purse!CoinsAreTheChains
<1>1. /\ chain \in Seq(Purse!Blocks) /\ Len(chain) \in Nat /\ coin \in [Purse!Txs -> Coins]
      /\ coin[c].height \in Int
  BY CoinTypes DEF PurseInv, RowsTyped, Coins, Purse!Heights, Purse!Absent
<1>2. headers = chain /\ (chain # <<>> => scan.completed /\ scan.target = Len(chain))
  BY DEF Purse!AtRest
<1>3. InPlace /\ Scanned /\ MinedOnce /\ RowsFollow BY <1>2 DEF OnChain, CoinsInv
<1>4. c # "none" BY DEF Purse!Txs, Purse!WalletBounds
<1>5. ASSUME c \in Purse!Mined(chain), c \notin Purse!Promised, c \notin missed
      PROVE  coin[c].height = Purse!HeightOn(chain, c) /\ ~coin[c].spent
             /\ coins[c] = coin[c].height
  <2>1. PICK h \in DOMAIN chain : chain[h].tx = c BY <1>5 DEF Purse!Mined
  <2>2. h \in 1..Len(chain) /\ DOMAIN chain = 1..Len(chain) BY <1>1, <2>1
  <2>3. chain # <<>> BY <2>2
  <2>4. Purse!ResumeAt(scan) = Len(chain) + 1 BY <1>2, <2>3 DEF Purse!ResumeAt
  <2>5. Told(h) BY <1>1, <1>2, <1>3, <2>2, <2>4 DEF Scanned, Passed
  <2>10. ~Comes(headers[h]) BY QuietIsOver DEF Purse!AtRest
  <2>11. Credited(h) BY <1>2, <1>5, <2>1, <2>5, <2>10 DEF Told
  <2>6. coin[c].height = h BY <1>2, <1>4, <1>5, <2>1, <2>11 DEF Credited
  <2>7. \A k \in DOMAIN chain : chain[k].tx = c => k = h
    BY <1>3, <1>4, <2>1, <2>2 DEF MinedOnce
  <2>8. Purse!HeightOn(chain, c) = h BY <2>1, <2>7 DEF Purse!HeightOn
  <2>9. coins[c] = coin[c].height /\ ~coin[c].spent BY <1>3, <1>5 DEF RowsFollow, Alike
  <2> QED BY <2>6, <2>8, <2>9
<1>6. ASSUME c \notin Purse!Mined(chain) PROVE coin[c].height < 0
  <2>1. SUFFICES ASSUME coin[c].height >= 0 PROVE FALSE BY <1>1
  <2>2. coin[c].height \in 1..Len(chain) /\ chain[coin[c].height].tx = c
    BY <1>2, <1>3, <2>1 DEF InPlace
  <2> QED BY <1>1, <1>6, <2>2 DEF Purse!Mined
<1> QED BY <1>5, <1>6

\* CoinsAreTheChains: over replays, loose copies, late headers, replaced blocks,
\* rescans, windows passed before they were answered, lost peers and crashes, a wallet
\* at rest shows every unspent coin of the chain, but those whose answer was lost behind
\* the scan, at the height of its block and no other as confirmed
\* (processIncomingTransaction, reconcileConfirmations, Rescanner).
THEOREM CoinsStayTheChains ==
  ASSUME Purse!WalletBounds PROVE Purse!Spec => []Purse!CoinsAreTheChains
<1>1. Purse!Init => PurseInv /\ CoinsInv BY InitInv, CoinsStart
<1>2. PurseInv /\ CoinsInv /\ [Purse!Next]_(Purse!vars) => (PurseInv /\ CoinsInv)'
  BY NextInv, CoinsStep
<1>3. PurseInv /\ CoinsInv => Purse!CoinsAreTheChains BY AtRestCoins
<1> QED BY <1>1, <1>2, <1>3, PTL DEF Purse!Spec
=============================================================================
