------------------------- MODULE AfterPayment_proofs --------------------------
(*****************************************************************************)
(* What happens to a payment once it was made - it is settled to sellers,    *)
(* disputed, told of by webhooks - proved for any values of the constants.   *)
(* The three share no row, so each is proved by itself: the transfers'       *)
(* module is extended, the others are instances.                             *)
(*****************************************************************************)
EXTENDS Transfers, Sequences, FiniteSetTheorems, TLAPS

-----------------------------------------------------------------------------
(***************************************************************************)
(* Sums over a finite set, as SumFunctionOnSet computes them. The numbers  *)
(* are well founded and so are the parts of a finite set: what holds of    *)
(* the smallest counterexample's parts holds of it.                        *)
(***************************************************************************)
\* The least of some natural numbers, and the smallest of some finite sets: what
\* the inductions below rest on.
LEMMA LeastNumber ==
  ASSUME NEW N \in SUBSET Nat, N # {}
  PROVE  \E m \in N : \A k \in N : m <= k
<1>1. IsWellFoundedOn(OpToRel(<, Nat), Nat) BY NatLessThanWellFounded
<1>2. PICK m \in N : \A k \in N : ~(<<k, m>> \in OpToRel(<, Nat)) BY <1>1, WFMin
<1>3. \A k \in N : ~(k < m) BY <1>2 DEF OpToRel
<1> QED BY <1>3

LEMMA SmallestSet ==
  ASSUME NEW S, IsFiniteSet(S), NEW B \in SUBSET SUBSET S, B # {}
  PROVE  \E s \in B : \A t \in B : t \subseteq s => t = s
<1>1. \A s \in SUBSET S : IsFiniteSet(s) /\ Cardinality(s) \in Nat
  BY FS_Subset, FS_CardinalityType
<1> DEFINE N == {Cardinality(s) : s \in B}
<1>2. N \in SUBSET Nat /\ N # {} BY <1>1
<1> HIDE DEF N
<1>3. PICK m \in N : \A k \in N : m <= k BY <1>2, LeastNumber
<1>4. PICK s \in B : Cardinality(s) = m BY <1>3 DEF N
<1>5. ASSUME NEW t \in B, t \subseteq s, t # s PROVE FALSE
  <2>1. Cardinality(t) \in N BY DEF N
  <2>2. t \in SUBSET s /\ IsFiniteSet(s) BY <1>1, <1>5
  <2>3. Cardinality(t) < Cardinality(s) BY <1>1, <1>5, <2>2, FS_Subset
  <2> QED BY <1>1, <1>3, <1>4, <2>1, <2>3
<1> QED BY <1>5

\* What the fold of SumFunctionOnSet computes for the subsets of S.
Pick(s) == CHOOSE x \in s : TRUE
Sums(g, f, S) ==
  g = [s \in SUBSET S |-> IF s = {} THEN 0 ELSE f[Pick(s)] + g[s \ {Pick(s)}]]

LEMMA SumIs ==
  ASSUME NEW f, NEW S
  PROVE  SumFunctionOnSet(f, S) = (CHOOSE g : Sums(g, f, S))[S]
BY DEF SumFunctionOnSet, FoldFunctionOnSet, MapThenFoldSet, Sums, Pick

LEMMA PickIs == ASSUME NEW s, s # {} PROVE Pick(s) \in s
BY DEF Pick

\* The recursion has a solution: one more element at a time.
LEMMA SumsExist ==
  ASSUME NEW f, NEW S, IsFiniteSet(S)
  PROVE  \E g : Sums(g, f, S)
<1> DEFINE Upto(n) == {s \in SUBSET S : Cardinality(s) <= n}
           Value(g, s) == IF s = {} THEN 0 ELSE f[Pick(s)] + g[s \ {Pick(s)}]
           Solved(n) == \E g : g = [s \in Upto(n) |-> Value(g, s)]
<1>0. \A s \in SUBSET S : IsFiniteSet(s) /\ Cardinality(s) \in Nat
  BY FS_Subset, FS_CardinalityType
<1>1. Solved(0)
  <2>1. \A s \in Upto(0) : s = {} BY <1>0, FS_EmptySet
  <2> DEFINE g == [s \in Upto(0) |-> 0]
  <2>2. \A s \in Upto(0) : Value(g, s) = 0 BY <2>1
  <2>3. g = [s \in Upto(0) |-> Value(g, s)] BY <2>2
  <2> QED BY <2>3
<1>2. ASSUME NEW n \in Nat, Solved(n) PROVE Solved(n + 1)
  <2>1. PICK g : g = [s \in Upto(n) |-> Value(g, s)] BY <1>2
  <2> DEFINE h == [s \in Upto(n + 1) |-> Value(g, s)]
  <2>2. ASSUME NEW s \in Upto(n + 1), s # {} PROVE s \ {Pick(s)} \in Upto(n)
    <3>1. Pick(s) \in s BY <2>2, PickIs
    <3>2. IsFiniteSet(s) /\ Cardinality(s) \in Nat BY <1>0
    <3>3. Cardinality(s \ {Pick(s)}) = Cardinality(s) - 1 BY <3>1, <3>2, FS_RemoveElement
    <3> QED BY <3>2, <3>3
  <2>3. \A s \in Upto(n) : s \in Upto(n + 1) BY <1>0
  <2>4. \A s \in Upto(n) : h[s] = g[s] BY <2>1, <2>3
  <2>5. ASSUME NEW s \in Upto(n + 1) PROVE Value(g, s) = Value(h, s)
    <3>1. s # {} => h[s \ {Pick(s)}] = g[s \ {Pick(s)}] BY <2>2, <2>4
    <3> HIDE DEF h, Upto
    <3> QED BY <3>1
  <2>6. h = [s \in Upto(n + 1) |-> Value(h, s)] BY <2>5
  <2> QED BY <2>6
<1> HIDE DEF Solved
<1>3. \A n \in Nat : Solved(n)
  <2> SUFFICES ASSUME NEW N, N = {n \in Nat : ~Solved(n)}, N # {} PROVE FALSE
    OBVIOUS
  <2>1. PICK m \in N : \A k \in N : m <= k BY LeastNumber
  <2>2. m # 0 BY <1>1
  <2>3. m - 1 \in Nat /\ m - 1 \notin N BY <2>1, <2>2
  <2>4. Solved((m - 1) + 1) BY <1>2, <2>3
  <2> QED BY <2>4
<1>4. Upto(Cardinality(S)) = SUBSET S
  <2>1. \A s \in SUBSET S : Cardinality(s) <= Cardinality(S) BY FS_Subset
  <2> QED BY <2>1
<1>5. Solved(Cardinality(S)) BY <1>0, <1>3
<1> QED BY <1>4, <1>5 DEF Solved, Sums

\* It has one.
LEMMA SumsAgree ==
  ASSUME NEW f, NEW S, IsFiniteSet(S), NEW T, NEW g, NEW h,
         Sums(g, f, S), Sums(h, f, T), NEW s \in SUBSET S, s \subseteq T
  PROVE  g[s] = h[s]
<1> DEFINE B == {t \in SUBSET S : t \subseteq T /\ g[t] # h[t]}
<1> SUFFICES ASSUME B # {} PROVE FALSE OBVIOUS
<1>1. B \in SUBSET SUBSET S OBVIOUS
<1> HIDE DEF B
<1>2. PICK t \in B : \A u \in B : u \subseteq t => u = t BY <1>1, SmallestSet
<1>3. t \in SUBSET S /\ t \in SUBSET T /\ g[t] # h[t] BY <1>2 DEF B
<1>4. /\ g[t] = IF t = {} THEN 0 ELSE f[Pick(t)] + g[t \ {Pick(t)}]
      /\ h[t] = IF t = {} THEN 0 ELSE f[Pick(t)] + h[t \ {Pick(t)}]
  BY <1>3 DEF Sums
<1>5. t # {} BY <1>3, <1>4
<1>6. Pick(t) \in t BY <1>5, PickIs
<1>7. t \ {Pick(t)} \notin B BY <1>2, <1>6
<1>8. g[t \ {Pick(t)}] = h[t \ {Pick(t)}] BY <1>3, <1>7 DEF B
<1> QED BY <1>3, <1>4, <1>8

\* The fold satisfies its equation.
LEMMA SumOfNone == ASSUME NEW f PROVE SumFunctionOnSet(f, {}) = 0
<1>1. IsFiniteSet({}) BY FS_EmptySet
<1>2. PICK g : Sums(g, f, {}) BY <1>1, SumsExist
<1> DEFINE c == CHOOSE k : Sums(k, f, {})
<1>3. Sums(c, f, {}) BY <1>2
<1> HIDE DEF c
<1>4. c[{}] = 0 BY <1>3 DEF Sums
<1> QED BY <1>4, SumIs DEF c

LEMMA SumOfPicked ==
  ASSUME NEW f, NEW S, IsFiniteSet(S), S # {}
  PROVE  SumFunctionOnSet(f, S) = f[Pick(S)] + SumFunctionOnSet(f, S \ {Pick(S)})
<1> DEFINE R == S \ {Pick(S)}
           c == CHOOSE k : Sums(k, f, S)
           d == CHOOSE k : Sums(k, f, R)
<1>1. IsFiniteSet(R) BY FS_Subset
<1>2. Sums(c, f, S) BY SumsExist
<1>3. Sums(d, f, R) BY <1>1, SumsExist
<1>4. SumFunctionOnSet(f, S) = c[S] /\ SumFunctionOnSet(f, R) = d[R] BY SumIs
<1> HIDE DEF c, d
<1>5. c[S] = f[Pick(S)] + c[R] BY <1>2 DEF Sums
<1>6. R \in SUBSET S OBVIOUS
<1> HIDE DEF R
<1>7. c[R] = d[R] BY <1>2, <1>3, <1>6, SumsAgree
<1> QED BY <1>4, <1>5, <1>7 DEF R

LEMMA SumType ==
  ASSUME NEW f, NEW S, IsFiniteSet(S), \A x \in S : f[x] \in Int
  PROVE  SumFunctionOnSet(f, S) \in Int
<1> DEFINE B == {t \in SUBSET S : SumFunctionOnSet(f, t) \notin Int}
<1> SUFFICES ASSUME B # {} PROVE FALSE OBVIOUS
<1>1. B \in SUBSET SUBSET S OBVIOUS
<1> HIDE DEF B
<1>2. PICK t \in B : \A u \in B : u \subseteq t => u = t BY <1>1, SmallestSet
<1>3. t \in SUBSET S /\ SumFunctionOnSet(f, t) \notin Int BY <1>2 DEF B
<1>4. t # {} BY <1>3, SumOfNone
<1>5. Pick(t) \in t /\ IsFiniteSet(t) BY <1>3, <1>4, PickIs, FS_Subset
<1>6. t \ {Pick(t)} \notin B BY <1>2, <1>5
<1>7. SumFunctionOnSet(f, t \ {Pick(t)}) \in Int BY <1>3, <1>6 DEF B
<1>8. f[Pick(t)] \in Int BY <1>3, <1>5
<1>9. SumFunctionOnSet(f, t) = f[Pick(t)] + SumFunctionOnSet(f, t \ {Pick(t)})
  BY <1>4, <1>5, SumOfPicked
<1> QED BY <1>3, <1>7, <1>8, <1>9

\* Whichever element is taken out first.
LEMMA SumTakesOut ==
  ASSUME NEW f, NEW S, IsFiniteSet(S), \A x \in S : f[x] \in Int, NEW y \in S
  PROVE  SumFunctionOnSet(f, S) = f[y] + SumFunctionOnSet(f, S \ {y})
<1> DEFINE Sum(t) == SumFunctionOnSet(f, t)
           B == {t \in SUBSET S : \E x \in t : Sum(t) # f[x] + Sum(t \ {x})}
<1> SUFFICES ASSUME B # {} PROVE FALSE OBVIOUS
<1>0. \A t \in SUBSET S : IsFiniteSet(t) /\ Sum(t) \in Int
  <2>1. \A t \in SUBSET S : IsFiniteSet(t) BY FS_Subset
  <2> QED BY <2>1, SumType
<1>1. B \in SUBSET SUBSET S OBVIOUS
<1> HIDE DEF B
<1>2. PICK t \in B : \A u \in B : u \subseteq t => u = t BY <1>1, SmallestSet
<1>3. PICK x \in t : t \in SUBSET S /\ Sum(t) # f[x] + Sum(t \ {x}) BY <1>2 DEF B
<1> DEFINE p == Pick(t)
<1>4. p \in t BY PickIs
<1>5. Sum(t) = f[p] + Sum(t \ {p}) BY <1>0, <1>3, SumOfPicked
<1> HIDE DEF p, Sum
<1>6. x # p BY <1>3, <1>5
<1> DEFINE q == t \ {p}
           r == t \ {x}
           b == (t \ {p}) \ {x}
<1>7. /\ q \in SUBSET S /\ r \in SUBSET S /\ b \in SUBSET S
      /\ q \subseteq t /\ q # t /\ r \subseteq t /\ r # t
  BY <1>3, <1>4
<1>8. q \notin B /\ r \notin B BY <1>2, <1>7
<1>9. x \in q /\ p \in r /\ q \ {x} = b /\ r \ {p} = b BY <1>4, <1>6
<1> HIDE DEF q, r, b
<1>10. Sum(q) = f[x] + Sum(b) BY <1>7, <1>8, <1>9 DEF B, Sum
<1>11. Sum(r) = f[p] + Sum(b) BY <1>7, <1>8, <1>9 DEF B, Sum
<1>12. f[x] \in Int /\ f[p] \in Int /\ Sum(b) \in Int /\ Sum(t) \in Int
  BY <1>0, <1>3, <1>4, <1>7
<1>13. Sum(t) = f[p] + Sum(q) /\ Sum(t) # f[x] + Sum(r) BY <1>3, <1>5 DEF q, r
<1> QED BY <1>10, <1>11, <1>12, <1>13

\* Term by term no more, in sum no more.
LEMMA SumAtMost ==
  ASSUME NEW f, NEW g, NEW S, IsFiniteSet(S),
         \A x \in S : f[x] \in Int /\ g[x] \in Int /\ f[x] <= g[x]
  PROVE  SumFunctionOnSet(f, S) <= SumFunctionOnSet(g, S)
<1> DEFINE F(t) == SumFunctionOnSet(f, t)
           G(t) == SumFunctionOnSet(g, t)
           B == {t \in SUBSET S : ~(F(t) <= G(t))}
<1> SUFFICES ASSUME B # {} PROVE FALSE OBVIOUS
<1>0. \A t \in SUBSET S : IsFiniteSet(t) BY FS_Subset
<1>1. B \in SUBSET SUBSET S OBVIOUS
<1> HIDE DEF B
<1>2. PICK t \in B : \A u \in B : u \subseteq t => u = t BY <1>1, SmallestSet
<1>3. t \in SUBSET S /\ ~(F(t) <= G(t)) BY <1>2 DEF B
<1>4. t # {} BY <1>3, SumOfNone
<1> DEFINE p == Pick(t)
           q == t \ {p}
<1>5. p \in t BY <1>4, PickIs
<1>6. F(t) = f[p] + F(q) /\ G(t) = g[p] + G(q) BY <1>0, <1>3, <1>4, SumOfPicked
<1>7. q \in SUBSET S /\ q \notin B BY <1>2, <1>3, <1>5
<1>8. F(q) \in Int /\ G(q) \in Int BY <1>0, <1>7, SumType
<1> HIDE DEF p, q, F, G
<1>9. F(q) <= G(q) BY <1>7 DEF B
<1>10. f[p] \in Int /\ g[p] \in Int /\ f[p] <= g[p] BY <1>3, <1>5
<1> QED BY <1>3, <1>6, <1>8, <1>9, <1>10

\* What is left out adds nothing.
LEMMA SumOfPart ==
  ASSUME NEW f, NEW S, IsFiniteSet(S), NEW T \in SUBSET S,
         \A x \in S : f[x] \in Int, \A x \in S \ T : f[x] <= 0
  PROVE  SumFunctionOnSet(f, S) <= SumFunctionOnSet(f, T)
<1> DEFINE F(t) == SumFunctionOnSet(f, t)
           B == {t \in SUBSET S : T \subseteq t /\ ~(F(t) <= F(T))}
<1> SUFFICES ASSUME B # {} PROVE FALSE OBVIOUS
<1>0. \A t \in SUBSET S : IsFiniteSet(t) /\ F(t) \in Int
  <2>1. \A t \in SUBSET S : IsFiniteSet(t) BY FS_Subset
  <2> QED BY <2>1, SumType
<1>1. B \in SUBSET SUBSET S OBVIOUS
<1> HIDE DEF B
<1>2. PICK t \in B : \A u \in B : u \subseteq t => u = t BY <1>1, SmallestSet
<1>3. t \in SUBSET S /\ T \subseteq t /\ ~(F(t) <= F(T)) BY <1>2 DEF B
<1>4. t # T BY <1>0, <1>3
<1>5. PICK p \in t : p \notin T BY <1>3, <1>4
<1> DEFINE q == t \ {p}
<1>6. F(t) = f[p] + F(q) BY <1>0, <1>3, SumTakesOut
<1>7. q \in SUBSET S /\ T \subseteq q /\ q \notin B BY <1>2, <1>3, <1>5
<1> HIDE DEF q, F
<1>8. F(q) <= F(T) BY <1>7 DEF B, F
<1>9. f[p] \in Int /\ f[p] <= 0 /\ F(q) \in Int /\ F(T) \in Int BY <1>0, <1>3, <1>5, <1>7
<1>10. F(t) <= F(T) BY <1>6, <1>8, <1>9
<1> QED BY <1>3, <1>10 DEF F

\* What is added is not negative.
LEMMA SumOfWhole ==
  ASSUME NEW f, NEW S, IsFiniteSet(S), NEW T \in SUBSET S,
         \A x \in S : f[x] \in Int, \A x \in S \ T : f[x] >= 0
  PROVE  SumFunctionOnSet(f, T) <= SumFunctionOnSet(f, S)
<1> DEFINE F(t) == SumFunctionOnSet(f, t)
           B == {t \in SUBSET S : T \subseteq t /\ ~(F(T) <= F(t))}
<1> SUFFICES ASSUME B # {} PROVE FALSE OBVIOUS
<1>0. \A t \in SUBSET S : IsFiniteSet(t) /\ F(t) \in Int
  <2>1. \A t \in SUBSET S : IsFiniteSet(t) BY FS_Subset
  <2> QED BY <2>1, SumType
<1>1. B \in SUBSET SUBSET S OBVIOUS
<1> HIDE DEF B
<1>2. PICK t \in B : \A u \in B : u \subseteq t => u = t BY <1>1, SmallestSet
<1>3. t \in SUBSET S /\ T \subseteq t /\ ~(F(T) <= F(t)) BY <1>2 DEF B
<1>4. t # T BY <1>0, <1>3
<1>5. PICK p \in t : p \notin T BY <1>3, <1>4
<1> DEFINE q == t \ {p}
<1>6. F(t) = f[p] + F(q) BY <1>0, <1>3, SumTakesOut
<1>7. q \in SUBSET S /\ T \subseteq q /\ q \notin B BY <1>2, <1>3, <1>5
<1> HIDE DEF q, F
<1>8. F(T) <= F(q) BY <1>7 DEF B, F
<1>9. f[p] \in Int /\ f[p] >= 0 /\ F(q) \in Int /\ F(T) \in Int BY <1>0, <1>3, <1>5, <1>7
<1>10. F(T) <= F(t) BY <1>6, <1>8, <1>9
<1> QED BY <1>3, <1>10 DEF F

-----------------------------------------------------------------------------
(*****************************************************************************)
(* Settlements and reversals, for any workers, references, sellers,          *)
(* amounts and bounds. That a row says of what came back what the acquirer   *)
(* says rests on where the latest total is: in the row, or still unread.     *)
(* That a reversal ends as the acquirer ended it rests on one request ever   *)
(* holding it, which knows at every step what was taken.                     *)
(*****************************************************************************)
TransferType ==
  [status : TransferStatuses, amount : Amounts \cup {0}, seller : AllSellers \cup {"none"},
   linked : BOOLEAN, reversed : Nat]
JobType ==
  [pc : Pcs, ref : Refs \cup {"none"}, seller : AllSellers \cup {"none"},
   amount : Amounts \cup {0}, rev : ReversalRefs \cup {"none"}, total : Nat]

Settling == {"find", "insert", "send", "paid", "refuse"}
Reversing == {"reverse", "total", "mark", "apply", "reverse_refuse"}

\* What a request at work names.
Names(j) ==
  /\ j.pc \in Settling => j.ref \in Refs /\ j.seller \in Sellers[j.ref] /\ j.amount \in Amounts
  /\ j.pc \in Reversing => j.ref \in Refs /\ j.rev \in ReversalRefs /\ j.amount \in Amounts

Rows ==
  /\ transfer \in [Refs -> TransferType]
  /\ reversal \in [ReversalRefs -> [status : {"none", "pending", "succeeded", "failed"},
                                    of : Refs \cup {"none"}, amount : Amounts \cup {0}]]
Acquirer ==
  /\ sent \in [Refs -> [amount : Amounts \cup {0}, seller : AllSellers \cup {"none"},
                        reversed : Nat]]
  /\ refused \subseteq Refs
  /\ taken \in [ReversalRefs -> Amounts \cup {0}]
  /\ unread \subseteq [ref : Refs, total : Nat]
Jobs == job \in [Workers -> JobType] /\ \A w \in Workers : Names(job[w])
Counts ==
  /\ faults \in 0..MaxFaults /\ outside \in 0..MaxOutside
  /\ misread \subseteq Refs \cup ReversalRefs

Types == Rows /\ Acquirer /\ Jobs /\ Counts

\* Nothing comes back of a settlement that was not made; the acquirer takes back
\* what it sent at most; and the latest total is in the row or still unread.
RowTotals(r) ==
  /\ transfer[r].status = "none" => ~transfer[r].linked /\ transfer[r].reversed = 0
  /\ sent[r].reversed <= sent[r].amount
  /\ transfer[r].reversed <= sent[r].reversed
  /\ \/ transfer[r].reversed = sent[r].reversed
     \/ [ref |-> r, total |-> sent[r].reversed] \in unread

\* A total that was read or announced was reached.
Reached(j) ==
  /\ j.pc \in Reversing => transfer[j.ref].linked
  /\ j.pc \in {"mark", "apply"} => j.total <= sent[j.ref].reversed

Totals ==
  /\ \A r \in Refs : RowTotals(r)
  /\ \A e \in unread : e.total <= sent[e.ref].reversed
  /\ \A w \in Workers : Reached(job[w])

\* What the acquirer did for the reversal a request holds.
Took(j) ==
  j.pc \in Reversing =>
    /\ reversal[j.rev].amount = j.amount
    /\ reversal[j.rev].status = IF j.pc = "apply" THEN "succeeded" ELSE "pending"
    /\ j.pc = "reverse" => taken[j.rev] = 0
    /\ j.pc = "reverse_refuse" => taken[j.rev] = 0 \/ j.rev \in misread
    /\ j.pc \in {"total", "mark", "apply"} => taken[j.rev] = j.amount

Takings ==
  /\ \A w \in Workers : Took(job[w])
  /\ \A w, x \in Workers :
       job[w].pc \in Reversing /\ job[x].pc \in Reversing /\ job[w].rev = job[x].rev => w = x
  /\ \A v \in ReversalRefs : reversal[v].status = "none" => taken[v] = 0

-----------------------------------------------------------------------------
\* A request moves to a job whose names are right.
LEMMA JobMoves ==
  ASSUME Jobs, NEW w \in Workers, NEW j \in JobType, Names(j), Go(w, j)
  PROVE  Jobs' /\ job'[w] = j /\ \A x \in Workers \ {w} : job'[x] = job[x]
BY DEF Jobs, Go

LEMMA JobFrame ==
  ASSUME Jobs, NEW w \in Workers, NEW j, Go(w, j)
  PROVE  job'[w] = j /\ \A x \in Workers \ {w} : job'[x] = job[x]
BY DEF Jobs, Go

\* A request that moves on, keeping what it holds.
LEMMA JobSteps ==
  ASSUME Jobs, NEW w \in Workers, NEW pc \in Pcs, Step(w, pc),
         pc \in Settling => job[w].pc \in Settling,
         pc \in Reversing => job[w].pc \in Reversing
  PROVE  /\ Jobs' /\ \A x \in Workers \ {w} : job'[x] = job[x]
         /\ job'[w] = [job[w] EXCEPT !.pc = pc]
<1> DEFINE j == [job[w] EXCEPT !.pc = pc]
<1>1. job[w] \in JobType /\ Names(job[w]) BY DEF Jobs
<1>2. j \in JobType /\ Names(j) BY <1>1 DEF JobType, Names
<1> QED BY <1>2, JobMoves DEF Step

LEMMA JobEnds ==
  ASSUME Jobs, NEW w \in Workers, Finish(w)
  PROVE  Jobs' /\ job'[w] = Idle /\ \A x \in Workers \ {w} : job'[x] = job[x]
<1>1. Idle \in JobType /\ Names(Idle)
  BY DEF Idle, JobType, Names, Pcs, Settling, Reversing
<1> QED BY <1>1, JobMoves DEF Finish

\* What a request at work holds.
LEMMA AtWork ==
  ASSUME Jobs, NEW w \in Workers
  PROVE  /\ job[w] \in JobType /\ Names(job[w])
         /\ job[w].pc \in Settling \cup Reversing => Ref(w) \in Refs
BY DEF Jobs, Names, Ref

\* Writing one field of one row.
LEMMA StatusWritten ==
  ASSUME NEW t \in [Refs -> TransferType], NEW r \in Refs,
         NEW s \in TransferStatuses, NEW b \in BOOLEAN,
         NEW n, n = [t EXCEPT ![r].status = s, ![r].linked = b]
  PROVE  /\ n \in [Refs -> TransferType]
         /\ \A q \in Refs : n[q].reversed = t[q].reversed
         /\ \A q \in Refs \ {r} : n[q] = t[q]
         /\ n[r].status = s /\ n[r].linked = b
BY ZenonT(60) DEF TransferType

\* ReversedTo keeps what is linked, and raises the total or leaves it.
LEMMA Reversed ==
  ASSUME TransferBounds, transfer \in [Refs -> TransferType], NEW r \in Refs, NEW total
    \in Nat
  PROVE  LET t == ReversedTo(r, total) IN
         /\ t \in [Refs -> TransferType]
         /\ \A q \in Refs \ {r} : t[q] = transfer[q]
         /\ t[r].linked = transfer[r].linked
         /\ t[r].reversed = IF total >= transfer[r].reversed THEN total
                            ELSE transfer[r].reversed
         /\ transfer[r].status # "none" => t[r].status # "none"
<1>1. transfer[r] \in TransferType OBVIOUS
<1>2. StatusFor(r, total) \in TransferStatuses
  BY <1>1 DEF StatusFor, TransferType, TransferStatuses
<1>3. transfer[r].status # "none" => StatusFor(r, total) # "none"
  BY <1>1 DEF StatusFor, TransferType, TransferBounds
<1> QED BY <1>1, <1>2, <1>3 DEF ReversedTo, TransferType

-----------------------------------------------------------------------------
LEMMA TypesStart == ASSUME TransferBounds PROVE Init => Types
<1>1. Idle \in JobType /\ Names(Idle)
  BY DEF Idle, JobType, Names, Pcs, Settling, Reversing
<1> QED BY <1>1 DEF Init, Types, Rows, Acquirer, Jobs, Counts, TransferBounds, NoTransfer,
     NotSent, NoReversal, TransferType, TransferStatuses

LEMMA TypesOfSettling ==
  ASSUME TransferBounds, Types, NEW w \in Workers,
         \/ AskTransfer(w) \/ FindTransfer(w) \/ InsertTransfer(w) \/ SendTransfer(w)
         \/ SendTransferLost(w) \/ MarkTransferPaid(w) \/ MarkTransferFailed(w)
  PROVE  Types'
<1> DEFINE j == job[w]
<1>0. Rows /\ Acquirer /\ Jobs /\ Counts BY DEF Types
<1>j. j \in JobType /\ Names(j) /\ (j.pc \in Settling => Ref(w) \in Refs)
  BY <1>0, AtWork
<1>p. /\ "find" \in Settling /\ "insert" \in Settling /\ "send" \in Settling
      /\ "paid" \in Settling /\ "refuse" \in Settling
      /\ Settling \subseteq Pcs /\ Reversing \subseteq Pcs /\ Settling \cap Reversing = {}
  BY DEF Settling, Reversing, Pcs
<1>1. CASE AskTransfer(w)
  <2>1. PICK r \in Refs, s \in AllSellers, a \in Amounts :
          /\ s \in Sellers[r]
          /\ Go(w, [Idle EXCEPT !.pc = "find", !.ref = r, !.seller = s, !.amount = a])
    BY <1>1 DEF AskTransfer, AllSellers
  <2> DEFINE k == [Idle EXCEPT !.pc = "find", !.ref = r, !.seller = s, !.amount = a]
  <2>2. k \in JobType BY DEF Idle, JobType, Pcs
  <2>3. Go(w, k) BY <2>1
  <2>4. k.pc = "find" /\ k.ref = r /\ k.seller = s /\ k.amount = a BY DEF Idle
  <2> HIDE DEF k
  <2>5. Names(k) BY <2>1, <2>4 DEF Names, Settling, Reversing
  <2>6. Jobs' BY <1>0, <2>2, <2>3, <2>5, JobMoves
  <2> QED BY <1>0, <1>1, <2>6 DEF AskTransfer, Types, Rows, Acquirer, Counts, acquirer
<1>2. CASE FindTransfer(w)
  <2>1. Finish(w) \/ Step(w, "send") \/ Step(w, "insert")
    BY <1>2 DEF FindTransfer
  <2>2. Jobs' BY <1>0, <1>2, <1>p, <2>1, JobSteps, JobEnds DEF FindTransfer, At
  <2> QED BY <1>0, <1>2, <2>2 DEF FindTransfer, Types, Rows, Acquirer, Counts, acquirer
<1>3. CASE InsertTransfer(w)
  <2>1. Jobs'
    BY <1>0, <1>3, <1>p, JobSteps, JobEnds DEF InsertTransfer, At
  <2> DEFINE new == [status |-> "pending", amount |-> j.amount, seller |-> j.seller,
                     linked |-> FALSE, reversed |-> 0]
  <2>2. new \in TransferType
    BY <1>3, <1>j DEF InsertTransfer, At, Names, Settling, TransferType, TransferStatuses,
       AllSellers
  <2>3. transfer' = transfer \/ transfer' = [transfer EXCEPT ![Ref(w)] = new]
    BY <1>3 DEF InsertTransfer
  <2> QED BY <1>0, <1>3, <2>1, <2>2, <2>3 DEF InsertTransfer, Types, Rows, Acquirer, Counts,
          acquirer
<1>4. CASE SendTransfer(w)
  <2>1. Jobs'
    BY <1>0, <1>4, <1>p, JobSteps DEF SendTransfer, At
  <2>2. Acquirer'
    BY SMTT(60), <1>0, <1>4, <1>j DEF SendTransfer, At, Names, Settling, Rows, Acquirer,
      TransferType,
       Ref, AllSellers
  <2>3. misread' \subseteq misread \cup {Ref(w)} BY <1>4 DEF SendTransfer
  <2>4. Counts' BY <1>0, <1>4, <1>j, <1>p, <2>3 DEF SendTransfer, At, Counts
  <2> QED BY <1>0, <1>4, <2>1, <2>2, <2>4 DEF SendTransfer, Types, Rows
<1>5. CASE SendTransferLost(w)
  <2>1. Jobs'
    BY <1>0, <1>5, JobEnds DEF SendTransferLost
  <2>2. Acquirer'
    BY <1>0, <1>5, <1>j DEF SendTransferLost, At, Names, Settling, Rows, Acquirer,
       TransferType, Ref, AllSellers
  <2> QED BY <1>0, <1>5, <2>1, <2>2 DEF SendTransferLost, Types, Rows, Counts, Fault,
             TransferBounds
<1>6. CASE MarkTransferPaid(w)
  <2>1. Jobs'
    BY <1>0, <1>6, JobEnds DEF MarkTransferPaid
  <2>2. transfer' \in [Refs -> TransferType]
    <3>1. PICK r \in Refs : r = Ref(w) BY <1>6, <1>j, <1>p DEF MarkTransferPaid, At
    <3>2. transfer \in [Refs -> TransferType] /\ "paid" \in TransferStatuses
            /\ TRUE \in BOOLEAN
      BY <1>0 DEF Rows, TransferStatuses
    <3>3. CASE transfer' = [transfer EXCEPT ![r].status = "paid", ![r].linked = TRUE]
      <4>1. r \in Refs OBVIOUS
      <4> QED BY ONLY ZenonT(60), <3>2, <3>3, <4>1 DEF TransferType
    <3> QED BY <1>6, <3>1, <3>2, <3>3 DEF MarkTransferPaid
  <2> QED BY <1>0, <1>6, <2>1, <2>2 DEF MarkTransferPaid, Types, Rows, Acquirer, Counts,
             acquirer
<1>7. CASE MarkTransferFailed(w)
  <2>1. Jobs'
    BY <1>0, <1>7, JobEnds DEF MarkTransferFailed
  <2>2. transfer' \in [Refs -> TransferType]
    BY <1>0, <1>7, ZenonT(60) DEF MarkTransferFailed, Rows, TransferType, TransferStatuses
  <2> QED BY <1>0, <1>7, <2>1, <2>2 DEF MarkTransferFailed, Types, Rows, Acquirer, Counts,
             acquirer
<1> QED BY <1>1, <1>2, <1>3, <1>4, <1>5, <1>6, <1>7

\* What the acquirer takes back, it had sent, and the total it announces is a total.
LEMMA TakesTyped ==
  ASSUME TransferBounds, Acquirer, NEW r \in Refs, NEW a \in Amounts, Takes(r, a)
  PROVE  /\ sent' \in [Refs -> [amount : Amounts \cup {0}, seller : AllSellers \cup {"none"},
                                 reversed : Nat]]
         /\ unread' \subseteq [ref : Refs, total : Nat]
         /\ sent'[r].reversed = sent[r].reversed + a /\ sent'[r].amount = sent[r].amount
         /\ \A q \in Refs \ {r} : sent'[q] = sent[q]
<1>1. sent[r].reversed \in Nat /\ a \in Nat BY DEF Acquirer, TransferBounds
<1> QED BY <1>1 DEF Takes, Acquirer

LEMMA TypesOfReversing ==
  ASSUME TransferBounds, Types, NEW w \in Workers,
         \/ AskReversal(w) \/ SendReversal(w) \/ ReadTotal(w) \/ MarkReversalSucceeded(w)
         \/ ApplyTotal(w) \/ MarkReversalFailed(w) \/ RefusedForItself(w) \/ Abort(w)
  PROVE  Types'
<1> DEFINE j == job[w]
<1>0. Rows /\ Acquirer /\ Jobs /\ Counts BY DEF Types
<1>j. /\ j \in JobType /\ Names(j)
      /\ j.pc \in Reversing
           => Ref(w) \in Refs /\ j.rev \in ReversalRefs /\ j.amount \in Amounts
  BY <1>0, AtWork DEF Names
<1>p. /\ "reverse" \in Reversing /\ "total" \in Reversing /\ "mark" \in Reversing
      /\ "apply" \in Reversing /\ "reverse_refuse" \in Reversing /\ "refuse" \in Settling
      /\ "send" \in Settling
      /\ Settling \subseteq Pcs /\ Reversing \subseteq Pcs /\ Settling \cap Reversing = {}
  BY DEF Settling, Reversing, Pcs
<1>1. CASE AskReversal(w)
  <2>1. PICK r \in Refs, v \in ReversalRefs, a \in Amounts :
          /\ reversal'
               = [reversal EXCEPT ![v] = [status |-> "pending", of |-> r, amount |-> a]]
          /\ Go(w, [Idle EXCEPT !.pc = "reverse", !.ref = r, !.rev = v, !.amount = a])
    BY <1>1 DEF AskReversal
  <2> DEFINE k == [Idle EXCEPT !.pc = "reverse", !.ref = r, !.rev = v, !.amount = a]
  <2>2. k \in JobType /\ Names(k)
    BY DEF Idle, JobType, Names, Pcs, Settling, Reversing
  <2>3. Jobs' BY <1>0, <2>1, <2>2, JobMoves
  <2> QED BY <1>0, <1>1, <2>1, <2>3 DEF AskReversal, Types, Rows, Acquirer, Counts, acquirer
<1>2. CASE SendReversal(w)
  <2>1. Jobs'
    BY <1>0, <1>2, <1>p, JobSteps, JobEnds DEF SendReversal, At
  <2>2. Acquirer'
    BY <1>0, <1>2, <1>j, <1>p, TakesTyped DEF SendReversal, At, Acquirer
  <2> QED BY <1>0, <1>2, <2>1, <2>2 DEF SendReversal, Types, Rows, Counts, Fault,
             TransferBounds
<1>3. CASE ReadTotal(w)
  <2> DEFINE k == [job[w] EXCEPT !.pc = "mark", !.total = sent[Ref(w)].reversed]
  <2>1. sent[Ref(w)].reversed \in Nat
    BY <1>0, <1>3, <1>j, <1>p DEF ReadTotal, At, Acquirer
  <2>2. k \in JobType /\ Names(k)
    BY <1>3, <1>j, <1>p, <2>1 DEF ReadTotal, At, JobType, Names
  <2>3. Jobs' BY <1>0, <1>3, <2>2, JobMoves DEF ReadTotal
  <2> QED BY <1>0, <1>3, <2>3 DEF ReadTotal, Types, Rows, Acquirer, Counts, acquirer
<1>4. CASE MarkReversalSucceeded(w)
  <2>1. Jobs' BY <1>0, <1>4, <1>p, JobSteps DEF MarkReversalSucceeded, At
  <2>2. reversal' \in [ReversalRefs -> [status : {"none", "pending", "succeeded", "failed"},
                                        of : Refs \cup {"none"}, amount : Amounts \cup {0}]]
    BY ZenonT(60), <1>0, <1>4 DEF MarkReversalSucceeded, Rows
  <2> QED BY <1>0, <1>4, <2>1, <2>2 DEF MarkReversalSucceeded, Types, Rows, Acquirer, Counts,
          acquirer
<1>5. CASE ApplyTotal(w)
  <2>1. Jobs' BY <1>0, <1>5, JobEnds DEF ApplyTotal
  <2>2. transfer' \in [Refs -> TransferType]
    BY <1>0, <1>5, <1>j, <1>p, Reversed DEF ApplyTotal, At, Rows, JobType
  <2> QED BY <1>0, <1>5, <2>1, <2>2 DEF ApplyTotal, Types, Rows, Acquirer, Counts, acquirer
<1>6. CASE MarkReversalFailed(w)
  <2>1. Jobs' BY <1>0, <1>6, JobEnds DEF MarkReversalFailed
  <2>2. reversal' \in [ReversalRefs -> [status : {"none", "pending", "succeeded", "failed"},
                                        of : Refs \cup {"none"}, amount : Amounts \cup {0}]]
    BY <1>0, <1>6 DEF MarkReversalFailed, Rows
  <2> QED BY <1>0, <1>6, <2>1, <2>2 DEF MarkReversalFailed, Types, Rows, Acquirer, Counts,
             acquirer
<1>7. CASE RefusedForItself(w)
  <2>1. Jobs' BY <1>0, <1>7, <1>p, JobSteps DEF RefusedForItself, At
  <2>2. Ref(w) \in Refs \/ ~At(w, "send") BY <1>0, <1>p, AtWork DEF At
  <2>3. j.rev \in ReversalRefs \/ ~At(w, "total") BY <1>j, <1>p DEF At
  <2>4. misread' \subseteq Refs \cup ReversalRefs
    BY <1>0, <1>7, <2>2, <2>3 DEF RefusedForItself, Counts
  <2>5. Counts' BY <1>0, <1>7, <2>4 DEF RefusedForItself, Fault, Counts, TransferBounds
  <2> QED BY <1>0, <1>7, <2>1, <2>5 DEF RefusedForItself, Types, Rows, Acquirer, acquirer
<1>8. CASE Abort(w)
  <2>1. Jobs' BY <1>0, <1>8, JobEnds DEF Abort
  <2>2. Counts' BY <1>0, <1>8 DEF Abort, Fault, Counts, TransferBounds
  <2> QED BY <1>0, <1>8, <2>1, <2>2 DEF Abort, Types, Rows, Acquirer, acquirer
<1> QED BY <1>1, <1>2, <1>3, <1>4, <1>5, <1>6, <1>7, <1>8

\* Every step keeps the types.
LEMMA TypesStep == ASSUME TransferBounds, Types, [Next]_vars PROVE Types'
<1>0. Rows /\ Acquirer /\ Jobs /\ Counts BY DEF Types
<1>1. ASSUME NEW e \in unread, HandleTransferEvent(e) PROVE Types'
  <2>1. e.ref \in Refs /\ e.total \in Nat BY <1>0 DEF Acquirer
  <2>2. transfer' \in [Refs -> TransferType]
    BY <1>0, <1>1, <2>1, Reversed DEF HandleTransferEvent, Rows
  <2> QED BY <1>0, <1>1, <2>2 DEF HandleTransferEvent, Types, Rows, Acquirer, Jobs, Counts,
          acquirer, Fault, TransferBounds
<1>2. ASSUME NEW r \in Refs, ReversedOutside(r) PROVE Types'
  <2>1. Acquirer'
    BY <1>0, <1>2, TakesTyped DEF ReversedOutside, Acquirer
  <2> QED BY <1>0, <1>2, <2>1 DEF ReversedOutside, Types, Rows, Jobs, Counts, TransferBounds
<1>3. CASE UNCHANGED vars
  BY <1>0, <1>3 DEF Types, Rows, Acquirer, Jobs, Counts, vars, acquirer
<1> QED BY <1>1, <1>2, <1>3, TypesOfSettling, TypesOfReversing DEF Next

LEMMA TypesAlways == ASSUME TransferBounds PROVE Spec => []Types
BY TypesStart, TypesStep, PTL DEF Spec

\* Type correctness of settlements, reversals, and the acquirer's side of both.
THEOREM TypesHold == ASSUME TransferBounds PROVE Spec => []TypeOK
<1>1. Types => TypeOK
  BY DEF Types, Rows, Acquirer, Jobs, Counts, TypeOK, TransferType, JobType
<1> QED BY <1>1, TypesAlways, PTL

-----------------------------------------------------------------------------
\* What the acquirer took back only grows, and a linked row stays linked.
Grown ==
  \A r \in Refs : /\ sent[r].reversed <= sent'[r].reversed
                  /\ transfer[r].linked => transfer'[r].linked

LEMMA TotalsStart == ASSUME TransferBounds PROVE Init => Totals
BY DEF Init, Totals, RowTotals, Reached, NoTransfer, NotSent, Idle, Reversing

\* A total reached stays reached.
LEMMA ReachedKept ==
  ASSUME Acquirer, Acquirer', Grown, NEW j \in JobType, Names(j), Reached(j)
  PROVE  Reached(j)'
<1>1. "mark" \in Reversing /\ "apply" \in Reversing BY DEF Reversing
<1>2. CASE j.pc \in Reversing
  <2>1. j.ref \in Refs /\ j.total \in Nat BY <1>2 DEF Names, JobType
  <2>2. sent[j.ref].reversed \in Nat /\ sent'[j.ref].reversed \in Nat
    BY <2>1 DEF Acquirer
  <2> QED BY <2>1, <2>2 DEF Grown, Reached
<1> QED BY <1>1, <1>2 DEF Reached

\* What has to be shown of a step of one request.
LEMMA TotalsKept ==
  ASSUME Types, Types', Totals, Grown, NEW w \in Workers,
         \A x \in Workers \ {w} : job'[x] = job[x], Reached(job[w])',
         \A r \in Refs : RowTotals(r)', \A e \in unread' : e.total <= sent'[e.ref].reversed
  PROVE  Totals'
<1>1. ASSUME NEW x \in Workers \ {w} PROVE Reached(job[x])'
  <2>1. PICK j \in JobType : j = job[x] BY DEF Types, Jobs
  <2>2. Names(j) /\ Reached(j) /\ Acquirer /\ Acquirer' /\ job'[x] = j
    BY <2>1 DEF Types, Jobs, Totals
  <2>3. Reached(j)' BY <2>2, ReachedKept
  <2> QED BY <2>2, <2>3 DEF Reached
<1> QED BY <1>1 DEF Totals

\* What has to be shown of a step that no request takes.
LEMMA TotalsOfRows ==
  ASSUME Types, Types', Totals, Grown, job' = job,
         \A r \in Refs : RowTotals(r)', \A e \in unread' : e.total <= sent'[e.ref].reversed
  PROVE  Totals'
<1>1. ASSUME NEW x \in Workers PROVE Reached(job[x])'
  <2>1. PICK j \in JobType : j = job[x] BY DEF Types, Jobs
  <2>2. Names(j) /\ Reached(j) /\ Acquirer /\ Acquirer' /\ job'[x] = j
    BY <2>1 DEF Types, Jobs, Totals
  <2>3. Reached(j)' BY <2>2, ReachedKept
  <2> QED BY <2>2, <2>3 DEF Reached
<1> QED BY <1>1 DEF Totals

\* Rows and totals that a step leaves alone.
LEMMA TotalsFramed ==
  ASSUME Types, Types', Totals, NEW w \in Workers,
         \A x \in Workers \ {w} : job'[x] = job[x], Reached(job[w])',
         UNCHANGED <<transfer, sent, unread>>
  PROVE  Totals'
<1>1. \A r \in Refs : RowTotals(r)' BY DEF Totals, RowTotals
<1>2. \A e \in unread' : e.total <= sent'[e.ref].reversed BY DEF Totals
<1>3. Grown BY DEF Grown, Types, Acquirer
<1> QED BY <1>1, <1>2, <1>3, TotalsKept

\* Applying a total that was reached, to a linked row.
LEMMA TotalsApplied ==
  ASSUME TransferBounds, Types, Totals, NEW r \in Refs, NEW total \in Nat,
         transfer[r].linked, total <= sent[r].reversed,
         transfer' = ReversedTo(r, total), sent' = sent,
         unread' \subseteq unread, unread \subseteq unread' \cup {[ref |-> r,
             total |-> total]}
  PROVE  /\ Grown /\ \A q \in Refs : RowTotals(q)'
         /\ \A e \in unread' : e.total <= sent'[e.ref].reversed
<1>0. Rows /\ Acquirer BY DEF Types
<1>1. /\ \A q \in Refs \ {r} : transfer'[q] = transfer[q]
      /\ transfer'[r].linked = transfer[r].linked
      /\ transfer'[r].reversed = IF total >= transfer[r].reversed THEN total
                                ELSE transfer[r].reversed
      /\ transfer[r].status # "none" => transfer'[r].status # "none"
  BY <1>0, Reversed, ZenonT(60) DEF Rows
<1>2. Grown
  <2>1. \A q \in Refs : sent[q].reversed \in Nat BY <1>0 DEF Acquirer
  <2>2. \A q \in Refs : sent'[q] = sent[q] OBVIOUS
  <2>3. \A q \in Refs : transfer[q].linked => transfer'[q].linked BY <1>1
  <2> QED BY <2>1, <2>2, <2>3 DEF Grown
<1>3. \A q \in Refs \ {r} : RowTotals(q)' BY <1>1 DEF Totals, RowTotals
<1>4. RowTotals(r)'
  <2>1. transfer[r].reversed \in Nat /\ sent[r].reversed \in Nat
    BY <1>0 DEF Rows, Acquirer, TransferType
  <2>2. RowTotals(r) BY DEF Totals
  <2>3. CASE [ref |-> r, total |-> sent[r].reversed] \in unread'
    BY <1>1, <2>1, <2>2, <2>3 DEF RowTotals
  <2>4. CASE [ref |-> r, total |-> sent[r].reversed] \notin unread'
    <3>1. transfer[r].reversed = sent[r].reversed \/ total = sent[r].reversed
      BY <2>2, <2>4 DEF RowTotals
    <3> QED BY <1>1, <2>1, <2>2, <3>1 DEF RowTotals
  <2> QED BY <2>3, <2>4
<1>5. \A e \in unread' : e.total <= sent'[e.ref].reversed BY DEF Totals
<1> QED BY <1>2, <1>3, <1>4, <1>5

\* Taking money back, for a request or at the acquirer itself.
LEMMA TotalsTaken ==
  ASSUME TransferBounds, Types, Totals, NEW r \in Refs, NEW a \in Amounts, Takes(r, a),
         transfer' = transfer
  PROVE  /\ Grown /\ \A q \in Refs : RowTotals(q)'
         /\ \A e \in unread' : e.total <= sent'[e.ref].reversed
<1>0. Rows /\ Acquirer BY DEF Types
<1>1. /\ sent'[r].reversed = sent[r].reversed + a /\ sent'[r].amount = sent[r].amount
      /\ \A q \in Refs \ {r} : sent'[q] = sent[q]
  BY <1>0, TakesTyped
<1>2. /\ \A q \in Refs : sent[q].reversed \in Nat
      /\ transfer[r].reversed \in Nat /\ a \in Nat /\ sent[r].amount \in Nat
  <2>1. Amounts \cup {0} \subseteq Nat BY DEF TransferBounds
  <2>2. transfer[r] \in TransferType BY <1>0 DEF Rows
  <2> QED BY <1>0, <2>1, <2>2 DEF Acquirer, TransferType
<1>3. Grown BY <1>1, <1>2 DEF Grown
<1>4. \A q \in Refs \ {r} : RowTotals(q)' BY <1>1 DEF Totals, RowTotals, Takes
<1>5. RowTotals(r)'
  <2>1. [ref |-> r, total |-> sent'[r].reversed] \in unread' BY <1>1 DEF Takes
  <2>2. RowTotals(r) /\ sent'[r].reversed <= sent'[r].amount
    BY <1>1 DEF Totals, Takes
  <2> QED BY <1>1, <1>2, <2>1, <2>2 DEF RowTotals
<1>6. ASSUME NEW e \in unread' PROVE e.total <= sent'[e.ref].reversed
  <2>1. CASE e \in unread
    <3>1. e.ref \in Refs /\ e.total \in Nat /\ e.total <= sent[e.ref].reversed
      BY <1>0, <2>1 DEF Acquirer, Totals
    <3>2. sent[e.ref].reversed <= sent'[e.ref].reversed
      BY <1>3, <3>1 DEF Grown
    <3>3. sent[e.ref].reversed \in Nat /\ sent'[e.ref].reversed \in Nat
      BY <1>0, <1>1, <1>2, <3>1 DEF Acquirer
    <3> QED BY <3>1, <3>2, <3>3
  <2>2. CASE e = [ref |-> r, total |-> sent[r].reversed + a] BY <1>1, <1>2, <2>2
  <2> QED BY <2>1, <2>2 DEF Takes
<1> QED BY <1>3, <1>4, <1>5, <1>6

\* A request that changes no row and no total.
LEMMA TotalsOfBookkeeping ==
  ASSUME TransferBounds, Types, Types', Totals, NEW w \in Workers,
         \/ AskTransfer(w) \/ FindTransfer(w) \/ AskReversal(w) \/ ReadTotal(w)
         \/ MarkReversalSucceeded(w) \/ MarkReversalFailed(w) \/ RefusedForItself(w)
              \/ Abort(w)
  PROVE  Totals'
<1>1. UNCHANGED <<transfer, sent, unread>>
  BY DEF AskTransfer, FindTransfer, AskReversal, ReadTotal, MarkReversalSucceeded,
         MarkReversalFailed, RefusedForItself, Abort, acquirer
<1>2. /\ job[w] \in JobType /\ Names(job[w]) /\ Reached(job[w]) /\ Jobs /\ Jobs'
      /\ \A r \in Refs : sent[r].reversed \in Nat
  BY DEF Types, Jobs, Totals, Acquirer
<1>3. (\A x \in Workers \ {w} : job'[x] = job[x]) /\ Reached(job[w])'
  <2> USE <1>1, <1>2 DEF Step, Finish, At
  <2>1. CASE AskTransfer(w)
    <3>1. PICK r \in Refs, s \in AllSellers, a \in Amounts :
            /\ s \in Sellers[r]
            /\ Go(w, [Idle EXCEPT !.pc = "find", !.ref = r, !.seller = s, !.amount = a])
      BY <2>1 DEF AskTransfer, AllSellers
    <3>2. job'[w].pc = "find" /\ \A x \in Workers \ {w} : job'[x] = job[x]
      <4> DEFINE k == [Idle EXCEPT !.pc = "find", !.ref = r, !.seller = s, !.amount = a]
      <4>1. k.pc = "find" BY DEF Idle
      <4> HIDE DEF k
      <4> QED BY <3>1, <4>1, JobFrame DEF k
    <3> QED BY <3>2 DEF Reached, Reversing
  <2>2. CASE FindTransfer(w)
    <3>1. Finish(w) \/ Step(w, "send") \/ Step(w, "insert") BY <2>2 DEF FindTransfer
    <3>2. job'[w].pc \in {"idle", "send", "insert"}
            /\ \A x \in Workers \ {w} : job'[x] = job[x]
      BY <3>1, JobFrame DEF Idle, JobType
    <3> QED BY <3>2 DEF Reached, Reversing
  <2>3. CASE AskReversal(w)
    <3>1. PICK r \in Refs, v \in ReversalRefs, a \in Amounts :
            /\ transfer[r].linked
            /\ Go(w, [Idle EXCEPT !.pc = "reverse", !.ref = r, !.rev = v, !.amount = a])
      BY <2>3 DEF AskReversal
    <3>2. /\ job'[w].pc = "reverse" /\ job'[w].ref = r
          /\ \A x \in Workers \ {w} : job'[x] = job[x]
      BY <3>1, JobFrame DEF Idle
    <3> QED BY <3>1, <3>2 DEF Reached, Reversing
  <2>4. CASE ReadTotal(w)
    <3>1. Ref(w) \in Refs BY <2>4 DEF ReadTotal, Names, Reversing, Ref
    <3>2. /\ job'[w].pc = "mark" /\ job'[w].ref = Ref(w)
          /\ job'[w].total = sent[Ref(w)].reversed
          /\ \A x \in Workers \ {w} : job'[x] = job[x]
      <4> DEFINE k == [job[w] EXCEPT !.pc = "mark", !.total = sent[Ref(w)].reversed]
      <4>1. k.pc = "mark" /\ k.ref = job[w].ref /\ k.total = sent[Ref(w)].reversed
        BY DEF JobType
      <4>2. Go(w, k) BY <2>4 DEF ReadTotal
      <4> HIDE DEF k
      <4> QED BY <4>1, <4>2, JobFrame DEF Ref
    <3>3. transfer[Ref(w)].linked BY <2>4 DEF ReadTotal, Reached, Reversing, Ref
    <3> QED BY <3>1, <3>2, <3>3 DEF Reached
  <2>5. CASE MarkReversalSucceeded(w)
    BY <2>5, JobFrame DEF MarkReversalSucceeded, Reached, Reversing, JobType
  <2>6. CASE MarkReversalFailed(w)
    BY <2>6, JobFrame DEF MarkReversalFailed, Idle, Reached, Reversing
  <2>7. CASE RefusedForItself(w)
    BY <2>7, JobFrame DEF RefusedForItself, Reached, Reversing, JobType
  <2>8. CASE Abort(w) BY <2>8, JobFrame DEF Abort, Idle, Reached, Reversing
  <2> QED BY <2>1, <2>2, <2>3, <2>4, <2>5, <2>6, <2>7, <2>8
<1> QED BY <1>1, <1>3, TotalsFramed

LEMMA TotalsOfTransfers ==
  ASSUME TransferBounds, Types, Types', Totals, NEW w \in Workers,
         \/ InsertTransfer(w) \/ SendTransfer(w) \/ SendTransferLost(w)
         \/ MarkTransferPaid(w) \/ MarkTransferFailed(w)
  PROVE  Totals'
<1>1. /\ job[w] \in JobType /\ Ref(w) \in Refs /\ job[w].pc \in Settling /\ Jobs
      /\ \A q \in Refs : sent[q].reversed \in Nat /\ sent[q].amount \in Nat
                         /\ RowTotals(q) /\ transfer[q] \in TransferType
  <2>1. job[w].pc \in Settling
    BY DEF InsertTransfer, SendTransfer, SendTransferLost, MarkTransferPaid,
       MarkTransferFailed, At, Settling
  <2>2. Amounts \cup {0} \subseteq Nat BY DEF TransferBounds
  <2> QED BY <2>1, <2>2, AtWork DEF Types, Totals, Rows, Acquirer
<1>r. PICK r \in Refs : r = Ref(w) BY <1>1
<1>2. (\A x \in Workers \ {w} : job'[x] = job[x]) /\ Reached(job[w])'
  <2>1. Finish(w) \/ \E pc \in Settling : Step(w, pc)
    BY DEF InsertTransfer, SendTransfer, SendTransferLost, MarkTransferPaid,
       MarkTransferFailed, Settling
  <2> QED
    BY <1>1, <2>1 DEF Finish, Step, Go, Jobs, JobType, Idle, Reached, Settling, Reversing
<1>3. /\ Grown /\ \A q \in Refs : RowTotals(q)'
      /\ \A e \in unread' : e.total <= sent'[e.ref].reversed
  <2>1. CASE InsertTransfer(w)
    <3>1. UNCHANGED <<sent, unread>> BY <2>1 DEF InsertTransfer, acquirer
    <3>2. CASE transfer' = transfer BY <1>1, <3>1, <3>2 DEF Grown, RowTotals, Totals
    <3>3. CASE transfer' # transfer
      <4>1. /\ transfer[r].status = "none"
            /\ transfer' = [transfer EXCEPT ![r] =
                   [status |-> "pending", amount |-> job[w].amount,
                    seller |-> job[w].seller, linked |-> FALSE, reversed |-> 0]]
        BY <1>r, <2>1, <3>3 DEF InsertTransfer
      <4>2. /\ transfer'[r].status = "pending" /\ transfer'[r].reversed = 0
            /\ \A q \in Refs \ {r} : transfer'[q] = transfer[q]
        BY <1>1, <4>1 DEF Types, Rows
      <4>3. ~transfer[r].linked /\ transfer[r].reversed = 0
        BY <1>1, <4>1 DEF RowTotals
      <4>4. RowTotals(r)' BY <1>1, <3>1, <4>2, <4>3 DEF RowTotals
      <4>5. \A q \in Refs \ {r} : RowTotals(q)' BY <1>1, <3>1, <4>2 DEF RowTotals
      <4>6. Grown BY <1>1, <3>1, <4>2, <4>3 DEF Grown
      <4>7. \A q \in Refs : RowTotals(q)' BY <4>4, <4>5
      <4> QED BY <3>1, <4>6, <4>7 DEF Totals
    <3> QED BY <3>2, <3>3
  <2>2. CASE SendTransfer(w) \/ SendTransferLost(w)
    <3>1. UNCHANGED <<transfer, unread>> BY <2>2 DEF SendTransfer, SendTransferLost
    <3>2. \/ sent' = sent
          \/ /\ sent[r].amount = 0
             /\ sent' = [sent EXCEPT ![r] = [amount |-> transfer[r].amount,
                                                  seller |-> job[w].seller, reversed |-> 0]]
      BY <1>r, <2>2 DEF SendTransfer, SendTransferLost
    <3>3. \A q \in Refs : sent'[q].reversed = sent[q].reversed
      <4>0. RowTotals(r) /\ sent[r].reversed \in Nat BY <1>1
      <4>1. sent[r].amount = 0 => sent[r].reversed = 0 BY <4>0 DEF RowTotals
      <4>2. sent \in [Refs -> [amount : Amounts \cup {0}, seller : AllSellers \cup {"none"},
                              reversed : Nat]]
        BY DEF Types, Acquirer
      <4> QED BY <1>1, <3>2, <4>1, <4>2
    <3>4. \A q \in Refs : sent'[q].reversed <= sent'[q].amount
      <4>1. \A q \in Refs : sent[q].reversed <= sent[q].amount BY <1>1 DEF RowTotals
      <4>2. transfer[r].amount \in Nat
        <5>1. transfer[r] \in TransferType BY <1>1
        <5>2. Amounts \cup {0} \subseteq Nat BY DEF TransferBounds
        <5> QED BY <5>1, <5>2 DEF TransferType
      <4>3. sent \in [Refs -> [amount : Amounts \cup {0}, seller : AllSellers \cup {"none"},
                              reversed : Nat]]
        BY DEF Types, Acquirer
      <4> QED BY <1>1, <3>2, <4>1, <4>2, <4>3
    <3>5. \A q \in Refs : RowTotals(q)' BY <1>1, <3>1, <3>3, <3>4 DEF RowTotals
    <3>6. \A e \in unread' : e.total <= sent'[e.ref].reversed
      BY <3>1, <3>3 DEF Totals, Types, Acquirer
    <3> QED BY <1>1, <3>1, <3>3, <3>5, <3>6 DEF Grown
  <2>3. CASE MarkTransferPaid(w) \/ MarkTransferFailed(w)
    <3>1. UNCHANGED <<sent, unread>>
      BY <2>3 DEF MarkTransferPaid, MarkTransferFailed, acquirer
    <3>2. /\ transfer \in [Refs -> TransferType] /\ "paid" \in TransferStatuses
               /\ TRUE \in BOOLEAN
      BY DEF Types, Rows, TransferStatuses
    <3>3. \/ transfer' = transfer
          \/ transfer' = [transfer EXCEPT ![r].status = "paid", ![r].linked = TRUE]
          \/ ~transfer[r].linked /\ transfer' = [transfer EXCEPT ![r].status = "failed"]
      BY <1>r, <2>3 DEF MarkTransferPaid, MarkTransferFailed
    <3>4. \A q \in Refs : /\ transfer'[q].reversed = transfer[q].reversed
                          /\ transfer[q].linked => transfer'[q].linked
                          /\ transfer'[q].status = "none" => transfer'[q] = transfer[q]
      <4>1. CASE transfer' = transfer BY <4>1
      <4>2. CASE transfer' = [transfer EXCEPT ![r].status = "paid", ![r].linked = TRUE]
        <5>1. r \in Refs OBVIOUS
        <5>2. /\ \A q \in Refs : transfer'[q].reversed = transfer[q].reversed
              /\ \A q \in Refs \ {r} : transfer'[q] = transfer[q]
              /\ transfer'[r].status = "paid" /\ transfer'[r].linked = TRUE
          BY ONLY <5>1, <3>2, <4>2, StatusWritten
        <5> QED BY <5>1, <5>2
      <4>3. CASE ~transfer[r].linked /\ transfer' = [transfer EXCEPT ![r].status = "failed"]
        BY <1>1, <3>2, <4>3 DEF TransferType
      <4> QED BY <3>3, <4>1, <4>2, <4>3
    <3>5. \A q \in Refs : RowTotals(q)' BY <1>1, <3>1, <3>4 DEF RowTotals
    <3> QED BY <1>1, <3>1, <3>4, <3>5 DEF Grown, Totals
  <2> QED BY <2>1, <2>2, <2>3
<1> QED BY <1>2, <1>3, TotalsKept

LEMMA TotalsStep == ASSUME TransferBounds, Types, Types', Totals, [Next]_vars PROVE Totals'
<1>0. Rows /\ Acquirer /\ Jobs BY DEF Types
<1>1. ASSUME NEW w \in Workers, SendReversal(w) PROVE Totals'
  <2>1. /\ Ref(w) \in Refs /\ job[w].amount \in Amounts /\ job[w] \in JobType
        /\ job[w].pc \in Reversing /\ transfer[Ref(w)].linked
    BY <1>0, <1>1, AtWork DEF SendReversal, At, Names, Reversing, Totals, Reached, Ref
  <2>2. transfer' = transfer BY <1>1 DEF SendReversal
  <2>3. (\A x \in Workers \ {w} : job'[x] = job[x]) /\ Reached(job[w])'
    <3>1. CASE Finish(w) BY <1>0, <3>1, JobFrame DEF Finish, Idle, Reached, Reversing
    <3>2. CASE Step(w, "total") \/ Step(w, "reverse_refuse")
      <4>1. /\ job'[w].pc \in {"total", "reverse_refuse"} /\ job'[w].ref = job[w].ref
            /\ \A x \in Workers \ {w} : job'[x] = job[x]
        BY <1>0, <2>1, <3>2, JobFrame DEF Step, JobType
      <4> QED BY <2>1, <2>2, <4>1 DEF Reached, Ref
    <3> QED BY <1>1, <3>1, <3>2 DEF SendReversal
  <2>4. CASE Takes(Ref(w), job[w].amount)
    <3>1. PICK r \in Refs, a \in Amounts : r = Ref(w) /\ a = job[w].amount BY <2>1
    <3>2. Takes(r, a) BY <2>4, <3>1
    <3> QED BY <2>2, <2>3, <3>2, TotalsTaken, TotalsKept
  <2>5. CASE UNCHANGED <<sent, unread>> BY <2>2, <2>3, <2>5, TotalsFramed
  <2> QED BY <1>1, <2>4, <2>5 DEF SendReversal
<1>2. ASSUME NEW w \in Workers, ApplyTotal(w) PROVE Totals'
  <2>1. PICK r \in Refs, total \in Nat :
          /\ r = Ref(w) /\ total = job[w].total /\ transfer[r].linked
          /\ total <= sent[r].reversed
    BY <1>0, <1>2, AtWork DEF ApplyTotal, At, Reversing, JobType, Totals, Reached, Ref
  <2>2. /\ transfer' = ReversedTo(r, total) /\ sent' = sent /\ unread' = unread
    BY <1>2, <2>1 DEF ApplyTotal, acquirer
  <2>3. (\A x \in Workers \ {w} : job'[x] = job[x]) /\ Reached(job[w])'
    BY <1>0, <1>2, JobFrame DEF ApplyTotal, Finish, Idle, Reached, Reversing
  <2> QED BY <2>1, <2>2, <2>3, TotalsApplied, TotalsKept
<1>3. ASSUME NEW e \in unread, HandleTransferEvent(e) PROVE Totals'
  <2>1. PICK r \in Refs, total \in Nat : e = [ref |-> r, total |-> total]
               /\ total <= sent[r].reversed
    BY <1>0 DEF Acquirer, Totals
  <2>2. /\ transfer[r].linked /\ transfer' = ReversedTo(r, total) /\ sent' = sent
             /\ job' = job
        /\ unread' \subseteq unread
             /\ unread \subseteq unread' \cup {[ref |-> r, total |-> total]}
    BY <1>3, <2>1 DEF HandleTransferEvent, acquirer
  <2> QED BY <2>1, <2>2, TotalsApplied, TotalsOfRows
<1>4. ASSUME NEW r \in Refs, ReversedOutside(r) PROVE Totals'
  <2>1. transfer' = transfer /\ job' = job /\ \E a \in Amounts : Takes(r, a)
    BY <1>4 DEF ReversedOutside
  <2> QED BY <2>1, TotalsTaken, TotalsOfRows
<1>5. CASE UNCHANGED vars
  BY <1>5 DEF vars, acquirer, Totals, RowTotals, Reached
<1> QED BY <1>1, <1>2, <1>3, <1>4, <1>5, TotalsOfBookkeeping, TotalsOfTransfers DEF Next

LEMMA TotalsAlways == ASSUME TransferBounds PROVE Spec => []Totals
<1>1. Types /\ Types' /\ Totals /\ [Next]_vars => Totals' BY TotalsStep
<1> QED BY <1>1, TotalsStart, TypesAlways, PTL DEF Spec

\* Whatever is settled, taken back, lost or announced late, a row never says more
\* came back than did; and once no total is unread it says exactly what did.
THEOREM ReversedStaysTrue == ASSUME TransferBounds PROVE Spec => []ReversedIsTrue
<1>1. Types /\ Totals => ReversedIsTrue
  <2> SUFFICES ASSUME Types, Totals, NEW r \in Refs
               PROVE  /\ transfer[r].reversed <= sent[r].reversed
                      /\ transfer[r].linked /\ {e \in unread : e.ref = r} = {}
                           => transfer[r].reversed = sent[r].reversed
    BY DEF ReversedIsTrue
  <2>1. RowTotals(r) BY DEF Totals
  <2>2. [ref |-> r, total |-> sent[r].reversed] \in unread
          => {e \in unread : e.ref = r} # {}
    OBVIOUS
  <2> QED BY <2>1, <2>2 DEF RowTotals
<1> QED BY <1>1, TypesAlways, TotalsAlways, PTL

-----------------------------------------------------------------------------
\* A reversal that ended: as the acquirer ended it, and in nobody's hands.
Ended == Takings /\ ReversalIsTrue

LEMMA EndedStart == ASSUME TransferBounds PROVE Init => Ended
BY DEF Init, Ended, Takings, Took, ReversalIsTrue, NoReversal, Idle, Reversing

\* A request takes no other's reversal: what the others hold stays as it was.
LEMMA OthersTook ==
  ASSUME Types, Ended, NEW w \in Workers, \A x \in Workers \ {w} : job'[x] = job[x],
         misread \subseteq misread',
         \/ UNCHANGED <<reversal, taken>>
         \/ /\ job[w].pc \in Reversing
            /\ \A v \in ReversalRefs \ {job[w].rev} : reversal'[v] = reversal[v]
                 /\ taken'[v] = taken[v]
  PROVE  \A x \in Workers \ {w} : Took(job[x])'
<1> SUFFICES ASSUME NEW x \in Workers \ {w} PROVE Took(job[x])' OBVIOUS
<1>1. Took(job[x]) /\ job'[x] = job[x] BY DEF Ended, Takings
<1>2. job[x].pc \in Reversing => job[x].rev \in ReversalRefs BY DEF Types, Jobs, Names
<1>3. job[x].pc \in Reversing /\ job[w].pc \in Reversing => job[x].rev # job[w].rev
  BY DEF Ended, Takings
<1> QED BY <1>1, <1>2, <1>3 DEF Took

\* A request that ends, or that holds no reversal.
LEMMA EndedFramed ==
  ASSUME Types, Ended, NEW w \in Workers, \A x \in Workers \ {w} : job'[x] = job[x],
         job'[w].pc \notin Reversing, UNCHANGED <<reversal, taken>>,
         misread \subseteq misread'
  PROVE  Ended'
<1>1. \A x \in Workers \ {w} : Took(job[x])' BY OthersTook
<1>2. Took(job[w])' BY DEF Took
<1> QED BY <1>1, <1>2 DEF Ended, Takings, ReversalIsTrue

\* A request that goes on with its reversal, or writes it and ends.
LEMMA EndedGoesOn ==
  ASSUME Types, Ended, NEW w \in Workers, \A x \in Workers \ {w} : job'[x] = job[x],
         job[w].pc \in Reversing, Took(job[w])', misread \subseteq misread',
         job'[w].pc \in Reversing => job'[w].rev = job[w].rev,
         \A v \in ReversalRefs \ {job[w].rev} : reversal'[v] = reversal[v]
           /\ taken'[v] = taken[v],
         LET v == job[w].rev IN
         /\ reversal'[v].status = "none" => taken'[v] = 0
         /\ reversal'[v].status = "succeeded" => taken'[v] = reversal'[v].amount
         /\ reversal'[v].status = "failed" => taken'[v] = 0 \/ v \in misread'
  PROVE  Ended'
<1>1. \A x \in Workers \ {w} : Took(job[x])' BY OthersTook
<1>2. job[w].rev \in ReversalRefs BY DEF Types, Jobs, Names
<1>3. Takings'
  <2>1. \A x, y \in Workers :
          job'[x].pc \in Reversing /\ job'[y].pc \in Reversing /\ job'[x].rev = job'[y].rev
            => x = y
    BY DEF Ended, Takings
  <2> QED BY <1>1, <1>2, <2>1 DEF Ended, Takings
<1>4. ReversalIsTrue' BY <1>2 DEF Ended, ReversalIsTrue
<1> QED BY <1>3, <1>4 DEF Ended

LEMMA EndedStep ==
  ASSUME TransferBounds, Types, Ended, [Next]_vars PROVE Ended'
<1>0. Rows /\ Acquirer /\ Jobs /\ Counts BY DEF Types
<1>1. ASSUME NEW w \in Workers,
             \/ AskTransfer(w) \/ FindTransfer(w) \/ InsertTransfer(w) \/ SendTransfer(w)
             \/ SendTransferLost(w) \/ MarkTransferPaid(w) \/ MarkTransferFailed(w)
      PROVE  Ended'
  <2>1. UNCHANGED <<reversal, taken>> /\ misread \subseteq misread'
    BY <1>1 DEF AskTransfer, FindTransfer, InsertTransfer, SendTransfer, SendTransferLost,
           MarkTransferPaid, MarkTransferFailed, acquirer
  <2>2. \E j \in JobType : j.pc \notin Reversing /\ Go(w, j)
    <3>1. job[w] \in JobType /\ Idle \in JobType
      BY <1>0 DEF Jobs, Idle, JobType, Pcs
    <3>2. ASSUME NEW pc \in {"insert", "send", "paid", "refuse"}, Step(w, pc)
          PROVE  \E j \in JobType : j.pc \notin Reversing /\ Go(w, j)
      <4>1. [job[w] EXCEPT !.pc = pc] \in JobType /\ [job[w] EXCEPT !.pc = pc].pc = pc
        BY <3>1 DEF JobType, Pcs
      <4> QED BY <3>2, <4>1 DEF Step, Reversing
    <3>3. CASE Finish(w) BY <3>1, <3>3 DEF Finish, Idle, Reversing
    <3>4. CASE AskTransfer(w)
      <4>1. PICK r \in Refs, s \in AllSellers, a \in Amounts :
              /\ s \in Sellers[r]
              /\ Go(w, [Idle EXCEPT !.pc = "find", !.ref = r, !.seller = s, !.amount = a])
        BY <3>4 DEF AskTransfer, AllSellers
      <4> DEFINE k == [Idle EXCEPT !.pc = "find", !.ref = r, !.seller = s, !.amount = a]
      <4>2. k \in JobType /\ k.pc \notin Reversing BY DEF Idle, JobType, Pcs, Reversing
      <4> QED BY <4>1, <4>2
    <3> QED BY <1>1, <3>2, <3>3, <3>4 DEF FindTransfer, InsertTransfer, SendTransfer,
            SendTransferLost, MarkTransferPaid, MarkTransferFailed
  <2>3. job'[w].pc \notin Reversing /\ \A x \in Workers \ {w} : job'[x] = job[x]
    BY <1>0, <2>2, JobFrame
  <2> QED BY <2>1, <2>3, EndedFramed
<1>2. ASSUME NEW w \in Workers, AskReversal(w) PROVE Ended'
  <2>1. PICK r \in Refs, v \in ReversalRefs, a \in Amounts :
          /\ reversal[v].status = "none"
          /\ reversal'
               = [reversal EXCEPT ![v] = [status |-> "pending", of |-> r, amount |-> a]]
          /\ Go(w, [Idle EXCEPT !.pc = "reverse", !.ref = r, !.rev = v, !.amount = a])
    BY <1>2 DEF AskReversal
  <2>2. /\ job'[w].pc = "reverse" /\ job'[w].rev = v /\ job'[w].amount = a
        /\ \A x \in Workers \ {w} : job'[x] = job[x]
    <3> DEFINE k == [Idle EXCEPT !.pc = "reverse", !.ref = r, !.rev = v, !.amount = a]
    <3>1. k.pc = "reverse" /\ k.rev = v /\ k.amount = a BY DEF Idle
    <3> HIDE DEF k
    <3> QED BY <1>0, <2>1, <3>1, JobFrame DEF k
  <2>3. /\ taken' = taken /\ taken[v] = 0 /\ misread' = misread
        /\ reversal'[v] = [status |-> "pending", of |-> r, amount |-> a]
        /\ \A u \in ReversalRefs \ {v} : reversal'[u] = reversal[u]
    BY <1>0, <1>2, <2>1 DEF AskReversal, acquirer, Rows, Ended, Takings
  <2>4. \A x \in Workers : job[x].pc \in Reversing => job[x].rev \in ReversalRefs \ {v}
    BY <1>0, <2>1 DEF Ended, Takings, Took, Jobs, Names
  <2>5. \A x \in Workers : Took(job[x])'
    BY <2>2, <2>3, <2>4 DEF Ended, Takings, Took
  <2>6. Takings' BY <2>2, <2>3, <2>4, <2>5 DEF Ended, Takings
  <2>7. ReversalIsTrue' BY <2>3 DEF Ended, ReversalIsTrue
  <2> QED BY <2>6, <2>7 DEF Ended
<1>3. ASSUME NEW w \in Workers, SendReversal(w) PROVE Ended'
  <2>1. /\ job[w].pc = "reverse" /\ job[w].pc \in Reversing /\ job[w] \in JobType
        /\ job[w].rev \in ReversalRefs /\ Took(job[w]) /\ reversal' = reversal
        /\ misread' = misread
    BY <1>0, <1>3 DEF SendReversal, At, Jobs, Names, Reversing, Ended, Takings
  <2>2. CASE Step(w, "reverse_refuse") /\ taken' = taken
    <3>1. /\ job'[w].pc = "reverse_refuse" /\ job'[w].rev = job[w].rev
          /\ job'[w].amount = job[w].amount /\ \A x \in Workers \ {w} : job'[x] = job[x]
      BY <1>0, <2>1, <2>2, JobFrame DEF Step, JobType
    <3>2. Took(job[w])' BY <2>1, <2>2, <3>1 DEF Took, Reversing
    <3> QED BY <2>1, <2>2, <3>1, <3>2, EndedGoesOn DEF Ended, Takings, ReversalIsTrue
  <2>3. CASE taken' = [taken EXCEPT ![job[w].rev] = job[w].amount]
             /\ (Step(w, "total") \/ Finish(w))
    <3>1. /\ taken'[job[w].rev] = job[w].amount
          /\ \A v \in ReversalRefs \ {job[w].rev} : taken'[v] = taken[v]
      BY <1>0, <2>1, <2>3 DEF Acquirer
    <3>2. /\ job'[w].pc = "idle"
             \/ /\ job'[w].pc = "total" /\ job'[w].rev = job[w].rev
                /\ job'[w].amount = job[w].amount
          /\ \A x \in Workers \ {w} : job'[x] = job[x]
      BY <1>0, <2>1, <2>3, JobFrame DEF Step, Finish, Idle, JobType
    <3>3. Took(job[w])' BY <2>1, <3>1, <3>2 DEF Took, Reversing
    <3>4. job'[w].pc \in Reversing => job'[w].rev = job[w].rev BY <3>2 DEF Reversing
    <3>5. reversal[job[w].rev].status = "pending" BY <2>1 DEF Took
    <3> QED BY <2>1, <3>1, <3>2, <3>3, <3>4, <3>5, EndedGoesOn
  <2> QED BY <1>3, <2>2, <2>3 DEF SendReversal
<1>4. ASSUME NEW w \in Workers, ReadTotal(w) PROVE Ended'
  <2>1. /\ job[w].pc = "total" /\ job[w].pc \in Reversing /\ job[w] \in JobType
             /\ Took(job[w])
        /\ job[w].rev \in ReversalRefs /\ UNCHANGED <<reversal, taken, misread>>
    BY <1>0, <1>4 DEF ReadTotal, At, Jobs, Names, Reversing, Ended, Takings, acquirer
  <2>2. /\ job'[w].pc = "mark" /\ job'[w].rev = job[w].rev /\ job'[w].amount = job[w].amount
        /\ \A x \in Workers \ {w} : job'[x] = job[x]
    <3> DEFINE k == [job[w] EXCEPT !.pc = "mark", !.total = sent[Ref(w)].reversed]
    <3>1. k.pc = "mark" /\ k.rev = job[w].rev /\ k.amount = job[w].amount
      BY <2>1 DEF JobType
    <3>2. Go(w, k) BY <1>4 DEF ReadTotal
    <3> HIDE DEF k
    <3> QED BY <1>0, <3>1, <3>2, JobFrame
  <2>3. Took(job[w])' BY <2>1, <2>2 DEF Took, Reversing
  <2> QED BY <2>1, <2>2, <2>3, EndedGoesOn DEF Ended, Takings, ReversalIsTrue
<1>5. ASSUME NEW w \in Workers, MarkReversalSucceeded(w) PROVE Ended'
  <2>1. /\ job[w].pc = "mark" /\ job[w].pc \in Reversing /\ job[w] \in JobType /\ Took(job[w])
        /\ job[w].rev \in ReversalRefs /\ UNCHANGED <<taken, misread>>
    BY <1>0, <1>5 DEF MarkReversalSucceeded, At, Jobs, Names, Reversing, Ended, Takings,
       acquirer
  <2>2. /\ job'[w].pc = "apply" /\ job'[w].rev = job[w].rev /\ job'[w].amount = job[w].amount
        /\ \A x \in Workers \ {w} : job'[x] = job[x]
    BY <1>0, <1>5, <2>1, JobFrame DEF MarkReversalSucceeded, Step, JobType
  <2>3. /\ reversal'[job[w].rev].status = "succeeded"
        /\ reversal'[job[w].rev].amount = reversal[job[w].rev].amount
        /\ \A v \in ReversalRefs \ {job[w].rev} : reversal'[v] = reversal[v]
    BY <1>0, <1>5, <2>1 DEF MarkReversalSucceeded, Rows
  <2>4. Took(job[w])' BY <2>1, <2>2, <2>3 DEF Took, Reversing
  <2>5. taken[job[w].rev] = reversal[job[w].rev].amount BY <2>1 DEF Took
  <2> QED BY <2>1, <2>2, <2>3, <2>4, <2>5, EndedGoesOn
<1>6. ASSUME NEW w \in Workers, MarkReversalFailed(w) PROVE Ended'
  <2>1. /\ job[w].pc = "reverse_refuse" /\ job[w].pc \in Reversing /\ Took(job[w])
        /\ job[w].rev \in ReversalRefs /\ UNCHANGED <<taken, misread>>
    BY <1>0, <1>6 DEF MarkReversalFailed, At, Jobs, Names, Reversing, Ended, Takings, acquirer
  <2>2. job'[w].pc \notin Reversing /\ \A x \in Workers \ {w} : job'[x] = job[x]
    BY <1>0, <1>6, JobFrame DEF MarkReversalFailed, Finish, Idle, Reversing
  <2>3. /\ reversal'[job[w].rev].status = "failed"
        /\ \A v \in ReversalRefs \ {job[w].rev} : reversal'[v] = reversal[v]
    BY <1>0, <1>6, <2>1 DEF MarkReversalFailed, Rows
  <2>4. Took(job[w])' BY <2>2 DEF Took
  <2>5. taken[job[w].rev] = 0 \/ job[w].rev \in misread BY <2>1 DEF Took
  <2> QED BY <2>1, <2>2, <2>3, <2>4, <2>5, EndedGoesOn
<1>7. ASSUME NEW w \in Workers, ApplyTotal(w) \/ Abort(w) PROVE Ended'
  <2>1. UNCHANGED <<reversal, taken, misread>> /\ Finish(w)
    BY <1>7 DEF ApplyTotal, Abort, acquirer
  <2>2. job'[w].pc \notin Reversing /\ \A x \in Workers \ {w} : job'[x] = job[x]
    BY <1>0, <2>1, JobFrame DEF Finish, Idle, Reversing
  <2> QED BY <2>1, <2>2, EndedFramed
<1>8. ASSUME NEW w \in Workers, RefusedForItself(w) PROVE Ended'
  <2>1. UNCHANGED <<reversal, taken>> /\ misread \subseteq misread' /\ job[w] \in JobType
    BY <1>0, <1>8 DEF RefusedForItself, acquirer, Jobs
  <2>2. CASE At(w, "send") /\ Step(w, "refuse")
    <3>1. job'[w].pc \notin Reversing /\ \A x \in Workers \ {w} : job'[x] = job[x]
      BY <1>0, <2>1, <2>2, JobFrame DEF Step, JobType, Reversing
    <3> QED BY <2>1, <3>1, EndedFramed
  <2>3. CASE /\ job[w].pc \in {"reverse", "total"} /\ Step(w, "reverse_refuse")
             /\ job[w].pc = "total" => job[w].rev \in misread'
    <3>1. /\ job[w].pc \in Reversing /\ Took(job[w]) /\ job[w].rev \in ReversalRefs
      BY <1>0, <2>3 DEF Jobs, Names, Reversing, Ended, Takings
    <3>2. /\ job'[w].pc = "reverse_refuse" /\ job'[w].rev = job[w].rev
          /\ job'[w].amount = job[w].amount /\ \A x \in Workers \ {w} : job'[x] = job[x]
      BY <1>0, <2>1, <2>3, JobFrame DEF Step, JobType
    <3>3. Took(job[w])' BY <2>1, <2>3, <3>1, <3>2 DEF Took, Reversing
    <3>4. reversal[job[w].rev].status = "pending" BY <2>3, <3>1 DEF Took
    <3> QED BY <2>1, <3>1, <3>2, <3>3, <3>4, EndedGoesOn
  <2> QED BY <1>8, <2>2, <2>3 DEF RefusedForItself, At
<1>9. CASE UNCHANGED <<job, reversal, taken, misread>>
  BY <1>9 DEF Ended, Takings, Took, ReversalIsTrue
<1>10. ASSUME NEW e \in unread, HandleTransferEvent(e)
       PROVE  UNCHANGED <<job, reversal, taken, misread>>
  BY <1>10 DEF HandleTransferEvent, acquirer
<1>11. ASSUME NEW r \in Refs, ReversedOutside(r)
       PROVE  UNCHANGED <<job, reversal, taken, misread>>
  BY <1>11 DEF ReversedOutside
<1>12. CASE UNCHANGED vars BY <1>9, <1>12 DEF vars, acquirer
<1> QED BY <1>1, <1>2, <1>3, <1>4, <1>5, <1>6, <1>7, <1>8, <1>9, <1>10, <1>11, <1>12 DEF Next

\* A reversal that ended says what the acquirer did: money came back for one that
\* succeeded, and none for one that failed, but for those that failed on the read
\* of the total. Calls may be refused for reasons of their own any number of times.
THEOREM ReversalsStayTrue == ASSUME TransferBounds PROVE Spec => []ReversalIsTrue
<1>1. Types /\ Ended /\ [Next]_vars => Ended' BY EndedStep
<1>2. Ended => ReversalIsTrue BY DEF Ended
<1> QED BY <1>1, <1>2, EndedStart, TypesAlways, PTL DEF Spec

-----------------------------------------------------------------------------
(***************************************************************************)
(* The budget. What moved or may move fits the payment, because it is      *)
(* added up and written under the payment's lock; and a settlement that    *)
(* no longer counts as committed moved nothing, because it failed on a     *)
(* refusal that its key keeps, unless that refusal was misread.            *)
(***************************************************************************)
\* The rows that count, but for those of which a refusal was misread; and their
\* part of the sum the code adds up.
Committed == {r \in Refs \ misread : transfer[r].status \notin {"none", "failed"}}
Kept == SumFunctionOnSet(NotReturned, Committed)

\* What the acquirer did under a reference and what the row of it says.
Settled(r) ==
  /\ transfer[r].status # "none" => transfer[r].amount \in Amounts
  /\ r \in misread => transfer[r].status # "none"
  /\ transfer[r].status = "failed" => r \in refused \cup misread
  /\ transfer[r].linked => sent[r].amount > 0 /\ transfer[r].status # "failed"
  /\ r \in refused => sent[r].amount = 0
  /\ sent[r].amount > 0 =>
       transfer[r].status # "none" /\ transfer[r].amount = sent[r].amount

\* What a request knows before it writes.
Knows(j) ==
  /\ j.pc = "send" => transfer[j.ref].status # "none"
  /\ j.pc = "paid" => sent[j.ref].amount > 0
  /\ j.pc = "refuse" =>
       j.ref \in refused \cup misread /\ transfer[j.ref].status # "none"

Budget ==
  /\ \A r \in Refs : Settled(r)
  /\ \A w \in Workers : Knows(job[w])
  /\ Kept <= Charge

\* What a request knows stays so.
Remembered ==
  \A r \in Refs :
    /\ transfer[r].status # "none" => transfer'[r].status # "none"
    /\ sent[r].amount > 0 => sent'[r].amount > 0
    /\ r \in refused \cup misread => r \in refused' \cup misread'

\* The figures of a reference are natural numbers.
LEMMA Figures ==
  ASSUME TransferBounds, Types, NEW r \in Refs
  PROVE  /\ transfer[r].amount \in Nat /\ transfer[r].reversed \in Nat
         /\ sent[r].amount \in Nat /\ sent[r].reversed \in Nat
<1>1. transfer[r] \in TransferType BY DEF Types, Rows
<1>2. sent[r] \in [amount : Amounts \cup {0}, seller : AllSellers \cup {"none"},
                   reversed : Nat]
  BY DEF Types, Acquirer
<1>3. \A a \in Amounts \cup {0} : a \in Nat BY DEF TransferBounds
<1>4. transfer[r].amount \in Amounts \cup {0} /\ transfer[r].reversed \in Nat
  BY <1>1 DEF TransferType
<1>5. sent[r].amount \in Amounts \cup {0} /\ sent[r].reversed \in Nat BY <1>2
<1> QED BY <1>3, <1>4, <1>5

LEMMA FiguresNext ==
  ASSUME TransferBounds, Types', NEW r \in Refs
  PROVE  transfer'[r].amount \in Nat /\ transfer'[r].reversed \in Nat
<1>1. transfer'[r] \in TransferType BY DEF Types, Rows
<1>2. \A a \in Amounts \cup {0} : a \in Nat BY DEF TransferBounds
<1>3. transfer'[r].amount \in Amounts \cup {0} /\ transfer'[r].reversed \in Nat
  BY <1>1 DEF TransferType
<1> QED BY <1>2, <1>3

\* What has not come back of a row, once nothing more did than was sent.
LEMMA Returned ==
  ASSUME TransferBounds, Types, Totals, Budget
  PROVE  \A r \in Refs : /\ NotReturned[r] = transfer[r].amount - transfer[r].reversed
                         /\ NotReturned[r] \in Int /\ NotReturned[r] >= 0
<1> SUFFICES ASSUME NEW r \in Refs
             PROVE  /\ NotReturned[r] = transfer[r].amount - transfer[r].reversed
                    /\ NotReturned[r] \in Int /\ NotReturned[r] >= 0
  OBVIOUS
<1>1. /\ transfer[r].amount \in Nat /\ transfer[r].reversed \in Nat
      /\ sent[r].amount \in Nat /\ sent[r].reversed \in Nat
  BY Figures
<1>2. RowTotals(r) /\ Settled(r) BY DEF Totals, Budget
<1>3. transfer[r].reversed <= sent[r].reversed /\ sent[r].reversed <= sent[r].amount
  BY <1>2 DEF RowTotals
<1>4. sent[r].amount = 0 \/ sent[r].amount = transfer[r].amount BY <1>1, <1>2 DEF Settled
<1>5. NotReturned[r] = transfer[r].amount - transfer[r].reversed BY DEF NotReturned
<1> QED BY <1>1, <1>3, <1>4, <1>5

\* The sum the code adds up is no less.
LEMMA KeptCounts ==
  ASSUME TransferBounds, IsFiniteSet(Refs), Types, Totals, Budget
  PROVE  Kept <= CommittedTransfers /\ Kept \in Int /\ CommittedTransfers \in Int
<1> DEFINE f == NotReturned
           S == {r \in Refs : transfer[r].status \notin {"none", "failed"}}
           T == Committed
<1>1. T \in SUBSET S /\ S \in SUBSET Refs BY DEF Committed
<1>2. IsFiniteSet(S) /\ IsFiniteSet(T) BY <1>1, FS_Subset
<1>3. \A r \in Refs : f[r] \in Int /\ f[r] >= 0 BY Returned
<1>4. Kept = SumFunctionOnSet(f, T) /\ CommittedTransfers = SumFunctionOnSet(f, S)
  BY DEF Kept, CommittedTransfers
<1> HIDE DEF f, S, T
<1>5. SumFunctionOnSet(f, T) <= SumFunctionOnSet(f, S) BY <1>1, <1>2, <1>3, SumOfWhole
<1>6. SumFunctionOnSet(f, T) \in Int /\ SumFunctionOnSet(f, S) \in Int
  BY <1>1, <1>2, <1>3, SumType
<1> QED BY <1>4, <1>5, <1>6

\* Rows leave the sum, or count for less.
LEMMA CommittedLess ==
  ASSUME TransferBounds, IsFiniteSet(Refs), Types, Types', Totals, Budget,
         Committed' \subseteq Committed,
         \A r \in Refs : /\ transfer'[r].amount = transfer[r].amount
                         /\ transfer[r].reversed <= transfer'[r].reversed
  PROVE  Kept' <= Charge
<1> DEFINE f == NotReturned
           g == NotReturned'
           S == Committed
           T == Committed'
<1>1. T \in SUBSET S /\ S \in SUBSET Refs BY DEF Committed
<1>2. IsFiniteSet(S) /\ IsFiniteSet(T) BY <1>1, FS_Subset
<1>3. \A r \in Refs : f[r] \in Int /\ f[r] >= 0 BY Returned
<1>4. \A r \in Refs : g[r] \in Int /\ g[r] <= f[r]
  <2> SUFFICES ASSUME NEW r \in Refs PROVE g[r] \in Int /\ g[r] <= f[r] OBVIOUS
  <2>1. /\ transfer[r].amount \in Nat /\ transfer[r].reversed \in Nat
        /\ transfer'[r].reversed \in Nat
    BY Figures, FiguresNext
  <2>2. f[r] = transfer[r].amount - transfer[r].reversed BY DEF NotReturned
  <2>3. g[r] = transfer'[r].amount - transfer'[r].reversed BY DEF NotReturned
  <2> QED BY <2>1, <2>2, <2>3
<1>5. Kept = SumFunctionOnSet(f, S) /\ Kept <= Charge BY DEF Budget, Kept
<1>6. Kept' = SumFunctionOnSet(g, T) BY DEF Kept
<1> HIDE DEF f, g, S, T
<1>7. (\A x \in S : f[x] \in Int) /\ (\A x \in T : f[x] \in Int /\ g[x] \in Int)
  BY <1>1, <1>3, <1>4
<1>8. SumFunctionOnSet(f, T) <= SumFunctionOnSet(f, S) BY <1>1, <1>2, <1>3, <1>7, SumOfWhole
<1>9. SumFunctionOnSet(g, T) <= SumFunctionOnSet(f, T) BY <1>1, <1>2, <1>4, <1>7, SumAtMost
<1>10. /\ SumFunctionOnSet(f, S) \in Int /\ SumFunctionOnSet(f, T) \in Int
       /\ SumFunctionOnSet(g, T) \in Int
  BY <1>2, <1>7, SumType
<1>11. Charge \in Int BY DEF TransferBounds
<1> QED BY <1>5, <1>6, <1>8, <1>9, <1>10, <1>11

\* A row more is added where it fits.
LEMMA CommittedMore ==
  ASSUME TransferBounds, IsFiniteSet(Refs), Types, Types', Totals, Budget,
         NEW r \in Refs, r \notin Committed, Committed' = Committed \cup {r},
         \A q \in Refs \ {r} : transfer'[q] = transfer[q],
         transfer'[r].reversed = 0, transfer'[r].amount + Kept <= Charge
  PROVE  Kept' <= Charge
<1> DEFINE f == NotReturned
           g == NotReturned'
           S == Committed
           T == Committed'
           a == transfer'[r].amount
<1>1. T = S \cup {r} /\ S \in SUBSET Refs /\ T \in SUBSET Refs BY DEF Committed
<1>2. IsFiniteSet(S) /\ IsFiniteSet(T) BY <1>1, FS_Subset
<1>3. \A q \in Refs : f[q] \in Int BY Returned
<1>4. \A q \in S : g[q] = f[q] BY <1>1 DEF NotReturned
<1>5. a \in Int /\ g[r] = a
  <2>1. a \in Nat BY FiguresNext
  <2>2. g[r] = a - 0 BY DEF NotReturned
  <2> QED BY <2>1, <2>2
<1>6. Kept = SumFunctionOnSet(f, S) BY DEF Kept
<1>7. Kept' = SumFunctionOnSet(g, T) BY DEF Kept
<1>8. r \notin S /\ a + Kept <= Charge OBVIOUS
<1> HIDE DEF f, g, S, T, a
<1>9. \A q \in T : g[q] \in Int BY <1>1, <1>3, <1>4, <1>5
<1>10. T \ {r} = S /\ r \in T BY <1>1, <1>8
<1>11. SumFunctionOnSet(g, T) = g[r] + SumFunctionOnSet(g, S) BY <1>2, <1>9, <1>10, SumTakesOut
<1>12. \A q \in S : g[q] \in Int /\ f[q] \in Int /\ g[q] <= f[q] BY <1>1, <1>3, <1>4
<1>13. SumFunctionOnSet(g, S) <= SumFunctionOnSet(f, S) BY <1>2, <1>12, SumAtMost
<1>14. SumFunctionOnSet(f, S) \in Int /\ SumFunctionOnSet(g, S) \in Int
  BY <1>2, <1>12, SumType
<1>15. Charge \in Int BY DEF TransferBounds
<1> QED BY <1>5, <1>6, <1>7, <1>8, <1>11, <1>13, <1>14, <1>15

\* Rows that stay keep their sum.
LEMMA CommittedSame ==
  ASSUME Budget, UNCHANGED <<transfer, misread>>
  PROVE  Kept' <= Charge
BY DEF Budget, Kept, Committed, NotReturned

\* Another request's step takes back nothing a request knows.
LEMMA KnowsKept ==
  ASSUME Remembered, NEW j, Names(j), Knows(j) PROVE Knows(j)'
BY DEF Remembered, Names, Knows, Settling

\* What has to be shown of a step of one request.
LEMMA BudgetKept ==
  ASSUME Types, Budget, Remembered, NEW w \in Workers,
         \A x \in Workers \ {w} : job'[x] = job[x], Knows(job[w])',
         \A r \in Refs : Settled(r)', Kept' <= Charge
  PROVE  Budget'
<1>1. ASSUME NEW x \in Workers \ {w} PROVE Knows(job[x])'
  <2>1. PICK j : j = job[x] /\ Names(j) /\ Knows(j) /\ job'[x] = j
    BY DEF Types, Jobs, Budget
  <2>2. Knows(j)' BY <2>1, KnowsKept
  <2> QED BY <2>1, <2>2 DEF Knows
<1> QED BY <1>1 DEF Budget

\* And of a step of none.
LEMMA BudgetOfRows ==
  ASSUME Types, Budget, Remembered, job' = job, \A r \in Refs : Settled(r)',
         Kept' <= Charge
  PROVE  Budget'
<1>1. ASSUME NEW x \in Workers PROVE Knows(job[x])'
  <2>1. PICK j : j = job[x] /\ Names(j) /\ Knows(j) /\ job'[x] = j
    BY DEF Types, Jobs, Budget
  <2>2. Knows(j)' BY <2>1, KnowsKept
  <2> QED BY <2>1, <2>2 DEF Knows
<1> QED BY <1>1 DEF Budget

\* A request that leaves rows and acquirer alone.
LEMMA BudgetFramed ==
  ASSUME Types, Budget, NEW w \in Workers, \A x \in Workers \ {w} : job'[x] = job[x],
         Knows(job[w])', UNCHANGED <<transfer, sent, refused, misread>>
  PROVE  Budget'
<1>1. \A r \in Refs : Settled(r)' BY DEF Budget, Settled
<1>2. Remembered BY DEF Remembered
<1> QED BY <1>1, <1>2, BudgetKept, CommittedSame

\* Or learns that a refusal was of no more than a call.
LEMMA BudgetMisread ==
  ASSUME TransferBounds, IsFiniteSet(Refs), Types, Types', Totals, Budget, NEW w \in Workers,
         \A x \in Workers \ {w} : job'[x] = job[x], Knows(job[w])',
         UNCHANGED <<transfer, sent, refused>>, misread \subseteq misread',
         \A r \in Refs : r \in misread' => r \in misread \/ transfer[r].status # "none"
  PROVE  Budget'
<1>1. \A r \in Refs : Settled(r)' BY DEF Budget, Settled
<1>2. Remembered BY DEF Remembered
<1>3. Committed' \subseteq Committed BY DEF Committed
<1>4. \A r \in Refs : /\ transfer'[r].amount = transfer[r].amount
                      /\ transfer[r].reversed <= transfer'[r].reversed
  BY Figures
<1> QED BY <1>1, <1>2, <1>3, <1>4, CommittedLess, BudgetKept

\* A row whose total goes up.
LEMMA BudgetReversed ==
  ASSUME TransferBounds, IsFiniteSet(Refs), Types, Types', Totals, Budget, NEW r \in Refs,
         NEW total \in Nat, transfer[r].linked, transfer' = ReversedTo(r, total),
         UNCHANGED <<sent, refused, misread>>
  PROVE  /\ Remembered /\ \A q \in Refs : Settled(q)'
         /\ Kept' <= Charge
<1>1. transfer \in [Refs -> TransferType] BY DEF Types, Rows
<1>2. /\ \A q \in Refs \ {r} : transfer'[q] = transfer[q]
      /\ transfer'[r].linked = transfer[r].linked
      /\ transfer'[r].reversed = IF total >= transfer[r].reversed THEN total
                                ELSE transfer[r].reversed
  BY <1>1, Reversed, ZenonT(60)
<1>3. sent[r].amount > 0 /\ transfer[r].status \notin {"none", "failed"}
  BY DEF Budget, Settled
<1>4. transfer'[r].amount = transfer[r].amount BY <1>1 DEF ReversedTo, TransferType
<1>5. transfer'[r].status \notin {"none", "failed"}
  <2>2. StatusFor(r, total) \in {"reversed", "partially_reversed", transfer[r].status}
    <3>1. transfer[r].amount \in Nat BY Figures
    <3> QED BY <3>1 DEF StatusFor
  <2>3. transfer'[r].status \in {StatusFor(r, total), transfer[r].status}
    BY <1>1 DEF ReversedTo, TransferType
  <2> QED BY <1>3, <2>2, <2>3
<1>6. Committed' = Committed BY <1>2, <1>3, <1>5 DEF Committed
<1>7. \A q \in Refs : Settled(q)'
  <2>1. ASSUME NEW q \in Refs \ {r} PROVE Settled(q)'
    BY <1>2 DEF Budget, Settled
  <2>2. Settled(r)' BY <1>2, <1>3, <1>4, <1>5 DEF Budget, Settled
  <2> QED BY <2>1, <2>2
<1>8. Remembered BY <1>2, <1>5 DEF Remembered
<1>9. \A q \in Refs : /\ transfer'[q].amount = transfer[q].amount
                      /\ transfer[q].reversed <= transfer'[q].reversed
  <2>1. \A q \in Refs : transfer[q].reversed \in Nat BY <1>1 DEF TransferType
  <2> QED BY <1>2, <1>4, <2>1
<1> QED BY <1>6, <1>7, <1>8, <1>9, CommittedLess

\* A total the acquirer takes back moves no row.
LEMMA BudgetTaken ==
  ASSUME Types, Budget, NEW r \in Refs, NEW a \in Amounts, TransferBounds,
         Takes(r, a), UNCHANGED <<transfer, refused, misread>>
  PROVE  Remembered /\ (\A q \in Refs : Settled(q)') /\ Kept' <= Charge
<1>1. /\ sent'[r].amount = sent[r].amount
      /\ \A q \in Refs \ {r} : sent'[q] = sent[q]
  BY DEF Takes, Types, Acquirer
<1>2. \A q \in Refs : sent'[q].amount = sent[q].amount BY <1>1
<1> QED BY <1>2, CommittedSame DEF Remembered, Budget, Settled

\* A reversal leaves the row's settlement as it is and lowers what is committed.
LEMMA BudgetOfReversing ==
  ASSUME TransferBounds, IsFiniteSet(Refs), Types, Types', Totals, Budget,
         NEW w \in Workers,
         \/ AskReversal(w) \/ SendReversal(w) \/ ReadTotal(w) \/ MarkReversalSucceeded(w)
         \/ ApplyTotal(w) \/ MarkReversalFailed(w) \/ Abort(w)
  PROVE  Budget'
<1>0. /\ Jobs /\ job[w] \in JobType /\ Names(job[w])
      /\ job[w].pc \in Reversing => Ref(w) \in Refs
  BY AtWork DEF Types
<1>1. /\ \A x \in Workers \ {w} : job'[x] = job[x]
      /\ job'[w].pc \notin {"send", "paid", "refuse"}
  <2>1. CASE AskReversal(w)
    <3>1. PICK r \in Refs, v \in ReversalRefs, a \in Amounts :
            Go(w, [Idle EXCEPT !.pc = "reverse", !.ref = r, !.rev = v, !.amount = a])
      BY <2>1 DEF AskReversal
    <3> DEFINE k == [Idle EXCEPT !.pc = "reverse", !.ref = r, !.rev = v, !.amount = a]
    <3>2. k.pc = "reverse" BY DEF Idle
    <3>3. Go(w, k) BY <3>1
    <3> HIDE DEF k
    <3> QED BY <1>0, <3>2, <3>3, JobFrame
  <2>2. CASE SendReversal(w)
    BY <1>0, <2>2, JobFrame DEF SendReversal, Step, Finish, Idle, JobType
  <2>3. CASE ReadTotal(w)
    <3>1. PICK k : k = [job[w] EXCEPT !.pc = "mark", !.total = sent[Ref(w)].reversed]
      OBVIOUS
    <3>2. k.pc = "mark" BY <1>0, <3>1 DEF JobType
    <3>3. Go(w, k) BY <2>3, <3>1 DEF ReadTotal
    <3> QED BY <1>0, <3>2, <3>3, JobFrame
  <2>4. CASE MarkReversalSucceeded(w)
    BY <1>0, <2>4, JobFrame DEF MarkReversalSucceeded, Step, JobType
  <2>5. CASE ApplyTotal(w) \/ MarkReversalFailed(w) \/ Abort(w)
    BY <1>0, <2>5, JobFrame DEF ApplyTotal, MarkReversalFailed, Abort, Finish, Idle
  <2> QED BY <2>1, <2>2, <2>3, <2>4, <2>5
<1>2. Knows(job[w])' BY <1>1 DEF Knows
<1>3. CASE SendReversal(w)
  <2>1. "reverse" \in Reversing BY DEF Reversing
  <2>2. Ref(w) \in Refs /\ job[w].amount \in Amounts
    BY <1>0, <1>3, <2>1 DEF SendReversal, At, Names
  <2>3. CASE Takes(Ref(w), job[w].amount)
    <3>1. UNCHANGED <<transfer, refused, misread>> BY <1>3 DEF SendReversal
    <3> QED BY <1>1, <1>2, <2>2, <2>3, <3>1, BudgetTaken, BudgetKept
  <2>4. CASE UNCHANGED sent
    <3>1. UNCHANGED <<transfer, sent, refused, misread>> BY <1>3, <2>4 DEF SendReversal
    <3> QED BY <1>1, <1>2, <3>1, BudgetFramed
  <2> QED BY <1>3, <2>3, <2>4 DEF SendReversal
<1>4. CASE ApplyTotal(w)
  <2>1. "apply" \in Reversing BY DEF Reversing
  <2>2. Ref(w) \in Refs /\ job[w].total \in Nat
    BY <1>0, <1>4, <2>1 DEF ApplyTotal, At, JobType
  <2>3. transfer[Ref(w)].linked
    BY <1>4, <2>1 DEF ApplyTotal, At, Totals, Reached, Ref
  <2>4. transfer' = ReversedTo(Ref(w), job[w].total) /\ UNCHANGED <<sent, refused, misread>>
    BY <1>4 DEF ApplyTotal, acquirer
  <2>5. Remembered /\ (\A q \in Refs : Settled(q)') /\ Kept' <= Charge
    BY <2>2, <2>3, <2>4, BudgetReversed
  <2> QED BY <1>1, <1>2, <2>5, BudgetKept
<1>5. CASE \/ AskReversal(w) \/ ReadTotal(w) \/ MarkReversalSucceeded(w)
           \/ MarkReversalFailed(w) \/ Abort(w)
  <2>1. UNCHANGED <<transfer, sent, refused, misread>>
    BY <1>5 DEF AskReversal, ReadTotal, MarkReversalSucceeded, MarkReversalFailed, Abort,
       acquirer
  <2> QED BY <1>1, <1>2, <2>1, BudgetFramed
<1> QED BY <1>3, <1>4, <1>5

\* A call refused for a reason of its own.
LEMMA BudgetOfRefusing ==
  ASSUME TransferBounds, IsFiniteSet(Refs), Types, Types', Totals, Budget,
         NEW w \in Workers, RefusedForItself(w)
  PROVE  Budget'
<1>0. /\ Jobs /\ job[w] \in JobType /\ Names(job[w]) /\ Knows(job[w])
      /\ UNCHANGED <<transfer, sent, refused>>
  BY AtWork DEF RefusedForItself, acquirer, Types, Budget
<1>1. /\ \A x \in Workers \ {w} : job'[x] = job[x]
      /\ job'[w].pc \in {"refuse", "reverse_refuse"} /\ job'[w].ref = Ref(w)
      /\ job'[w].pc = "refuse" => job[w].pc = "send" /\ Ref(w) \in misread'
  BY <1>0, JobFrame DEF RefusedForItself, Step, JobType, Ref, At
<1>2. misread \subseteq misread' BY DEF RefusedForItself
<1>3. \A r \in Refs : r \in misread' => r \in misread \/ transfer[r].status # "none"
  <2>1. job[w].pc = "send" => transfer[Ref(w)].status # "none" BY <1>0 DEF Knows, Ref
  <2>2. job[w].pc = "total" => job[w].rev \notin Refs
    BY <1>0 DEF Names, Reversing, TransferBounds
  <2> QED BY <2>1, <2>2 DEF RefusedForItself, At
<1>4. Knows(job[w])' BY <1>0, <1>1 DEF Knows, Ref
<1> QED BY <1>0, <1>1, <1>2, <1>3, <1>4, BudgetMisread

\* A settlement is written where it fits what is committed.
LEMMA BudgetOfInserting ==
  ASSUME TransferBounds, IsFiniteSet(Refs), Types, Types', Totals, Budget, NEW w \in Workers,
         InsertTransfer(w)
  PROVE  Budget'
<1>0. /\ Jobs /\ job[w] \in JobType /\ Ref(w) \in Refs /\ job[w].amount \in Amounts
      /\ transfer \in [Refs -> TransferType]
  BY AtWork DEF InsertTransfer, At, Names, Settling, Types, Rows
<1> PICK r : r = Ref(w) OBVIOUS
<1> DEFINE new == [status |-> "pending", amount |-> job[w].amount, seller |-> job[w].seller,
                   linked |-> FALSE, reversed |-> 0]
<1>1. UNCHANGED <<sent, refused, misread>> BY DEF InsertTransfer, acquirer
<1>2. CASE /\ transfer[r].status = "none" /\ job[w].amount + CommittedTransfers <= Charge
           /\ transfer' = [transfer EXCEPT ![r] = new]
  <2>1. transfer'[r] = new /\ \A q \in Refs \ {r} : transfer'[q] = transfer[q]
    BY <1>0, <1>2
  <2>a. r \notin misread /\ ~(sent[r].amount > 0) BY <1>0, <1>2 DEF Budget, Settled
  <2>2. r \notin Committed /\ Committed' = Committed \cup {r}
    BY <1>0, <1>1, <1>2, <2>1, <2>a DEF Committed
  <2>3. Kept' <= Charge
    <3>0. Amounts \subseteq Int /\ Charge \in Int BY ONLY TransferBounds DEF TransferBounds
    <3>1. job[w].amount \in Int BY Zenon, <1>0, <3>0
    <3>2. job[w].amount + Kept <= Charge BY <1>2, <3>0, <3>1, KeptCounts
    <3> QED BY <1>0, <2>1, <2>2, <3>2, CommittedMore
  <2>4. ~(sent[r].amount > 0) BY <2>a
  <2>5. ASSUME NEW q \in Refs PROVE Settled(q)'
    <3>1. CASE q = r BY <1>0, <1>1, <2>1, <2>4, <3>1 DEF Budget, Settled
    <3>2. CASE q # r BY <1>1, <2>1, <3>2 DEF Budget, Settled
    <3> QED BY <3>1, <3>2
  <2>6. Remembered BY <1>1, <1>2, <2>1 DEF Remembered
  <2>7. job'[w].pc \in {"send", "idle"} /\ (job'[w].pc = "send" => job'[w].ref = r)
        /\ \A x \in Workers \ {w} : job'[x] = job[x]
    BY <1>0, JobFrame DEF InsertTransfer, Step, Finish, Idle, JobType, Ref
  <2>8. Knows(job[w])' BY <1>0, <2>1, <2>7 DEF Knows
  <2> QED BY <2>3, <2>5, <2>6, <2>7, <2>8, BudgetKept
<1>3. CASE /\ transfer' = transfer
           /\ Finish(w) \/ (transfer[r].status # "none" /\ Step(w, "send"))
  <2>1. job'[w].pc \in {"send", "idle"} /\ (job'[w].pc = "send" => job'[w].ref = r)
        /\ (job'[w].pc = "send" => transfer[r].status # "none")
        /\ \A x \in Workers \ {w} : job'[x] = job[x]
    BY <1>0, <1>3, JobFrame DEF Step, Finish, Idle, JobType, Ref
  <2>2. Knows(job[w])' BY <1>3, <2>1 DEF Knows
  <2> QED BY <1>1, <1>3, <2>1, <2>2, BudgetFramed
<1> QED BY <1>2, <1>3 DEF InsertTransfer

\* What the acquirer makes or refuses, it makes or refuses of a committed row.
LEMMA BudgetOfSending ==
  ASSUME TransferBounds, IsFiniteSet(Refs), Types, Types', Totals, Budget, NEW w \in Workers,
         SendTransfer(w) \/ SendTransferLost(w)
  PROVE  Budget'
<1> PICK r : r = Ref(w) OBVIOUS
<1>0. /\ Jobs /\ job[w] \in JobType /\ r \in Refs /\ r = job[w].ref
      /\ transfer[r].status # "none"
  BY AtWork DEF SendTransfer, SendTransferLost, At, Names, Settling, Types, Budget, Knows, Ref
<1>1. sent[r].amount \in Nat /\ transfer' = transfer /\ Settled(r)
  BY <1>0, Figures DEF SendTransfer, SendTransferLost, Budget
<1>2. misread' = misread => Kept' <= Charge BY <1>1, CommittedSame
<1>3. \A x \in Workers \ {w} : job'[x] = job[x]
  BY <1>0, JobFrame DEF SendTransfer, SendTransferLost, Step, Finish
<1>4. ASSUME sent[r].amount = 0, r \notin refused, UNCHANGED <<refused, misread>>,
             sent' = [sent EXCEPT ![r] = [amount |-> transfer[r].amount,
                                          seller |-> job[w].seller, reversed |-> 0]],
             Step(w, "paid") \/ Finish(w)
      PROVE  Budget'
  <2>1. /\ sent'[r].amount = transfer[r].amount
        /\ \A q \in Refs \ {r} : sent'[q] = sent[q]
    BY <1>0, <1>4 DEF Types, Acquirer
  <2>2. transfer[r].amount \in Amounts /\ transfer[r].amount > 0
    <3>1. transfer[r].amount \in Amounts BY <1>0, <1>1 DEF Settled
    <3>2. \A a \in Amounts : a > 0 BY DEF TransferBounds
    <3> QED BY <3>1, <3>2
  <2>3. Settled(r)' BY <1>0, <1>1, <1>4, <2>1, <2>2 DEF Settled
  <2>4. \A q \in Refs \ {r} : Settled(q)' BY <1>1, <1>4, <2>1 DEF Budget, Settled
  <2>5. Remembered BY <1>1, <1>4, <2>1 DEF Remembered
  <2>6. job'[w].pc \in {"paid", "idle"} /\ (job'[w].pc = "paid" => job'[w].ref = r)
    BY <1>0, <1>4, JobFrame DEF Step, Finish, Idle, JobType
  <2>7. Knows(job[w])' BY <1>0, <2>1, <2>2, <2>6 DEF Knows
  <2> QED BY <1>2, <1>3, <1>4, <2>3, <2>4, <2>5, <2>7, BudgetKept
<1>5. ASSUME sent[r].amount = 0, refused' = refused \cup {r}, UNCHANGED <<sent, misread>>,
             Step(w, "refuse")
      PROVE  Budget'
  <2>1. Settled(r)' BY <1>0, <1>1, <1>5 DEF Settled
  <2>2. \A q \in Refs \ {r} : Settled(q)' BY <1>1, <1>5 DEF Budget, Settled
  <2>3. Remembered BY <1>1, <1>5 DEF Remembered
  <2>4. job'[w].pc = "refuse" /\ job'[w].ref = r
    BY <1>0, <1>5, JobFrame DEF Step, JobType
  <2>5. Knows(job[w])' BY <1>0, <1>1, <1>5, <2>4 DEF Knows
  <2> QED BY <1>2, <1>3, <1>5, <2>1, <2>2, <2>3, <2>5, BudgetKept
<1>6. ASSUME sent[r].amount > 0, UNCHANGED <<sent, refused>>,
             \/ Step(w, "paid") /\ UNCHANGED misread
             \/ Step(w, "refuse") /\ misread' = misread \cup {r}
      PROVE  Budget'
  <2>1. CASE Step(w, "paid") /\ UNCHANGED misread
    <3>1. job'[w].pc = "paid" /\ job'[w].ref = r
      BY <1>0, <2>1, JobFrame DEF Step, JobType
    <3>2. Knows(job[w])' BY <1>6, <3>1 DEF Knows
    <3> QED BY <1>1, <1>3, <1>6, <2>1, <3>2, BudgetFramed
  <2>2. CASE Step(w, "refuse") /\ misread' = misread \cup {r}
    <3>1. job'[w].pc = "refuse" /\ job'[w].ref = r
      BY <1>0, <2>2, JobFrame DEF Step, JobType
    <3>2. Knows(job[w])' BY <1>0, <1>1, <2>2, <3>1 DEF Knows
    <3> QED BY <1>0, <1>1, <1>3, <1>6, <2>2, <3>2, BudgetMisread
  <2> QED BY <1>6, <2>1, <2>2
<1>7. CASE SendTransfer(w) BY <1>4, <1>5, <1>6, <1>7 DEF SendTransfer
<1>8. CASE SendTransferLost(w) BY <1>4, <1>8 DEF SendTransferLost
<1> QED BY <1>7, <1>8

\* A settlement leaves the sum only on a refusal, which its key keeps.
LEMMA BudgetOfAnswers ==
  ASSUME TransferBounds, IsFiniteSet(Refs), Types, Types', Totals, Budget, NEW w \in Workers,
         MarkTransferPaid(w) \/ MarkTransferFailed(w)
  PROVE  Budget'
<1> PICK r : r = Ref(w) OBVIOUS
<1>0. /\ Jobs /\ job[w] \in JobType /\ r \in Refs /\ r = job[w].ref /\ Settled(r)
      /\ transfer \in [Refs -> TransferType] /\ sent[r].amount \in Nat
      /\ Knows(job[w])
  BY AtWork, Figures DEF MarkTransferPaid, MarkTransferFailed, At, Names, Settling, Types, Rows,
     Budget, Ref
<1>1. UNCHANGED <<sent, refused, misread>> /\ Finish(w)
  BY DEF MarkTransferPaid, MarkTransferFailed, acquirer
<1>2. (\A x \in Workers \ {w} : job'[x] = job[x]) /\ Knows(job[w])'
  BY <1>0, <1>1, JobFrame DEF Finish, Idle, Knows
<1>3. CASE transfer' = transfer BY <1>1, <1>2, <1>3, BudgetFramed
<1>4. CASE MarkTransferPaid(w) /\ transfer' # transfer
  <2>1. /\ sent[r].amount > 0 /\ transfer[r].status # "none"
        /\ transfer[r].status = "failed" => r \in misread
    BY <1>0, <1>4 DEF MarkTransferPaid, At, Knows, Settled
  <2>2. transfer' = [transfer EXCEPT ![r].status = "paid", ![r].linked = TRUE]
    BY <1>4 DEF MarkTransferPaid
  <2>3. /\ \A q \in Refs \ {r} : transfer'[q] = transfer[q]
        /\ transfer'[r].status = "paid" /\ transfer'[r].amount = transfer[r].amount
        /\ transfer'[r].reversed = transfer[r].reversed
    BY <1>0, <2>2 DEF TransferType
  <2>4. Committed' = Committed BY <1>1, <2>1, <2>3 DEF Committed
  <2>5. \A q \in Refs : /\ transfer'[q].amount = transfer[q].amount
                        /\ transfer[q].reversed <= transfer'[q].reversed
    BY <2>3, Figures
  <2>6. Kept' <= Charge BY <2>4, <2>5, CommittedLess
  <2>7. Settled(r)' BY <1>0, <1>1, <2>1, <2>3 DEF Settled
  <2>8. \A q \in Refs \ {r} : Settled(q)' BY <1>1, <2>3 DEF Budget, Settled
  <2>9. Remembered BY <1>1, <2>3 DEF Remembered
  <2> QED BY <1>2, <2>6, <2>7, <2>8, <2>9, BudgetKept
<1>5. CASE MarkTransferFailed(w) /\ transfer' # transfer
  <2>1. r \in refused \cup misread /\ ~transfer[r].linked
    BY <1>0, <1>5 DEF MarkTransferFailed, At, Knows
  <2>2. transfer' = [transfer EXCEPT ![r].status = "failed"]
    BY <1>5 DEF MarkTransferFailed
  <2>3. /\ \A q \in Refs \ {r} : transfer'[q] = transfer[q]
        /\ transfer'[r].status = "failed" /\ transfer'[r].amount = transfer[r].amount
        /\ transfer'[r].reversed = transfer[r].reversed /\ ~transfer'[r].linked
    BY <1>0, <2>1, <2>2 DEF TransferType
  <2>4. Committed' = Committed \ {r} BY <1>1, <2>3 DEF Committed
  <2>5. \A q \in Refs : /\ transfer'[q].amount = transfer[q].amount
                        /\ transfer[q].reversed <= transfer'[q].reversed
    BY <2>3, Figures
  <2>6. Kept' <= Charge BY <2>4, <2>5, CommittedLess
  <2>7. Settled(r)'
    <3>2. transfer[r].status # "none" BY <1>0, <1>5 DEF MarkTransferFailed, At, Knows
    <3>3. transfer'[r].amount \in Amounts BY <1>0, <2>3, <3>2 DEF Settled
    <3> QED BY <1>0, <1>1, <2>1, <2>3, <3>3 DEF Settled
  <2>8. \A q \in Refs \ {r} : Settled(q)' BY <1>1, <2>3 DEF Budget, Settled
  <2>9. Remembered BY <1>1, <2>3 DEF Remembered
  <2> QED BY <1>2, <2>6, <2>7, <2>8, <2>9, BudgetKept
<1> QED BY <1>3, <1>4, <1>5

\* Nothing is committed at first.
LEMMA BudgetStart ==
  ASSUME TransferBounds PROVE Init => Budget
<1> SUFFICES ASSUME Init PROVE Budget OBVIOUS
<1>1. Committed = {} BY DEF Init, Committed, NoTransfer
<1>2. Kept = 0 BY <1>1, SumOfNone DEF Kept
<1>3. \A r \in Refs : Settled(r)
  BY DEF Init, Settled, NoTransfer, NotSent
<1>4. \A w \in Workers : Knows(job[w]) BY DEF Init, Knows, Idle
<1> QED BY <1>2, <1>3, <1>4 DEF Budget, TransferBounds

\* The invariant, action by action.
LEMMA BudgetStep ==
  ASSUME TransferBounds, IsFiniteSet(Refs), Types, Types', Totals, Budget, [Next]_vars
  PROVE  Budget'
<1>1. ASSUME NEW w \in Workers, AskTransfer(w) PROVE Budget'
  <2>1. PICK r \in Refs, s \in AllSellers, a \in Amounts :
          Go(w, [Idle EXCEPT !.pc = "find", !.ref = r, !.seller = s, !.amount = a])
    BY <1>1 DEF AskTransfer, AllSellers
  <2> DEFINE k == [Idle EXCEPT !.pc = "find", !.ref = r, !.seller = s, !.amount = a]
  <2>2. k.pc = "find" /\ Go(w, k) BY <2>1 DEF Idle
  <2> HIDE DEF k
  <2>3. job'[w].pc = "find" /\ \A x \in Workers \ {w} : job'[x] = job[x]
    BY <2>2, JobFrame DEF Types
  <2>4. Knows(job[w])' BY <2>3 DEF Knows
  <2> QED BY <1>1, <2>3, <2>4, BudgetFramed DEF AskTransfer, acquirer
<1>2. ASSUME NEW w \in Workers, FindTransfer(w) PROVE Budget'
  <2>0. Jobs /\ job[w] \in JobType BY AtWork DEF Types
  <2>1. /\ \A x \in Workers \ {w} : job'[x] = job[x]
        /\ job'[w].pc \in {"idle", "insert", "send"}
        /\ job'[w].pc = "send" => job'[w].ref = Ref(w) /\ transfer[Ref(w)].status = "pending"
    BY <1>2, <2>0, JobFrame DEF FindTransfer, Step, Finish, Idle, JobType, Ref
  <2>2. UNCHANGED <<transfer, sent, refused, misread>> BY <1>2 DEF FindTransfer, acquirer
  <2>3. Knows(job[w])' BY <2>1, <2>2 DEF Knows
  <2> QED BY <2>1, <2>2, <2>3, BudgetFramed
<1>3. ASSUME NEW e \in unread, HandleTransferEvent(e) PROVE Budget'
  <2>1. e.ref \in Refs /\ e.total \in Nat BY DEF Types, Acquirer
  <2>2. /\ transfer[e.ref].linked /\ transfer' = ReversedTo(e.ref, e.total)
        /\ UNCHANGED <<sent, refused, misread>> /\ job' = job
    BY <1>3 DEF HandleTransferEvent, acquirer
  <2>3. Remembered /\ (\A q \in Refs : Settled(q)') /\ Kept' <= Charge
    BY <2>1, <2>2, BudgetReversed
  <2> QED BY <2>2, <2>3, BudgetOfRows
<1>4. ASSUME NEW r \in Refs, ReversedOutside(r) PROVE Budget'
  <2>1. PICK a \in Amounts : Takes(r, a) BY <1>4 DEF ReversedOutside
  <2>2. UNCHANGED <<transfer, refused, misread, job>> BY <1>4 DEF ReversedOutside
  <2> QED BY <2>1, <2>2, BudgetTaken, BudgetOfRows
<1>5. CASE UNCHANGED vars
  <2>1. UNCHANGED <<transfer, sent, refused, misread, job>> BY <1>5 DEF vars, acquirer
  <2>2. Remembered /\ \A q \in Refs : Settled(q)'
    BY <2>1 DEF Remembered, Budget, Settled
  <2> QED BY <2>1, <2>2, CommittedSame, BudgetOfRows
<1> QED BY <1>1, <1>2, <1>3, <1>4, <1>5, BudgetOfReversing, BudgetOfInserting,
        BudgetOfSending, BudgetOfAnswers, BudgetOfRefusing DEF Next

\* What the acquirer holds for the sellers is in the committed rows.
LEMMA BudgetWithin ==
  ASSUME TransferBounds, IsFiniteSet(Refs), Types, Totals, Budget
  PROVE  WithinPayment
<1> DEFINE f == [r \in Refs |-> sent[r].amount - sent[r].reversed]
           g == NotReturned
           R == Refs \ misread
           S == Committed
<1>1. /\ S \in SUBSET R /\ R \in SUBSET Refs /\ IsFiniteSet(S) /\ IsFiniteSet(R)
  BY FS_Subset DEF Committed
<1>2. ASSUME NEW r \in Refs
      PROVE  /\ f[r] \in Int /\ g[r] \in Int /\ f[r] <= g[r]
             /\ r \in R \ S => f[r] <= 0
  <2>1. /\ transfer[r].amount \in Nat /\ transfer[r].reversed \in Nat
        /\ sent[r].amount \in Nat /\ sent[r].reversed \in Nat
    BY Figures
  <2>2. RowTotals(r) /\ Settled(r) BY DEF Totals, Budget
  <2>3. /\ f[r] = sent[r].amount - sent[r].reversed
        /\ g[r] = transfer[r].amount - transfer[r].reversed
    BY Returned
  <2>4. transfer[r].reversed <= sent[r].reversed /\ sent[r].reversed <= sent[r].amount
    BY <2>2 DEF RowTotals
  <2>5. /\ sent[r].amount = 0 \/ sent[r].amount = transfer[r].amount
        /\ r \in R \ S => sent[r].amount = 0
    BY <2>1, <2>2 DEF Settled, Committed
  <2> HIDE DEF f, g, R, S
  <2> QED BY <2>1, <2>3, <2>4, <2>5
<1>3. Kept = SumFunctionOnSet(g, S) /\ Kept <= Charge BY DEF Kept, Budget
<1>4. WithinPayment <=> SumFunctionOnSet(f, R) <= Charge BY DEF WithinPayment
<1> HIDE DEF f, g, R, S
<1>5. SumFunctionOnSet(f, R) <= SumFunctionOnSet(f, S) BY <1>1, <1>2, SumOfPart
<1>6. SumFunctionOnSet(f, S) <= SumFunctionOnSet(g, S) BY <1>1, <1>2, SumAtMost
<1>7. /\ SumFunctionOnSet(f, R) \in Int /\ SumFunctionOnSet(f, S) \in Int
      /\ SumFunctionOnSet(g, S) \in Int
  BY <1>1, <1>2, SumType
<1> QED BY <1>3, <1>4, <1>5, <1>6, <1>7 DEF TransferBounds

\* The sellers of one payment hold no more than it brought in, however many
\* requests settle them at once, whatever answers are lost, whatever is taken back,
\* whichever sellers a repeated reference names and however often a call is refused
\* for a reason of its own - the settlements apart of which such a refusal was
\* recorded: those can have been made, and their amounts are given to the next.
THEOREM SellersWithinPayment ==
  ASSUME TransferBounds, IsFiniteSet(Refs)
  PROVE  Spec => []WithinPayment
<1>1. Types /\ Totals /\ Budget /\ [Next]_vars /\ Types' => Budget' BY BudgetStep
<1>2. Types /\ Totals /\ Budget => WithinPayment BY BudgetWithin
<1> QED BY <1>1, <1>2, BudgetStart, TypesAlways, TotalsAlways, PTL DEF Spec

-----------------------------------------------------------------------------
(*****************************************************************************)
(* A dispute's row, for any tasks, requests, deliveries and bounds. The      *)
(* upsert compares nothing, so what keeps its news complete is the order     *)
(* in which a pass works: while there is no row every task is at the first   *)
(* event that can be read, so whichever of them makes the row, it tells      *)
(* what the others are about to write without telling.                       *)
(*****************************************************************************)
CONSTANTS Drains, Requests, Reordered, MaxNews, MaxAborts
VARIABLES dispute, network, news, inbox, processed, told, aborts

Disp == INSTANCE Disputes

Statuses == Disp!DisputeStatuses \cup {"none"}
NewsType == [type : Disp!EventTypes, status : Statuses]
DispJobType(n) == [pc : Disp!Pcs, todo : SUBSET (1..n), status : Statuses, before : Statuses]

\* A pass is under way; a request is under way.
Draining == {"scan", "before", "upsert", "mark"}
Asking == {"draft", "record_draft", "submit", "claim", "accept", "close"}

Least(S) == CHOOSE p \in S : \A q \in S : p <= q

\* Everything but a close that does not say who won.
Legible(e) == ~(e.type = "closed" /\ e.status = "none")

\* The place of the first event that a pass does not skip.
First(p, n, ib) ==
  /\ p \in 1..Len(ib) /\ Legible(n[ib[p]])
  /\ \A q \in 1..Len(ib) : q < p => ~Legible(n[ib[q]])

\* What an execution holds, given the row d, the network nt, the news n, the
\* inbox ib and the statuses s the merchant was told.
JobOK(j, d, nt, n, ib, s) ==
  /\ j.status \in Disp!Outcomes => nt.status = j.status
  /\ j.before # "none" => d.status # "none" /\ j.before \in s
  /\ j.pc = "mark" => d.status # "none"
  /\ j.pc \in Asking => d.status # "none"
  /\ j.pc = "claim" => nt.answered = TRUE
  /\ j.pc = "close" => j.status = "lost"
  /\ j.pc \in Draining => j.todo # {}
  /\ d.status = "none" /\ j.pc \in Draining =>
       \A t \in j.todo : \A q \in 1..Len(ib) :
         q < t /\ q \notin j.todo => ~Legible(n[ib[q]])
  /\ j.pc \in {"before", "upsert"} =>
       LET e == n[ib[Least(j.todo)]]
       IN /\ j.status # "none" /\ Legible(e)
          /\ e.type # "funds" \/ d.status = "none" => j.status = Disp!EventStatus(e, "none")
          /\ j.pc = "upsert" /\ j.before = "none" => First(Least(j.todo), n, ib)

DispJobs == \A w \in Disp!Workers :
  JobOK(job[w], dispute, network, news, inbox, told.statuses)

\* The network's outcome is what its news say, and a close says nothing else.
NewsOK ==
  \A i \in 1..Len(news) :
    /\ news[i].status \in Disp!Outcomes => network.status = news[i].status
    /\ news[i].type = "closed" => news[i].status \in Disp!Outcomes \cup {"none"}

\* A row was made of the first legible event or says something as well told.
FirstTold ==
  dispute.status # "none" =>
    \E p \in 1..Len(inbox) : First(p, news, inbox)
                             /\ Disp!EventStatus(news[inbox[p]], "none") \in told.statuses

NoRow == dispute.status = "none" => told.openings = 0 /\ processed = {}

Row ==
  /\ NoRow /\ NewsOK /\ FirstTold
  /\ Disp!CreatedToldOnce /\ Disp!OutcomeIsTrue /\ Disp!AnsweredIsTrue /\ Disp!StatusWasTold

IInv == Disp!TypeOK /\ DispJobs /\ Row

-----------------------------------------------------------------------------
\* The least of the places that a pass has left.
LEMMA LeastIs ==
  ASSUME NEW n \in Nat, NEW S \in SUBSET (1..n), S # {}
  PROVE  Least(S) \in S /\ \A q \in S : Least(S) <= q
<1>1. S \subseteq Nat OBVIOUS
<1>2. PICK p \in S : \A q \in S : ~(<<q, p>> \in OpToRel(<, Nat))
  <2> HIDE DEF OpToRel
  <2> QED BY <1>1, NatLessThanWellFounded, WFMin
<1>3. \A q \in S : p <= q
  <2> TAKE q \in S
  <2>1. <<q, p>> \in Nat \X Nat BY <1>1
  <2>2. ~(q < p) BY <1>2, <2>1 DEF OpToRel
  <2> QED BY <2>2, <1>1
<1> QED BY <1>3 DEF Least

\* What an event is taken to say, by what it says.
LEMMA Says ==
  ASSUME NEW e \in NewsType, NEW k \in Statuses
  PROVE  /\ Disp!EventStatus(e, k) \in Disp!DisputeStatuses
         /\ e.type # "funds" => Disp!EventStatus(e, k) = Disp!EventStatus(e, "none")
         /\ Disp!EventStatus(e, k) \in Disp!Outcomes
              => e.status = Disp!EventStatus(e, k) \/ k = Disp!EventStatus(e, k)
         /\ e.status \in Disp!Outcomes \cup {"none"} \/ e.type # "closed" =>
              (Legible(e) <=> ~(e.type = "closed" /\ Disp!EventStatus(e,
                  k) \notin Disp!Outcomes))
<1>1. e.type \in {"created", "updated", "closed", "funds"} /\ e.status \in Statuses
  BY DEF NewsType, Disp!EventTypes
<1>2. k \in {"needs_response", "under_review", "won", "lost", "none"}
  BY DEF Statuses, Disp!DisputeStatuses, Disp!Outcomes
<1>3. CASE e.status # "none"
  BY <1>1, <1>3 DEF Disp!EventStatus, Legible, Statuses, Disp!Outcomes, Disp!DisputeStatuses
<1>4. CASE e.status = "none"
  <2>1. CASE e.type = "created"
    BY <1>4, <2>1 DEF Disp!EventStatus, Disp!StatusForEvent, Legible, Disp!Outcomes,
       Disp!DisputeStatuses
  <2>2. CASE e.type = "updated"
    BY <1>4, <2>2 DEF Disp!EventStatus, Disp!StatusForEvent, Legible, Disp!Outcomes,
       Disp!DisputeStatuses
  <2>3. CASE e.type = "closed"
    BY <1>4, <2>3 DEF Disp!EventStatus, Disp!StatusForEvent, Legible, Disp!Outcomes,
       Disp!DisputeStatuses
  <2>4. CASE e.type = "funds"
    <3>1. Disp!EventStatus(e, k) = IF k # "none" THEN k ELSE "needs_response"
      BY <1>4, <2>4 DEF Disp!EventStatus, Disp!StatusForEvent
    <3> QED BY <1>2, <1>4, <2>4, <3>1 DEF Legible, Disp!Outcomes, Disp!DisputeStatuses
  <2> QED BY <1>1, <2>1, <2>2, <2>3, <2>4
<1> QED BY <1>3, <1>4

\* There is one first legible event.
LEMMA FirstIsOne ==
  ASSUME NEW n, NEW ib, Len(ib) \in Nat, NEW p, NEW q, First(p, n, ib), First(q, n, ib)
  PROVE  p = q
<1>1. p \in 1..Len(ib) /\ q \in 1..Len(ib) BY DEF First
<1>2. ~(p < q) /\ ~(q < p) BY <1>1 DEF First
<1> QED BY <1>1, <1>2

\* The state, without the types of what each execution holds.
LEMMA State ==
  ASSUME Disp!TypeOK
  PROVE  /\ dispute.status \in Statuses /\ dispute.submitted \in BOOLEAN
         /\ network.status \in Statuses /\ network.answered \in BOOLEAN
         /\ dispute = [status |-> dispute.status, submitted |-> dispute.submitted]
         /\ network = [status |-> network.status, answered |-> network.answered]
         /\ news \in Seq(NewsType) /\ Len(news) \in Nat
         /\ \A i \in 1..Len(news) : news[i] \in NewsType
         /\ inbox \in Seq(1..Len(news)) /\ Len(inbox) \in Nat
         /\ \A p \in 1..Len(inbox) : inbox[p] \in 1..Len(news) /\ news[inbox[p]] \in NewsType
         /\ told.openings \in Nat /\ told.statuses \in SUBSET Disp!DisputeStatuses
         /\ job \in [Disp!Workers -> DispJobType(Len(inbox))]
<1>1. /\ dispute \in [status : Statuses, submitted : BOOLEAN]
      /\ network \in [status : Statuses, answered : BOOLEAN]
  BY DEF Disp!TypeOK, Statuses
<1>2. news \in Seq(NewsType) /\ inbox \in Seq(1..Len(news))
  BY DEF Disp!TypeOK, Statuses, NewsType
<1>3. Len(news) \in Nat /\ \A i \in 1..Len(news) : news[i] \in NewsType BY <1>2
<1>4. Len(inbox) \in Nat /\ \A p \in 1..Len(inbox) : inbox[p] \in 1..Len(news)
  <2> HIDE DEF NewsType
  <2> DEFINE N == 1..Len(news)
  <2>1. inbox \in Seq(N) BY <1>2
  <2> HIDE DEF N
  <2>2. Len(inbox) \in Nat /\ \A p \in 1..Len(inbox) : inbox[p] \in N BY <2>1
  <2> QED BY <2>2 DEF N
<1>5. told.openings \in Nat /\ told.statuses \in SUBSET Disp!DisputeStatuses
  BY DEF Disp!TypeOK
<1>6. job \in [Disp!Workers -> DispJobType(Len(inbox))]
  BY DEF Disp!TypeOK, Statuses, DispJobType
<1> QED BY <1>1, <1>2, <1>3, <1>4, <1>5, <1>6

\* What an execution at work holds.
LEMMA Held ==
  ASSUME Disp!TypeOK, DispJobs, NEW w \in Disp!Workers
  PROVE  /\ job[w] \in DispJobType(Len(inbox))
         /\ JobOK(job[w], dispute, network, news, inbox, told.statuses)
         /\ job[w].pc \in Draining =>
              /\ Disp!Place(w) = Least(job[w].todo) /\ Disp!Place(w) \in job[w].todo
              /\ \A q \in job[w].todo : Disp!Place(w) <= q
              /\ Disp!Place(w) \in 1..Len(inbox) /\ inbox[Disp!Place(w)] \in 1..Len(news)
              /\ Disp!Event(w) = news[inbox[Disp!Place(w)]] /\ Disp!Event(w) \in NewsType
<1>1. job[w] \in DispJobType(Len(inbox)) BY State
<1>2. JobOK(job[w], dispute, network, news, inbox, told.statuses) BY DEF DispJobs
<1>3. ASSUME job[w].pc \in Draining
      PROVE  Disp!Place(w) \in job[w].todo /\ (\A q \in job[w].todo : Disp!Place(w) <= q)
             /\ Disp!Place(w) = Least(job[w].todo)
  <2>1. job[w].todo # {} /\ job[w].todo \in SUBSET (1..Len(inbox)) /\ Len(inbox) \in Nat
    BY <1>1, <1>2, <1>3, State DEF JobOK, DispJobType
  <2>2. Disp!Place(w) = Least(job[w].todo) BY DEF Disp!Place, Least
  <2> QED BY <2>1, <2>2, LeastIs
<1>4. ASSUME job[w].pc \in Draining PROVE Disp!Place(w) \in 1..Len(inbox)
  BY <1>1, <1>3, <1>4 DEF DispJobType
<1> QED BY <1>1, <1>2, <1>3, <1>4, State DEF Disp!Event

-----------------------------------------------------------------------------
\* What no step undoes.
Grows ==
  /\ Len(news) <= Len(news') /\ \A i \in 1..Len(news) : news'[i] = news[i]
  /\ Len(inbox) <= Len(inbox') /\ \A p \in 1..Len(inbox) : inbox'[p] = inbox[p]
  /\ dispute.status # "none" => dispute'.status # "none"
  /\ told.statuses \subseteq told'.statuses
  /\ network.status \in Disp!Outcomes => network'.status = network.status
  /\ network.answered = TRUE => network'.answered = TRUE

\* What is stored says what it said.
LEMMA ReadsAlike ==
  ASSUME Disp!TypeOK, Disp!TypeOK', Grows
  PROVE  /\ \A p \in 1..Len(inbox) : news'[inbox'[p]] = news[inbox[p]] /\ p \in 1..Len(inbox')
         /\ \A p : First(p, news, inbox) => First(p, news', inbox')
<1>1. Len(inbox) \in Nat /\ Len(inbox') \in Nat BY State DEF Disp!TypeOK
<1>2. \A p \in 1..Len(inbox) : p \in 1..Len(inbox') BY <1>1 DEF Grows
<1>3. \A p \in 1..Len(inbox) : news'[inbox'[p]] = news[inbox[p]] BY State DEF Grows
<1>4. ASSUME NEW p, First(p, news, inbox) PROVE First(p, news', inbox')
  <2>1. p \in 1..Len(inbox) /\ Legible(news[inbox[p]]) BY <1>4 DEF First
  <2>2. p \in 1..Len(inbox') /\ Legible(news'[inbox'[p]]) BY <1>2, <1>3, <2>1
  <2>3. ASSUME NEW q \in 1..Len(inbox'), q < p PROVE ~Legible(news'[inbox'[q]])
    <3>1. q \in 1..Len(inbox) BY <1>1, <2>1, <2>3
    <3>2. ~Legible(news[inbox[q]]) BY <1>4, <2>3, <3>1 DEF First
    <3> QED BY <1>3, <3>1, <3>2
  <2> QED BY <2>2, <2>3 DEF First
<1> QED BY <1>2, <1>3, <1>4

LEMMA JobGrows ==
  ASSUME Disp!TypeOK, Disp!TypeOK', Grows, NEW j \in DispJobType(Len(inbox)),
         JobOK(j, dispute, network, news, inbox, told.statuses)
  PROVE  JobOK(j, dispute', network', news', inbox', told'.statuses)
<1> DEFINE P == Least(j.todo)
<1>1. /\ j.status \in Disp!Outcomes => network'.status = j.status
      /\ j.before # "none" => dispute'.status # "none" /\ j.before \in told'.statuses
      /\ j.pc = "mark" => dispute'.status # "none"
      /\ j.pc \in Asking => dispute'.status # "none"
      /\ j.pc = "claim" => network'.answered = TRUE
      /\ j.pc = "close" => j.status = "lost"
      /\ j.pc \in Draining => j.todo # {}
  BY DEF JobOK, Grows
<1>2. dispute'.status = "none" => dispute.status = "none" BY DEF Grows
<1>3. j.todo \in SUBSET (1..Len(inbox)) /\ Len(inbox) \in Nat /\ Len(inbox') \in Nat
  BY SMTT(60), State DEF DispJobType, Disp!TypeOK
<1>4. ASSUME dispute'.status = "none", j.pc \in Draining, NEW t \in j.todo,
             NEW q \in 1..Len(inbox'), q < t, q \notin j.todo
      PROVE  ~Legible(news'[inbox'[q]])
  <2>1. q \in 1..Len(inbox) BY <1>3, <1>4
  <2>2. ~Legible(news[inbox[q]]) BY <1>2, <1>4, <2>1 DEF JobOK
  <2> QED BY <2>1, <2>2, ReadsAlike
<1>5. ASSUME j.pc \in {"before", "upsert"}
      PROVE  LET e == news'[inbox'[P]]
             IN /\ j.status # "none" /\ Legible(e)
                /\ e.type # "funds" \/ dispute'.status = "none" =>
                     j.status = Disp!EventStatus(e, "none")
                /\ j.pc = "upsert" /\ j.before = "none" => First(P, news', inbox')
  <2>1. j.pc \in Draining BY <1>5 DEF Draining
  <2>2. P \in 1..Len(inbox)
    <3>1. j.todo # {} BY <1>1, <2>1
    <3> QED BY <1>3, <3>1, LeastIs
  <2>3. news'[inbox'[P]] = news[inbox[P]] BY <2>2, ReadsAlike
  <2>4. /\ j.status # "none" /\ Legible(news[inbox[P]])
        /\ news[inbox[P]].type # "funds" \/ dispute.status = "none" =>
             j.status = Disp!EventStatus(news[inbox[P]], "none")
        /\ j.pc = "upsert" /\ j.before = "none" => First(P, news, inbox)
    BY <1>5 DEF JobOK
  <2> HIDE DEF P
  <2> QED BY <1>2, <2>3, <2>4, ReadsAlike
<1> QED BY <1>1, <1>4, <1>5 DEF JobOK

\* One execution moves, or none.
LEMMA OneMoves ==
  ASSUME Disp!TypeOK, Disp!TypeOK', DispJobs, Grows, NEW w
    \in Disp!Workers, NEW j, Disp!Go(w, j),
         JobOK(j, dispute', network', news', inbox', told'.statuses)
  PROVE  DispJobs'
<1>1. job \in [Disp!Workers -> DispJobType(Len(inbox))] BY State
<1>2. job'[w] = j /\ \A v \in Disp!Workers : v # w => job'[v] = job[v] BY <1>1 DEF Disp!Go
<1>3. SUFFICES ASSUME NEW v \in Disp!Workers
               PROVE  JobOK(job'[v], dispute', network', news', inbox', told'.statuses)
  BY DEF DispJobs
<1>4. CASE v = w BY <1>2, <1>4
<1>5. CASE v # w
  <2>1. job[v] \in DispJobType(Len(inbox)) BY <1>1
  <2>2. JobOK(job[v], dispute, network, news, inbox, told.statuses) BY DEF DispJobs
  <2>3. JobOK(job[v], dispute', network', news', inbox', told'.statuses)
    BY <2>1, <2>2, JobGrows
  <2> QED BY <1>2, <1>5, <2>3
<1> QED BY <1>4, <1>5

LEMMA NoneMoves ==
  ASSUME Disp!TypeOK, Disp!TypeOK', DispJobs, Grows, job' = job
  PROVE  DispJobs'
<1>1. job \in [Disp!Workers -> DispJobType(Len(inbox))] BY State
<1>2. SUFFICES ASSUME NEW v \in Disp!Workers
               PROVE  JobOK(job[v], dispute', network', news', inbox', told'.statuses)
  BY DEF DispJobs
<1>3. job[v] \in DispJobType(Len(inbox)) BY <1>1
<1>4. JobOK(job[v], dispute, network, news, inbox, told.statuses) BY DEF DispJobs
<1> QED BY <1>3, <1>4, JobGrows

LEMMA IdleIsSane ==
  ASSUME NEW n \in Nat, NEW d, NEW nt, NEW nw, NEW ib, NEW s
  PROVE  Disp!Idle \in DispJobType(n) /\ Disp!Idle.pc = "idle"
           /\ JobOK(Disp!Idle, d, nt, nw, ib, s)
<1>1. Disp!Idle = [pc |-> "idle", todo |-> {}, status |-> "none", before |-> "none"]
  BY DEF Disp!Idle, Disp!Job
<1>2. Disp!Idle \in DispJobType(n) BY <1>1 DEF DispJobType, Disp!Pcs, Statuses
<1> QED BY <1>1, <1>2 DEF JobOK, Disp!Outcomes, Asking, Draining

-----------------------------------------------------------------------------
\* An execution's own step: it holds something else, and may have died.
LEMMA PrivateStep ==
  ASSUME Disp!DisputeBounds, IInv, NEW w \in Disp!Workers, NEW j
    \in DispJobType(Len(inbox)), Disp!Go(w, j),
         JobOK(j, dispute, network, news, inbox, told.statuses),
         UNCHANGED <<dispute, Disp!outside, Disp!table, told>>, aborts' \in 0..MaxAborts
  PROVE  IInv'
<1>1. dispute' = dispute /\ network' = network /\ news' = news /\ inbox' = inbox
      /\ processed' = processed /\ told' = told
  BY DEF Disp!outside, Disp!table
<1>2. Disp!TypeOK'
  <2>1. job' \in [Disp!Workers -> DispJobType(Len(inbox))] BY State DEF Disp!Go, IInv
  <2>2. Disp!Stored' = Disp!Stored BY <1>1 DEF Disp!Stored
  <2> QED BY <1>1, <2>1, <2>2 DEF Disp!TypeOK, IInv, DispJobType, Statuses
<1>3. Grows BY <1>1, State DEF Grows, IInv
<1>4. DispJobs' BY <1>1, <1>2, <1>3, OneMoves DEF IInv
<1>5. Row'
  BY <1>1 DEF Row, IInv, NoRow, NewsOK, FirstTold, Disp!CreatedToldOnce, Disp!OutcomeIsTrue,
              Disp!AnsweredIsTrue, Disp!StatusWasTold
<1> QED BY <1>2, <1>4, <1>5 DEF IInv

LEMMA AbortKeeps ==
  ASSUME Disp!DisputeBounds, IInv, NEW w \in Disp!Workers, Disp!Abort(w)
  PROVE  IInv'
<1>1. Len(inbox) \in Nat /\ aborts \in 0..MaxAborts /\ MaxAborts \in Nat
  BY State DEF IInv, Disp!TypeOK, Disp!DisputeBounds
<1>2. Disp!Go(w, Disp!Idle) /\ UNCHANGED <<dispute, Disp!outside, Disp!table, told>>
  BY DEF Disp!Abort
<1>3. aborts' \in 0..MaxAborts BY <1>1 DEF Disp!Abort
<1>4. Disp!Idle \in DispJobType(Len(inbox))
        /\ JobOK(Disp!Idle, dispute, network, news, inbox, told.statuses)
  BY <1>1, IdleIsSane
<1> QED BY <1>2, <1>3, <1>4, PrivateStep

-----------------------------------------------------------------------------
\* The network says one thing more.  The execution that made it do so, if any,
\* holds something else.
LEMMA OutsideStep ==
  ASSUME Disp!DisputeBounds, IInv, NEW type \in Disp!EventTypes, NEW status \in Statuses,
         Disp!Announces(type, status),
         network' \in [status : Statuses, answered : BOOLEAN],
         network.status \in Disp!Outcomes => network'.status = network.status,
         network.answered = TRUE => network'.answered = TRUE,
         status \in Disp!Outcomes => network'.status = status,
         type = "closed" => status \in Disp!Outcomes \cup {"none"},
         UNCHANGED <<dispute, Disp!table, told, aborts>>,
         \/ UNCHANGED job
         \/ \E w \in Disp!Workers, j \in DispJobType(Len(inbox)) :
              /\ Disp!Go(w, j)
              /\ JobOK(j, dispute', network', news', inbox', told'.statuses)
  PROVE  IInv'
<1>1. dispute' = dispute /\ inbox' = inbox /\ processed' = processed /\ told' = told
      /\ aborts' = aborts
  BY DEF Disp!table
<1>2. /\ Len(news) \in Nat /\ Len(inbox) \in Nat /\ news \in Seq(NewsType)
      /\ \A i \in 1..Len(news) : news[i] \in NewsType
      /\ inbox \in Seq(1..Len(news)) /\ job \in [Disp!Workers -> DispJobType(Len(inbox))]
      /\ \A p \in 1..Len(inbox) : inbox[p] \in 1..Len(news) /\ news[inbox[p]] \in NewsType
  BY State DEF IInv
<1> DEFINE N == [type |-> type, status |-> status]
<1>3. N \in NewsType BY DEF NewsType
<1> HIDE DEF N
<1>4. /\ news' \in Seq(NewsType) /\ Len(news') = Len(news) + 1
      /\ \A i \in 1..Len(news) : news'[i] = news[i]
      /\ news'[Len(news) + 1] = N
  <2>1. news' = Append(news, N) BY DEF Disp!Announces, N
  <2> HIDE DEF NewsType
  <2> QED BY <1>2, <1>3, <2>1
<1>5. inbox' \in Seq(1..Len(news'))
  <2> DEFINE A == 1..Len(news) B == 1..Len(news')
  <2>1. inbox \in Seq(A) /\ A \subseteq B BY <1>2, <1>4
  <2> HIDE DEF A, B
  <2>2. inbox \in Seq(B) BY <2>1
  <2> QED BY <1>1, <2>2 DEF B
<1>6. job' \in [Disp!Workers -> DispJobType(Len(inbox))]
  <2> HIDE DEF DispJobType
  <2>1. CASE UNCHANGED job BY <1>2, <2>1
  <2>2. CASE \E w \in Disp!Workers, j \in DispJobType(Len(inbox)) : Disp!Go(w, j)
    BY <1>2, <2>2 DEF Disp!Go
  <2> QED BY <2>1, <2>2
<1>7. Disp!TypeOK'
  <2>1. Disp!Stored' = Disp!Stored BY <1>1 DEF Disp!Stored
  <2> QED BY <1>1, <1>4, <1>5, <1>6, <2>1 DEF Disp!TypeOK, IInv, DispJobType, NewsType,
             Statuses
<1>8. Grows BY <1>1, <1>2, <1>4 DEF Grows
<1>9. DispJobs'
  <2>1. CASE UNCHANGED job BY <1>7, <1>8, <2>1, NoneMoves DEF IInv
  <2>2. CASE \E w \in Disp!Workers, j \in DispJobType(Len(inbox)) :
               Disp!Go(w, j) /\ JobOK(j, dispute', network', news', inbox', told'.statuses)
    BY <1>7, <1>8, <2>2, OneMoves DEF IInv
  <2> QED BY <2>1, <2>2
<1>10. NewsOK'
  <2> SUFFICES ASSUME NEW i \in 1..Len(news')
               PROVE  /\ news'[i].status \in Disp!Outcomes
                        => network'.status = news'[i].status
                      /\ news'[i].type = "closed"
                           => news'[i].status \in Disp!Outcomes \cup {"none"}
    BY DEF NewsOK
  <2>1. CASE i \in 1..Len(news)
    <3>1. /\ news[i].status \in Disp!Outcomes => network.status = news[i].status
          /\ news[i].type = "closed" => news[i].status \in Disp!Outcomes \cup {"none"}
      BY <2>1 DEF IInv, Row, NewsOK
    <3> QED BY <1>4, <2>1, <3>1
  <2>2. CASE i = Len(news) + 1
    <3>1. news'[i].type = type /\ news'[i].status = status BY <1>4, <2>2 DEF N
    <3> QED BY <3>1
  <2> QED BY <1>2, <1>4, <2>1, <2>2
<1>11. FirstTold'
  <2> SUFFICES ASSUME dispute'.status # "none"
               PROVE  \E p \in 1..Len(inbox') : First(p, news', inbox')
                        /\ Disp!EventStatus(news'[inbox'[p]], "none") \in told'.statuses
    BY DEF FirstTold
  <2>1. PICK p \in 1..Len(inbox) : First(p, news, inbox)
                                   /\ Disp!EventStatus(news[inbox[p]], "none")
                                        \in told.statuses
    BY <1>1 DEF IInv, Row, FirstTold
  <2>2. First(p, news', inbox') /\ news'[inbox'[p]] = news[inbox[p]]
    BY <1>7, <1>8, <2>1, ReadsAlike DEF IInv
  <2> QED BY <1>1, <2>1, <2>2
<1>12. Row'
  BY <1>1, <1>8, <1>10, <1>11 DEF Row, IInv, NoRow, Disp!CreatedToldOnce, Disp!OutcomeIsTrue,
     Disp!AnsweredIsTrue, Disp!StatusWasTold, Grows
<1> QED BY <1>7, <1>9, <1>12 DEF IInv

LEMMA NetworkKeeps ==
  ASSUME Disp!DisputeBounds, IInv, Disp!Opens \/ Disp!MovesFunds \/ Disp!Reviews
    \/ Disp!Decides
  PROVE  IInv'
<1>1. /\ network.status \in Statuses /\ network.answered \in BOOLEAN
      /\ network = [status |-> network.status, answered |-> network.answered]
  BY State DEF IInv
<1>2. CASE Disp!Opens
  <2>1. network' = [status |-> "needs_response", answered |-> network.answered]
    BY <1>1, <1>2 DEF Disp!Opens
  <2>2. "created" \in Disp!EventTypes /\ "needs_response" \in Statuses
          /\ "needs_response" \notin Disp!Outcomes
        /\ network.status \notin Disp!Outcomes
    BY <1>2 DEF Disp!EventTypes, Statuses, Disp!DisputeStatuses, Disp!Outcomes, Disp!Opens
  <2> QED BY <1>1, <1>2, <2>1, <2>2, OutsideStep DEF Disp!Opens
<1>3. CASE Disp!MovesFunds
  <2>1. PICK s \in {network.status, "none"} : Disp!Announces("funds", s)
    BY <1>3 DEF Disp!MovesFunds
  <2>2. "funds" \in Disp!EventTypes /\ s \in Statuses
          /\ (s \in Disp!Outcomes => network.status = s)
    BY <1>1 DEF Disp!EventTypes, Statuses, Disp!DisputeStatuses, Disp!Outcomes
  <2>3. network' = network /\ UNCHANGED <<dispute, Disp!table, told, job, aborts>>
    BY <1>3 DEF Disp!MovesFunds
  <2>4. network' \in [status : Statuses, answered : BOOLEAN] BY <1>1, <2>3
  <2> QED BY <2>1, <2>2, <2>3, <2>4, OutsideStep
<1>4. CASE Disp!Reviews
  <2>1. network' = [status |-> "under_review", answered |-> network.answered]
    BY <1>1, <1>4 DEF Disp!Reviews
  <2>2. "updated" \in Disp!EventTypes /\ "under_review" \in Statuses
          /\ "under_review" \notin Disp!Outcomes
        /\ network.status \notin Disp!Outcomes
    BY <1>4 DEF Disp!EventTypes, Statuses, Disp!DisputeStatuses, Disp!Outcomes, Disp!Reviews
  <2> QED BY <1>1, <1>4, <2>1, <2>2, OutsideStep DEF Disp!Reviews
<1>5. CASE Disp!Decides
  <2>1. PICK o \in Disp!Outcomes : /\ network' = [network EXCEPT !.status = o]
                                   /\ \E s \in {o, "none"} : Disp!Announces("closed", s)
    BY <1>5 DEF Disp!Decides
  <2>2. PICK s \in {o, "none"} : Disp!Announces("closed", s) BY <2>1
  <2>3. network' = [status |-> o, answered |-> network.answered] BY <1>1, <2>1
  <2>4. /\ "closed" \in Disp!EventTypes /\ o \in Statuses /\ s \in Statuses
        /\ s \in Disp!Outcomes \cup {"none"} /\ (s \in Disp!Outcomes => o = s)
        /\ network.status \notin Disp!Outcomes
    BY <1>5 DEF Disp!EventTypes, Statuses, Disp!DisputeStatuses, Disp!Outcomes, Disp!Decides
  <2>5. UNCHANGED <<dispute, Disp!table, told, job, aborts>> BY <1>5 DEF Disp!Decides
  <2> QED BY <1>1, <2>2, <2>3, <2>4, <2>5, OutsideStep
<1> QED BY <1>2, <1>3, <1>4, <1>5

\* A delivery is stored behind the others.
LEMMA IngestKeeps ==
  ASSUME Disp!DisputeBounds, IInv, Disp!Ingest
  PROVE  IInv'
<1>1. dispute' = dispute /\ network' = network /\ news' = news /\ processed' = processed
      /\ told' = told /\ job' = job /\ aborts' = aborts
  BY DEF Disp!Ingest, Disp!outside
<1>2. /\ Len(news) \in Nat /\ Len(inbox) \in Nat /\ inbox \in Seq(1..Len(news))
      /\ job \in [Disp!Workers -> DispJobType(Len(inbox))]
  BY State DEF IInv
<1>3. PICK i \in 1..Len(news) : inbox' = Append(inbox, i) BY DEF Disp!Ingest
<1>4. /\ inbox' \in Seq(1..Len(news)) /\ Len(inbox') = Len(inbox) + 1
      /\ \A p \in 1..Len(inbox) : inbox'[p] = inbox[p] /\ p \in 1..Len(inbox')
  <2> DEFINE A == 1..Len(news)
  <2>1. inbox \in Seq(A) /\ i \in A BY <1>2
  <2> HIDE DEF A
  <2>2. inbox' \in Seq(A) /\ Len(inbox') = Len(inbox) + 1
        /\ \A p \in 1..Len(inbox) : inbox'[p] = inbox[p]
    BY <1>2, <1>3, <2>1
  <2> QED BY <1>2, <2>2 DEF A
<1>5. job' \in [Disp!Workers -> DispJobType(Len(inbox'))]
  <2>1. DispJobType(Len(inbox)) \subseteq DispJobType(Len(inbox'))
    <3>1. 1..Len(inbox) \subseteq 1..Len(inbox') BY <1>2, <1>4
    <3>2. SUBSET (1..Len(inbox)) \subseteq SUBSET (1..Len(inbox')) BY <3>1
    <3> QED BY <3>2 DEF DispJobType
  <2> HIDE DEF DispJobType
  <2> QED BY <1>1, <1>2, <2>1
<1>6. processed' \subseteq Disp!Stored'
  <2>1. Disp!Stored \subseteq Disp!Stored' BY <1>4 DEF Disp!Stored
  <2> QED BY <1>1, <2>1 DEF IInv, Disp!TypeOK
<1>7. Disp!TypeOK' BY <1>1, <1>4, <1>5, <1>6 DEF Disp!TypeOK, IInv, DispJobType, Statuses
<1>8. Grows BY <1>1, <1>2, <1>4 DEF Grows
<1>9. DispJobs' BY <1>1, <1>7, <1>8, NoneMoves DEF IInv
<1>10. FirstTold'
  <2> SUFFICES ASSUME dispute'.status # "none"
               PROVE  \E p \in 1..Len(inbox') : First(p, news', inbox')
                        /\ Disp!EventStatus(news'[inbox'[p]], "none") \in told'.statuses
    BY DEF FirstTold
  <2>1. PICK p \in 1..Len(inbox) : First(p, news, inbox)
                                   /\ Disp!EventStatus(news[inbox[p]], "none")
                                        \in told.statuses
    BY <1>1 DEF IInv, Row, FirstTold
  <2>2. /\ First(p, news', inbox') /\ news'[inbox'[p]] = news[inbox[p]]
        /\ p \in 1..Len(inbox')
    BY <1>7, <1>8, <2>1, ReadsAlike DEF IInv
  <2> QED BY <1>1, <2>1, <2>2
<1>11. Row'
  BY <1>1, <1>10 DEF Row, IInv, NoRow, NewsOK, Disp!CreatedToldOnce, Disp!OutcomeIsTrue,
     Disp!AnsweredIsTrue, Disp!StatusWasTold
<1> QED BY <1>7, <1>9, <1>11 DEF IInv

-----------------------------------------------------------------------------
(***************************************************************************)
(* The drain.                                                              *)
(***************************************************************************)
LEMMA StartPassKeeps ==
  ASSUME Disp!DisputeBounds, IInv, NEW w \in Disp!Workers, Disp!StartPass(w)
  PROVE  IInv'
<1> DEFINE T == {p \in 1..Len(inbox) : inbox[p] \notin processed}
           J == Disp!Job("scan", T, "none", "none")
<1>1. T # {} /\ Disp!Go(w, J) /\ UNCHANGED <<dispute, Disp!outside, Disp!table, told, aborts>>
  BY DEF Disp!StartPass
<1>2. J.pc = "scan" /\ J.todo = T /\ J.status = "none" /\ J.before = "none" BY DEF Disp!Job
<1>3. T \in SUBSET (1..Len(inbox)) OBVIOUS
<1>4. J \in DispJobType(Len(inbox)) BY <1>3 DEF Disp!Job, DispJobType, Disp!Pcs, Statuses
<1>5. dispute.status = "none" => T = 1..Len(inbox) BY DEF IInv, Row, NoRow
<1> HIDE DEF J, T
<1>6. JobOK(J, dispute, network, news, inbox, told.statuses)
  BY <1>1, <1>2, <1>5 DEF JobOK, Disp!Outcomes, Asking, Draining
<1>7. aborts' \in 0..MaxAborts BY <1>1 DEF IInv, Disp!TypeOK
<1> QED BY <1>1, <1>4, <1>6, <1>7, PrivateStep

\* What a pass holds when it goes on to the next event, if there is one.
LEMMA SkipIsSane ==
  ASSUME Disp!TypeOK, DispJobs, NEW w \in Disp!Workers, job[w].pc \in Draining,
         dispute.status = "none" => ~Legible(Disp!Event(w)), Disp!Skip(w)
  PROVE  \E j \in DispJobType(Len(inbox)) :
           Disp!Go(w, j) /\ JobOK(j, dispute, network, news, inbox, told.statuses)
<1> DEFINE R == job[w].todo \ {Disp!Place(w)}
           J == Disp!Job("scan", R, "none", "none")
<1>1. /\ job[w] \in DispJobType(Len(inbox)) /\ Disp!Event(w) = news[inbox[Disp!Place(w)]]
      /\ JobOK(job[w], dispute, network, news, inbox, told.statuses)
      /\ Len(inbox) \in Nat
  BY Held, State
<1>2. Disp!Go(w, IF R = {} THEN Disp!Idle ELSE J) BY DEF Disp!Skip
<1>3. CASE R = {}
  BY <1>1, <1>2, <1>3, IdleIsSane
<1>4. CASE R # {}
  <2>1. J.pc = "scan" /\ J.todo = R /\ J.status = "none" /\ J.before = "none" BY DEF Disp!Job
  <2>2. J \in DispJobType(Len(inbox)) BY <1>1 DEF Disp!Job, DispJobType, Disp!Pcs, Statuses
  <2>3. ASSUME dispute.status = "none", NEW t \in R, NEW q
          \in 1..Len(inbox), q < t, q \notin R
        PROVE  ~Legible(news[inbox[q]])
    <3>1. CASE q = Disp!Place(w) BY <1>1, <2>3, <3>1
    <3>2. CASE q # Disp!Place(w)
      <4>1. t \in job[w].todo /\ q \notin job[w].todo BY <2>3, <3>2
      <4> QED BY <1>1, <2>3, <4>1 DEF JobOK
    <3> QED BY <3>1, <3>2
  <2> HIDE DEF J, R
  <2>4. JobOK(J, dispute, network, news, inbox, told.statuses)
    BY <1>4, <2>1, <2>3 DEF JobOK, Disp!Outcomes, Asking, Draining
  <2> QED BY <1>2, <1>4, <2>2, <2>4
<1> QED BY <1>3, <1>4

\* Of a pass at an event while there is no row: nothing before it is legible.
LEMMA NothingBefore ==
  ASSUME Disp!TypeOK, DispJobs, NEW w \in Disp!Workers, job[w].pc
    \in Draining, dispute.status = "none",
         NEW q \in 1..Len(inbox), q < Disp!Place(w)
  PROVE  ~Legible(news[inbox[q]])
<1>1. /\ JobOK(job[w], dispute, network, news, inbox, told.statuses)
      /\ Disp!Place(w) \in job[w].todo /\ \A p \in job[w].todo : Disp!Place(w) <= p
      /\ Disp!Place(w) \in 1..Len(inbox) /\ Len(inbox) \in Nat
  BY Held, State
<1>2. q \notin job[w].todo
  <2>1. ~(Disp!Place(w) <= q) BY <1>1
  <2> QED BY <1>1, <2>1
<1> QED BY <1>1, <1>2 DEF JobOK

LEMMA ReadDisputeKeeps ==
  ASSUME Disp!DisputeBounds, IInv, NEW w \in Disp!Workers, Disp!ReadDispute(w)
  PROVE  IInv'
<1> DEFINE e == Disp!Event(w)
           status == Disp!EventStatus(e, dispute.status)
           J == [job[w] EXCEPT !.pc = "before", !.status = status]
<1>0. /\ job[w].pc = "scan" /\ job[w].pc \in Draining
      /\ IF e.type = "closed"
           /\ status \notin Disp!Outcomes THEN Disp!Skip(w) ELSE Disp!Go(w, J)
      /\ UNCHANGED <<dispute, Disp!outside, Disp!table, told, aborts>>
  BY DEF Disp!ReadDispute, Disp!At, Draining
<1>1. /\ job[w] \in DispJobType(Len(inbox))
      /\ JobOK(job[w], dispute, network, news, inbox, told.statuses)
      /\ Disp!Place(w) = Least(job[w].todo) /\ Disp!Place(w) \in 1..Len(inbox)
      /\ inbox[Disp!Place(w)] \in 1..Len(news) /\ e = news[inbox[Disp!Place(w)]]
           /\ e \in NewsType
      /\ dispute.status \in Statuses /\ Len(inbox) \in Nat
  BY <1>0, Held, State DEF IInv
<1>2. /\ e.type = "closed" => e.status \in Disp!Outcomes \cup {"none"}
      /\ e.status \in Disp!Outcomes => network.status = e.status
  BY <1>1 DEF IInv, Row, NewsOK
<1>3. /\ status \in Disp!DisputeStatuses
      /\ e.type # "funds" => status = Disp!EventStatus(e, "none")
      /\ status \in Disp!Outcomes => e.status = status \/ dispute.status = status
      /\ Legible(e) <=> ~(e.type = "closed" /\ status \notin Disp!Outcomes)
  BY <1>1, <1>2, Says
<1>4. aborts' \in 0..MaxAborts BY <1>0 DEF IInv, Disp!TypeOK
<1>5. CASE e.type = "closed" /\ status \notin Disp!Outcomes
  <2>1. Disp!Skip(w) /\ ~Legible(e) BY <1>0, <1>3, <1>5
  <2>2. PICK j \in DispJobType(Len(inbox)) :
          Disp!Go(w, j) /\ JobOK(j, dispute, network, news, inbox, told.statuses)
    BY <1>0, <2>1, SkipIsSane DEF IInv
  <2> QED BY <1>0, <1>4, <2>2, PrivateStep
<1>6. CASE ~(e.type = "closed" /\ status \notin Disp!Outcomes)
  <2>1. Disp!Go(w, J) /\ Legible(e) BY <1>0, <1>3, <1>6
  <2>2. /\ J.pc = "before" /\ J.status = status /\ J.todo = job[w].todo
        /\ J.before = job[w].before /\ J \in DispJobType(Len(inbox))
    <3>1. status \in Statuses BY <1>3 DEF Statuses
    <3> HIDE DEF status
    <3> QED BY <1>1, <3>1 DEF DispJobType, Disp!Pcs
  <2>3. status \in Disp!Outcomes => network.status = status
    BY <1>2, <1>3 DEF IInv, Row, Disp!OutcomeIsTrue
  <2>4. status # "none" BY <1>3 DEF Disp!DisputeStatuses, Disp!Outcomes
  <2>5. e.type # "funds" \/ dispute.status = "none" => status = Disp!EventStatus(e, "none")
    BY <1>3
  <2>6. J.before # "none" => dispute.status # "none" /\ J.before \in told.statuses
    BY <1>1, <2>2 DEF JobOK
  <2>7. /\ J.todo # {}
        /\ dispute.status = "none" =>
             \A t \in J.todo : \A q \in 1..Len(inbox) :
               q < t /\ q \notin J.todo => ~Legible(news[inbox[q]])
    BY <1>0, <1>1, <2>2 DEF JobOK
  <2>8. Least(J.todo) = Disp!Place(w) BY <1>1, <2>2
  <2> HIDE DEF J, status
  <2>9. JobOK(J, dispute, network, news, inbox, told.statuses)
    BY <1>1, <2>1, <2>2, <2>3, <2>4, <2>5, <2>6, <2>7, <2>8 DEF JobOK, Asking
  <2> QED BY <1>0, <1>4, <2>1, <2>2, <2>9, PrivateStep
<1> QED BY <1>5, <1>6

LEMMA ReadBeforeKeeps ==
  ASSUME Disp!DisputeBounds, IInv, NEW w \in Disp!Workers, Disp!ReadBefore(w)
  PROVE  IInv'
<1> DEFINE J == [job[w] EXCEPT !.pc = "upsert", !.before = dispute.status]
<1>0. /\ job[w].pc = "before" /\ job[w].pc \in Draining /\ Disp!Go(w, J)
      /\ UNCHANGED <<dispute, Disp!outside, Disp!table, told, aborts>>
  BY DEF Disp!ReadBefore, Disp!At, Draining
<1>1. /\ job[w] \in DispJobType(Len(inbox))
      /\ JobOK(job[w], dispute, network, news, inbox, told.statuses)
      /\ Disp!Place(w) = Least(job[w].todo) /\ Disp!Place(w) \in 1..Len(inbox)
      /\ dispute.status \in Statuses
  BY <1>0, Held, State DEF IInv
<1>2. /\ J.pc = "upsert" /\ J.status = job[w].status /\ J.todo = job[w].todo
      /\ J.before = dispute.status /\ J \in DispJobType(Len(inbox))
  BY <1>1 DEF DispJobType, Disp!Pcs
<1>3. aborts' \in 0..MaxAborts BY <1>0 DEF IInv, Disp!TypeOK
<1>4. J.before # "none" => dispute.status # "none" /\ J.before \in told.statuses
  BY <1>2 DEF IInv, Row, Disp!StatusWasTold
<1>5. J.before = "none" => First(Least(J.todo), news, inbox)
  <2> SUFFICES ASSUME dispute.status = "none" PROVE First(Disp!Place(w), news, inbox)
    BY <1>1, <1>2
  <2>1. Legible(news[inbox[Disp!Place(w)]]) BY <1>0, <1>1 DEF JobOK
  <2>2. \A q \in 1..Len(inbox) : q < Disp!Place(w) => ~Legible(news[inbox[q]])
    BY <1>0, NothingBefore DEF IInv
  <2> QED BY <1>1, <2>1, <2>2 DEF First
<1>6. /\ J.status \in Disp!Outcomes => network.status = J.status
      /\ J.todo # {}
      /\ dispute.status = "none" =>
           \A t \in J.todo : \A q \in 1..Len(inbox) :
             q < t /\ q \notin J.todo => ~Legible(news[inbox[q]])
      /\ LET e == news[inbox[Least(J.todo)]]
         IN /\ J.status # "none" /\ Legible(e)
            /\ e.type # "funds" \/ dispute.status = "none"
                 => J.status = Disp!EventStatus(e, "none")
  BY <1>0, <1>1, <1>2 DEF JobOK
<1> HIDE DEF J
<1>7. JobOK(J, dispute, network, news, inbox, told.statuses)
  BY <1>2, <1>4, <1>5, <1>6 DEF JobOK, Asking
<1> QED BY <1>0, <1>2, <1>3, <1>7, PrivateStep

-----------------------------------------------------------------------------
\* An execution's step on the rows: nothing new is announced or stored.
LEMMA InsideStep ==
  ASSUME Disp!DisputeBounds, IInv, NEW w \in Disp!Workers, NEW j
    \in DispJobType(Len(inbox)), Disp!Go(w, j),
         news' = news, inbox' = inbox, aborts' = aborts,
         dispute' \in [status : Statuses, submitted : BOOLEAN],
         dispute.status # "none" => dispute'.status # "none",
         network' \in [status : Statuses, answered : BOOLEAN],
         network'.status = network.status,
         network.answered = TRUE => network'.answered = TRUE,
         told' \in [openings : Nat, statuses : SUBSET Disp!DisputeStatuses],
         told.statuses \subseteq told'.statuses,
         processed' \subseteq Disp!Stored,
         JobOK(j, dispute', network', news, inbox, told'.statuses)
  PROVE  /\ Disp!TypeOK' /\ DispJobs' /\ Grows /\ NewsOK'
         /\ (dispute.status # "none" => FirstTold')
<1>1. Disp!TypeOK'
  <2>1. job' \in [Disp!Workers -> DispJobType(Len(inbox))]
    <3> HIDE DEF DispJobType
    <3> QED BY State DEF Disp!Go, IInv
  <2>2. Disp!Stored' = Disp!Stored BY DEF Disp!Stored
  <2> QED BY <2>1, <2>2 DEF Disp!TypeOK, IInv, DispJobType, Statuses
<1>2. Grows BY State DEF Grows, IInv
<1>3. DispJobs' BY <1>1, <1>2, OneMoves DEF IInv
<1>4. NewsOK' BY DEF NewsOK, IInv, Row
<1>5. dispute.status # "none" => FirstTold' BY DEF FirstTold, IInv, Row
<1> QED BY <1>1, <1>2, <1>3, <1>4, <1>5

\* The merchant is told something.
LEMMA Tells ==
  ASSUME Disp!TypeOK, NEW type, NEW s \in Disp!DisputeStatuses, Disp!Tell(type, s)
  PROVE  /\ told' \in [openings : Nat, statuses : SUBSET Disp!DisputeStatuses]
         /\ told.statuses \subseteq told'.statuses /\ s \in told'.statuses
         /\ type = "created" => told'.openings = told.openings + 1
         /\ type # "created" => told'.openings = told.openings
<1>1. told.openings \in Nat /\ told.statuses \in SUBSET Disp!DisputeStatuses BY State
<1>2. told' = [openings |-> told.openings + (IF type = "created" THEN 1 ELSE 0),
               statuses |-> told.statuses \cup {s}]
  BY DEF Disp!Tell
<1> QED BY <1>1, <1>2

\* An upsert that tells nothing writes what the merchant was told of.
LEMMA SilentUpsert ==
  ASSUME IInv, NEW w \in Disp!Workers, Disp!At(w, "upsert"), dispute.status # "none",
         Disp!DisputeNews(w, FALSE) = "none"
  PROVE  job[w].status \in told.statuses
<1>0. job[w].pc = "upsert" /\ job[w].pc \in Draining BY DEF Disp!At, Draining
<1>1. /\ JobOK(job[w], dispute, network, news, inbox, told.statuses)
      /\ Disp!Place(w) = Least(job[w].todo) /\ Disp!Place(w) \in 1..Len(inbox)
      /\ Disp!Event(w) = news[inbox[Disp!Place(w)]] /\ Len(inbox) \in Nat
  BY <1>0, Held, State DEF IInv
<1> DEFINE e == Disp!Event(w)
<1>2. /\ job[w].status # "none"
      /\ e.type # "funds" => job[w].status = Disp!EventStatus(e, "none")
      /\ job[w].before = "none" => First(Disp!Place(w), news, inbox)
      /\ job[w].before # "none" => job[w].before \in told.statuses
  BY <1>0, <1>1 DEF JobOK
<1>3. /\ e.type # "funds"
      /\ ~(job[w].before # "none" /\ job[w].before # job[w].status)
  <2> DEFINE changed == job[w].before # "none" /\ job[w].before # job[w].status
  <2>1. CASE e.type = "funds"
    <3>1. Disp!DisputeNews(w, FALSE) = "funds" BY <2>1 DEF Disp!DisputeNews
    <3> QED BY <3>1
  <2>2. CASE e.type # "funds" /\ changed
    <3>1. Disp!DisputeNews(w, FALSE) = IF job[w].status
            \in Disp!Outcomes THEN "closed" ELSE "updated"
      BY <2>2 DEF Disp!DisputeNews
    <3> QED BY <3>1
  <2> QED BY <2>1, <2>2
<1>4. CASE job[w].before # "none" BY <1>2, <1>3, <1>4
<1>5. CASE job[w].before = "none"
  <2>1. PICK p \in 1..Len(inbox) : First(p, news, inbox)
                                   /\ Disp!EventStatus(news[inbox[p]], "none")
                                        \in told.statuses
    BY DEF IInv, Row, FirstTold
  <2>2. p = Disp!Place(w) BY <1>1, <1>2, <1>5, <2>1, FirstIsOne
  <2> QED BY <1>1, <1>2, <1>3, <2>1, <2>2
<1> QED BY <1>4, <1>5

LEMMA UpsertKeeps ==
  ASSUME Disp!DisputeBounds, IInv, NEW w \in Disp!Workers, Disp!UpsertDispute(w)
  PROVE  IInv'
<1> DEFINE S == job[w].status
           type == Disp!DisputeNews(w, dispute.status = "none")
           J == [job[w] EXCEPT !.pc = "mark"]
<1>0. /\ Disp!At(w, "upsert") /\ job[w].pc = "upsert" /\ job[w].pc \in Draining
      /\ dispute' = [dispute EXCEPT !.status = S]
      /\ IF type = "none" THEN UNCHANGED told ELSE Disp!Tell(type, S)
      /\ Disp!Go(w, J) /\ news' = news /\ network' = network /\ inbox' = inbox
      /\ processed' = processed /\ aborts' = aborts
  BY DEF Disp!UpsertDispute, Disp!At, Draining, Disp!outside, Disp!table
<1>1. /\ job[w] \in DispJobType(Len(inbox))
      /\ JobOK(job[w], dispute, network, news, inbox, told.statuses)
      /\ Disp!Place(w) = Least(job[w].todo) /\ Disp!Place(w) \in 1..Len(inbox)
      /\ Disp!Event(w) = news[inbox[Disp!Place(w)]]
      /\ network \in [status : Statuses, answered : BOOLEAN]
      /\ dispute = [status |-> dispute.status, submitted |-> dispute.submitted]
      /\ dispute.submitted \in BOOLEAN /\ Len(inbox) \in Nat
      /\ told \in [openings : Nat, statuses : SUBSET Disp!DisputeStatuses]
  BY <1>0, Held, State DEF IInv, Disp!TypeOK
<1>2. /\ S \in Disp!DisputeStatuses /\ S # "none"
           /\ (S \in Disp!Outcomes => network.status = S)
      /\ Legible(Disp!Event(w))
      /\ dispute.status = "none" => S = Disp!EventStatus(Disp!Event(w), "none")
  BY <1>0, <1>1 DEF JobOK, DispJobType, Statuses
<1>3. dispute'.status = S /\ dispute'.submitted = dispute.submitted
      /\ dispute' \in [status : Statuses, submitted : BOOLEAN]
  <2>1. dispute' = [status |-> S, submitted |-> dispute.submitted] BY <1>0, <1>1
  <2> QED BY <1>1, <1>2, <2>1 DEF Statuses
<1>4. type \in {"created", "funds", "closed", "updated", "none"}
      /\ (type = "created" <=> dispute.status = "none")
  <2>1. CASE dispute.status = "none" BY <2>1 DEF Disp!DisputeNews
  <2>2. CASE dispute.status # "none"
    <3> DEFINE changed == job[w].before # "none" /\ job[w].before # job[w].status
    <3>1. CASE Disp!Event(w).type = "funds" BY <2>2, <3>1 DEF Disp!DisputeNews
    <3>2. CASE Disp!Event(w).type # "funds" /\ changed
      <4>1. type = IF job[w].status \in Disp!Outcomes THEN "closed" ELSE "updated"
        BY <2>2, <3>2 DEF Disp!DisputeNews
      <4> QED BY <2>2, <4>1
    <3>3. CASE Disp!Event(w).type # "funds" /\ ~changed
      <4>1. type = "none" BY <2>2, <3>3 DEF Disp!DisputeNews
      <4> QED BY <2>2, <4>1
    <3> QED BY <3>1, <3>2, <3>3
  <2> QED BY <2>1, <2>2
<1> HIDE DEF J, S
<1>5. /\ told' \in [openings : Nat, statuses : SUBSET Disp!DisputeStatuses]
      /\ told.statuses \subseteq told'.statuses /\ S \in told'.statuses
      /\ dispute.status = "none" => told'.openings = told.openings + 1
      /\ dispute.status # "none" => told'.openings = told.openings
  <2>1. CASE type = "none"
    <3>1. dispute.status # "none" BY <1>4, <2>1
    <3>2. Disp!DisputeNews(w, FALSE) = "none"
      <4>1. (dispute.status = "none") = FALSE BY <3>1
      <4> QED BY <2>1, <4>1
    <3>3. S \in told.statuses BY <1>0, <3>1, <3>2, SilentUpsert DEF S
    <3>4. told' = told BY <1>0, <2>1
    <3> QED BY <1>1, <3>1, <3>3, <3>4
  <2>2. CASE type # "none"
    <3> HIDE DEF type
    <3>1. Disp!Tell(type, S) BY <1>0, <2>2
    <3> QED BY <1>2, <1>4, <3>1, Tells DEF IInv
  <2> QED BY <2>1, <2>2
<1> HIDE DEF type
<1>6. J \in DispJobType(Len(inbox)) /\ J.pc = "mark" /\ J.status = S /\ J.todo = job[w].todo
      /\ J.before = job[w].before
  BY <1>1 DEF J, S, DispJobType, Disp!Pcs
<1>7. JobOK(J, dispute', network', news, inbox, told'.statuses)
  <2>1. /\ J.before # "none" => J.before \in told'.statuses
        /\ J.todo # {}
    BY <1>0, <1>1, <1>5, <1>6 DEF JobOK
  <2> QED BY <1>0, <1>2, <1>3, <1>6, <2>1 DEF JobOK, Asking
<1>8. processed' \subseteq Disp!Stored BY <1>0 DEF IInv, Disp!TypeOK
<1>9. Disp!TypeOK' /\ DispJobs' /\ NewsOK' /\ (dispute.status # "none" => FirstTold')
  BY <1>0, <1>1, <1>2, <1>3, <1>5, <1>6, <1>7, <1>8, InsideStep
<1>10. FirstTold'
  <2>1. CASE dispute.status # "none" BY <1>9, <2>1
  <2>2. CASE dispute.status = "none"
    <3>1. \A q \in 1..Len(inbox) : q < Disp!Place(w) => ~Legible(news[inbox[q]])
      BY <1>0, <2>2, NothingBefore DEF IInv
    <3>2. First(Disp!Place(w), news, inbox) BY <1>1, <1>2, <3>1 DEF First
    <3>3. Disp!EventStatus(news[inbox[Disp!Place(w)]], "none") \in told'.statuses
      BY <1>1, <1>2, <1>5, <2>2
    <3> QED BY <1>0, <1>1, <3>2, <3>3 DEF FirstTold
  <2> QED BY <2>1, <2>2
<1>11. told'.openings <= 1
  BY <1>1, <1>5 DEF IInv, Row, NoRow, Disp!CreatedToldOnce
<1>12. Row'
  BY <1>0, <1>2, <1>3, <1>5, <1>9, <1>10, <1>11 DEF Row, IInv, NoRow, Disp!CreatedToldOnce,
     Disp!OutcomeIsTrue, Disp!AnsweredIsTrue, Disp!StatusWasTold
<1> QED BY <1>9, <1>12 DEF IInv

LEMMA MarkKeeps ==
  ASSUME Disp!DisputeBounds, IInv, NEW w \in Disp!Workers, Disp!MarkProcessed(w)
  PROVE  IInv'
<1>0. /\ job[w].pc = "mark" /\ job[w].pc \in Draining /\ Disp!Skip(w)
      /\ processed' = processed \cup {inbox[Disp!Place(w)]}
      /\ dispute' = dispute /\ news' = news /\ network' = network /\ inbox' = inbox
      /\ told' = told /\ aborts' = aborts
  BY DEF Disp!MarkProcessed, Disp!At, Draining, Disp!outside
<1>1. /\ JobOK(job[w], dispute, network, news, inbox, told.statuses)
      /\ Disp!Place(w) \in 1..Len(inbox)
      /\ network \in [status : Statuses, answered : BOOLEAN]
      /\ dispute \in [status : Statuses, submitted : BOOLEAN]
      /\ told \in [openings : Nat, statuses : SUBSET Disp!DisputeStatuses]
  BY <1>0, Held DEF IInv, Disp!TypeOK, Statuses
<1>2. dispute.status # "none" BY <1>0, <1>1 DEF JobOK
<1>3. PICK j \in DispJobType(Len(inbox)) :
        Disp!Go(w, j) /\ JobOK(j, dispute, network, news, inbox, told.statuses)
  BY <1>0, <1>2, SkipIsSane DEF IInv
<1>4. processed' \subseteq Disp!Stored BY <1>0, <1>1 DEF IInv, Disp!TypeOK, Disp!Stored
<1>5. Disp!TypeOK' /\ DispJobs' /\ NewsOK' /\ FirstTold'
  BY <1>0, <1>1, <1>2, <1>3, <1>4, InsideStep
<1>6. Row'
  BY <1>0, <1>2, <1>5 DEF Row, IInv, NoRow, Disp!CreatedToldOnce, Disp!OutcomeIsTrue,
     Disp!AnsweredIsTrue, Disp!StatusWasTold
<1> QED BY <1>5, <1>6 DEF IInv

-----------------------------------------------------------------------------
(***************************************************************************)
(* The merchant's requests.                                                *)
(***************************************************************************)
\* What a request that knows nothing of the network's answer holds.
LEMMA RequestIsSane ==
  ASSUME Disp!TypeOK, NEW pc \in {"draft", "submit", "accept", "record_draft"},
         NEW s, NEW d, NEW nt, NEW nw, NEW ib, d.status # "none"
  PROVE  /\ Disp!Job(pc, {}, "none", "none") \in DispJobType(Len(inbox))
         /\ JobOK(Disp!Job(pc, {}, "none", "none"), d, nt, nw, ib, s)
<1> DEFINE J == Disp!Job(pc, {}, "none", "none")
<1>1. J.pc = pc /\ J.todo = {} /\ J.status = "none" /\ J.before = "none" BY DEF Disp!Job
<1>2. J \in DispJobType(Len(inbox)) BY DEF Disp!Job, DispJobType, Disp!Pcs, Statuses
<1>3. pc \notin Draining /\ pc # "claim" /\ pc # "close"
        /\ pc \notin {"before", "upsert", "mark"}
  BY DEF Draining
<1> HIDE DEF J
<1>4. JobOK(J, d, nt, nw, ib, s) BY <1>1, <1>3 DEF JobOK, Disp!Outcomes
<1> QED BY <1>2, <1>4 DEF J

\* A request is under way only for a dispute that has a row.
LEMMA AskedOfARow ==
  ASSUME Disp!TypeOK, DispJobs, NEW w \in Disp!Workers, job[w].pc \in Asking
  PROVE  dispute.status # "none"
BY Held DEF JobOK

LEMMA StartRequestKeeps ==
  ASSUME Disp!DisputeBounds, IInv, NEW w \in Disp!Workers, Disp!StartRequest(w)
  PROVE  IInv'
<1>1. PICK pc \in {"draft", "submit", "accept"} : Disp!Go(w, Disp!Job(pc, {}, "none", "none"))
  BY DEF Disp!StartRequest
<1>2. dispute.status # "none" BY DEF Disp!StartRequest, Disp!Answerable
<1>3. UNCHANGED <<dispute, Disp!outside, Disp!table, told, aborts>> BY DEF Disp!StartRequest
<1>4. aborts' \in 0..MaxAborts BY <1>3 DEF IInv, Disp!TypeOK
<1>5. /\ Disp!Job(pc, {}, "none", "none") \in DispJobType(Len(inbox))
      /\ JobOK(Disp!Job(pc, {}, "none", "none"), dispute, network, news, inbox, told.statuses)
  BY <1>2, RequestIsSane DEF IInv
<1> QED BY <1>1, <1>3, <1>4, <1>5, PrivateStep

LEMMA StageDraftKeeps ==
  ASSUME Disp!DisputeBounds, IInv, NEW w \in Disp!Workers, Disp!StageDraft(w)
  PROVE  IInv'
<1> DEFINE J == IF network.status = "needs_response" /\ ~network.answered
                THEN Disp!Job("record_draft", {}, "none", "none") ELSE Disp!Idle
<1>1. Disp!Go(w, J) /\ UNCHANGED <<dispute, Disp!outside, Disp!table, told, aborts>>
  BY DEF Disp!StageDraft
<1>2. dispute.status # "none" BY AskedOfARow DEF IInv, Disp!StageDraft, Disp!At, Asking
<1>3. aborts' \in 0..MaxAborts BY <1>1 DEF IInv, Disp!TypeOK
<1>4. /\ J \in DispJobType(Len(inbox))
      /\ JobOK(J, dispute, network, news, inbox, told.statuses)
  <2>1. Len(inbox) \in Nat BY State DEF IInv
  <2> QED BY <1>2, <2>1, RequestIsSane, IdleIsSane DEF IInv
<1> HIDE DEF J
<1> QED BY <1>1, <1>3, <1>4, PrivateStep

\* A request ends: the row is what it was or what it told.
LEMMA RequestEnds ==
  ASSUME Disp!DisputeBounds, IInv, NEW w \in Disp!Workers, Disp!Go(w, Disp!Idle),
         dispute' \in [status : Statuses, submitted : BOOLEAN],
         dispute.status # "none", dispute'.status # "none",
         dispute'.status \in Disp!Outcomes => network.status = dispute'.status,
         dispute'.submitted => network.answered,
         \/ UNCHANGED <<dispute, told>>
         \/ \E type \in {"updated", "closed"} : Disp!Tell(type, dispute'.status),
         UNCHANGED <<Disp!outside, Disp!table, aborts>>
  PROVE  IInv'
<1>1. network' = network /\ news' = news /\ inbox' = inbox /\ processed' = processed
      /\ aborts' = aborts
  BY DEF Disp!outside, Disp!table
<1>2. /\ network \in [status : Statuses, answered : BOOLEAN] /\ Len(inbox) \in Nat
      /\ told \in [openings : Nat, statuses : SUBSET Disp!DisputeStatuses]
      /\ processed \subseteq Disp!Stored
  BY State DEF IInv, Disp!TypeOK, Statuses
<1>3. /\ told' \in [openings : Nat, statuses : SUBSET Disp!DisputeStatuses]
      /\ told.statuses \subseteq told'.statuses /\ told'.openings = told.openings
      /\ dispute'.status \in told'.statuses
  <2>1. CASE UNCHANGED <<dispute, told>>
    BY <1>2, <2>1 DEF IInv, Row, Disp!StatusWasTold
  <2>2. CASE \E type \in {"updated", "closed"} : Disp!Tell(type, dispute'.status)
    <3>1. PICK type \in {"updated", "closed"} : Disp!Tell(type, dispute'.status) BY <2>2
    <3>2. dispute'.status \in Disp!DisputeStatuses /\ type # "created" BY DEF Statuses
    <3> QED BY <3>1, <3>2, Tells DEF IInv
  <2> QED BY <2>1, <2>2
<1>4. /\ Disp!Idle \in DispJobType(Len(inbox))
      /\ JobOK(Disp!Idle, dispute', network', news, inbox, told'.statuses)
  BY <1>2, IdleIsSane
<1>5. Disp!TypeOK' /\ DispJobs' /\ NewsOK' /\ FirstTold'
  BY <1>1, <1>2, <1>3, <1>4, InsideStep
<1>6. Row'
  BY <1>1, <1>3, <1>5 DEF Row, IInv, NoRow, Disp!CreatedToldOnce, Disp!OutcomeIsTrue,
     Disp!AnsweredIsTrue, Disp!StatusWasTold
<1> QED BY <1>5, <1>6 DEF IInv

LEMMA RecordKeeps ==
  ASSUME Disp!DisputeBounds, IInv, NEW w \in Disp!Workers,
         Disp!RecordDraft(w) \/ Disp!RecordSubmission(w) \/ Disp!CloseDisputeAsLost(w)
  PROVE  IInv'
<1>1. /\ dispute.status \in Statuses /\ dispute.submitted \in BOOLEAN
      /\ dispute = [status |-> dispute.status, submitted |-> dispute.submitted]
      /\ JobOK(job[w], dispute, network, news, inbox, told.statuses)
      /\ dispute.status \in Disp!Outcomes => network.status = dispute.status
      /\ dispute.submitted => network.answered
  BY State, Held DEF IInv, Row, Disp!OutcomeIsTrue, Disp!AnsweredIsTrue
<1>2. CASE Disp!RecordDraft(w)
  <2>1. dispute.status # "none"
    BY <1>2, AskedOfARow DEF IInv, Disp!RecordDraft, Disp!At, Asking
  <2>2. dispute' = dispute /\ Disp!Tell("updated", dispute.status) /\ Disp!Go(w, Disp!Idle)
        /\ UNCHANGED <<Disp!outside, Disp!table, aborts>>
    BY <1>2 DEF Disp!RecordDraft
  <2>3. dispute' \in [status : Statuses, submitted : BOOLEAN] BY <1>1, <2>2
  <2>4. \E type \in {"updated", "closed"} : Disp!Tell(type, dispute'.status) BY <2>2
  <2> QED BY <1>1, <2>1, <2>2, <2>3, <2>4, RequestEnds
<1>3. CASE Disp!RecordSubmission(w)
  <2>1. dispute.status # "none" /\ network.answered
    <3>1. job[w].pc = "claim" BY <1>3 DEF Disp!RecordSubmission, Disp!At
    <3> QED BY <1>1, <3>1 DEF JobOK, Asking
  <2>2. Disp!Go(w, Disp!Idle) /\ UNCHANGED <<Disp!outside, Disp!table, aborts>>
    BY <1>3 DEF Disp!RecordSubmission
  <2>3. CASE dispute.submitted
    <3>1. UNCHANGED <<dispute, told>> BY <1>3, <2>3 DEF Disp!RecordSubmission
    <3>2. dispute' \in [status : Statuses, submitted : BOOLEAN] BY <1>1, <3>1
    <3> QED BY <1>1, <2>1, <2>2, <3>1, <3>2, RequestEnds
  <2>4. CASE ~dispute.submitted
    <3> DEFINE s == IF job[w].status = "under_review" /\ dispute.status = "needs_response"
                    THEN "under_review" ELSE dispute.status
    <3>1. dispute' = [status |-> s, submitted |-> TRUE] /\ Disp!Tell("updated", s)
      BY <1>3, <2>4 DEF Disp!RecordSubmission
    <3>2. s \in Statuses /\ s # "none" /\ (s \in Disp!Outcomes => network.status = s)
      BY <1>1, <2>1 DEF Statuses, Disp!DisputeStatuses, Disp!Outcomes
    <3> HIDE DEF s
    <3>3. dispute' \in [status : Statuses, submitted : BOOLEAN] /\ dispute'.status = s
      BY <3>1, <3>2
    <3>4. \E type \in {"updated", "closed"} : Disp!Tell(type, dispute'.status) BY <3>1, <3>3
    <3> QED BY <2>1, <2>2, <3>2, <3>3, <3>4, RequestEnds
  <2> QED BY <2>3, <2>4
<1>4. CASE Disp!CloseDisputeAsLost(w)
  <2>1. dispute.status # "none" /\ network.status = "lost"
    <3>1. job[w].pc = "close" BY <1>4 DEF Disp!CloseDisputeAsLost, Disp!At
    <3> QED BY <1>1, <3>1 DEF JobOK, Asking, Disp!Outcomes
  <2>2. Disp!Go(w, Disp!Idle) /\ UNCHANGED <<Disp!outside, Disp!table, aborts>>
    BY <1>4 DEF Disp!CloseDisputeAsLost
  <2>3. CASE dispute.status = "needs_response"
    <3>1. dispute' = [dispute EXCEPT !.status = "lost"] /\ Disp!Tell("closed", "lost")
      BY <1>4, <2>3 DEF Disp!CloseDisputeAsLost
    <3>2. dispute' = [status |-> "lost", submitted |-> dispute.submitted] BY <1>1, <3>1
    <3>3. dispute' \in [status : Statuses, submitted : BOOLEAN] /\ dispute'.status = "lost"
          /\ dispute'.submitted = dispute.submitted
      BY <1>1, <3>2 DEF Statuses, Disp!DisputeStatuses, Disp!Outcomes
    <3>4. \E type \in {"updated", "closed"} : Disp!Tell(type, dispute'.status) BY <3>1, <3>3
    <3> QED BY <1>1, <2>1, <2>2, <3>3, <3>4, RequestEnds
  <2>4. CASE dispute.status # "needs_response"
    <3>1. UNCHANGED <<dispute, told>> BY <1>4, <2>4 DEF Disp!CloseDisputeAsLost
    <3>2. dispute' \in [status : Statuses, submitted : BOOLEAN] BY <1>1, <3>1
    <3> QED BY <1>1, <2>1, <2>2, <3>1, <3>2, RequestEnds
  <2> QED BY <2>3, <2>4
<1> QED BY <1>2, <1>3, <1>4

\* What a request that has the network's answer holds.
LEMMA ClaimIsSane ==
  ASSUME Disp!TypeOK, NEW st \in {"needs_response", "under_review"},
         NEW s, NEW d, NEW nt, NEW nw, NEW ib, d.status # "none", nt.answered = TRUE
  PROVE  /\ Disp!Job("claim", {}, st, "none") \in DispJobType(Len(inbox))
         /\ JobOK(Disp!Job("claim", {}, st, "none"), d, nt, nw, ib, s)
<1> DEFINE J == Disp!Job("claim", {}, st, "none")
<1>1. J.pc = "claim" /\ J.todo = {} /\ J.status = st /\ J.before = "none" BY DEF Disp!Job
<1>2. J \in DispJobType(Len(inbox))
  BY DEF Disp!Job, DispJobType, Disp!Pcs, Statuses, Disp!DisputeStatuses
<1> HIDE DEF J
<1>3. JobOK(J, d, nt, nw, ib, s) BY <1>1 DEF JobOK, Disp!Outcomes, Draining, Asking
<1> QED BY <1>2, <1>3 DEF J

LEMMA SubmitKeeps ==
  ASSUME Disp!DisputeBounds, IInv, NEW w \in Disp!Workers, Disp!SubmitEvidence(w)
  PROVE  IInv'
<1>1. /\ network.status \in Statuses /\ network.answered \in BOOLEAN
      /\ network = [status |-> network.status, answered |-> network.answered]
      /\ Len(inbox) \in Nat /\ aborts \in 0..MaxAborts
  BY State DEF IInv, Disp!TypeOK
<1>2. dispute.status # "none" BY AskedOfARow DEF IInv, Disp!SubmitEvidence, Disp!At, Asking
<1>3. dispute' = dispute /\ UNCHANGED <<Disp!table, told, aborts>> BY DEF Disp!SubmitEvidence
<1>4. aborts' \in 0..MaxAborts BY <1>1, <1>3
<1>5. CASE /\ network.answered
           /\ \E s \in {"needs_response", "under_review"} :
                Disp!Go(w, Disp!Job("claim", {}, s, "none"))
           /\ UNCHANGED Disp!outside
  <2>1. PICK s \in {"needs_response", "under_review"} :
               Disp!Go(w, Disp!Job("claim", {}, s, "none"))
    BY <1>5
  <2>2. /\ Disp!Job("claim", {}, s, "none") \in DispJobType(Len(inbox))
        /\ JobOK(Disp!Job("claim", {}, s, "none"), dispute, network, news, inbox,
               told.statuses)
    <3>1. /\ Disp!TypeOK /\ dispute.status # "none" /\ network.answered = TRUE
          /\ s \in {"needs_response", "under_review"}
      BY <1>2, <1>5 DEF IInv
    <3>2. JobOK(Disp!Job("claim", {}, s, "none"), dispute, network, news, inbox,
              told.statuses)
      <4> DEFINE J == Disp!Job("claim", {}, s, "none")
      <4>1. J.pc = "claim" /\ J.todo = {} /\ J.status = s /\ J.before = "none" BY DEF Disp!Job
      <4> HIDE DEF J
      <4> QED BY <3>1, <4>1 DEF JobOK, Disp!Outcomes, Draining, Asking, J
    <3>3. Disp!Job("claim", {}, s, "none") \in DispJobType(Len(inbox))
      BY <3>1 DEF Disp!Job, DispJobType, Disp!Pcs, Statuses, Disp!DisputeStatuses
    <3> QED BY <3>2, <3>3
  <2>3. UNCHANGED <<dispute, Disp!outside, Disp!table, told>> BY <1>3, <1>5
  <2> QED BY <1>4, <2>1, <2>2, <2>3, PrivateStep
<1>6. CASE /\ ~network.answered /\ network.status = "needs_response"
           /\ network' = [network EXCEPT !.answered = TRUE]
           /\ Disp!Go(w, Disp!Job("claim", {}, "needs_response", "none"))
           /\ UNCHANGED news
  <2>1. network' = [status |-> network.status, answered |-> TRUE] BY <1>1, <1>6
  <2>2. /\ network'.status = network.status /\ network'.answered = TRUE
        /\ network' \in [status : Statuses, answered : BOOLEAN]
    BY <1>1, <2>1
  <2> DEFINE J == Disp!Job("claim", {}, "needs_response", "none")
  <2>3. /\ J \in DispJobType(Len(inbox))
        /\ JobOK(J, dispute', network', news, inbox, told'.statuses)
    BY <1>2, <1>3, <2>2, ClaimIsSane DEF IInv
  <2>4. Disp!Go(w, J) BY <1>6
  <2> HIDE DEF J
  <2>5. /\ inbox' = inbox /\ processed' = processed /\ told' = told /\ aborts' = aborts
        /\ news' = news
    BY <1>3, <1>6 DEF Disp!table
  <2>6. /\ dispute' \in [status : Statuses, submitted : BOOLEAN]
        /\ told' \in [openings : Nat, statuses : SUBSET Disp!DisputeStatuses]
        /\ processed' \subseteq Disp!Stored
    BY <1>3, <2>5 DEF IInv, Disp!TypeOK, Statuses
  <2>7. Disp!TypeOK' /\ DispJobs' /\ NewsOK' /\ FirstTold'
    BY <1>2, <1>3, <2>2, <2>3, <2>4, <2>5, <2>6, InsideStep
  <2>8. Row'
    BY <1>3, <2>2, <2>5, <2>7 DEF Row, IInv, NoRow, Disp!CreatedToldOnce, Disp!OutcomeIsTrue,
       Disp!AnsweredIsTrue, Disp!StatusWasTold
  <2> QED BY <2>7, <2>8 DEF IInv
<1>7. CASE /\ ~network.answered /\ network.status = "needs_response"
           /\ network' = [status |-> "under_review", answered |-> TRUE]
           /\ Disp!Announces("updated", "under_review")
           /\ Disp!Go(w, Disp!Job("claim", {}, "under_review", "none"))
  <2>1. /\ network'.answered = TRUE
        /\ network' \in [status : Statuses, answered : BOOLEAN]
        /\ network.status \notin Disp!Outcomes /\ "under_review" \notin Disp!Outcomes
        /\ "under_review" \in Statuses /\ "updated" \in Disp!EventTypes
    BY <1>7 DEF Statuses, Disp!DisputeStatuses, Disp!Outcomes, Disp!EventTypes
  <2> DEFINE J == Disp!Job("claim", {}, "under_review", "none")
  <2>2. /\ J \in DispJobType(Len(inbox))
        /\ JobOK(J, dispute', network', news', inbox', told'.statuses)
    <3>1. Disp!TypeOK /\ dispute'.status # "none" /\ network'.answered = TRUE
          /\ "under_review" \in {"needs_response", "under_review"}
      BY <1>2, <1>3, <2>1 DEF IInv
    <3> QED BY ONLY <3>1, ClaimIsSane, ZenonT(30)
  <2>3. \E v \in Disp!Workers, j \in DispJobType(Len(inbox)) :
          Disp!Go(v, j) /\ JobOK(j, dispute', network', news', inbox', told'.statuses)
    <3> HIDE DEF DispJobType
    <3> QED BY <1>7, <2>2
  <2>4. Disp!Announces("updated", "under_review")
          /\ UNCHANGED <<dispute, Disp!table, told, aborts>>
    BY <1>3, <1>7
  <2> QED BY <2>1, <2>3, <2>4, OutsideStep
<1>8. CASE /\ ~network.answered /\ network.status # "needs_response"
           /\ Disp!Go(w, Disp!Idle) /\ UNCHANGED Disp!outside
  <2>1. UNCHANGED <<dispute, Disp!outside, Disp!table, told>> BY <1>3, <1>8
  <2> QED BY <1>1, <1>4, <1>8, <2>1, IdleIsSane, PrivateStep
<1> QED BY <1>5, <1>6, <1>7, <1>8 DEF Disp!SubmitEvidence

LEMMA AcceptKeeps ==
  ASSUME Disp!DisputeBounds, IInv, NEW w \in Disp!Workers, Disp!AcceptAtNetwork(w)
  PROVE  IInv'
<1>1. /\ network.status \in Statuses /\ network.answered \in BOOLEAN
      /\ network = [status |-> network.status, answered |-> network.answered]
      /\ Len(inbox) \in Nat /\ aborts \in 0..MaxAborts
  BY State DEF IInv, Disp!TypeOK
<1>2. dispute.status # "none" BY AskedOfARow DEF IInv, Disp!AcceptAtNetwork, Disp!At, Asking
<1>3. dispute' = dispute /\ UNCHANGED <<Disp!table, told, aborts>> BY DEF Disp!AcceptAtNetwork
<1>4. CASE /\ network.status = "needs_response" /\ ~network.answered
           /\ network' = [network EXCEPT !.status = "lost"]
           /\ Disp!Announces("closed", "lost")
           /\ Disp!Go(w, Disp!Job("close", {}, "lost", "none"))
  <2>1. network' = [status |-> "lost", answered |-> network.answered] BY <1>1, <1>4
  <2>2. /\ network'.status = "lost" /\ network'.answered = network.answered
        /\ network' \in [status : Statuses, answered : BOOLEAN]
        /\ network.status \notin Disp!Outcomes /\ "lost" \in Disp!Outcomes
        /\ "lost" \in Statuses /\ "closed" \in Disp!EventTypes
    BY <1>1, <1>4, <2>1 DEF Statuses, Disp!DisputeStatuses, Disp!Outcomes, Disp!EventTypes
  <2> DEFINE J == Disp!Job("close", {}, "lost", "none")
  <2>3. J.pc = "close" /\ J.todo = {} /\ J.status = "lost" /\ J.before = "none"
    BY DEF Disp!Job
  <2>4. J \in DispJobType(Len(inbox))
    BY <2>2 DEF Disp!Job, DispJobType, Disp!Pcs, Statuses
  <2>5. Disp!Go(w, J) BY <1>4
  <2> HIDE DEF J
  <2>6. JobOK(J, dispute', network', news', inbox', told'.statuses)
    BY <1>2, <1>3, <2>2, <2>3 DEF JobOK, Draining, Asking
  <2>7. \E v \in Disp!Workers, j \in DispJobType(Len(inbox)) :
          Disp!Go(v, j) /\ JobOK(j, dispute', network', news', inbox', told'.statuses)
    <3> HIDE DEF DispJobType
    <3> QED BY <2>4, <2>5, <2>6
  <2>8. Disp!Announces("closed", "lost") /\ UNCHANGED <<dispute, Disp!table, told, aborts>>
    BY <1>3, <1>4
  <2> QED BY <2>2, <2>7, <2>8, OutsideStep
<1>5. CASE Disp!Go(w, Disp!Idle) /\ UNCHANGED Disp!outside
  <2>1. UNCHANGED <<dispute, Disp!outside, Disp!table, told>> /\ aborts' \in 0..MaxAborts
    BY <1>1, <1>3, <1>5
  <2> QED BY <1>1, <1>5, <2>1, IdleIsSane, PrivateStep
<1> QED BY <1>4, <1>5 DEF Disp!AcceptAtNetwork

-----------------------------------------------------------------------------
LEMMA InitHolds == ASSUME Disp!DisputeBounds, Disp!Init PROVE IInv
<1>1. /\ dispute.status = "none" /\ dispute.submitted = FALSE
      /\ network.status = "none" /\ network.answered = FALSE
      /\ news = <<>> /\ inbox = <<>> /\ processed = {}
      /\ told.openings = 0 /\ told.statuses = {}
      /\ job = [w \in Disp!Workers |-> Disp!Idle] /\ aborts = 0
  BY DEF Disp!Init
<1>2. Len(inbox) = 0 /\ Len(news) = 0 BY <1>1
<1>3. Disp!Idle \in DispJobType(Len(inbox)) BY <1>2, IdleIsSane
<1>4. Disp!TypeOK
  <2>1. /\ dispute \in [status : Statuses, submitted : BOOLEAN]
        /\ network \in [status : Statuses, answered : BOOLEAN]
        /\ told \in [openings : Nat, statuses : SUBSET Disp!DisputeStatuses]
    BY DEF Disp!Init, Statuses
  <2>2. news \in Seq(NewsType) /\ inbox \in Seq(1..Len(news)) BY <1>1
  <2>3. job \in [Disp!Workers -> DispJobType(Len(inbox))]
    <3> HIDE DEF DispJobType
    <3> QED BY <1>1, <1>3
  <2>4. aborts \in 0..MaxAborts BY <1>1 DEF Disp!DisputeBounds
  <2> QED BY <1>1, <2>1, <2>2, <2>3, <2>4 DEF Disp!TypeOK, NewsType, DispJobType, Statuses
<1>5. DispJobs BY <1>1, <1>2, IdleIsSane DEF DispJobs
<1>6. Row
  BY <1>1, <1>2 DEF Row, NoRow, NewsOK, FirstTold, Disp!CreatedToldOnce, Disp!OutcomeIsTrue,
                    Disp!AnsweredIsTrue, Disp!StatusWasTold, Disp!Outcomes
<1> QED BY <1>4, <1>5, <1>6 DEF IInv

LEMMA StutterHolds == ASSUME IInv, UNCHANGED Disp!vars PROVE IInv'
<1>1. /\ dispute' = dispute /\ network' = network /\ news' = news /\ inbox' = inbox
      /\ processed' = processed /\ told' = told /\ job' = job /\ aborts' = aborts
  BY DEF Disp!vars
<1>2. Disp!TypeOK'
  <2>1. Disp!Stored' = Disp!Stored BY <1>1 DEF Disp!Stored
  <2> QED BY <1>1, <2>1 DEF Disp!TypeOK, IInv
<1>3. DispJobs' BY <1>1 DEF DispJobs, IInv
<1>4. Row'
  BY <1>1 DEF Row, IInv, NoRow, NewsOK, FirstTold, Disp!CreatedToldOnce, Disp!OutcomeIsTrue,
              Disp!AnsweredIsTrue, Disp!StatusWasTold
<1> QED BY <1>2, <1>3, <1>4 DEF IInv

\* Every step keeps the invariant.
LEMMA NextHolds == ASSUME Disp!DisputeBounds, IInv, [Disp!Next]_(Disp!vars) PROVE IInv'
<1>1. CASE Disp!Opens \/ Disp!MovesFunds \/ Disp!Reviews \/ Disp!Decides BY <1>1, NetworkKeeps
<1>2. CASE Disp!Ingest BY <1>2, IngestKeeps
<1>3. CASE \E w \in Drains : Disp!DrainStep(w)
  <2>1. PICK w \in Drains : Disp!DrainStep(w) BY <1>3
  <2>2. w \in Disp!Workers BY DEF Disp!Workers
  <2> QED BY <2>1, <2>2, StartPassKeeps, ReadDisputeKeeps, ReadBeforeKeeps, UpsertKeeps,
             MarkKeeps DEF Disp!DrainStep
<1>4. CASE \E r \in Requests : Disp!StartRequest(r) \/ Disp!RequestStep(r)
  <2>1. PICK r \in Requests : Disp!StartRequest(r) \/ Disp!RequestStep(r) BY <1>4
  <2>2. r \in Disp!Workers BY DEF Disp!Workers
  <2> QED BY <2>1, <2>2, StartRequestKeeps, StageDraftKeeps, RecordKeeps, SubmitKeeps,
             AcceptKeeps DEF Disp!RequestStep
<1>5. CASE \E w \in Disp!Workers : Disp!Abort(w) BY <1>5, AbortKeeps
<1>6. CASE UNCHANGED Disp!vars BY <1>6, StutterHolds
<1> QED BY <1>1, <1>2, <1>3, <1>4, <1>5, <1>6 DEF Disp!Next

\* The inductive invariant holds for any tasks, requests, deliveries and bounds.
THEOREM Invariance == Disp!DisputeBounds /\ Disp!Spec => []IInv
<1>1. ASSUME Disp!DisputeBounds PROVE Disp!Spec => []IInv
  <2>1. Disp!Init => IInv BY <1>1, InitHolds
  <2>2. IInv /\ [Disp!Next]_(Disp!vars) => IInv' BY <1>1, NextHolds
  <2> QED BY <2>1, <2>2, PTL DEF Disp!Spec
<1> QED BY <1>1

\* Every value has its type: what a pass still has to do are places of the
\* inbox, and what is marked processed was stored.
THEOREM DispTypesHold == Disp!DisputeBounds /\ Disp!Spec => []Disp!TypeOK
<1>1. IInv => Disp!TypeOK BY DEF IInv
<1> QED BY <1>1, Invariance, PTL

\* A dispute is announced as new once, however many tasks drain its events and
\* in whatever order those were stored.
THEOREM CreatedToldOnceHolds == Disp!DisputeBounds /\ Disp!Spec => []Disp!CreatedToldOnce
<1>1. IInv => Disp!CreatedToldOnce BY DEF IInv, Row
<1> QED BY <1>1, Invariance, PTL

\* The row says won or lost only when the network decided so, whatever closes
\* could not be read and whatever acceptances were refused.
THEOREM OutcomeIsTrueHolds == Disp!DisputeBounds /\ Disp!Spec => []Disp!OutcomeIsTrue
<1>1. IInv => Disp!OutcomeIsTrue BY DEF IInv, Row
<1> QED BY <1>1, Invariance, PTL

\* The row says answered only once the network has the answer, though a request
\* may die between the two.
THEOREM AnsweredIsTrueHolds == Disp!DisputeBounds /\ Disp!Spec => []Disp!AnsweredIsTrue
<1>1. IInv => Disp!AnsweredIsTrue BY DEF IInv, Row
<1> QED BY <1>1, Invariance, PTL

\* The merchant was told at some time of whatever status the row has, though the
\* upsert looks at the row in a statement of its own and other tasks upsert meanwhile.
THEOREM StatusWasToldHolds == Disp!DisputeBounds /\ Disp!Spec => []Disp!StatusWasTold
<1>1. IInv => Disp!StatusWasTold BY DEF IInv, Row
<1> QED BY <1>1, Invariance, PTL

-----------------------------------------------------------------------------
(*****************************************************************************)
(* The outbox, for any events, endpoints, passes, schedule and batch.        *)
(* Whether a delivery is given up early, or called delivered when it was     *)
(* not, never depends on leases; that it has one claimant, and that an       *)
(* ended one stays ended, does: they are proved of every delivery whose      *)
(* lease has not run out under a pass that held it.                          *)
(*****************************************************************************)
CONSTANTS Events, Endpoints, Passes, ScheduleLength, BatchSize, MaxRedeliveries
VARIABLES recorded, delivery, endpoint, pass, accepted, overrun

Hook == INSTANCE WebhookOutbox

PassType ==
  [pc : {"idle", "next", "refuse", "release", "post", "record", "fold"},
   todo : SUBSET Hook!Claimed, row : Hook!Claimed \cup {Hook!NoClaim},
   outcome : Hook!Outcomes \cup {"none"}]
EndpointType ==
  [status : {"enabled", "disabled", "deleted"}, refused : BOOLEAN,
   failing : {"no", "open", "days"}]

Working == {"refuse", "release", "post", "record"}

\* What a pass is doing names a row when it is at work on one.
HookNames(s) ==
      /\ s.pc = "next" => s.todo # {}
      /\ s.pc \in Working \cup {"fold"} => s.row \in Hook!Claimed
      /\ s.pc = "record" => s.outcome \in Hook!Outcomes

HookTypes ==
      /\ recorded \subseteq Events
      /\ delivery \in [Hook!Ids -> Hook!RowType]
      /\ endpoint \in [Endpoints -> EndpointType]
      /\ pass \in [Passes -> PassType] /\ \A p \in Passes : HookNames(pass[p])
      /\ accepted \subseteq Hook!Ids /\ overrun \subseteq Hook!Ids
      /\ faults \in Nat

\* The claims of a pass: the rest of its batch, and the row it is at work on.
Claims(s) == s.todo \cup (IF s.pc \in Working THEN {s.row} ELSE {})

\* A claim is of a delivery that exists, with a count that has only grown since.
Sound(c) ==
  /\ delivery[c.id].status # "none"
  /\ delivery[c.id].status = "deleted" \/ delivery[c.id].attempts >= c.attempts

\* Only a recorded event has deliveries; every claim is sound; a positive answer
\* in hand was given; what ended was ended on its grounds.
Counted ==
  /\ \A d \in Hook!Ids : delivery[d].status # "none" => d[1] \in recorded
  /\ \A p \in Passes : \A c \in Claims(pass[p]) : Sound(c)
  /\ \A p \in Passes : pass[p].pc = "record" /\ pass[p].outcome = "delivered" =>
       pass[p].row.id \in accepted
  /\ \A d \in Hook!Ids : delivery[d].status = "delivered" => d \in accepted
  /\ Hook!DeadMeansTried

\* A delivery that is held is pending under a live lease, or was deleted, or its
\* lease ran out under the one who held it.
Leased(c) ==
  \/ c.id \in overrun
  \/ delivery[c.id].status = "deleted"
  \/ delivery[c.id].status = "pending" /\ delivery[c.id].lease = "live"

\* A pass has one claim of a delivery, and no other pass has one, before its lease
\* runs out.
Apart ==
  /\ \A p \in Passes : \A c \in Claims(pass[p]) : Leased(c)
  /\ \A p, q \in Passes : \A b \in Claims(pass[p]), c \in Claims(pass[q]) :
       b.id = c.id => b.id \in overrun \/ (p = q /\ b = c)
  /\ \A p \in Passes : pass[p].pc \in Working => pass[p].row \notin pass[p].todo

-----------------------------------------------------------------------------
\* What is left of a batch, between two rows.
LEMMA RestOfBatch ==
  ASSUME NEW todo \in SUBSET Hook!Claimed
  PROVE  /\ Hook!AfterRow(todo) \in PassType /\ HookNames(Hook!AfterRow(todo))
         /\ Claims(Hook!AfterRow(todo)) = todo
         /\ Hook!AfterRow(todo).pc \notin Working
BY DEF Hook!AfterRow, Hook!Idle, PassType, HookNames, Claims, Working, Hook!Outcomes

\* Moving one pass.
LEMMA PassMoves ==
  ASSUME HookTypes, NEW p \in Passes, NEW s \in PassType, HookNames(s),
         pass' = [pass EXCEPT ![p] = s]
  PROVE  /\ pass' \in [Passes -> PassType] /\ \A q \in Passes : HookNames(pass'[q])
         /\ pass'[p] = s /\ \A q \in Passes \ {p} : pass'[q] = pass[q]
BY DEF HookTypes

LEMMA HookHeld ==
  ASSUME HookTypes, NEW p \in Passes
  PROVE  /\ pass[p] \in PassType /\ HookNames(pass[p])
         /\ pass[p].todo \in SUBSET Hook!Claimed
         /\ Claims(pass[p]) \subseteq Hook!Claimed
         /\ pass[p].pc \in Working \cup {"fold"} =>
              pass[p].row \in Hook!Claimed /\ pass[p].row.id \in Hook!Ids
                /\ Hook!EndpointOf(pass[p].row.id) \in Endpoints
         /\ pass[p].pc \in Working => pass[p].row \in Claims(pass[p])
<1>1. pass[p] \in PassType /\ HookNames(pass[p]) BY DEF HookTypes
<1>2. \A d \in Hook!Ids : Hook!EndpointOf(d) \in Endpoints BY DEF Hook!EndpointOf, Hook!Ids
<1> QED BY <1>1, <1>2 DEF PassType, HookNames, Claims, Hook!Claimed

\* A step of a pass, and what becomes of its claims.
Narrows(p) ==
  /\ pass' \in [Passes -> PassType] /\ \A q \in Passes : HookNames(pass'[q])
  /\ \A q \in Passes \ {p} : pass'[q] = pass[q]
  /\ Claims(pass'[p]) \subseteq Claims(pass[p])
  /\ (pass[p].pc \in Working => pass[p].row \notin pass[p].todo) =>
       (pass'[p].pc \in Working => pass'[p].row \notin pass'[p].todo)

LEMMA NextRowNarrows ==
  ASSUME HookTypes, NEW p \in Passes, Hook!NextRow(p)
  PROVE  Narrows(p) /\ pass'[p].pc \notin Working /\ Claims(pass'[p]) = pass[p].todo
<1>1. pass[p].todo \in SUBSET Hook!Claimed BY HookHeld
<1>2. pass' = [pass EXCEPT ![p] = Hook!AfterRow(pass[p].todo)] BY DEF Hook!NextRow, HookTypes
<1>3. pass[p].todo \subseteq Claims(pass[p]) BY DEF Claims
<1> QED BY <1>1, <1>2, <1>3, RestOfBatch, PassMoves, ZenonT(60) DEF Narrows

LEMMA FindNarrows ==
  ASSUME HookTypes, NEW p \in Passes, Hook!FindEndpointSigningTarget(p)
  PROVE  Narrows(p) /\ pass'[p].pc # "record"
<1> DEFINE go(row, pc) ==
  [pc |-> pc, todo |-> pass[p].todo \ {row}, row |-> row, outcome |-> "none"]
<1>1. PICK row \in pass[p].todo :
        \/ pass' = [pass EXCEPT ![p] = Hook!AfterRow(pass[p].todo \ {row})]
        \/ \E pc \in {"release", "refuse", "post"} :
             pass' = [pass EXCEPT ![p] = go(row, pc)]
  <2>1. PICK row \in pass[p].todo :
          LET target == endpoint[Hook!EndpointOf(row.id)] IN
          pass' = [pass EXCEPT ![p] =
            CASE target.status = "deleted" -> Hook!AfterRow(pass[p].todo \ {row})
              [] target.status = "disabled" -> go(row, "release")
              [] target.status = "enabled" ->
                   go(row, IF target.refused THEN "refuse" ELSE "post")]
    BY DEF Hook!FindEndpointSigningTarget
  <2> DEFINE target == endpoint[Hook!EndpointOf(row.id)]
  <2>2. row.id \in Hook!Ids BY HookHeld DEF Hook!Claimed
  <2>3. target.status \in {"deleted", "disabled", "enabled"}
    BY <2>2 DEF HookTypes, EndpointType, Hook!Ids, Hook!EndpointOf
  <2> HIDE DEF go, target
  <2>4. CASE target.status = "deleted" BY <2>1, <2>4 DEF target
  <2>5. CASE target.status = "disabled" BY <2>1, <2>5 DEF target
  <2>6. CASE target.status = "enabled" BY <2>1, <2>6 DEF target
  <2> QED BY <2>3, <2>4, <2>5, <2>6
<1>2. pass[p].todo \in SUBSET Hook!Claimed /\ row \in Hook!Claimed BY HookHeld
<1>3. Claims(pass[p]) = pass[p].todo
  BY DEF Hook!FindEndpointSigningTarget, Claims, Working
<1>4. CASE pass' = [pass EXCEPT ![p] = Hook!AfterRow(pass[p].todo \ {row})]
  <2>1. pass[p].todo \ {row} \in SUBSET Hook!Claimed BY <1>2
  <2> DEFINE s == Hook!AfterRow(pass[p].todo \ {row})
  <2>2. s \in PassType /\ HookNames(s) /\ Claims(s) = pass[p].todo \ {row}
          /\ s.pc \notin Working
    BY <2>1, RestOfBatch
  <2>3. pass' = [pass EXCEPT ![p] = s] BY <1>4
  <2> HIDE DEF s
  <2>4. pass'[p] = s BY <2>2, <2>3, PassMoves
  <2>5. Narrows(p) BY <1>3, <2>2, <2>3, <2>4, PassMoves DEF Narrows
  <2> QED BY <2>2, <2>4, <2>5 DEF Working
<1>5. ASSUME NEW pc \in {"release", "refuse", "post"},
             pass' = [pass EXCEPT ![p] = go(row, pc)]
      PROVE  Narrows(p) /\ pass'[p].pc # "record"
  <2>1. go(row, pc) \in PassType /\ HookNames(go(row, pc))
    BY <1>2 DEF PassType, HookNames, Working
  <2>2. Claims(go(row, pc)) = pass[p].todo BY <1>1 DEF Claims, Working
  <2>3. go(row, pc).row \notin go(row, pc).todo /\ go(row, pc).pc # "record" OBVIOUS
  <2> HIDE DEF go
  <2> QED BY <1>3, <1>5, <2>1, <2>2, <2>3, PassMoves DEF Narrows
<1> QED BY <1>1, <1>4, <1>5

\* A pass that goes on with the row it is at work on.
LEMMA RowNarrows ==
  ASSUME HookTypes, NEW p \in Passes, pass[p].pc \in Working,
         NEW pc \in {"release", "record", "fold"}, NEW outcome
           \in Hook!Outcomes \cup {"none"},
         pc = "record" => outcome \in Hook!Outcomes,
         NEW s, s = [pass[p] EXCEPT !.pc = pc, !.outcome = outcome],
         pass' = [pass EXCEPT ![p] = s]
  PROVE  /\ Narrows(p) /\ pass'[p].pc = pc /\ pass'[p].row = pass[p].row
         /\ pass'[p].outcome = outcome
         /\ pc = "fold" => Claims(pass'[p]) = pass[p].todo
<1>1. pass[p] \in PassType /\ HookNames(pass[p]) BY HookHeld
<1>2. s \in PassType /\ s.pc = pc /\ s.row = pass[p].row /\ s.todo = pass[p].todo
        /\ s.outcome = outcome
  BY <1>1 DEF PassType
<1>3. HookNames(s) BY <1>1, <1>2 DEF HookNames, Working
<1>4. Claims(s) \subseteq Claims(pass[p]) /\ (pc = "fold" => Claims(s) = pass[p].todo)
  BY <1>2 DEF Claims, Working
<1> QED BY <1>2, <1>3, <1>4, PassMoves DEF Narrows

LEMMA DisableNarrows ==
  ASSUME HookTypes, NEW p \in Passes, Hook!DisableEndpoint(p)
  PROVE  Narrows(p) /\ pass'[p].pc # "record"
<1>1. pass[p] \in PassType /\ pass[p].pc \in Working
  BY HookHeld DEF Hook!DisableEndpoint, Working
<1>2. [pass[p] EXCEPT !.pc = "release"]
        = [pass[p] EXCEPT !.pc = "release", !.outcome = pass[p].outcome]
  BY <1>1 DEF PassType
<1>3. pass[p].outcome \in Hook!Outcomes \cup {"none"} BY <1>1 DEF PassType
<1>4. pass' = [pass EXCEPT ![p] = [pass[p] EXCEPT !.pc = "release"]]
  BY DEF Hook!DisableEndpoint
<1> QED BY <1>1, <1>2, <1>3, <1>4, RowNarrows

LEMMA AttemptNarrows ==
  ASSUME HookTypes, NEW p \in Passes, Hook!AttemptDelivery(p)
  PROVE  /\ Narrows(p) /\ pass'[p].row = pass[p].row
         /\ pass'[p].outcome = "delivered" => pass[p].row.id \in accepted'
         /\ accepted \subseteq accepted'
         /\ accepted' \subseteq accepted \cup {pass[p].row.id}
<1>1. PICK outcome \in Hook!Outcomes :
        /\ pass' = [pass EXCEPT ![p] = [pass[p] EXCEPT !.pc = "record", !.outcome = outcome]]
        /\ \/ outcome # "refused" /\ accepted' = accepted \cup {pass[p].row.id}
           \/ outcome # "delivered" /\ UNCHANGED accepted
  BY DEF Hook!AttemptDelivery
<1>2. pass[p].pc \in Working BY DEF Hook!AttemptDelivery, Working
<1>3. Narrows(p) /\ pass'[p].row = pass[p].row /\ pass'[p].outcome = outcome
  BY <1>1, <1>2, RowNarrows
<1> QED BY <1>1, <1>3

LEMMA RecordNarrows ==
  ASSUME HookTypes, NEW p \in Passes, Hook!RecordDeliveryAttempt(p)
  PROVE  Narrows(p) /\ pass'[p].pc = "fold" /\ Claims(pass'[p]) = pass[p].todo
<1>1. pass[p] \in PassType /\ pass[p].pc \in Working
  BY HookHeld DEF Hook!RecordDeliveryAttempt, Working
<1>2. [pass[p] EXCEPT !.pc = "fold"]
        = [pass[p] EXCEPT !.pc = "fold", !.outcome = pass[p].outcome]
  BY <1>1 DEF PassType
<1>3. pass[p].outcome \in Hook!Outcomes \cup {"none"} BY <1>1 DEF PassType
<1>4. pass' = [pass EXCEPT ![p] = [pass[p] EXCEPT !.pc = "fold"]]
  BY DEF Hook!RecordDeliveryAttempt
<1> QED BY <1>1, <1>2, <1>3, <1>4, RowNarrows

LEMMA FaultNarrows ==
  ASSUME HookTypes, NEW p \in Passes, Hook!Fault(p)
  PROVE  Narrows(p) /\ pass'[p].pc \notin Working
<1>1. CASE Hook!NextRow(p) BY <1>1, NextRowNarrows
<1>2. CASE pass' = [pass EXCEPT ![p] = Hook!Idle]
  <2>1. Hook!Idle \in PassType /\ HookNames(Hook!Idle) /\ Claims(Hook!Idle) = {}
          /\ Hook!Idle.pc \notin Working
    BY DEF Hook!Idle, PassType, HookNames, Claims, Working
  <2> QED BY <1>2, <2>1, PassMoves DEF Narrows
<1>3. ASSUME NEW row
        \in pass[p].todo, pass' = [pass EXCEPT ![p] = Hook!AfterRow(@.todo \ {row})]
      PROVE  Narrows(p) /\ pass'[p].pc \notin Working
  <2>1. pass[p].todo \ {row} \in SUBSET Hook!Claimed BY HookHeld
  <2>2. pass' = [pass EXCEPT ![p] = Hook!AfterRow(pass[p].todo \ {row})] BY <1>3 DEF HookTypes
  <2>3. pass[p].todo \subseteq Claims(pass[p]) BY DEF Claims
  <2> QED BY <2>1, <2>2, <2>3, RestOfBatch, PassMoves DEF Narrows
<1> QED BY <1>1, <1>2, <1>3 DEF Hook!Fault

-----------------------------------------------------------------------------
\* What may become of a delivery in one step.
RowGoesOn(d) ==
  \/ /\ delivery'[d].status = delivery[d].status
     /\ delivery'[d].attempts = delivery[d].attempts
  \/ delivery[d].status = "none" /\ delivery'[d] = Hook!NewRow /\ d[1] \in recorded'
  \/ delivery[d].status # "none" /\ delivery'[d].status = "deleted"
  \/ /\ delivery[d].status \notin {"none", "deleted"}
     /\ delivery'[d].status \in {"pending"} \cup Hook!Ended
     /\ delivery'[d].attempts >= delivery[d].attempts
     /\ delivery'[d].status = "delivered" => d \in accepted'
     /\ delivery'[d].status = "dead" => delivery'[d].attempts > ScheduleLength

LEMMA CountedGoesOn ==
  ASSUME Hook!OutboxBounds, HookTypes, HookTypes', Counted,
         recorded \subseteq recorded', accepted \subseteq accepted',
         \A d \in Hook!Ids : RowGoesOn(d),
         \A p \in Passes : \A c \in Claims(pass'[p]) :
           c \in Claims(pass[p]) \/ Sound(c),
         \A p \in Passes : pass'[p].pc = "record" /\ pass'[p].outcome = "delivered" =>
           pass'[p].row.id \in accepted'
  PROVE  Counted'
<1>1. \A d \in Hook!Ids : delivery[d] \in Hook!RowType /\ delivery'[d] \in Hook!RowType
  BY DEF HookTypes
<1>2. \A d \in Hook!Ids : delivery'[d].status # "none" => d[1] \in recorded'
  BY DEF RowGoesOn, Counted, Hook!NewRow
<1>3. ASSUME NEW p \in Passes, NEW c \in Claims(pass'[p]) PROVE Sound(c)'
  <2>1. c \in Hook!Claimed
    <3>1. pass'[p] \in PassType /\ HookNames(pass'[p]) BY DEF HookTypes
    <3> QED BY <3>1 DEF PassType, HookNames, Claims, Hook!Claimed
  <2>2. Sound(c) BY <1>3 DEF Counted
  <2>3. /\ c.id \in Hook!Ids /\ c.attempts \in Nat /\ RowGoesOn(c.id)
        /\ delivery[c.id].attempts \in Nat /\ delivery'[c.id].attempts \in Nat
    BY <2>1, <1>1 DEF Hook!Claimed, Hook!RowType
  <2> QED BY <2>2, <2>3 DEF Sound, RowGoesOn, Hook!Ended
<1>4. \A d \in Hook!Ids : delivery'[d].status = "delivered" => d \in accepted'
  BY DEF RowGoesOn, Counted, Hook!NewRow
<1>5. \A d \in Hook!Ids : delivery'[d].status = "dead"
        => delivery'[d].attempts > ScheduleLength
  BY DEF RowGoesOn, Counted, Hook!NewRow, Hook!DeadMeansTried
<1> QED BY <1>2, <1>3, <1>4, <1>5 DEF Counted, Hook!DeadMeansTried

\* Claims go on apart as long as each is of a delivery still leased.
LEMMA ApartGoesOn ==
  ASSUME Apart, overrun \subseteq overrun',
         \A p \in Passes : Claims(pass'[p]) \subseteq Claims(pass[p]),
         \A p \in Passes : pass'[p].pc \in Working => pass'[p].row \notin pass'[p].todo,
         \A p \in Passes : \A c \in Claims(pass'[p]) : Leased(c)'
  PROVE  Apart'
BY DEF Apart

\* The steps that leave the claims alone.
LEMMA ApartFramed ==
  ASSUME Apart, pass' = pass, overrun \subseteq overrun',
         \A p \in Passes : \A c \in Claims(pass[p]) :
           \/ c.id \in overrun'
           \/ delivery'[c.id].status = "deleted"
           \/ /\ delivery'[c.id].status = delivery[c.id].status
              /\ delivery'[c.id].lease = delivery[c.id].lease
  PROVE  Apart'
<1>1. \A p \in Passes : \A c \in Claims(pass'[p]) : Leased(c)' BY DEF Apart, Leased
<1>2. \A p \in Passes : pass'[p].pc \in Working => pass'[p].row \notin pass'[p].todo
  BY DEF Apart
<1> QED BY <1>1, <1>2, ApartGoesOn

\* A write addressed to one delivery.
LEMMA Written ==
  ASSUME HookTypes, NEW d \in Hook!Ids, NEW row \in Hook!RowType, Hook!Write(d, row)
  PROVE  /\ delivery' \in [Hook!Ids -> Hook!RowType]
         /\ \A e \in Hook!Ids \ {d} : delivery'[e] = delivery[e]
         /\ delivery'[d] = IF delivery[d].status = "deleted" THEN delivery[d] ELSE row
BY DEF HookTypes, Hook!Write

\* The row an attempt leaves behind.
LEMMA AttemptLeaves ==
  ASSUME Hook!OutboxBounds, HookTypes, NEW p \in Passes, pass[p].pc = "record",
         NEW row, row = Hook!AttemptedRow(delivery[pass[p].row.id],
                               Hook!StatusAfter(pass[p].outcome, pass[p].row.attempts + 1))
  PROVE  /\ row \in Hook!RowType /\ row.status \in {"pending"} \cup Hook!Ended
         /\ row.attempts = delivery[pass[p].row.id].attempts + 1
         /\ row.status = "dead" => pass[p].row.attempts + 1 > ScheduleLength
         /\ row.status = "delivered" => pass[p].outcome = "delivered"
<1>1. /\ pass[p].row \in Hook!Claimed /\ pass[p].row.id \in Hook!Ids
           /\ pass[p].outcome \in Hook!Outcomes
  BY HookHeld DEF Working, HookNames
<1>2. delivery[pass[p].row.id].attempts \in Nat BY <1>1 DEF HookTypes, Hook!RowType
<1> DEFINE status == Hook!StatusAfter(pass[p].outcome, pass[p].row.attempts + 1)
<1>3. /\ status \in {"pending"} \cup Hook!Ended
      /\ status = "dead" => pass[p].row.attempts + 1 > ScheduleLength
      /\ status = "delivered" => pass[p].outcome = "delivered"
  BY <1>1 DEF Hook!StatusAfter, Hook!ScheduleSpent, Hook!Ended, Hook!Outcomes
<1> HIDE DEF status
<1>4. row = Hook!AttemptedRow(delivery[pass[p].row.id], status) BY DEF status
<1> QED BY <1>2, <1>3, <1>4 DEF Hook!AttemptedRow, Hook!RowType, Hook!Leases


-----------------------------------------------------------------------------
LEMMA StepNarrows ==
  ASSUME HookTypes, NEW p \in Passes, Hook!Step(p) \/ Hook!Fault(p)
  PROVE  Narrows(p)
<1>1. CASE Hook!ReleaseDeliveryClaim(p) \/ Hook!RecordEndpointAttempt(p)
  BY <1>1, NextRowNarrows DEF Hook!ReleaseDeliveryClaim, Hook!RecordEndpointAttempt
<1> QED BY ZenonT(60), <1>1, FindNarrows, DisableNarrows, AttemptNarrows, RecordNarrows,
        FaultNarrows DEF
           Hook!Step

LEMMA AllNarrow ==
  ASSUME HookTypes, NEW p \in Passes, Narrows(p)
  PROVE  /\ \A q \in Passes : Claims(pass'[q]) \subseteq Claims(pass[q])
         /\ Apart => \A q \in Passes :
              pass'[q].pc \in Working => pass'[q].row \notin pass'[q].todo
BY DEF Narrows, Apart

\* Only two steps of a pass write its row, and they end its claim of it.
LEMMA RowWritten ==
  ASSUME Hook!OutboxBounds, HookTypes, NEW p \in Passes,
         Hook!ReleaseDeliveryClaim(p) \/ Hook!RecordDeliveryAttempt(p)
  PROVE  LET d == pass[p].row.id IN
         /\ pass[p].pc \in Working /\ pass[p].row \in Claims(pass[p]) /\ d \in Hook!Ids
         /\ Claims(pass'[p]) = pass[p].todo /\ pass'[p].pc \notin Working
         /\ delivery' \in [Hook!Ids -> Hook!RowType]
         /\ \A e \in Hook!Ids \ {d} : delivery'[e] = delivery[e]
         /\ delivery[d].status = "deleted" => delivery'[d] = delivery[d]
         /\ delivery[d].status # "deleted" =>
              /\ delivery'[d].status \in {"pending"} \cup Hook!Ended
              /\ delivery'[d].attempts >= delivery[d].attempts
              /\ delivery'[d].status = "delivered" =>
                   pass[p].pc = "record" /\ pass[p].outcome = "delivered"
              /\ delivery'[d].status = "dead" =>
                   /\ pass[p].row.attempts + 1 > ScheduleLength
                   /\ delivery'[d].attempts = delivery[d].attempts + 1
<1> DEFINE d == pass[p].row.id
<1>1. CASE Hook!ReleaseDeliveryClaim(p)
  <2>1. /\ pass[p].pc \in Working /\ pass[p].row \in Claims(pass[p]) /\ d \in Hook!Ids
    BY <1>1, HookHeld DEF Hook!ReleaseDeliveryClaim, Working
  <2>2. Claims(pass'[p]) = pass[p].todo /\ pass'[p].pc \notin Working
    BY <1>1, NextRowNarrows DEF Hook!ReleaseDeliveryClaim
  <2>3. PICK row : row
               = [delivery[d] EXCEPT !.status = "failed", !.due = FALSE, !.lease = "none"]
    OBVIOUS
  <2>4. delivery[d] \in Hook!RowType BY <2>1 DEF HookTypes
  <2>5. /\ row \in Hook!RowType /\ row.status = "failed"
             /\ row.attempts = delivery[d].attempts
        /\ delivery[d].attempts \in Nat
    BY <2>3, <2>4 DEF Hook!RowType, Hook!Ended, Hook!Leases
  <2>6. Hook!Write(d, row) BY <1>1, <2>3 DEF Hook!ReleaseDeliveryClaim
  <2> QED BY <2>1, <2>2, <2>5, <2>6, Written DEF Hook!Ended
<1>2. CASE Hook!RecordDeliveryAttempt(p)
  <2>1. /\ pass[p].pc \in Working /\ pass[p].row \in Claims(pass[p]) /\ d \in Hook!Ids
        /\ pass[p].pc = "record"
    BY <1>2, HookHeld DEF Hook!RecordDeliveryAttempt, Working
  <2>2. Claims(pass'[p]) = pass[p].todo /\ pass'[p].pc \notin Working
    BY <1>2, RecordNarrows DEF Working
  <2>3. PICK row : row
               = Hook!AttemptedRow(delivery[d], Hook!StatusAfter(pass[p].outcome,
                   pass[p].row.attempts + 1))
    OBVIOUS
  <2>4. /\ row \in Hook!RowType /\ row.status \in {"pending"} \cup Hook!Ended
        /\ row.attempts = delivery[d].attempts + 1
        /\ row.status = "dead" => pass[p].row.attempts + 1 > ScheduleLength
        /\ row.status = "delivered" => pass[p].outcome = "delivered"
    BY <2>1, <2>3, AttemptLeaves
  <2>5. delivery[d].attempts \in Nat BY <2>1 DEF HookTypes, Hook!RowType
  <2>6. Hook!Write(d, row) BY <1>2, <2>3 DEF Hook!RecordDeliveryAttempt
  <2> HIDE DEF d
  <2> QED BY <2>1, <2>2, <2>4, <2>5, <2>6, Written DEF d
<1> QED BY <1>1, <1>2

LEMMA NewRows == Hook!NewRow \in Hook!RowType /\ Hook!NoRow \in Hook!RowType
  /\ [Hook!NoRow EXCEPT !.status = "deleted"] \in Hook!RowType
BY DEF Hook!NewRow, Hook!NoRow, Hook!RowType, Hook!Leases

-----------------------------------------------------------------------------
LEMMA HookTypesStart == ASSUME Hook!OutboxBounds PROVE Hook!Init => HookTypes
<1>1. Hook!Idle \in PassType /\ HookNames(Hook!Idle)
  BY DEF Hook!Idle, PassType, HookNames, Working
<1> QED BY <1>1, NewRows DEF Hook!Init, HookTypes, EndpointType

LEMMA HookTypesStep == ASSUME Hook!OutboxBounds
                       PROVE  HookTypes /\ [Hook!Next]_(Hook!vars) => HookTypes'
<1> SUFFICES ASSUME HookTypes, [Hook!Next]_(Hook!vars) PROVE HookTypes'
  OBVIOUS
<1>0. /\ \A d \in Hook!Ids : delivery[d] \in Hook!RowType /\ d[1] \in Events
           /\ Hook!EndpointOf(d) \in Endpoints
      /\ \A w \in Endpoints : endpoint[w] \in EndpointType
  BY DEF HookTypes, Hook!Ids, Hook!EndpointOf
<1>1. ASSUME NEW e \in Events, Hook!RecordEvent(e) PROVE HookTypes'
  BY <1>0, <1>1, NewRows DEF Hook!RecordEvent, HookTypes
<1>2. ASSUME NEW d \in Hook!Ids, Hook!Redeliver(d) PROVE HookTypes'
  BY <1>0, <1>2, NewRows DEF Hook!Redeliver, HookTypes
<1>3. ASSUME NEW d \in Hook!Ids, Hook!BackoffEnds(d) \/ Hook!LeaseLapses(d) PROVE HookTypes'
  <2>1. /\ [delivery[d] EXCEPT !.due = TRUE] \in Hook!RowType
        /\ [delivery[d] EXCEPT !.lease = "lapsed"] \in Hook!RowType
    BY <1>0 DEF Hook!RowType, Hook!Leases
  <2>2. overrun' \subseteq Hook!Ids
    BY <1>3 DEF Hook!BackoffEnds, Hook!LeaseLapses, HookTypes
  <2> QED BY <1>3, <2>1, <2>2 DEF Hook!BackoffEnds, Hook!LeaseLapses, HookTypes
<1>4. ASSUME NEW w \in Endpoints, Hook!UpdateEndpoint(w) PROVE HookTypes'
  <2>1. PICK status \in {"enabled", "disabled", "as it is"}, moved \in BOOLEAN :
          endpoint' = [endpoint EXCEPT ![w] =
            [status  |-> IF status = "as it is" THEN endpoint[w].status ELSE status,
             refused |-> endpoint[w].refused /\ ~moved,
             failing |-> IF status = "enabled" THEN "no" ELSE endpoint[w].failing]]
    BY <1>4 DEF Hook!UpdateEndpoint, HookTypes
  <2>2. endpoint[w].status \in {"enabled", "disabled", "deleted"}
          /\ endpoint[w].refused \in BOOLEAN /\ endpoint[w].failing \in {"no", "open", "days"}
    BY <1>0 DEF EndpointType
  <2>3. (endpoint[w].refused /\ ~moved) \in BOOLEAN OBVIOUS
  <2>4. endpoint' \in [Endpoints -> EndpointType]
    BY <2>1, <2>2, <2>3 DEF EndpointType, HookTypes
  <2> QED BY <1>4, <2>4 DEF Hook!UpdateEndpoint, HookTypes
<1>5. ASSUME NEW w \in Endpoints, Hook!DeleteEndpoint(w) PROVE HookTypes'
  BY <1>0, <1>5, NewRows DEF Hook!DeleteEndpoint, HookTypes, EndpointType
<1>6. ASSUME NEW w \in Endpoints, Hook!FailingForDays(w) PROVE HookTypes'
  <2>1. [endpoint[w] EXCEPT !.failing = "days"] \in EndpointType BY SMTT(60), <1>0 DEF EndpointType
  <2> QED BY <1>6, <2>1 DEF Hook!FailingForDays, HookTypes
<1>7. ASSUME NEW p \in Passes, Hook!ClaimDueDeliveries(p) PROVE HookTypes'
  <2>1. PICK batch \in SUBSET Hook!Claimable :
          /\ batch # {}
          /\ delivery' = [d \in Hook!Ids |->
               IF d \in batch THEN [delivery[d] EXCEPT !.lease = "live"] ELSE delivery[d]]
          /\ pass' = [pass EXCEPT ![p] = [Hook!Idle EXCEPT !.pc = "next",
               !.todo = {[id |-> d, attempts |-> delivery[d].attempts] : d \in batch}]]
    BY ZenonT(60), <1>7 DEF Hook!ClaimDueDeliveries
  <2> DEFINE todo == {[id |-> d, attempts |-> delivery[d].attempts] : d \in batch}
             s == [Hook!Idle EXCEPT !.pc = "next", !.todo = todo]
  <2>2. batch \subseteq Hook!Ids BY DEF Hook!Claimable
  <2>3. todo \in SUBSET Hook!Claimed /\ todo # {}
    <3>1. \A d \in batch : [id |-> d, attempts |-> delivery[d].attempts] \in Hook!Claimed
      BY <1>0, <2>2 DEF Hook!Claimed, Hook!RowType
    <3>2. PICK d \in batch : TRUE BY <2>1
    <3>3. [id |-> d, attempts |-> delivery[d].attempts] \in todo BY <3>2
    <3> QED BY <3>1, <3>3
  <2>3a. pass' = [pass EXCEPT ![p] = s] BY <2>1
  <2> HIDE DEF todo
  <2>4. s \in PassType /\ HookNames(s)
    BY <2>3 DEF Hook!Idle, PassType, HookNames, Working, Hook!Outcomes
  <2> HIDE DEF s
  <2>5. delivery' \in [Hook!Ids -> Hook!RowType]
    <3>1. \A d \in Hook!Ids : [delivery[d] EXCEPT !.lease = "live"] \in Hook!RowType
      BY <1>0 DEF Hook!RowType, Hook!Leases
    <3> QED BY <1>0, <2>1, <3>1
  <2> QED BY ZenonT(60), <1>7, <2>3a, <2>4, <2>5, PassMoves DEF Hook!ClaimDueDeliveries, HookTypes
<1>8. ASSUME NEW p \in Passes, Hook!Step(p) \/ Hook!Fault(p) PROVE HookTypes'
  <2>1. pass' \in [Passes -> PassType] /\ \A q \in Passes : HookNames(pass'[q])
    BY <1>8, StepNarrows DEF Narrows
  <2>2. CASE Hook!FindEndpointSigningTarget(p)
    BY <2>1, <2>2 DEF Hook!FindEndpointSigningTarget, HookTypes
  <2>3. CASE Hook!DisableEndpoint(p) \/ Hook!RecordEndpointAttempt(p)
    <3>1. endpoint' \in [Endpoints -> EndpointType]
      <4>1. \A w \in Endpoints :
              /\ [endpoint[w] EXCEPT !.status = "disabled"] \in EndpointType
              /\ [endpoint[w] EXCEPT !.failing = "no"] \in EndpointType
              /\ [endpoint[w] EXCEPT !.failing = "open"] \in EndpointType
        BY <1>0 DEF EndpointType
      <4> QED BY <2>3, <4>1 DEF Hook!DisableEndpoint, Hook!RecordEndpointAttempt, HookTypes
    <3> QED
      BY <2>1, <2>3, <3>1 DEF Hook!DisableEndpoint, Hook!RecordEndpointAttempt, HookTypes
  <2>4. CASE Hook!ReleaseDeliveryClaim(p) \/ Hook!RecordDeliveryAttempt(p)
    <3>1. delivery' \in [Hook!Ids -> Hook!RowType] BY <2>4, RowWritten
    <3> QED BY <2>1, <2>4, <3>1 DEF Hook!ReleaseDeliveryClaim, Hook!RecordDeliveryAttempt,
               HookTypes
  <2>5. CASE Hook!AttemptDelivery(p)
    <3>1. pass[p].row.id \in Hook!Ids BY <2>5, HookHeld DEF Hook!AttemptDelivery, Working
    <3>2. accepted' \subseteq Hook!Ids BY <2>5, <3>1, AttemptNarrows DEF HookTypes
    <3> QED BY <2>1, <2>5, <3>2 DEF Hook!AttemptDelivery, HookTypes
  <2>6. CASE Hook!Fault(p) BY <2>1, <2>6 DEF Hook!Fault, HookTypes
  <2> QED BY <1>8, <2>2, <2>3, <2>4, <2>5, <2>6 DEF Hook!Step
<1>9. CASE UNCHANGED Hook!vars BY <1>9 DEF Hook!vars, HookTypes
<1> QED BY <1>1, <1>2, <1>3, <1>4, <1>5, <1>6, <1>7, <1>8, <1>9 DEF Hook!Next

LEMMA HookTypesAlways == ASSUME Hook!OutboxBounds PROVE Hook!Spec => []HookTypes
<1> QED BY HookTypesStart, HookTypesStep, PTL DEF Hook!Spec

-----------------------------------------------------------------------------
\* What a claim takes: deliveries that are due and that nobody holds a lease on,
\* with the counts they have.
LEMMA ClaimTakes ==
  ASSUME HookTypes, NEW p \in Passes, Hook!ClaimDueDeliveries(p)
  PROVE  /\ Claims(pass[p]) = {}
         /\ \A q \in Passes \ {p} : pass'[q] = pass[q]
         /\ pass'[p].pc = "next"
         /\ \A b \in Claims(pass'[p]) :
              /\ b.id \in Hook!Ids /\ delivery[b.id].status = "pending"
              /\ delivery[b.id].lease # "live" /\ b.attempts = delivery[b.id].attempts
              /\ delivery'[b.id].status = "pending" /\ delivery'[b.id].lease = "live"
         /\ \A b, c \in Claims(pass'[p]) : b.id = c.id => b = c
         /\ \A d \in Hook!Ids :
              /\ delivery'[d].status = delivery[d].status
              /\ delivery'[d].attempts = delivery[d].attempts
              /\ delivery'[d].lease = delivery[d].lease
                   \/ delivery'[d].lease = "live"
<1>1. PICK batch \in SUBSET Hook!Claimable :
        /\ delivery' = [d \in Hook!Ids |->
             IF d \in batch THEN [delivery[d] EXCEPT !.lease = "live"] ELSE delivery[d]]
        /\ pass' = [pass EXCEPT ![p] = [Hook!Idle EXCEPT !.pc = "next",
             !.todo = {[id |-> d, attempts |-> delivery[d].attempts] : d \in batch}]]
  BY ZenonT(60) DEF Hook!ClaimDueDeliveries
<1> DEFINE todo == {[id |-> d, attempts |-> delivery[d].attempts] : d \in batch}
           s == [Hook!Idle EXCEPT !.pc = "next", !.todo = todo]
<1>2. s.pc = "next" /\ s.todo = todo BY DEF Hook!Idle
<1>3. Claims(pass[p]) = {} BY DEF Hook!ClaimDueDeliveries, Hook!Idle, Claims, Working
<1>4. \A q \in Passes \ {p} : pass'[q] = pass[q] BY <1>1 DEF HookTypes
<1>5. pass'[p] = s BY <1>1 DEF HookTypes
<1> HIDE DEF s
<1>6. Claims(pass'[p]) = todo /\ pass'[p].pc = "next" BY <1>2, <1>5 DEF Claims, Working
<1>7. \A d \in Hook!Ids :
        /\ delivery'[d].status = delivery[d].status
        /\ delivery'[d].attempts = delivery[d].attempts
        /\ delivery'[d].lease = IF d \in batch THEN "live" ELSE delivery[d].lease
  <2>1. \A d \in Hook!Ids : delivery[d] \in Hook!RowType BY DEF HookTypes
  <2> QED BY <1>1, <2>1 DEF Hook!RowType
<1>8. \A b \in todo : b.id \in batch
        /\ b = [id |-> b.id, attempts |-> delivery[b.id].attempts]
  OBVIOUS
<1> HIDE DEF todo
<1>9. \A b \in todo : /\ b.id \in Hook!Ids /\ delivery[b.id].status = "pending"
                      /\ delivery[b.id].lease # "live" /\ b.attempts = delivery[b.id].attempts
  BY <1>8 DEF Hook!Claimable
<1>10. \A b, c \in todo : b.id = c.id => b = c BY <1>8
<1> QED BY ZenonT(60), <1>3, <1>4, <1>6, <1>7, <1>8, <1>9, <1>10

LEMMA CountedStart == ASSUME Hook!OutboxBounds PROVE Hook!Init => Counted
BY DEF Hook!Init, Counted, Hook!NoRow, Hook!Idle, Claims, Working, Hook!DeadMeansTried

LEMMA CountedStep ==
  ASSUME Hook!OutboxBounds PROVE HookTypes /\ Counted /\ [Hook!Next]_(Hook!vars) => Counted'
<1> SUFFICES ASSUME HookTypes, Counted, [Hook!Next]_(Hook!vars) PROVE Counted'
  OBVIOUS
<1>0. HookTypes' BY HookTypesStep
<1> DEFINE Heard == \A p \in Passes : pass[p].pc = "record"
             /\ pass[p].outcome = "delivered" =>
                      pass[p].row.id \in accepted
<1>1. Heard BY DEF Counted
<1>2. ASSUME pass' = pass, recorded \subseteq recorded', accepted' = accepted,
             \A d \in Hook!Ids : RowGoesOn(d)
      PROVE  Counted'
  BY <1>0, <1>1, <1>2, CountedGoesOn
<1>3. ASSUME NEW e \in Events, Hook!RecordEvent(e) PROVE Counted'
  <2>1. \A d \in Hook!Ids : d[1] = e => delivery[d].status = "none"
    BY <1>3 DEF Hook!RecordEvent, Counted
  <2>2. ASSUME NEW d \in Hook!Ids PROVE RowGoesOn(d)
    BY <1>3, <2>1, <2>2 DEF Hook!RecordEvent, RowGoesOn
  <2> QED BY <1>2, <1>3, <2>2 DEF Hook!RecordEvent
<1>4. ASSUME NEW d \in Hook!Ids, Hook!Redeliver(d) PROVE Counted'
  <2>1. d[1] \in recorded
    <3> DEFINE e == <<d[1], d[2], d[3] - 1>>
    <3>1. d[1] \in Events /\ d[2] \in Endpoints /\ d[3] \in 0..MaxRedeliveries BY DEF Hook!Ids
    <3>2. d[3] - 1 \in 0..MaxRedeliveries BY <1>4, <3>1 DEF Hook!Redeliver, Hook!OutboxBounds
    <3>3. e \in Hook!Ids /\ e[1] = d[1] BY <3>1, <3>2 DEF Hook!Ids
    <3>4. delivery[e].status # "none" BY <1>4 DEF Hook!Redeliver
    <3> QED BY <3>3, <3>4 DEF Counted
  <2>2. ASSUME NEW e \in Hook!Ids PROVE RowGoesOn(e)
    BY <1>4, <2>1 DEF Hook!Redeliver, RowGoesOn, HookTypes
  <2> QED BY <1>2, <1>4, <2>2 DEF Hook!Redeliver
<1>5. ASSUME NEW d \in Hook!Ids, Hook!BackoffEnds(d) \/ Hook!LeaseLapses(d) PROVE Counted'
  <2>1. \A e \in Hook!Ids : delivery[e] \in Hook!RowType BY DEF HookTypes
  <2>2. ASSUME NEW e \in Hook!Ids PROVE RowGoesOn(e)
    BY <1>5, <2>1 DEF Hook!BackoffEnds, Hook!LeaseLapses, RowGoesOn, Hook!RowType, HookTypes
  <2> QED BY <1>2, <1>5, <2>2 DEF Hook!BackoffEnds, Hook!LeaseLapses
<1>6. ASSUME NEW w \in Endpoints, Hook!DeleteEndpoint(w) PROVE Counted'
  <2>1. ASSUME NEW e \in Hook!Ids PROVE RowGoesOn(e)
    BY <1>6 DEF Hook!DeleteEndpoint, RowGoesOn, Hook!NoRow
  <2> QED BY <1>2, <1>6, <2>1 DEF Hook!DeleteEndpoint
<1>7. ASSUME NEW w \in Endpoints, Hook!UpdateEndpoint(w) \/ Hook!FailingForDays(w)
      PROVE  Counted'
  <2>1. UNCHANGED <<delivery, pass, recorded, accepted>>
    BY <1>7 DEF Hook!UpdateEndpoint, Hook!FailingForDays
  <2> QED BY <1>2, <2>1 DEF RowGoesOn
<1>8. ASSUME NEW p \in Passes, Hook!ClaimDueDeliveries(p) PROVE Counted'
  <2>1. \A d \in Hook!Ids : RowGoesOn(d) BY <1>8, ClaimTakes DEF RowGoesOn
  <2>2. ASSUME NEW c \in Claims(pass'[p]) PROVE Sound(c)
    <3>1. c.id \in Hook!Ids /\ delivery[c.id].status = "pending"
            /\ c.attempts = delivery[c.id].attempts
      BY <1>8, <2>2, ClaimTakes
    <3>2. delivery[c.id].attempts \in Nat BY <3>1 DEF HookTypes, Hook!RowType
    <3> QED BY <3>1, <3>2 DEF Sound
  <2>3. \A q \in Passes : \A c \in Claims(pass'[q]) : c \in Claims(pass[q]) \/ Sound(c)
    BY <1>8, <2>2, ClaimTakes
  <2>4. \A q \in Passes : pass'[q].pc = "record" /\ pass'[q].outcome = "delivered" =>
          pass'[q].row.id \in accepted'
    BY <1>1, <1>8, ClaimTakes, ZenonT(60) DEF Hook!ClaimDueDeliveries
  <2>5. recorded \subseteq recorded' /\ accepted \subseteq accepted'
    BY <1>8 DEF Hook!ClaimDueDeliveries
  <2> QED BY <1>0, <2>1, <2>3, <2>4, <2>5, CountedGoesOn
<1>9. ASSUME NEW p \in Passes, Hook!Step(p) \/ Hook!Fault(p) PROVE Counted'
  <2>1. Narrows(p) BY <1>9, StepNarrows
  <2>2. \A q \in Passes : \A c \in Claims(pass'[q]) : c \in Claims(pass[q]) \/ Sound(c)
    BY <2>1, AllNarrow
  <2>3. recorded' = recorded
    BY ZenonT(60), <1>9 DEF Hook!Step, Hook!Fault, Hook!FindEndpointSigningTarget,
       Hook!DisableEndpoint,
       Hook!ReleaseDeliveryClaim, Hook!AttemptDelivery, Hook!RecordDeliveryAttempt,
       Hook!RecordEndpointAttempt
  <2>4. /\ accepted \subseteq accepted'
        /\ pass'[p].pc = "record" /\ pass'[p].outcome = "delivered" =>
             pass'[p].row.id \in accepted'
    <3>1. CASE Hook!AttemptDelivery(p) BY <3>1, AttemptNarrows
    <3>2. CASE ~Hook!AttemptDelivery(p)
      <4>1. accepted' = accepted
        BY ZenonT(60), <1>9, <3>2 DEF Hook!Step, Hook!Fault, Hook!FindEndpointSigningTarget,
           Hook!DisableEndpoint, Hook!ReleaseDeliveryClaim, Hook!RecordDeliveryAttempt,
           Hook!RecordEndpointAttempt
      <4>2. pass'[p].pc # "record"
        BY <1>9, <3>2, FindNarrows, DisableNarrows, RecordNarrows, FaultNarrows,
          NextRowNarrows
           DEF Hook!Step, Hook!ReleaseDeliveryClaim, Hook!RecordEndpointAttempt, Working
      <4> QED BY <4>1, <4>2
    <3> QED BY <3>1, <3>2
  <2>5. \A q \in Passes : pass'[q].pc = "record" /\ pass'[q].outcome = "delivered" =>
          pass'[q].row.id \in accepted'
    BY <1>1, <2>1, <2>4 DEF Narrows
  <2>6. CASE Hook!ReleaseDeliveryClaim(p) \/ Hook!RecordDeliveryAttempt(p)
    <3> DEFINE d == pass[p].row.id
    <3>1. Sound(pass[p].row) /\ pass[p].row.attempts \in Nat /\ d \in Hook!Ids
            /\ delivery[d].attempts \in Nat /\ delivery'[d].attempts \in Nat
      <4>1. pass[p].row \in Claims(pass[p]) /\ d \in Hook!Ids BY <2>6, RowWritten
      <4>2. pass[p].row.attempts \in Nat BY <4>1, HookHeld DEF Hook!Claimed
      <4> QED BY <1>0, <4>1, <4>2 DEF Counted, HookTypes, Hook!RowType
    <3>2. RowGoesOn(d)
      <4>1. CASE delivery[d].status = "deleted" BY ZenonT(60), <2>6, <4>1, RowWritten DEF RowGoesOn
      <4>2. CASE delivery[d].status # "deleted"
        <5>1. /\ delivery[d].status # "none" /\ delivery[d].attempts >= pass[p].row.attempts
          BY <3>1, <4>2 DEF Sound
        <5>2. delivery'[d].status = "delivered" => d \in accepted'
          BY ZenonT(60), <2>4, <2>6, <4>2, <1>1, RowWritten
        <5>3. delivery'[d].status = "dead" => delivery'[d].attempts > ScheduleLength
          BY <2>6, <3>1, <4>2, <5>1, RowWritten DEF Hook!OutboxBounds
        <5> QED BY <2>6, <4>2, <5>1, <5>2, <5>3, RowWritten DEF RowGoesOn
      <4> QED BY <4>1, <4>2
    <3>3. \A e \in Hook!Ids \ {d} : RowGoesOn(e) BY <2>6, RowWritten DEF RowGoesOn
    <3> QED BY <1>0, <2>2, <2>3, <2>4, <2>5, <3>2, <3>3, CountedGoesOn
  <2>7. CASE ~(Hook!ReleaseDeliveryClaim(p) \/ Hook!RecordDeliveryAttempt(p))
    <3>1. delivery' = delivery
      BY <1>9, <2>7 DEF Hook!Step, Hook!Fault, Hook!FindEndpointSigningTarget,
         Hook!DisableEndpoint, Hook!AttemptDelivery, Hook!RecordEndpointAttempt
    <3> QED BY ZenonT(60), <1>0, <2>2, <2>3, <2>4, <2>5, <3>1, CountedGoesOn DEF RowGoesOn
  <2> QED BY <2>6, <2>7
<1>10. CASE UNCHANGED Hook!vars BY <1>2, <1>10 DEF Hook!vars, RowGoesOn
<1> QED BY <1>3, <1>4, <1>5, <1>6, <1>7, <1>8, <1>9, <1>10 DEF Hook!Next

-----------------------------------------------------------------------------
LEMMA HeldIsClaimed ==
  ASSUME NEW p \in Passes
  PROVE  Hook!Holds(p) = {c.id : c \in Claims(pass[p])}
BY DEF Hook!Holds, Claims, Working

LEMMA ApartStart == Hook!Init => Apart
BY DEF Hook!Init, Apart, Hook!Idle, Claims, Working

\* A lease runs out where nobody holds, or is remembered to have run out.
LEMMA ApartStep ==
  ASSUME Hook!OutboxBounds
  PROVE  HookTypes /\ Counted /\ Apart /\ [Hook!Next]_(Hook!vars) => Apart'
<1> SUFFICES ASSUME HookTypes, Counted, Apart, [Hook!Next]_(Hook!vars) PROVE Apart'
  OBVIOUS
<1>0. \A p \in Passes : \A c \in Claims(pass[p]) :
        c.id \in Hook!Ids /\ Leased(c) /\ delivery[c.id].status # "none"
  <2>1. \A p \in Passes : Claims(pass[p]) \subseteq Hook!Claimed BY HookHeld
  <2>2. \A p \in Passes : \A c \in Claims(pass[p]) : delivery[c.id].status # "none"
    BY DEF Counted, Sound
  <2> QED BY <2>1, <2>2 DEF Apart, Hook!Claimed
<1>1. ASSUME NEW e \in Events, Hook!RecordEvent(e) PROVE Apart'
  <2>1. \A d \in Hook!Ids : d[1] = e => delivery[d].status = "none"
    BY <1>1 DEF Hook!RecordEvent, Counted
  <2>2. \A p \in Passes : \A c \in Claims(pass[p]) : delivery'[c.id] = delivery[c.id]
    BY <1>0, <1>1, <2>1 DEF Hook!RecordEvent
  <2> QED BY <1>1, <2>2, ApartFramed DEF Hook!RecordEvent
<1>2. ASSUME NEW d \in Hook!Ids, Hook!Redeliver(d) PROVE Apart'
  <2>1. \A p \in Passes : \A c \in Claims(pass[p]) : delivery'[c.id] = delivery[c.id]
    BY <1>0, <1>2 DEF Hook!Redeliver, HookTypes
  <2> QED BY <1>2, <2>1, ApartFramed DEF Hook!Redeliver
<1>3. ASSUME NEW d \in Hook!Ids, Hook!BackoffEnds(d) PROVE Apart'
  <2>1. \A e \in Hook!Ids : delivery[e] \in Hook!RowType BY DEF HookTypes
  <2>2. \A e \in Hook!Ids : delivery'[e].status = delivery[e].status
                              /\ delivery'[e].lease = delivery[e].lease
    BY <1>3, <2>1 DEF Hook!BackoffEnds, Hook!RowType, HookTypes
  <2> QED BY <1>0, <1>3, <2>2, ApartFramed DEF Hook!BackoffEnds
<1>4. ASSUME NEW d \in Hook!Ids, Hook!LeaseLapses(d) PROVE Apart'
  <2>1. ASSUME NEW p \in Passes, NEW c \in Claims(pass[p])
        PROVE  c.id \in overrun' \/ delivery'[c.id] = delivery[c.id]
    <3>1. CASE c.id = d
      <4>1. d \in Hook!Holds(p) BY <3>1, HeldIsClaimed
      <4> QED BY <1>4, <3>1, <4>1 DEF Hook!LeaseLapses
    <3>2. CASE c.id # d BY <1>0, <1>4, <3>2 DEF Hook!LeaseLapses, HookTypes
    <3> QED BY <3>1, <3>2
  <2>2. overrun \subseteq overrun' /\ pass' = pass BY <1>4 DEF Hook!LeaseLapses
  <2> QED BY <2>1, <2>2, ApartFramed
<1>5. ASSUME NEW w \in Endpoints, Hook!DeleteEndpoint(w) PROVE Apart'
  <2>1. \A p \in Passes : \A c \in Claims(pass[p]) :
          delivery'[c.id].status = "deleted" \/ delivery'[c.id] = delivery[c.id]
    BY <1>0, <1>5 DEF Hook!DeleteEndpoint, Hook!NoRow
  <2> QED BY <1>5, <2>1, ApartFramed DEF Hook!DeleteEndpoint
<1>6. ASSUME NEW w \in Endpoints, Hook!UpdateEndpoint(w) \/ Hook!FailingForDays(w)
      PROVE  Apart'
  BY <1>6, ApartFramed DEF Hook!UpdateEndpoint, Hook!FailingForDays
<1>7. ASSUME NEW p \in Passes, Hook!ClaimDueDeliveries(p) PROVE Apart'
  <2>0. overrun' = overrun BY <1>7 DEF Hook!ClaimDueDeliveries
  <2>1. ASSUME NEW q \in Passes, NEW c \in Claims(pass'[q]) PROVE Leased(c)'
    BY <1>0, <1>7, <2>0, <2>1, ClaimTakes DEF Leased
  <2>2. ASSUME NEW b \in Claims(pass'[p]), NEW q \in Passes \ {p}, NEW c \in Claims(pass'[q]),
               b.id = c.id
        PROVE  b.id \in overrun
    <3>1. delivery[b.id].status = "pending" /\ delivery[b.id].lease # "live"
      BY <1>7, ClaimTakes
    <3>2. c \in Claims(pass[q]) BY <1>7, ClaimTakes
    <3>3. Leased(c) BY <1>0, <3>2
    <3> QED BY <2>2, <3>1, <3>3 DEF Leased
  <2>3. ASSUME NEW q \in Passes, NEW r \in Passes, NEW b \in Claims(pass'[q]),
               NEW c \in Claims(pass'[r]), b.id = c.id
        PROVE  b.id \in overrun \/ (q = r /\ b = c)
    <3>1. CASE q = p /\ r = p BY <1>7, <2>3, <3>1, ClaimTakes
    <3>2. CASE q = p /\ r # p BY <2>2, <2>3, <3>2
    <3>3. CASE q # p /\ r = p BY <2>2, <2>3, <3>3
    <3>4. CASE q # p /\ r # p BY <1>7, <2>3, <3>4, ClaimTakes DEF Apart
    <3> QED BY <3>1, <3>2, <3>3, <3>4
  <2>4. \A q \in Passes : pass'[q].pc \in Working => pass'[q].row \notin pass'[q].todo
    BY <1>7, ClaimTakes DEF Apart, Working
  <2> QED BY <2>0, <2>1, <2>3, <2>4 DEF Apart
<1>8. ASSUME NEW p \in Passes, Hook!Step(p) \/ Hook!Fault(p) PROVE Apart'
  <2>1. /\ \A q \in Passes : Claims(pass'[q]) \subseteq Claims(pass[q])
        /\ \A q \in Passes : pass'[q].pc \in Working => pass'[q].row \notin pass'[q].todo
    BY <1>8, StepNarrows, AllNarrow
  <2>0. overrun' = overrun
    BY ZenonT(60), <1>8 DEF Hook!Step, Hook!Fault, Hook!FindEndpointSigningTarget,
       Hook!DisableEndpoint, Hook!ReleaseDeliveryClaim, Hook!AttemptDelivery,
       Hook!RecordDeliveryAttempt, Hook!RecordEndpointAttempt
  <2>2. CASE Hook!ReleaseDeliveryClaim(p) \/ Hook!RecordDeliveryAttempt(p)
    <3> DEFINE d == pass[p].row.id
    <3>1. ASSUME NEW q \in Passes, NEW c \in Claims(pass'[q])
          PROVE  c.id # d \/ c.id \in overrun
      <4>1. pass[p].pc \in Working /\ pass[p].row \in Claims(pass[p])
              /\ Claims(pass'[p]) = pass[p].todo
        BY <2>2, RowWritten
      <4>2. c \in Claims(pass[q]) BY <2>1
      <4>3. c.id = d => c.id \in overrun \/ (q = p /\ c = pass[p].row)
        BY <4>1, <4>2 DEF Apart
      <4>4. pass[p].row \notin pass[p].todo BY <4>1 DEF Apart
      <4> QED BY <4>1, <4>3, <4>4
    <3>2. \A q \in Passes : \A c \in Claims(pass'[q]) : Leased(c)'
      BY SMTT(60), <1>0, <2>0, <2>1, <2>2, <3>1, RowWritten DEF Leased
    <3> QED BY <2>0, <2>1, <3>2, ApartGoesOn
  <2>3. CASE ~(Hook!ReleaseDeliveryClaim(p) \/ Hook!RecordDeliveryAttempt(p))
    <3>1. delivery' = delivery
      BY <1>8, <2>3 DEF Hook!Step, Hook!Fault, Hook!FindEndpointSigningTarget,
         Hook!DisableEndpoint, Hook!AttemptDelivery, Hook!RecordEndpointAttempt
    <3>2. \A q \in Passes : \A c \in Claims(pass'[q]) : Leased(c)'
      BY <1>0, <2>0, <2>1, <3>1 DEF Leased
    <3> QED BY <2>0, <2>1, <3>2, ApartGoesOn
  <2> QED BY <2>2, <2>3
<1>9. CASE UNCHANGED Hook!vars BY <1>9, ApartFramed DEF Hook!vars
<1> QED BY <1>1, <1>2, <1>3, <1>4, <1>5, <1>6, <1>7, <1>8, <1>9 DEF Hook!Next

\* A step that takes an ended delivery out of its end takes it away altogether.
Ends == \A d \in Hook!Ids \ overrun : delivery[d].status \in Hook!Ended =>
          delivery'[d].status \in {delivery[d].status, "deleted"}

LEMMA HookEndedStep ==
  ASSUME Hook!OutboxBounds
  PROVE  HookTypes /\ Counted /\ Apart /\ [Hook!Next]_(Hook!vars) => Ends
<1> SUFFICES ASSUME HookTypes, Counted, Apart, [Hook!Next]_(Hook!vars) PROVE Ends
  OBVIOUS
<1>0. \A d \in Hook!Ids : delivery[d] \in Hook!RowType BY DEF HookTypes
<1>1. ASSUME NEW e \in Events, Hook!RecordEvent(e) PROVE Ends
  <2>1. \A d \in Hook!Ids : d[1] = e => delivery[d].status = "none"
    BY <1>1 DEF Hook!RecordEvent, Counted
  <2> QED BY <1>1, <2>1 DEF Hook!RecordEvent, Ends, Hook!Ended
<1>2. ASSUME NEW d \in Hook!Ids, Hook!Redeliver(d) PROVE Ends
  BY <1>2 DEF Hook!Redeliver, Ends, Hook!Ended, HookTypes
<1>3. ASSUME NEW d \in Hook!Ids, Hook!BackoffEnds(d) \/ Hook!LeaseLapses(d) PROVE Ends
  BY <1>0, <1>3 DEF Hook!BackoffEnds, Hook!LeaseLapses, Ends, Hook!RowType, HookTypes
<1>4. ASSUME NEW w \in Endpoints,
             Hook!UpdateEndpoint(w) \/ Hook!DeleteEndpoint(w) \/ Hook!FailingForDays(w)
      PROVE  Ends
  BY <1>4 DEF Hook!UpdateEndpoint, Hook!DeleteEndpoint, Hook!FailingForDays, Ends, Hook!NoRow
<1>5. ASSUME NEW p \in Passes, Hook!ClaimDueDeliveries(p) PROVE Ends
  BY <1>5, ClaimTakes DEF Ends
<1>6. ASSUME NEW p \in Passes, Hook!Step(p) \/ Hook!Fault(p) PROVE Ends
  <2>1. CASE Hook!ReleaseDeliveryClaim(p) \/ Hook!RecordDeliveryAttempt(p)
    <3>1. Leased(pass[p].row) BY <2>1, RowWritten DEF Apart
    <3>2. pass[p].row.id \in overrun \/ delivery[pass[p].row.id].status \notin Hook!Ended
      BY <3>1 DEF Leased, Hook!Ended
    <3> QED BY <2>1, <3>2, RowWritten DEF Ends
  <2>2. CASE ~(Hook!ReleaseDeliveryClaim(p) \/ Hook!RecordDeliveryAttempt(p))
    <3>1. delivery' = delivery
      BY <1>6, <2>2 DEF Hook!Step, Hook!Fault, Hook!FindEndpointSigningTarget,
         Hook!DisableEndpoint, Hook!AttemptDelivery, Hook!RecordEndpointAttempt
    <3> QED BY ZenonT(60), <3>1 DEF Ends
  <2> QED BY <2>1, <2>2
<1>7. CASE UNCHANGED Hook!vars BY <1>7 DEF Hook!vars, Ends
<1> QED BY <1>1, <1>2, <1>3, <1>4, <1>5, <1>6, <1>7 DEF Hook!Next

-----------------------------------------------------------------------------
\* Every variable holds what the outbox's tables and its passes may hold.
THEOREM HookTypesHold == ASSUME Hook!OutboxBounds PROVE Hook!Spec => []Hook!TypeOK
<1>1. HookTypes => Hook!TypeOK
  BY DEF HookTypes, Hook!TypeOK, PassType, EndpointType, HookNames
<1> QED BY <1>1, HookTypesAlways, PTL

LEMMA CountedAlways == ASSUME Hook!OutboxBounds PROVE Hook!Spec => []Counted
<1>1. HookTypes /\ Counted /\ [Hook!Next]_(Hook!vars) => Counted' BY CountedStep
<1> QED BY <1>1, CountedStart, HookTypesAlways, PTL DEF Hook!Spec

\* recordDeliveryAttempt marks a delivery dead only when its whole schedule was
\* tried, and delivered only when its endpoint took the event in, whether or not
\* batches outlive their leases.
THEOREM DeadWereTried == ASSUME Hook!OutboxBounds PROVE Hook!Spec => []Hook!DeadMeansTried
<1>1. Counted => Hook!DeadMeansTried BY DEF Counted
<1> QED BY <1>1, CountedAlways, PTL

\* The same of the deliveries that are marked delivered: none is, that its
\* endpoint did not answer with a 2xx.
THEOREM DeliveredWereAccepted ==
  ASSUME Hook!OutboxBounds
  PROVE  Hook!Spec => []Hook!DeliveredWasAccepted
<1>1. Counted => Hook!DeliveredWasAccepted BY DEF Counted, Hook!DeliveredWasAccepted
<1> QED BY <1>1, CountedAlways, PTL

LEMMA ApartAlways == ASSUME Hook!OutboxBounds PROVE Hook!Spec => []Apart
<1>1. HookTypes /\ Counted /\ Apart /\ [Hook!Next]_(Hook!vars) => Apart' BY ApartStep
<1> QED BY <1>1, ApartStart, HookTypesAlways, CountedAlways, PTL DEF Hook!Spec

\* No two passes of claimDueDeliveries hold one delivery unless its lease ran out
\* under the one that held it, whoever dies, however long the batches take and
\* whatever the merchant does with the endpoint.
THEOREM ClaimedByOne ==
  ASSUME Hook!OutboxBounds
  PROVE  Hook!Spec => []Hook!OneClaimant
<1>1. Apart => Hook!OneClaimant BY HeldIsClaimed DEF Apart, Hook!OneClaimant
<1> QED BY <1>1, ApartAlways, PTL

\* What recordDeliveryAttempt ended is written by nobody afterwards, where the lease
\* of the delivery never ran out under a pass, however long the batches take.
THEOREM EndedForGood ==
  ASSUME Hook!OutboxBounds
  PROVE  Hook!Spec => Hook!EndedStaysEnded
<1>1. HookTypes /\ Counted /\ Apart /\ [Hook!Next]_(Hook!vars) => [Ends]_(Hook!vars)
  BY HookEndedStep
<1> QED BY <1>1, HookTypesAlways, CountedAlways, ApartAlways, PTL DEF Hook!Spec,
           Hook!EndedStaysEnded, Ends
=============================================================================
