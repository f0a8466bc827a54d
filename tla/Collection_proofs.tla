-------------------------- MODULE Collection_proofs ---------------------------
(*****************************************************************************)
(* How a payment is collected that the payer does not make himself - an      *)
(* invoice's by the billing engine, one at a terminal reader - proved for    *)
(* any values of the constants. The two share no row: the invoices' module   *)
(* is extended, the readers' is an instance.                                 *)
(*****************************************************************************)
EXTENDS InvoiceCollection, FiniteSetTheorems, TLAPS

-----------------------------------------------------------------------------
(*****************************************************************************)
(* Collecting invoices, for any workers, schedule and bounds. Leases run     *)
(* out and attempts overlap, so nothing follows from who works on an         *)
(* invoice. What does is its link: a payment somebody may complete is the    *)
(* one its invoice links, and a link is replaced only when its payment is    *)
(* called off at the acquirer, which is for good.                            *)
(*****************************************************************************)
InvoiceStatuses == {"none", "draft", "open", "paid", "void", "uncollectible"}
SubscriptionStatuses ==
  {"incomplete", "incomplete_expired", "active", "past_due", "unpaid", "canceled"}
SubscriptionType == [status : SubscriptionStatuses, latest : Invoices]
InvoiceType ==
  [status : InvoiceStatuses, link : 0..MaxPayments, attempts : Nat, due : Instants,
   exhausted : BOOLEAN, leased : BOOLEAN, outOfBand : BOOLEAN]
RowsType == [sub : SubscriptionType, inv : [Invoices -> InvoiceType]]

\* What the acquirer may hold of a payment that was made there.
Held == {"requires_payment_method", "requires_action", "processing", "succeeded",
         "canceled"}

-----------------------------------------------------------------------------
(* The transactions, as functions of the rows.                             *)

\* The invoice's row says that a charge paid it.
ByCard(row) == row.status = "paid" /\ ~row.outOfBand

\* A transaction that moves no link and pays no invoice by a charge.
Like(b, c) ==
  /\ c \in RowsType
  /\ \A i \in Invoices : /\ c.inv[i].link = b.inv[i].link
                         /\ ByCard(c.inv[i]) => ByCard(b.inv[i])

LEMMA LikeAgain ==
  ASSUME NEW b, NEW c, NEW d, Like(b, c), Like(c, d) PROVE Like(b, d)
BY DEF Like

LEMMA LikeItself == ASSUME NEW b \in RowsType PROVE Like(b, b)
BY DEF Like

LEMMA Domains == DOMAIN SubscriptionAllowed = SubscriptionStatuses
BY DEF SubscriptionAllowed, SubscriptionStatuses

\* One invoice's row is written.
With(b, i, n) == [b EXCEPT !.inv[i] = n]

LEMMA InvoiceWritten ==
  ASSUME NEW b \in RowsType, NEW i \in Invoices, NEW n \in InvoiceType
  PROVE  /\ With(b, i, n) \in RowsType
         /\ With(b, i, n).inv[i] = n
         /\ \A j \in Invoices \ {i} : With(b, i, n).inv[j] = b.inv[j]
BY DEF RowsType, With

LEMMA LikeWith ==
  ASSUME NEW b \in RowsType, NEW i \in Invoices, NEW n \in InvoiceType,
         NEW r, r = b.inv[i], n.link = r.link, ByCard(n) => ByCard(r),
         NEW c, c = With(b, i, n)
  PROVE  c \in RowsType /\ Like(b, c) /\ c.inv[i] = n
<1>1. c \in RowsType /\ c.inv[i] = n /\ \A j \in Invoices \ {i} : c.inv[j] = b.inv[j]
  BY InvoiceWritten
<1>2. \A j \in Invoices : /\ c.inv[j].link = b.inv[j].link
                          /\ ByCard(c.inv[j]) => ByCard(b.inv[j])
  BY <1>1
<1> QED BY <1>1, <1>2 DEF Like

LEMMA SubscriptionMoves ==
  ASSUME NEW b \in RowsType, NEW to \in SubscriptionStatuses
  PROVE  LET c == TransitionSubscription(b, to)
         IN c \in RowsType /\ c.inv = b.inv /\ Like(b, c)
<1> PICK c : c = TransitionSubscription(b, to) OBVIOUS
<1>1. CASE c = b BY <1>1, LikeItself
<1>2. CASE c = [b EXCEPT !.sub.status = to]
  <2>1. c \in RowsType /\ c.inv = b.inv BY <1>2 DEF RowsType, SubscriptionType
  <2> QED BY <2>1 DEF Like
<1> QED BY <1>1, <1>2 DEF TransitionSubscription

LEMMA PastDueMoves ==
  ASSUME NEW b \in RowsType, NEW i
  PROVE  MarkSubscriptionPastDue(b, i) \in RowsType /\ Like(b, MarkSubscriptionPastDue(b, i))
         /\ MarkSubscriptionPastDue(b, i).inv = b.inv
<1>1. "past_due" \in SubscriptionStatuses BY DEF SubscriptionStatuses
<1> QED BY <1>1, SubscriptionMoves, LikeItself DEF MarkSubscriptionPastDue

LEMMA FinalActionMoves ==
  ASSUME CollectionBounds, NEW b \in RowsType, NEW i \in Invoices
  PROVE  Like(b, RunFinalDunningAction(b, i))
<1> PICK r \in InvoiceType : r = b.inv[i] BY DEF RowsType
<1> PICK n : n = [r EXCEPT !.exhausted = TRUE, !.due = "none"] OBVIOUS
<1> PICK u : u = [n EXCEPT !.status = "uncollectible"] OBVIOUS
<1>1. n \in InvoiceType /\ n.link = r.link /\ (ByCard(n) => ByCard(r))
  BY DEF InvoiceType, Instants, ByCard
<1>2. u \in InvoiceType /\ u.link = n.link /\ (ByCard(u) => ByCard(n))
  BY <1>1 DEF InvoiceType, InvoiceStatuses, ByCard
<1> PICK spent : spent = With(b, i, n) OBVIOUS
<1>3. Like(b, spent) /\ spent \in RowsType /\ spent.inv[i] = n
  BY ONLY <1>1, LikeWith, b \in RowsType, i \in Invoices, r = b.inv[i],
          spent = With(b, i, n)
<1>4. ASSUME NEW left, left = spent \/ left = With(spent, i, u)
      PROVE  Like(b, left) /\ left \in RowsType
  <2>1. CASE left = spent BY <1>3, <2>1
  <2>2. CASE left = With(spent, i, u)
    <3>1. left \in RowsType /\ Like(spent, left)
      BY ONLY <1>2, <1>3, <2>2, LikeWith, i \in Invoices
    <3> QED BY <1>3, <3>1, LikeAgain
  <2> QED BY <1>4, <2>1, <2>2
<1>5. spent = [b EXCEPT !.inv[i].exhausted = TRUE, !.inv[i].due = "none"]
  BY DEF RowsType, InvoiceType, With
<1>6. With(spent, i, u) = [spent EXCEPT !.inv[i].status = "uncollectible"]
  BY <1>3 DEF RowsType, InvoiceType, With
<1>7. /\ (IF FinalAction = "cancel" THEN "canceled" ELSE FinalAction) \in SubscriptionStatuses
  BY DEF CollectionBounds, SubscriptionStatuses
<1> PICK left : left = IF InvoiceAction = "mark_uncollectible" /\ b.inv[i].status = "open"
                       THEN [spent EXCEPT !.inv[i].status = "uncollectible"] ELSE spent
  OBVIOUS
<1>8. Like(b, left) /\ left \in RowsType BY <1>4, <1>6
<1>9. Like(b, TransitionSubscription(left,
                IF FinalAction = "cancel" THEN "canceled" ELSE FinalAction))
  BY <1>7, <1>8, SubscriptionMoves, LikeAgain
<1> QED BY <1>5, <1>8, <1>9, LikeItself DEF RunFinalDunningAction

LEMMA FailedAttemptMoves ==
  ASSUME CollectionBounds, NEW b \in RowsType, NEW i \in Invoices
  PROVE  Like(b, RecordFailedAttempt(b, i))
<1> DEFINE attempts == b.inv[i].attempts + 1
           dunned == Reason(i) # "subscription_create"
           again == dunned /\ attempts <= Retries
<1> PICK r \in InvoiceType : r = b.inv[i] BY DEF RowsType
<1> PICK n : n = [r EXCEPT !.attempts = attempts, !.due = IF again THEN "later" ELSE "none"]
  OBVIOUS
<1>1. attempts \in Nat BY DEF InvoiceType
<1> HIDE DEF attempts, again
<1>2. n \in InvoiceType /\ n.link = r.link /\ (ByCard(n) => ByCard(r))
  BY <1>1 DEF InvoiceType, Instants, ByCard
<1> PICK tried : tried = [b EXCEPT !.inv[i].attempts = attempts,
                                   !.inv[i].due = IF again THEN "later" ELSE "none"]
  OBVIOUS
<1>3. tried = With(b, i, n) BY DEF RowsType, InvoiceType, With
<1>4. tried \in RowsType /\ Like(b, tried)
  BY ONLY <1>2, <1>3, LikeWith, b \in RowsType, i \in Invoices, r = b.inv[i]
<1> PICK counted : counted = MarkSubscriptionPastDue(tried, i) OBVIOUS
<1>5. counted \in RowsType /\ Like(b, counted) BY <1>4, PastDueMoves, LikeAgain
<1>6. Like(b, RunFinalDunningAction(counted, i)) BY <1>5, FinalActionMoves, LikeAgain
<1>7. RecordFailedAttempt(b, i) =
        IF dunned /\ ~again THEN RunFinalDunningAction(counted, i) ELSE counted
  BY DEF RecordFailedAttempt, attempts, again
<1> QED BY <1>5, <1>6, <1>7

\* The invoice is paid, and it and the others keep their links.
LEMMA PaidMoves ==
  ASSUME NEW b \in RowsType, NEW i \in Invoices, NEW byCard \in BOOLEAN,
         NEW c, c = MarkInvoicePaid(b, i, byCard)
  PROVE  /\ c \in RowsType
         /\ c.inv[i].link = b.inv[i].link /\ (ByCard(c.inv[i]) => byCard)
         /\ \A j \in Invoices \ {i} : c.inv[j] = b.inv[j]
<1> PICK r \in InvoiceType : r = b.inv[i] BY DEF RowsType
<1> PICK more \in {0, 1} : more = IF byCard THEN 1 ELSE 0 OBVIOUS
<1> PICK n : n = PaidRow(r, byCard) OBVIOUS
<1>1. r.attempts + more \in Nat BY DEF InvoiceType
<1>2. n \in InvoiceType /\ n.link = r.link /\ (ByCard(n) => byCard)
  BY <1>1 DEF InvoiceType, InvoiceStatuses, Instants, ByCard, PaidRow
<1> PICK paid : paid = With(b, i, n) OBVIOUS
<1>4. /\ paid \in RowsType /\ paid.inv[i] = n
      /\ \A j \in Invoices \ {i} : paid.inv[j] = b.inv[j]
  BY ONLY <1>2, InvoiceWritten, b \in RowsType, i \in Invoices, paid = With(b, i, n)
<1>5. c = ActivateOnPayment(paid, i) BY DEF MarkInvoicePaid, With
<1>6. c = paid \/ c = TransitionSubscription(paid, "active")
  BY <1>5 DEF ActivateOnPayment
<1>7. c \in RowsType /\ c.inv = paid.inv
  <2>1. "active" \in SubscriptionStatuses BY DEF SubscriptionStatuses
  <2> QED BY ONLY <1>4, <1>6, <2>1, SubscriptionMoves
<1>8. c.inv[i] = n /\ \A j \in Invoices \ {i} : c.inv[j] = b.inv[j] BY <1>4, <1>7
<1> QED BY ONLY <1>2, <1>7, <1>8, r = b.inv[i]

LEMMA VoidMoves ==
  ASSUME NEW b \in RowsType, NEW i \in Invoices PROVE Like(b, VoidInvoiceIn(b, i))
<1> PICK r \in InvoiceType : r = b.inv[i] BY DEF RowsType
<1> PICK n : n = [r EXCEPT !.status = "void", !.due = "none"] OBVIOUS
<1>1. n \in InvoiceType /\ n.link = r.link /\ (ByCard(n) => ByCard(r))
  BY DEF InvoiceType, InvoiceStatuses, Instants, ByCard
<1>2. VoidInvoiceIn(b, i) = With(b, i, n)
  BY DEF VoidInvoiceIn, RowsType, InvoiceType, With
<1> QED
  BY ONLY <1>1, <1>2, LikeWith, b \in RowsType, i \in Invoices, r = b.inv[i]

\* The hook moves no link except that of a payment that was called off, and pays
\* an invoice only when its payment succeeded.
HookMoves(b, c, k, to) ==
  /\ c \in RowsType
  /\ \A i \in Invoices :
       /\ \/ c.inv[i].link = b.inv[i].link
          \/ /\ to = "canceled" /\ b.inv[i].link = k /\ c.inv[i].link = 0
             /\ ~ByCard(c.inv[i])
       /\ ByCard(c.inv[i]) =>
            ByCard(b.inv[i]) \/ (to = "succeeded" /\ b.inv[i].link = k)

LEMMA HookStep ==
  ASSUME CollectionBounds, NEW b \in RowsType, NEW k \in Payments, NEW from, NEW to
  PROVE  HookMoves(b, OnPaymentTransition(b, k, from, to), k, to)
<1> PICK c : c = OnPaymentTransition(b, k, from, to) OBVIOUS
<1> PICK i : i = CHOOSE j \in Invoices : b.inv[j].link = k OBVIOUS
<1>1. CASE Like(b, c) BY <1>1 DEF HookMoves, Like
<1>2. CASE \A j \in Invoices : b.inv[j].link # k
  <2>1. c = b BY ZenonT(60), <1>2 DEF OnPaymentTransition
  <2> QED BY ZenonT(60), <1>1, <2>1, LikeItself
<1>3. CASE \E j \in Invoices : b.inv[j].link = k
  <2>1. i \in Invoices /\ b.inv[i].link = k BY <1>3
  <2> PICK r \in InvoiceType : r = b.inv[i] BY <2>1 DEF RowsType
  <2>2. CASE to = "succeeded" /\ c = MarkInvoicePaid(b, i, TRUE)
    <3> PICK yes \in BOOLEAN : yes = TRUE OBVIOUS
    <3>1. c = MarkInvoicePaid(b, i, yes) BY <2>2
    <3>2. /\ c \in RowsType /\ c.inv[i].link = b.inv[i].link
          /\ ByCard(c.inv[i]) => yes
          /\ \A j \in Invoices \ {i} : c.inv[j] = b.inv[j]
      BY ONLY <2>1, <3>1, PaidMoves, b \in RowsType, yes \in BOOLEAN
    <3> QED BY <2>1, <2>2, <3>2 DEF HookMoves
  <2>3. CASE c = RecordFailedAttempt(b, i) BY <1>1, <2>1, <2>3, FailedAttemptMoves
  <2>4. CASE c = MarkSubscriptionPastDue(
               [b EXCEPT !.inv[i].attempts = @ + 1, !.inv[i].due = "none"], i)
    <3> PICK n : n = [r EXCEPT !.attempts = @ + 1, !.due = "none"] BY ZenonT(60)
    <3>1. r.attempts + 1 \in Nat BY SMTT(60) DEF InvoiceType
    <3>4. n \in InvoiceType /\ n.link = r.link /\ (ByCard(n) => ByCard(r))
      BY ZenonT(60), <3>1 DEF InvoiceType, Instants, ByCard
    <3> PICK d : d = [b EXCEPT !.inv[i].attempts = @ + 1, !.inv[i].due = "none"] BY Zenon
    <3>2. d = With(b, i, n) BY ZenonT(60), <2>1 DEF RowsType, InvoiceType, With
    <3>3. d \in RowsType /\ Like(b, d)
      BY ONLY <2>1, <3>4, <3>2, LikeWith, b \in RowsType, r = b.inv[i]
    <3> QED BY ZenonT(60), <1>1, <2>4, <3>3, PastDueMoves, LikeAgain
  <2>5. CASE /\ to = "canceled" /\ b.inv[i].status = "open"
             /\ c = [b EXCEPT !.inv[i].link = 0]
    <3> PICK n : n = [r EXCEPT !.link = 0] OBVIOUS
    <3>1. n \in InvoiceType /\ n.link = 0 /\ ~ByCard(n)
      <4>1. 0 \in 0..MaxPayments BY DEF CollectionBounds
      <4> QED BY <2>5, <4>1 DEF InvoiceType, ByCard
    <3>2. c = With(b, i, n) BY <2>5 DEF RowsType, InvoiceType, With
    <3>3. /\ c \in RowsType /\ c.inv[i] = n
          /\ \A j \in Invoices \ {i} : c.inv[j] = b.inv[j]
      BY ONLY <2>1, <3>1, <3>2, InvoiceWritten, b \in RowsType
    <3> QED BY <2>1, <2>5, <3>1, <3>3 DEF HookMoves
  <2>6. CASE c = b BY <1>1, <2>6, LikeItself
  <2> QED BY Zenon, <1>3, <2>2, <2>3, <2>4, <2>5, <2>6 DEF OnPaymentTransition
<1> QED BY <1>2, <1>3

-----------------------------------------------------------------------------
(* The invariant: what each row, event, answer and attempt says, of the    *)
(* payment rows p and the acquirer's payments a.                           *)

Pcs == {"idle", "step", "attempt", "intent", "link", "prepare", "confirm", "apply",
        "settle", "defer"}
JobType == [pc : Pcs, inv : Invoices, auto : BOOLEAN, attempts : Nat,
            link : 0..MaxPayments, pay : 0..MaxPayments, seen : Statuses,
            answer : Statuses]
PaymentsType == [Payments -> [status : Statuses \cup {"none"}, inv : Invoices,
                              shown : BOOLEAN]]
AcquirerType == [Payments -> [status : Held \cup {"none"}, tries : Nat]]

\* A payment nobody was shown is not charged, and an end is the acquirer's.
PaymentIsTrue(k, p, a) ==
  /\ p[k].status = "none" => ~p[k].shown /\ a[k].status = "none"
  /\ a[k].status \in {"succeeded", "processing", "requires_action"} => p[k].shown
  /\ p[k].status = "canceled" => a[k].status = "canceled"
  /\ p[k].status = "succeeded" => a[k].status = "succeeded"

EventIsTrue(e, a) ==
  /\ e.pay \in Payments /\ e.kind \in CardEvents /\ a[e.pay].status \in Held
  /\ e.kind = "card_canceled" => a[e.pay].status = "canceled"
  /\ e.kind = "card_succeeded" => a[e.pay].status = "succeeded"

AnswerIsTrue(x, a) ==
  /\ x.pay \in Payments /\ x.answer \in Outcomes
  /\ x.answer = "succeeded" => a[x.pay].status = "succeeded"

\* An attempt charges a payment that is linked, and links over nothing or over
\* a payment that was called off.
AttemptIsTrue(j, p, a) ==
  /\ j \in JobType
  /\ j.link # 0 => p[j.link].shown
  /\ j.pc \in {"link", "prepare", "confirm", "apply"} => j.pay \in Payments
  /\ j.pc = "link" =>
       /\ p[j.pay].status # "none" /\ p[j.pay].inv = j.inv /\ ~p[j.pay].shown
       /\ j.link = 0 \/ a[j.link].status = "canceled"
  /\ j.pc \in {"prepare", "confirm"} => p[j.pay].shown
  /\ j.pc = "apply" =>
       /\ j.answer \in Outcomes
       /\ j.answer = "succeeded" => a[j.pay].status = "succeeded"

\* Whoever may still complete a payment holds the one its invoice links.
LinkHolds(i, p, a, inv) ==
  /\ \A k \in Payments :
       p[k].inv = i /\ p[k].shown /\ a[k].status # "canceled" => inv[i].link = k
  /\ inv[i].link # 0 => p[inv[i].link].shown
  /\ ByCard(inv[i]) => inv[i].link \in Payments /\ a[inv[i].link].status = "succeeded"

Types ==
  /\ Rows \in RowsType
  /\ payment \in PaymentsType
  /\ acquirer \in AcquirerType
  /\ job \in [Workers -> JobType]

Inv ==
  /\ Types
  /\ \A k \in Payments : PaymentIsTrue(k, payment, acquirer)
  /\ \A e \in events : EventIsTrue(e, acquirer)
  /\ \A x \in answers : AnswerIsTrue(x, acquirer)
  /\ \A w \in Workers : AttemptIsTrue(job[w], payment, acquirer)
  /\ \A i \in Invoices : LinkHolds(i, payment, acquirer, invoice)
  /\ \A w, v \in Workers : /\ w # v /\ job[w].pc = "link" /\ job[v].pc = "link"
                           => job[w].pay # job[v].pay

-----------------------------------------------------------------------------
(* What no step takes back.                                                *)

\* A payment that was shown, made, taken or called off is so for good; s is
\* the one shown by this step, or 0.
Onward(p, a, p2, a2, s) ==
  \A k \in Payments :
    /\ p[k].shown => p2[k].shown
    /\ k # s /\ p2[k].shown => p[k].shown
    /\ p[k].status # "none" => p2[k].status # "none" /\ p2[k].inv = p[k].inv
    /\ a[k].status \in Held => a2[k].status \in Held
    /\ a[k].status = "canceled" => a2[k].status = "canceled"
    /\ a[k].status = "succeeded" => a2[k].status = "succeeded"

LEMMA EventFollows ==
  ASSUME NEW p, NEW a, NEW p2, NEW a2, NEW s, Onward(p, a, p2, a2, s), NEW e,
         EventIsTrue(e, a)
  PROVE  EventIsTrue(e, a2)
BY DEF Onward, EventIsTrue

LEMMA AnswerFollows ==
  ASSUME NEW p, NEW a, NEW p2, NEW a2, NEW s, Onward(p, a, p2, a2, s), NEW x,
         AnswerIsTrue(x, a)
  PROVE  AnswerIsTrue(x, a2)
BY DEF Onward, AnswerIsTrue

LEMMA AttemptFollows ==
  ASSUME CollectionBounds, NEW p, NEW a, NEW p2, NEW a2, NEW s,
         Onward(p, a, p2, a2, s), NEW j, AttemptIsTrue(j, p, a),
         j.pc = "link" => j.pay # s
  PROVE  AttemptIsTrue(j, p2, a2)
<1>1. j.link # 0 => j.link \in Payments
  BY DEF AttemptIsTrue, JobType, Payments, CollectionBounds
<1> QED BY <1>1 DEF Onward, AttemptIsTrue

\* The links hold while they are kept and no payment is shown.
LEMMA LinkFollows ==
  ASSUME CollectionBounds, NEW p, NEW a, NEW p2, NEW a2, Onward(p, a, p2, a2, 0),
         \A k \in Payments : PaymentIsTrue(k, p, a),
         NEW i \in Invoices, NEW inv, NEW inv2, LinkHolds(i, p, a, inv),
         inv[i].link \in 0..MaxPayments, inv2[i].link = inv[i].link,
         ByCard(inv2[i]) => ByCard(inv[i])
  PROVE  LinkHolds(i, p2, a2, inv2)
<1>1. inv[i].link # 0 => inv[i].link \in Payments BY DEF Payments, CollectionBounds
<1>2. \A k \in Payments : p2[k].inv = i /\ p2[k].shown /\ a2[k].status # "canceled"
                          => p[k].inv = i /\ p[k].shown /\ a[k].status # "canceled"
  BY DEF Onward, PaymentIsTrue, Payments
<1> QED BY <1>1, <1>2 DEF Onward, LinkHolds

\* A step of worker w, whose attempt is then n; s is the payment it shows.
LEMMA StepFollows ==
  ASSUME CollectionBounds, Inv, Types', NEW w \in Workers, NEW n, NEW s,
         Onward(payment, acquirer, payment', acquirer', s),
         job' = [job EXCEPT ![w] = n], AttemptIsTrue(n, payment', acquirer'),
         \A v \in Workers \ {w} : job[v].pc = "link" =>
            job[v].pay # s /\ (n.pc = "link" => job[v].pay # n.pay),
         \A k \in Payments : PaymentIsTrue(k, payment', acquirer'),
         \A e \in events' \ events : EventIsTrue(e, acquirer'),
         \A x \in answers' \ answers : AnswerIsTrue(x, acquirer'),
         \A i \in Invoices : LinkHolds(i, payment', acquirer', invoice')
  PROVE  Inv'
<1>1. \A e \in events' : EventIsTrue(e, acquirer')
  BY EventFollows DEF Inv
<1>2. \A x \in answers' : AnswerIsTrue(x, acquirer')
  BY AnswerFollows DEF Inv
<1>3. /\ job'[w] = n
      /\ \A v \in Workers \ {w} : job'[v] = job[v]
  BY DEF Inv, Types
<1>4. \A v \in Workers \ {w} : AttemptIsTrue(job[v], payment', acquirer')
  BY AttemptFollows DEF Inv
<1>5. \A v \in Workers : AttemptIsTrue(job'[v], payment', acquirer')
  BY <1>3, <1>4
<1>6. \A u, v \in Workers : /\ u # v /\ job'[u].pc = "link" /\ job'[v].pc = "link"
                            => job'[u].pay # job'[v].pay
  BY <1>3 DEF Inv
<1> QED BY <1>1, <1>2, <1>5, <1>6 DEF Inv

\* A step of anybody else.
LEMMA WorldFollows ==
  ASSUME CollectionBounds, Inv, Types', UNCHANGED <<job, answers>>,
         Onward(payment, acquirer, payment', acquirer', 0),
         \A k \in Payments : PaymentIsTrue(k, payment', acquirer'),
         \A e \in events' \ events : EventIsTrue(e, acquirer'),
         \A i \in Invoices : LinkHolds(i, payment', acquirer', invoice')
  PROVE  Inv'
<1>1. \A e \in events' : EventIsTrue(e, acquirer')
  BY EventFollows DEF Inv
<1>2. \A x \in answers : AnswerIsTrue(x, acquirer')
  BY AnswerFollows DEF Inv
<1>3. ASSUME NEW v \in Workers PROVE AttemptIsTrue(job[v], payment', acquirer')
  <2>1. /\ AttemptIsTrue(job[v], payment, acquirer)
        /\ job[v].pc = "link" => job[v].pay # 0
    BY DEF Inv, AttemptIsTrue, Payments
  <2> QED BY <2>1, AttemptFollows
<1> QED BY <1>1, <1>2, <1>3 DEF Inv

-----------------------------------------------------------------------------
(* Steps that touch neither the payments nor the acquirer.                 *)

LEMMA OnwardItself == ASSUME NEW p, NEW a PROVE Onward(p, a, p, a, 0)
BY DEF Onward

LEMMA LinksKept ==
  ASSUME CollectionBounds, Inv, Like(Rows, Rows'),
         Onward(payment, acquirer, payment', acquirer', 0)
  PROVE  \A i \in Invoices : LinkHolds(i, payment', acquirer', invoice')
<1> SUFFICES ASSUME NEW i \in Invoices
             PROVE  LinkHolds(i, payment', acquirer', invoice')
  OBVIOUS
<1>1. /\ invoice[i].link \in 0..MaxPayments /\ invoice'[i].link = invoice[i].link
      /\ ByCard(invoice'[i]) => ByCard(invoice[i])
  BY DEF Like, Rows, Inv, Types, RowsType, InvoiceType
<1> QED BY <1>1, LinkFollows DEF Inv

\* A worker's step over the invoice alone.
LEMMA QuietStep ==
  ASSUME CollectionBounds, Inv, NEW w \in Workers, NEW n,
         UNCHANGED <<payment, acquirer, answers, events>>,
         job' = [job EXCEPT ![w] = n], AttemptIsTrue(n, payment, acquirer),
         n.pc # "link", Like(Rows, Rows')
  PROVE  Inv'
<1>1. Types'
  BY DEF Inv, Types, Like, AttemptIsTrue
<1>2. Onward(payment, acquirer, payment', acquirer', 0) BY OnwardItself
<1>3. \A i \in Invoices : LinkHolds(i, payment', acquirer', invoice')
  BY <1>2, LinksKept
<1>4. \A v \in Workers \ {w} : job[v].pc = "link" => job[v].pay # 0
  BY DEF Inv, AttemptIsTrue, Payments
<1>5. \A k \in Payments : PaymentIsTrue(k, payment', acquirer')
  BY DEF Inv
<1>6. /\ \A v \in Workers \ {w} : job[v].pc = "link" =>
            job[v].pay # 0 /\ (n.pc = "link" => job[v].pay # n.pay)
      /\ \A e \in events' \ events : EventIsTrue(e, acquirer')
      /\ \A x \in answers' \ answers : AnswerIsTrue(x, acquirer')
      /\ AttemptIsTrue(n, payment', acquirer')
  BY <1>4
<1> QED BY ONLY CollectionBounds, Inv, w \in Workers, job' = [job EXCEPT ![w] = n],
                <1>1, <1>2, <1>3, <1>5, <1>6, StepFollows

LEMMA QuietWorld ==
  ASSUME CollectionBounds, Inv,
         UNCHANGED <<payment, acquirer, answers, events, job>>, Like(Rows, Rows')
  PROVE  Inv'
<1>1. Types' BY DEF Inv, Types, Like
<1>2. Onward(payment, acquirer, payment', acquirer', 0) BY OnwardItself
<1>3. \A i \in Invoices : LinkHolds(i, payment', acquirer', invoice')
  BY <1>2, LinksKept
<1>4. \A k \in Payments : PaymentIsTrue(k, payment', acquirer')
  BY DEF Inv
<1> QED BY <1>1, <1>2, <1>3, <1>4, WorldFollows

\* The invoice's row is written, and keeps its link.
LEMMA LikeRow ==
  ASSUME Inv, NEW i \in Invoices, NEW n \in InvoiceType,
         n.link = invoice[i].link, ByCard(n) => ByCard(invoice[i]),
         UNCHANGED subscription, invoice' = [invoice EXCEPT ![i] = n]
  PROVE  Like(Rows, Rows')
<1>1. Rows \in RowsType /\ Rows.inv[i] = invoice[i] BY DEF Inv, Types, Rows
<1>2. Rows' = With(Rows, i, n) BY DEF Rows, With
<1> QED
  BY ONLY <1>1, <1>2, LikeWith, i \in Invoices, n \in InvoiceType,
     n.link = invoice[i].link, ByCard(n) => ByCard(invoice[i])

LEMMA IdleIsTrue ==
  ASSUME CollectionBounds, NEW p, NEW a PROVE AttemptIsTrue(Idle, p, a)
<1>1. Idle \in JobType
  BY DEF Idle, JobType, Pcs, Invoices, Statuses, CollectionBounds
<1> QED BY <1>1 DEF Idle, AttemptIsTrue

LEMMA JobTyped ==
  ASSUME Inv, NEW w \in Workers
  PROVE  /\ job[w] \in JobType /\ AttemptIsTrue(job[w], payment, acquirer)
         /\ job[w].inv \in Invoices /\ invoice[job[w].inv] \in InvoiceType
BY DEF Inv, Types, Rows, RowsType, JobType

\* The row as a step ends with it: the lease may be given back.
Ended(row, auto) == [row EXCEPT !.leased = row.leased /\ ~auto]

LEMMA EndedRow ==
  ASSUME NEW row \in InvoiceType, NEW auto
  PROVE  /\ Ended(row, auto) \in InvoiceType /\ Ended(row, auto).link = row.link
         /\ ByCard(Ended(row, auto)) => ByCard(row)
<1> PICK b \in BOOLEAN : b = (row.leased /\ ~auto) OBVIOUS
<1> PICK n : n = [row EXCEPT !.leased = b] OBVIOUS
<1>1. n \in InvoiceType /\ n.link = row.link /\ (ByCard(n) => ByCard(row))
  BY DEF InvoiceType, ByCard
<1>2. n = Ended(row, auto) BY DEF Ended
<1> QED BY <1>1, <1>2

LEMMA FinishLike ==
  ASSUME Inv, NEW w \in Workers, NEW row \in InvoiceType,
         row.link = invoice[job[w].inv].link,
         ByCard(row) => ByCard(invoice[job[w].inv]),
         Finish(w, row), UNCHANGED subscription
  PROVE  Like(Rows, Rows')
<1> PICK i \in Invoices : i = job[w].inv BY JobTyped
<1> PICK n : n = Ended(row, job[w].auto) OBVIOUS
<1>1. n \in InvoiceType /\ n.link = row.link /\ (ByCard(n) => ByCard(row))
  BY EndedRow
<1>2. invoice' = [invoice EXCEPT ![i] = n] BY DEF Finish, Ended
<1>3. n.link = invoice[i].link /\ (ByCard(n) => ByCard(invoice[i])) BY <1>1
<1> QED
  BY ONLY <1>1, <1>2, <1>3, LikeRow, Inv, i \in Invoices, UNCHANGED subscription

LEMMA FinishStep ==
  ASSUME CollectionBounds, Inv, NEW w \in Workers, NEW row \in InvoiceType,
         row.link = invoice[job[w].inv].link,
         ByCard(row) => ByCard(invoice[job[w].inv]), Finish(w, row),
         UNCHANGED <<subscription, payment, acquirer, answers, events>>
  PROVE  Inv'
<1>1. Like(Rows, Rows') BY FinishLike
<1>2. job' = [job EXCEPT ![w] = Idle] BY DEF Finish
<1>3. Idle.pc # "link" BY DEF Idle
<1> QED BY <1>1, <1>2, <1>3, QuietStep, IdleIsTrue

\* The row of an invoice is read, and its instant written.
LEMMA RowMoves ==
  ASSUME NEW r \in InvoiceType, NEW to \in Instants
  PROVE  LET n == [r EXCEPT !.due = to]
         IN n \in InvoiceType /\ n.link = r.link /\ (ByCard(n) => ByCard(r))
BY DEF InvoiceType, ByCard

\* The attempt goes on to a step that relies on nothing more.
LEMMA GotoStep ==
  ASSUME CollectionBounds, Inv, NEW w \in Workers,
         NEW pc \in {"attempt", "settle", "defer", "confirm"},
         pc = "confirm" => job[w].pc = "prepare", Goto(w, pc),
         UNCHANGED <<subscription, payment, acquirer, answers, events>>
  PROVE  Inv'
<1> PICK j \in JobType : j = job[w] BY JobTyped
<1> PICK n : n = [j EXCEPT !.pc = pc] OBVIOUS
<1>1. AttemptIsTrue(j, payment, acquirer) BY JobTyped
<1>2. n \in JobType /\ n.pc = pc /\ n.link = j.link /\ n.pay = j.pay
  BY DEF JobType, Pcs
<1>3. AttemptIsTrue(n, payment, acquirer) BY <1>1, <1>2 DEF AttemptIsTrue
<1>4. job' = [job EXCEPT ![w] = n] BY DEF Goto
<1>5. Rows' = Rows /\ Rows \in RowsType BY DEF Goto, Rows, Inv, Types
<1> QED BY <1>2, <1>3, <1>4, <1>5, QuietStep, LikeItself

LEMMA StepMoves ==
  ASSUME CollectionBounds, Inv, NEW w \in Workers, RunInvoiceStep(w) PROVE Inv'
<1> PICK r \in InvoiceType : r = invoice[job[w].inv] BY JobTyped
<1>1. CASE Finish(w, r) BY <1>1, FinishStep DEF RunInvoiceStep
<1>2. CASE r.status = "draft" /\ Finish(w, [r EXCEPT !.status = "open"])
  <2> PICK n : n = [r EXCEPT !.status = "open"] OBVIOUS
  <2>1. n \in InvoiceType /\ n.link = r.link /\ (ByCard(n) => ByCard(r))
    BY DEF InvoiceType, InvoiceStatuses, ByCard
  <2> QED BY <1>2, <2>1, FinishStep DEF RunInvoiceStep
<1>3. CASE Goto(w, "attempt") BY <1>3, GotoStep DEF RunInvoiceStep
<1>4. CASE Finish(w, [r EXCEPT !.due = "none"])
  <2> PICK n : n = [r EXCEPT !.due = "none"] OBVIOUS
  <2>1. n \in InvoiceType /\ n.link = r.link /\ (ByCard(n) => ByCard(r))
    BY RowMoves DEF Instants
  <2> QED BY <1>4, <2>1, FinishStep DEF RunInvoiceStep
<1> QED BY <1>1, <1>2, <1>3, <1>4 DEF RunInvoiceStep

LEMMA AttemptMoves ==
  ASSUME CollectionBounds, Inv, NEW w \in Workers, AttemptInvoicePayment(w) PROVE Inv'
<1> PICK r \in InvoiceType : r = invoice[job[w].inv] BY JobTyped
<1> PICK j \in JobType : j = job[w] BY JobTyped
<1> PICK n : n = [j EXCEPT !.pc = "intent", !.link = r.link, !.attempts = r.attempts]
  OBVIOUS
<1>1. CASE Finish(w, r) BY <1>1, FinishStep DEF AttemptInvoicePayment
<1>2. CASE UNCHANGED invoice /\ job' = [job EXCEPT ![w] = n]
  <2>1. n \in JobType /\ n.pc = "intent" /\ n.link = r.link
    BY DEF JobType, Pcs, InvoiceType
  <2>2. r.link # 0 => payment[r.link].shown BY JobTyped DEF Inv, LinkHolds
  <2>3. AttemptIsTrue(n, payment, acquirer) BY <2>1, <2>2 DEF AttemptIsTrue
  <2>4. /\ Rows' = Rows /\ Rows \in RowsType
        /\ UNCHANGED <<payment, acquirer, answers, events>>
    BY ZenonT(60), <1>2 DEF AttemptInvoicePayment, Rows, Inv, Types
  <2> QED BY <1>2, <2>1, <2>3, <2>4, QuietStep, LikeItself
<1> QED BY <1>1, <1>2 DEF AttemptInvoicePayment

LEMMA MissingMethodMoves ==
  ASSUME CollectionBounds, Inv, NEW w \in Workers, RecordMissingPaymentMethod(w)
  PROVE  Inv'
<1> PICK i \in Invoices : i = job[w].inv BY JobTyped
<1>0. Rows \in RowsType /\ Rows.inv = invoice BY DEF Inv, Types, Rows
<1> PICK c : /\ c = IF job[w].auto /\ invoice[i].status = "open"
                    THEN RecordFailedAttempt(Rows, i) ELSE Rows
             /\ subscription' = c.sub /\ Finish(w, c.inv[i])
  BY DEF RecordMissingPaymentMethod
<1>1. Like(Rows, c) BY <1>0, FailedAttemptMoves, LikeItself
<1>2. /\ c \in RowsType /\ c.inv[i].link = invoice[i].link
      /\ ByCard(c.inv[i]) => ByCard(invoice[i])
  BY <1>0, <1>1 DEF Like
<1> PICK row \in InvoiceType : row = c.inv[i] BY <1>2 DEF RowsType
<1> PICK n : n = Ended(row, job[w].auto) BY ZenonT(60)
<1>3. n \in InvoiceType /\ n.link = row.link /\ (ByCard(n) => ByCard(row))
  BY ZenonT(60), EndedRow
<1>4. invoice' = [invoice EXCEPT ![i] = n] /\ job' = [job EXCEPT ![w] = Idle]
  BY ZenonT(60) DEF Finish, Ended
<1>5. /\ Rows' \in RowsType /\ Rows'.inv[i] = n
      /\ \A j \in Invoices \ {i} : Rows'.inv[j] = Rows.inv[j]
  BY ZenonT(60), <1>0, <1>2, <1>3, <1>4 DEF Rows, RowsType
<1>6. Like(Rows, Rows') BY ZenonT(60), <1>0, <1>2, <1>3, <1>5 DEF Like
<1>7. UNCHANGED <<payment, acquirer, answers, events>> /\ Idle.pc # "link"
  BY DEF RecordMissingPaymentMethod, Idle
<1> QED BY <1>4, <1>6, <1>7, QuietStep, IdleIsTrue

LEMMA PrepareMoves ==
  ASSUME CollectionBounds, Inv, NEW w \in Workers, Prepare(w) PROVE Inv'
BY GotoStep DEF Prepare

LEMMA SettleMoves ==
  ASSUME CollectionBounds, Inv, NEW w \in Workers, SettleAttemptSchedule(w) PROVE Inv'
<1> PICK r \in InvoiceType : r = invoice[job[w].inv] BY JobTyped
<1> PICK n : n = IF r.status = "open" /\ r.due = "now" THEN [r EXCEPT !.due = "none"]
                 ELSE r
  OBVIOUS
<1>1. n \in InvoiceType /\ n.link = r.link /\ (ByCard(n) => ByCard(r))
  BY RowMoves DEF Instants
<1> QED BY <1>1, FinishStep DEF SettleAttemptSchedule

LEMMA DeferMoves ==
  ASSUME CollectionBounds, Inv, NEW w \in Workers, DeferAttempt(w) PROVE Inv'
<1> PICK r \in InvoiceType : r = invoice[job[w].inv] BY JobTyped
<1> PICK n : n = [r EXCEPT !.due = "later"] OBVIOUS
<1>1. n \in InvoiceType /\ n.link = r.link /\ (ByCard(n) => ByCard(r))
  BY RowMoves DEF Instants
<1> QED BY <1>1, FinishStep DEF DeferAttempt

LEMMA CrashMoves ==
  ASSUME CollectionBounds, Inv, NEW w \in Workers, Crash(w) PROVE Inv'
<1>1. Rows' = Rows /\ Rows \in RowsType BY DEF Crash, billing, Rows, Inv, Types
<1>2. /\ UNCHANGED <<payment, acquirer, answers, events>> /\ Idle.pc # "link"
      /\ job' = [job EXCEPT ![w] = Idle]
  BY DEF Crash, Idle
<1> QED BY <1>1, <1>2, QuietStep, IdleIsTrue, LikeItself

LEMMA OutageMoves ==
  ASSUME CollectionBounds, Inv, NEW w \in Workers, Outage(w) PROVE Inv'
BY GotoStep DEF Outage

\* An attempt begins, of the scheduler or of a request.
Begun(pc, i, auto) == [Idle EXCEPT !.pc = pc, !.inv = i, !.auto = auto]

LEMMA BegunIsTrue ==
  ASSUME CollectionBounds, NEW p, NEW a, NEW i \in Invoices,
         NEW pc \in {"step", "attempt", "settle"}, NEW auto \in BOOLEAN
  PROVE  AttemptIsTrue(Begun(pc, i, auto), p, a) /\ Begun(pc, i, auto).pc = pc
<1> PICK n : n = Begun(pc, i, auto) OBVIOUS
<1>1. Idle \in JobType BY IdleIsTrue DEF AttemptIsTrue
<1>2. n \in JobType /\ n.pc = pc /\ n.link = 0
  BY <1>1 DEF JobType, Pcs, Begun, Idle
<1> QED BY <1>2 DEF AttemptIsTrue

LEMMA ClaimMoves ==
  ASSUME CollectionBounds, Inv, NEW w \in Workers, NEW i \in Invoices,
         ClaimDueInvoice(w, i)
  PROVE  Inv'
<1> PICK r \in InvoiceType : r = invoice[i] BY DEF Inv, Types, Rows, RowsType
<1> PICK n : n = [r EXCEPT !.leased = TRUE] OBVIOUS
<1>1. n \in InvoiceType /\ n.link = r.link /\ (ByCard(n) => ByCard(r))
  BY DEF InvoiceType, ByCard
<1>2. /\ invoice' = [invoice EXCEPT ![i] = n] /\ UNCHANGED subscription
      /\ UNCHANGED <<payment, acquirer, answers, events>>
  BY DEF ClaimDueInvoice
<1>3. Like(Rows, Rows')
  BY ONLY <1>1, <1>2, LikeRow, Inv, i \in Invoices, r = invoice[i]
<1>4. job' = [job EXCEPT ![w] = Begun("step", i, TRUE)]
  BY DEF ClaimDueInvoice, Begun
<1> QED BY <1>2, <1>3, <1>4, BegunIsTrue, QuietStep

LEMMA PayInvoiceMoves ==
  ASSUME CollectionBounds, Inv, NEW w \in Workers, NEW i \in Invoices, PayInvoice(w, i)
  PROVE  Inv'
<1> PICK n : n = [Idle EXCEPT !.pc = "attempt", !.inv = i] OBVIOUS
<1>1. Idle \in JobType BY IdleIsTrue DEF AttemptIsTrue
<1>2. n \in JobType /\ n.pc = "attempt" /\ n.link = 0
  BY <1>1 DEF JobType, Pcs, Idle
<1>3. AttemptIsTrue(n, payment, acquirer) BY <1>2 DEF AttemptIsTrue
<1>4. /\ Rows' = Rows /\ Rows \in RowsType /\ job' = [job EXCEPT ![w] = n]
      /\ UNCHANGED <<payment, acquirer, answers, events>>
  BY DEF PayInvoice, billing, Rows, Inv, Types
<1> QED BY <1>2, <1>3, <1>4, QuietStep, LikeItself

LEMMA TimeMoves ==
  ASSUME CollectionBounds, Inv, NEW i \in Invoices,
         LeaseLapses(i) \/ FallsDue(i) \/ MarkInvoiceUncollectible(i) \/ FinalizeInvoice(i)
  PROVE  Inv'
<1> PICK r \in InvoiceType : r = invoice[i] BY DEF Inv, Types, Rows, RowsType
<1>0. \/ invoice' = [invoice EXCEPT ![i] = [r EXCEPT !.leased = FALSE]]
      \/ invoice' = [invoice EXCEPT ![i] = [r EXCEPT !.due = "now"]]
      \/ invoice' = [invoice EXCEPT ![i] = [r EXCEPT !.status = "uncollectible",
                                                    !.due = "none"]]
      \/ \E due \in {"none", "now"} :
           invoice' = [invoice EXCEPT ![i] = [r EXCEPT !.status = "open", !.due = due]]
  <2>1. CASE LeaseLapses(i) BY <2>1 DEF LeaseLapses
  <2>2. CASE FallsDue(i) BY <2>2 DEF FallsDue
  <2>3. CASE MarkInvoiceUncollectible(i) BY <2>3 DEF MarkInvoiceUncollectible
  <2>4. CASE FinalizeInvoice(i)
    <3> PICK due \in {"none", "now"} : due = IF r.due = "none" THEN "none" ELSE "now"
      OBVIOUS
    <3>1. invoice' = [invoice EXCEPT ![i] = [r EXCEPT !.status = "open", !.due = due]]
      BY <2>4 DEF FinalizeInvoice, InvoiceType
    <3> QED BY <3>1
  <2> QED BY <2>1, <2>2, <2>3, <2>4
<1> PICK n : /\ \/ n = [r EXCEPT !.leased = FALSE]
                \/ n = [r EXCEPT !.due = "now"]
                \/ n = [r EXCEPT !.status = "uncollectible", !.due = "none"]
                \/ \E due \in {"none", "now"} : n = [r EXCEPT !.status = "open", !.due = due]
             /\ invoice' = [invoice EXCEPT ![i] = n]
  BY ONLY <1>0
<1>1. n \in InvoiceType /\ n.link = r.link /\ (ByCard(n) => ByCard(r))
  BY DEF InvoiceType, ByCard, Instants, InvoiceStatuses
<1>2. UNCHANGED <<subscription, payment, acquirer, answers, events, job>>
  BY DEF LeaseLapses, FallsDue, MarkInvoiceUncollectible, FinalizeInvoice
<1>3. Like(Rows, Rows')
  <2>1. invoice' = [invoice EXCEPT ![i] = n] /\ UNCHANGED subscription BY <1>2
  <2> QED BY ONLY <1>1, <2>1, LikeRow, Inv, i \in Invoices, r = invoice[i]
<1> QED BY <1>2, <1>3, QuietWorld

LEMMA CommitIs ==
  ASSUME NEW c \in RowsType, Commit(c) PROVE Rows' = c
BY DEF Commit, Rows, RowsType

LEMMA VoidInvoiceMoves ==
  ASSUME CollectionBounds, Inv, NEW i \in Invoices, VoidInvoice(i) PROVE Inv'
<1> PICK b \in RowsType : b = Rows BY DEF Inv, Types
<1> PICK c : c = VoidInvoiceIn(b, i) OBVIOUS
<1>1. Like(b, c) BY VoidMoves
<1>2. Commit(c) /\ UNCHANGED <<payment, acquirer, answers, events, job>>
  BY DEF VoidInvoice
<1>3. Rows' = c BY <1>1, <1>2, CommitIs DEF Like
<1> QED BY <1>1, <1>2, <1>3, QuietWorld

LEMMA OutOfBandMoves ==
  ASSUME CollectionBounds, Inv, NEW i \in Invoices, PaidOutOfBand(i) PROVE Inv'
<1> PICK b \in RowsType : b = Rows BY DEF Inv, Types
<1> PICK c : c = MarkInvoicePaid(b, i, FALSE) OBVIOUS
<1> PICK no \in BOOLEAN : no = FALSE OBVIOUS
<1>0. c = MarkInvoicePaid(b, i, no) OBVIOUS
<1>1. /\ c \in RowsType /\ c.inv[i].link = b.inv[i].link
      /\ ByCard(c.inv[i]) => no
      /\ \A j \in Invoices \ {i} : c.inv[j] = b.inv[j]
  BY ONLY <1>0, PaidMoves, b \in RowsType, i \in Invoices, no \in BOOLEAN
<1>2. Like(b, c) BY <1>1 DEF Like
<1>3. Commit(c) /\ UNCHANGED <<payment, acquirer, answers, events, job>>
  BY DEF PaidOutOfBand
<1>4. Rows' = c BY <1>1, <1>3, CommitIs
<1> QED BY <1>2, <1>3, <1>4, QuietWorld

LEMMA CancelMoves ==
  ASSUME CollectionBounds, Inv, CancelSubscriptionNow PROVE Inv'
<1> PICK b \in RowsType : b = Rows BY DEF Inv, Types
<1> PICK c : c = TransitionSubscription(b, "canceled") OBVIOUS
<1>1. c \in RowsType /\ Like(b, c)
  BY SubscriptionMoves DEF SubscriptionStatuses
<1>2. Commit(c) /\ UNCHANGED <<payment, acquirer, answers, events, job>>
  BY DEF CancelSubscriptionNow
<1>3. Rows' = c BY <1>1, <1>2, CommitIs
<1> QED BY <1>1, <1>2, <1>3, QuietWorld

LEMMA ExpireMoves ==
  ASSUME CollectionBounds, Inv, ExpireIncomplete PROVE Inv'
<1> PICK b \in RowsType : b = Rows BY DEF Inv, Types
<1> PICK i \in Invoices : i = subscription.latest
  BY DEF Inv, Types, Rows, RowsType, SubscriptionType
<1> PICK g : g = TransitionSubscription(b, "incomplete_expired") OBVIOUS
<1>1. g \in RowsType /\ Like(b, g)
  BY SubscriptionMoves DEF SubscriptionStatuses
<1>2. Like(g, VoidInvoiceIn(g, i)) BY <1>1, VoidMoves
<1> PICK c : c = IF PayableInvoice(invoice[i].status) THEN VoidInvoiceIn(g, i) ELSE g
  OBVIOUS
<1>3. Like(b, c) BY <1>1, <1>2, LikeAgain
<1>4. Commit(c) /\ UNCHANGED <<payment, acquirer, answers, events, job>>
  BY DEF ExpireIncomplete
<1>5. Rows' = c BY <1>3, <1>4, CommitIs DEF Like
<1> QED BY <1>3, <1>4, <1>5, QuietWorld

LEMMA RenewMoves ==
  ASSUME CollectionBounds, Inv, Renew PROVE Inv'
<1> PICK i \in Invoices : i = subscription.latest + 1 BY DEF Renew
<1> PICK r \in InvoiceType : r = invoice[i] BY DEF Inv, Types, Rows, RowsType
<1> PICK n : n = [r EXCEPT !.status = "draft",
                           !.due = IF subscription.status = "unpaid" THEN "none" ELSE "later"]
  OBVIOUS
<1>1. n \in InvoiceType /\ n.link = r.link /\ ~ByCard(n)
  BY ZenonT(60) DEF InvoiceType, ByCard, Instants, InvoiceStatuses
<1>2. /\ subscription' = [subscription EXCEPT !.latest = i]
      /\ invoice' = [invoice EXCEPT ![i] = n]
      /\ UNCHANGED <<payment, acquirer, answers, events, job>>
  BY DEF Renew, Inv, Types, Rows, RowsType, InvoiceType
<1>3. /\ Rows' \in RowsType /\ Rows'.inv[i] = n
      /\ \A j \in Invoices \ {i} : Rows'.inv[j] = invoice[j]
  BY <1>1, <1>2 DEF Rows, Inv, Types, RowsType, SubscriptionType
<1>4. Like(Rows, Rows') BY <1>1, <1>3 DEF Like, Rows
<1> QED BY <1>2, <1>4, QuietWorld

-----------------------------------------------------------------------------
(* The acquirer decides.                                                   *)

LEMMA CardEventIs ==
  ASSUME NEW o \in Held
  PROVE  /\ CardEvent(o) \in CardEvents
         /\ CardEvent(o) = "card_canceled" => o = "canceled"
         /\ CardEvent(o) = "card_succeeded" => o = "succeeded"
BY DEF Held, CardEvent, CardEvents

LEMMA TargetIs ==
  ASSUME NEW e \in CardEvents
  PROVE  /\ TargetStatusFor(e) \in Statuses
         /\ TargetStatusFor(e) = "canceled" => e = "card_canceled"
         /\ TargetStatusFor(e) = "succeeded" => e = "card_succeeded"
BY DEF CardEvents, TargetStatusFor, Statuses

LEMMA OutcomesHeld == ASSUME CollectionBounds PROVE Outcomes \subseteq Held \ {"canceled"}
BY DEF CollectionBounds, Held

\* The acquirer moves a payment that has not ended there; one that is shown,
\* unless it is called off.
LEMMA AcquirerStep ==
  ASSUME CollectionBounds, Inv, NEW k \in Payments, NEW o \in Held, NEW t \in Nat,
         AcquirerMoves(k, o, t), UNCHANGED payment,
         acquirer[k].status \notin {"none", "succeeded", "canceled"},
         o \in {"succeeded", "processing", "requires_action"} => payment[k].shown
  PROVE  /\ acquirer' \in AcquirerType /\ acquirer'[k].status = o
         /\ Onward(payment, acquirer, payment', acquirer', 0)
         /\ \A c \in Payments : PaymentIsTrue(c, payment', acquirer')
         /\ \A e \in events' \ events : EventIsTrue(e, acquirer')
<1>1. /\ acquirer' \in AcquirerType /\ acquirer'[k].status = o
      /\ \A c \in Payments \ {k} : acquirer'[c] = acquirer[c]
  BY DEF AcquirerMoves, Inv, Types, AcquirerType
<1>2. Onward(payment, acquirer, payment', acquirer', 0)
  BY <1>1 DEF Onward
<1>3. ASSUME NEW c \in Payments PROVE PaymentIsTrue(c, payment', acquirer')
  BY <1>1 DEF Inv, PaymentIsTrue
<1>4. ASSUME NEW e \in events' \ events PROVE EventIsTrue(e, acquirer')
  <2>1. e = [pay |-> k, kind |-> CardEvent(o), n |-> t] BY <1>4 DEF AcquirerMoves
  <2>2. e.pay = k /\ e.kind = CardEvent(o) BY <2>1
  <2> QED BY <1>1, <2>2, CardEventIs DEF EventIsTrue
<1> QED BY <1>1, <1>2, <1>3, <1>4

\* A decision outside the attempts.
LEMMA DecisionStep ==
  ASSUME CollectionBounds, Inv, NEW k \in Payments, NEW o \in Held, NEW t \in Nat,
         AcquirerMoves(k, o, t), UNCHANGED <<billing, payment, answers, job>>,
         acquirer[k].status \notin {"none", "succeeded", "canceled"},
         o \in {"succeeded", "processing", "requires_action"} => payment[k].shown
  PROVE  Inv'
<1>1. /\ acquirer' \in AcquirerType
      /\ Onward(payment, acquirer, payment', acquirer', 0)
      /\ \A c \in Payments : PaymentIsTrue(c, payment', acquirer')
      /\ \A e \in events' \ events : EventIsTrue(e, acquirer')
  BY AcquirerStep
<1>2. Types' /\ Rows' = Rows /\ Rows \in RowsType
  BY <1>1 DEF Inv, Types, billing, Rows
<1>3. \A i \in Invoices : LinkHolds(i, payment', acquirer', invoice')
  BY <1>1, <1>2, LinksKept, LikeItself
<1> QED BY <1>1, <1>2, <1>3, WorldFollows

LEMMA TriesTyped ==
  ASSUME Inv, NEW k \in Payments
  PROVE  acquirer[k].tries \in Nat /\ acquirer[k].tries + 1 \in Nat
BY DEF Inv, Types, AcquirerType

LEMMA PayerMoves ==
  ASSUME CollectionBounds, Inv, NEW k \in Payments, PayerConfirms(k) PROVE Inv'
<1> PICK o \in Outcomes : Try(k, o) BY DEF PayerConfirms
<1>1. o \in Held BY OutcomesHeld
<1>2. payment[k].shown /\ UNCHANGED <<billing, payment, answers, job>>
      /\ acquirer[k].status \notin {"none", "succeeded", "canceled"}
  BY DEF PayerConfirms, Chargeable
<1>3. AcquirerMoves(k, o, acquirer[k].tries + 1) BY DEF Try
<1> QED BY <1>1, <1>2, <1>3, TriesTyped, DecisionStep

LEMMA SettlesMoves ==
  ASSUME CollectionBounds, Inv, NEW k \in Payments, AcquirerSettles(k) PROVE Inv'
<1> PICK o \in {"succeeded", "requires_payment_method"} :
      AcquirerMoves(k, o, acquirer[k].tries)
  BY DEF AcquirerSettles
<1>1. o \in Held BY DEF Held
<1>2. payment[k].shown BY DEF AcquirerSettles, Inv, PaymentIsTrue
<1>3. /\ UNCHANGED <<billing, payment, answers, job>>
      /\ acquirer[k].status \notin {"none", "succeeded", "canceled"}
  BY DEF AcquirerSettles
<1> QED BY <1>1, <1>2, <1>3, TriesTyped, DecisionStep

LEMMA CancelPaymentMoves ==
  ASSUME CollectionBounds, Inv, NEW k \in Payments, CancelPayment(k) PROVE Inv'
<1>1. /\ AcquirerMoves(k, "canceled", acquirer[k].tries)
      /\ UNCHANGED <<billing, payment, answers, job>>
      /\ acquirer[k].status \notin {"none", "succeeded", "canceled"}
      /\ "canceled" \in Held
  BY DEF CancelPayment, Held
<1> QED BY <1>1, TriesTyped, DecisionStep

-----------------------------------------------------------------------------
(* A payment's row moves, and its invoice with it.                         *)

LEMMA TransitionStep ==
  ASSUME CollectionBounds, Inv, NEW k \in Payments, NEW from, NEW to \in Statuses,
         TransitionIntent(k, from, to), UNCHANGED acquirer,
         to = "canceled" => acquirer[k].status = "canceled",
         to = "succeeded" => acquirer[k].status = "succeeded"
  PROVE  /\ payment' \in PaymentsType /\ Rows' \in RowsType
         /\ Onward(payment, acquirer, payment', acquirer', 0)
         /\ \A c \in Payments : PaymentIsTrue(c, payment', acquirer')
         /\ \A i \in Invoices : LinkHolds(i, payment', acquirer', invoice')
<1> PICK b \in RowsType : b = Rows BY DEF Inv, Types
<1>1. CASE UNCHANGED <<payment, billing>>
  <2>1. /\ Rows' = Rows /\ UNCHANGED <<payment, acquirer>>
        /\ Onward(payment, acquirer, payment', acquirer', 0)
    BY <1>1, OnwardItself DEF billing, Rows
  <2>2. \A i \in Invoices : LinkHolds(i, payment', acquirer', invoice')
    BY <2>1, LinksKept, LikeItself
  <2> QED BY <2>1, <2>2 DEF Inv, Types
<1>2. CASE /\ payment' = [payment EXCEPT ![k].status = to]
           /\ Commit(OnPaymentTransition(Rows, k, from, to))
  <2> PICK c : c = OnPaymentTransition(b, k, from, to) OBVIOUS
  <2>1. HookMoves(b, c, k, to) BY HookStep
  <2>2. c \in RowsType /\ Rows' = c
    <3>1. c \in RowsType BY <2>1 DEF HookMoves
    <3>2. Commit(c) BY <1>2
    <3> QED BY <3>1, <3>2, CommitIs
  <2>3. /\ payment' \in PaymentsType
        /\ \A x \in Payments : /\ payment'[x].shown = payment[x].shown
                               /\ payment'[x].inv = payment[x].inv
        /\ \A x \in Payments \ {k} : payment'[x] = payment[x]
        /\ payment'[k].status = to
    BY <1>2 DEF Inv, Types, PaymentsType
  <2>4. to # "none" BY DEF Statuses
  <2>5. Onward(payment, acquirer, payment', acquirer', 0)
    BY <2>3, <2>4 DEF Onward
  <2>6. ASSUME NEW x \in Payments PROVE PaymentIsTrue(x, payment', acquirer')
    BY <2>3, <2>4 DEF Inv, PaymentIsTrue
  <2>7. ASSUME NEW i \in Invoices PROVE LinkHolds(i, payment', acquirer', invoice')
    <3>1. /\ \/ invoice'[i].link = invoice[i].link
             \/ /\ to = "canceled" /\ invoice[i].link = k /\ invoice'[i].link = 0
                /\ ~ByCard(invoice'[i])
          /\ ByCard(invoice'[i]) =>
               ByCard(invoice[i]) \/ (to = "succeeded" /\ invoice[i].link = k)
      BY <2>1, <2>2 DEF HookMoves, Rows
    <3>2. LinkHolds(i, payment, acquirer, invoice) BY DEF Inv
    <3>3. invoice[i].link # 0 => invoice[i].link \in Payments
      BY DEF Inv, Types, Rows, RowsType, InvoiceType, Payments, CollectionBounds
    <3> QED BY <2>3, <3>1, <3>2, <3>3 DEF LinkHolds
  <2> QED BY <2>2, <2>3, <2>5, <2>6, <2>7
<1> QED BY <1>1, <1>2 DEF TransitionIntent

LEMMA EventMoves ==
  ASSUME CollectionBounds, Inv, NEW e \in events, ProcessProviderEvent(e) PROVE Inv'
<1> PICK k \in Payments : k = e.pay BY DEF Inv, EventIsTrue
<1> PICK s : s = payment[k].status OBVIOUS
<1> PICK h : /\ h \in {e.kind, CardEvent(acquirer[k].status)}
             /\ \/ TransitionIntent(k, s, TargetStatusFor(h))
                \/ UNCHANGED <<payment, billing>>
  BY DEF ProcessProviderEvent
<1>1. acquirer[k].status \in Held BY DEF Inv, EventIsTrue
<1>2. /\ h \in CardEvents
      /\ h = "card_canceled" => acquirer[k].status = "canceled"
      /\ h = "card_succeeded" => acquirer[k].status = "succeeded"
  BY <1>1, CardEventIs DEF Inv, EventIsTrue
<1>3. /\ UNCHANGED <<acquirer, answers, job>> /\ events' \subseteq events
  BY DEF ProcessProviderEvent
<1> PICK to \in Statuses : to = TargetStatusFor(h) BY <1>2, TargetIs
<1>4. /\ to = "canceled" => acquirer[k].status = "canceled"
      /\ to = "succeeded" => acquirer[k].status = "succeeded"
  BY <1>2, TargetIs
<1>5. TransitionIntent(k, s, to) \/ UNCHANGED <<payment, billing>> OBVIOUS
<1>6. CASE TransitionIntent(k, s, to)
  <2>1. /\ payment' \in PaymentsType /\ Rows' \in RowsType
        /\ Onward(payment, acquirer, payment', acquirer', 0)
        /\ \A c \in Payments : PaymentIsTrue(c, payment', acquirer')
        /\ \A i \in Invoices : LinkHolds(i, payment', acquirer', invoice')
    BY <1>3, <1>4, <1>6, TransitionStep
  <2>2. Types' BY <1>3, <2>1 DEF Inv, Types
  <2> QED BY <1>3, <2>1, <2>2, WorldFollows
<1>7. CASE UNCHANGED <<payment, billing>>
  <2>1. Types' BY <1>3, <1>7 DEF Inv, Types, billing, Rows
  <2>2. Rows' = Rows /\ Rows \in RowsType BY <1>7 DEF Inv, Types, billing, Rows
  <2>3. Onward(payment, acquirer, payment', acquirer', 0) BY <1>3, <1>7, OnwardItself
  <2>4. \A i \in Invoices : LinkHolds(i, payment', acquirer', invoice')
    BY <2>2, <2>3, LinksKept, LikeItself
  <2>5. \A c \in Payments : PaymentIsTrue(c, payment', acquirer')
    BY <1>3, <1>7 DEF Inv
  <2> QED BY <1>3, <2>1, <2>3, <2>4, <2>5, WorldFollows
<1> QED BY <1>5, <1>6, <1>7

LEMMA ApplyMoves ==
  ASSUME CollectionBounds, Inv, NEW w \in Workers, ApplyAnswer(w) PROVE Inv'
<1> PICK j \in JobType : j = job[w] BY JobTyped
<1>0. AttemptIsTrue(j, payment, acquirer) /\ j.pc = "apply"
  BY JobTyped DEF ApplyAnswer
<1> PICK k \in Payments : k = j.pay BY <1>0 DEF AttemptIsTrue
<1>1. /\ j.answer \in Held \ {"canceled"}
      /\ j.answer = "succeeded" => acquirer[k].status = "succeeded"
  BY <1>0, OutcomesHeld DEF AttemptIsTrue
<1> PICK h \in CardEvents : h = CardEvent(j.answer) BY <1>1, CardEventIs
<1>2. h # "card_canceled" /\ (h = "card_succeeded" => acquirer[k].status = "succeeded")
  BY <1>1, CardEventIs
<1> PICK to \in Statuses : to = TargetStatusFor(h) BY TargetIs
<1>3. to # "canceled" /\ (to = "succeeded" => acquirer[k].status = "succeeded")
  BY <1>2, TargetIs
<1> PICK n : n = [Idle EXCEPT !.pc = "settle", !.inv = j.inv, !.auto = j.auto]
  OBVIOUS
<1>4. /\ job' = [job EXCEPT ![w] = n] /\ UNCHANGED <<acquirer, answers, events>>
      /\ TransitionIntent(k, j.seen, to) \/ UNCHANGED <<payment, billing>>
  BY DEF ApplyAnswer
<1>5. n.pc = "settle" /\ AttemptIsTrue(n, payment', acquirer')
  <2>1. n = Begun("settle", j.inv, j.auto) BY DEF Begun
  <2>2. j.inv \in Invoices /\ j.auto \in BOOLEAN BY DEF JobType
  <2> QED BY <2>1, <2>2, BegunIsTrue
<1>6. CASE TransitionIntent(k, j.seen, to)
  <2>1. /\ payment' \in PaymentsType /\ Rows' \in RowsType
        /\ Onward(payment, acquirer, payment', acquirer', 0)
        /\ \A c \in Payments : PaymentIsTrue(c, payment', acquirer')
        /\ \A i \in Invoices : LinkHolds(i, payment', acquirer', invoice')
    BY <1>3, <1>4, <1>6, TransitionStep
  <2>2. Types' BY <1>4, <1>5, <2>1 DEF Inv, Types, AttemptIsTrue
  <2>3. \A v \in Workers \ {w} : job[v].pc = "link" =>
          job[v].pay # 0 /\ (n.pc = "link" => job[v].pay # n.pay)
    BY <1>5 DEF Inv, AttemptIsTrue, Payments
  <2>4. /\ \A e \in events' \ events : EventIsTrue(e, acquirer')
        /\ \A x \in answers' \ answers : AnswerIsTrue(x, acquirer')
        /\ job' = [job EXCEPT ![w] = n]
    BY <1>4
  <2> QED BY ONLY CollectionBounds, Inv, w \in Workers, <1>5, <2>1, <2>2, <2>3, <2>4,
                  StepFollows
<1>7. CASE UNCHANGED <<payment, billing>>
  <2>1. Rows' = Rows /\ Rows \in RowsType BY <1>7 DEF Inv, Types, billing, Rows
  <2> QED BY <1>4, <1>5, <1>7, <2>1, QuietStep, LikeItself
<1> QED BY <1>4, <1>6, <1>7

-----------------------------------------------------------------------------
(* Making a payment, linking it, and charging it.                          *)

\* Some payment is the first of those not made yet.
LEMMA FirstOf ==
  ASSUME NEW free \in SUBSET Payments, free # {}
  PROVE  (CHOOSE p \in free : \A q \in free : p <= q) \in free
<1>1. free \subseteq Nat BY DEF Payments
<1>2. PICK p \in free : \A q \in free : ~(<<q, p>> \in OpToRel(<, Nat))
  BY <1>1, NatLessThanWellFounded, WFMin
<1>3. \A q \in free : <<q, p>> \in Nat \X Nat /\ ~(q < p)
  BY <1>1, <1>2 DEF OpToRel
<1>4. ASSUME NEW q \in free PROVE p <= q
  <2>1. p \in Nat /\ q \in Nat BY <1>1
  <2>2. ~(q < p) BY <1>3
  <2> QED BY ONLY <2>1, <2>2
<1> QED BY <1>4

LEMMA IntentMoves ==
  ASSUME CollectionBounds, Inv, NEW w \in Workers, IntentFor(w) PROVE Inv'
<1> PICK j \in JobType : j = job[w] BY JobTyped
<1>0. AttemptIsTrue(j, payment, acquirer) BY JobTyped
<1> PICK l \in 0..MaxPayments : l = j.link BY DEF JobType
<1>l. l # 0 => l \in Payments /\ payment[l].shown
  BY <1>0 DEF AttemptIsTrue, Payments, CollectionBounds
<1>q. UNCHANGED <<subscription, answers, events>> BY DEF IntentFor
<1>1. CASE /\ l # 0 /\ UNCHANGED <<invoice, payment, acquirer>>
           /\ job' = [job EXCEPT ![w].pc = "prepare", ![w].pay = l,
                                 ![w].seen = payment[l].status]
  <2> PICK n : n = [j EXCEPT !.pc = "prepare", !.pay = l, !.seen = payment[l].status]
    OBVIOUS
  <2>1. payment[l].status \in Statuses
    BY <1>1, <1>l DEF Inv, Types, PaymentsType, PaymentIsTrue
  <2>2. n \in JobType /\ n.pc = "prepare" /\ n.link = l /\ n.pay = l
    BY <2>1 DEF JobType, Pcs
  <2>3. AttemptIsTrue(n, payment, acquirer) BY <1>1, <1>l, <2>2 DEF AttemptIsTrue
  <2>4. /\ job' = [job EXCEPT ![w] = n] /\ Rows' = Rows /\ Rows \in RowsType
        /\ UNCHANGED <<payment, acquirer, answers, events>>
    BY <1>1, <1>q DEF Inv, Types, Rows
  <2> QED BY <2>2, <2>3, <2>4, QuietStep, LikeItself
<1>2. CASE /\ ~(l # 0 /\ payment[l].status # "canceled") /\ UNCHANGED invoice
           /\ \E new \in Payments :
                /\ payment[new].status = "none"
                /\ payment' = [payment EXCEPT ![new] =
                      [status |-> "requires_payment_method", inv |-> j.inv,
                       shown |-> FALSE]]
                /\ acquirer' = [acquirer EXCEPT ![new].status =
                                  "requires_payment_method"]
                /\ job' = [job EXCEPT ![w].pc = "link", ![w].pay = new,
                                      ![w].seen = "requires_payment_method"]
  <2> PICK k \in Payments :
        /\ payment[k].status = "none"
        /\ payment' = [payment EXCEPT ![k] =
              [status |-> "requires_payment_method", inv |-> j.inv, shown |-> FALSE]]
        /\ acquirer' = [acquirer EXCEPT ![k].status = "requires_payment_method"]
        /\ job' = [job EXCEPT ![w].pc = "link", ![w].pay = k,
                              ![w].seen = "requires_payment_method"]
    BY <1>2
  <2> PICK n : n = [j EXCEPT !.pc = "link", !.pay = k,
                             !.seen = "requires_payment_method"]
    OBVIOUS
  <2>1. /\ n \in JobType /\ n.pc = "link" /\ n.link = l /\ n.pay = k /\ n.inv = j.inv
    <3>1. k \in 0..MaxPayments BY DEF Payments, CollectionBounds
    <3>2. "link" \in Pcs /\ "requires_payment_method" \in Statuses BY DEF Pcs, Statuses
    <3>3. n \in JobType BY <3>1, <3>2 DEF JobType
    <3> QED BY <3>3 DEF JobType
  <2>2. /\ payment' \in PaymentsType
        /\ payment'[k].status = "requires_payment_method"
        /\ payment'[k].inv = j.inv /\ ~payment'[k].shown
        /\ \A c \in Payments \ {k} : payment'[c] = payment[c]
    BY DEF Inv, Types, PaymentsType, Statuses, JobType
  <2>3. /\ acquirer' \in AcquirerType
        /\ acquirer'[k].status = "requires_payment_method"
        /\ \A c \in Payments \ {k} : acquirer'[c] = acquirer[c]
    BY DEF Inv, Types, AcquirerType, Held
  <2>4. ~payment[k].shown /\ acquirer[k].status = "none"
    BY DEF Inv, PaymentIsTrue
  <2>5. Onward(payment, acquirer, payment', acquirer', 0)
    BY <2>2, <2>3, <2>4 DEF Onward, Held
  <2>6. ASSUME NEW c \in Payments PROVE PaymentIsTrue(c, payment', acquirer')
    BY <2>2, <2>3 DEF Inv, PaymentIsTrue
  <2>7. /\ Types' /\ Rows' = Rows /\ Rows \in RowsType
        /\ job' = [job EXCEPT ![w] = n]
    BY <1>2, <1>q, <2>1, <2>2, <2>3 DEF Inv, Types, Rows
  <2>8. \A i \in Invoices : LinkHolds(i, payment', acquirer', invoice')
    BY <2>5, <2>7, LinksKept, LikeItself
  <2>9. l # 0 => acquirer'[l].status = "canceled" /\ payment'[l].shown
    BY <1>2, <1>l, <2>2, <2>3, <2>4 DEF Inv, PaymentIsTrue
  <2>10. AttemptIsTrue(n, payment', acquirer')
    BY <2>1, <2>2, <2>9 DEF AttemptIsTrue
  <2>11. \A v \in Workers \ {w} : job[v].pc = "link" =>
          job[v].pay # 0 /\ (n.pc = "link" => job[v].pay # n.pay)
    BY <2>1 DEF Inv, AttemptIsTrue, Payments
  <2>12. /\ \A e \in events' \ events : EventIsTrue(e, acquirer')
         /\ \A x \in answers' \ answers : AnswerIsTrue(x, acquirer')
    BY <1>q
  <2> QED BY ONLY CollectionBounds, Inv, w \in Workers, <2>5, <2>6, <2>7, <2>8, <2>10,
                  <2>11, <2>12, StepFollows
<1>3. CASE Finish(w, invoice[j.inv]) /\ UNCHANGED <<payment, acquirer>>
  <2> PICK r \in InvoiceType : r = invoice[job[w].inv] BY JobTyped
  <2> QED BY <1>3, <1>q, FinishStep
<1> DEFINE free == {p \in Payments : payment[p].status = "none"}
           new == CHOOSE p \in free : \A q \in free : p <= q
<1>4. free # {} => new \in Payments /\ payment[new].status = "none"
  BY FirstOf
<1> HIDE DEF new
<1>5. \/ /\ l # 0 /\ UNCHANGED <<invoice, payment, acquirer>>
         /\ job' = [job EXCEPT ![w].pc = "prepare", ![w].pay = l,
                               ![w].seen = payment[l].status]
      \/ /\ ~(l # 0 /\ payment[l].status # "canceled") /\ UNCHANGED invoice
         /\ free # {}
         /\ payment' = [payment EXCEPT ![new] =
               [status |-> "requires_payment_method", inv |-> j.inv, shown |-> FALSE]]
         /\ acquirer' = [acquirer EXCEPT ![new].status = "requires_payment_method"]
         /\ job' = [job EXCEPT ![w].pc = "link", ![w].pay = new,
                               ![w].seen = "requires_payment_method"]
      \/ Finish(w, invoice[j.inv]) /\ UNCHANGED <<payment, acquirer>>
  BY ZenonT(60) DEF IntentFor, new
<1> QED BY <1>1, <1>2, <1>3, <1>4, <1>5

LEMMA LinkMoves ==
  ASSUME CollectionBounds, Inv, NEW w \in Workers, LinkIntent(w) PROVE Inv'
<1> PICK j \in JobType : j = job[w] BY JobTyped
<1>0. AttemptIsTrue(j, payment, acquirer) /\ j.pc = "link"
  BY JobTyped DEF LinkIntent
<1> PICK k \in Payments : k = j.pay BY <1>0 DEF AttemptIsTrue
<1> PICK i \in Invoices : i = j.inv BY DEF JobType
<1> PICK r \in InvoiceType : r = invoice[i] BY JobTyped
<1>k. /\ payment[k].status # "none" /\ payment[k].inv = i /\ ~payment[k].shown
      /\ j.link = 0 \/ acquirer[j.link].status = "canceled"
  BY <1>0 DEF AttemptIsTrue
<1>q. UNCHANGED <<subscription, answers>> BY DEF LinkIntent
<1>1. CASE /\ MayLink(w)
           /\ invoice' = [invoice EXCEPT ![i].link = k]
           /\ payment' = [payment EXCEPT ![k].shown = TRUE]
           /\ job' = [job EXCEPT ![w].pc = "prepare"]
           /\ UNCHANGED <<acquirer, events>>
  <2> PICK n : n = [j EXCEPT !.pc = "prepare"] OBVIOUS
  <2>1. /\ n \in JobType /\ n.pc = "prepare" /\ n.link = j.link /\ n.pay = k
    BY DEF JobType, Pcs
  <2>2. /\ payment' \in PaymentsType /\ payment'[k].shown
        /\ payment'[k].status = payment[k].status /\ payment'[k].inv = i
        /\ \A c \in Payments \ {k} : payment'[c] = payment[c]
    BY ZenonT(60), <1>1, <1>k DEF Inv, Types, PaymentsType
  <2>3. k \in 0..MaxPayments /\ k # 0 BY DEF Payments, CollectionBounds
  <2>4. /\ invoice' \in [Invoices -> InvoiceType] /\ invoice'[i].link = k
        /\ ByCard(invoice'[i]) => ByCard(invoice[i])
        /\ \A c \in Invoices \ {i} : invoice'[c] = invoice[c]
    BY <1>1, <2>3 DEF Inv, Types, Rows, RowsType, InvoiceType, ByCard
  <2>5. /\ job' = [job EXCEPT ![w] = n] /\ Types'
    BY <1>1, <1>q, <2>1, <2>2, <2>4 DEF Inv, Types, Rows, RowsType
  <2>6. Onward(payment, acquirer, payment', acquirer', k)
    BY <1>1, <2>2 DEF Onward
  <2>7. j.link # 0 => j.link \in Payments
    BY DEF JobType, Payments, CollectionBounds
  <2>8. AttemptIsTrue(n, payment', acquirer')
    BY <1>0, <2>1, <2>2, <2>7 DEF AttemptIsTrue
  <2>9. ASSUME NEW c \in Payments PROVE PaymentIsTrue(c, payment', acquirer')
    BY <1>1, <1>k, <2>2 DEF Inv, PaymentIsTrue
  <2>10. \A v \in Workers \ {w} : job[v].pc = "link" =>
          job[v].pay # k /\ (n.pc = "link" => job[v].pay # n.pay)
    BY <1>0, <2>1 DEF Inv
  <2>11. invoice[i].link = j.link BY ZenonT(60), <1>1 DEF MayLink
  <2>12. LinkHolds(i, payment', acquirer', invoice')
    <3>1. LinkHolds(i, payment, acquirer, invoice) BY DEF Inv
    <3>2. ~ByCard(invoice[i])
      BY <1>k, <2>11, <3>1 DEF LinkHolds, Payments
    <3>3. ASSUME NEW c \in Payments \ {k}, payment[c].inv = i, payment[c].shown,
                 acquirer[c].status # "canceled"
          PROVE  FALSE
      BY <1>k, <2>11, <3>1, <3>3 DEF LinkHolds, Payments
    <3> QED BY <1>1, <2>2, <2>4, <3>2, <3>3 DEF LinkHolds
  <2>13. ASSUME NEW x \in Invoices \ {i}
         PROVE  LinkHolds(x, payment', acquirer', invoice')
    <3>1. LinkHolds(x, payment, acquirer, invoice) BY DEF Inv
    <3>2. invoice[x].link # 0 => invoice[x].link \in Payments
      BY DEF Inv, Types, Rows, RowsType, InvoiceType, Payments, CollectionBounds
    <3>3. invoice'[x] = invoice[x] /\ UNCHANGED acquirer BY <1>1, <2>4
    <3>4. ASSUME NEW c \in Payments, payment'[c].inv = x, payment'[c].shown,
                 acquirer[c].status # "canceled"
          PROVE  invoice[x].link = c
      <4>1. c # k BY <2>2, <3>4
      <4>2. payment'[c] = payment[c] BY <2>2, <4>1
      <4> QED BY <3>1, <3>4, <4>2 DEF LinkHolds
    <3>5. invoice[x].link # 0 => payment'[invoice[x].link].shown
      BY <2>2, <3>1, <3>2 DEF LinkHolds
    <3>6. ByCard(invoice[x]) => /\ invoice[x].link \in Payments
                               /\ acquirer[invoice[x].link].status = "succeeded"
      BY <3>1 DEF LinkHolds
    <3> QED BY ONLY <3>3, <3>4, <3>5, <3>6 DEF LinkHolds
  <2>14. /\ \A e \in events' \ events : EventIsTrue(e, acquirer')
         /\ \A x \in answers' \ answers : AnswerIsTrue(x, acquirer')
         /\ \A x \in Invoices : LinkHolds(x, payment', acquirer', invoice')
    BY <1>1, <1>q, <2>12, <2>13
  <2> QED BY ONLY CollectionBounds, Inv, w \in Workers, <2>5, <2>6, <2>8, <2>9, <2>10,
                  <2>14, StepFollows
<1>2. CASE /\ payment' = [payment EXCEPT ![k].status = "canceled"]
           /\ AcquirerMoves(k, "canceled", acquirer[k].tries)
           /\ Finish(w, invoice[i])
  <2>1. Like(Rows, Rows') BY <1>2, <1>q, FinishLike
  <2>2. /\ payment' \in PaymentsType /\ payment'[k].status = "canceled"
        /\ payment'[k].inv = i /\ ~payment'[k].shown
        /\ \A c \in Payments \ {k} : payment'[c] = payment[c]
    BY <1>2, <1>k DEF Inv, Types, PaymentsType, Statuses
  <2>3. /\ acquirer' \in AcquirerType /\ acquirer'[k].status = "canceled"
        /\ \A c \in Payments \ {k} : acquirer'[c] = acquirer[c]
    BY <1>2 DEF AcquirerMoves, Inv, Types, AcquirerType, Held
  <2>4. acquirer[k].status # "succeeded" BY <1>k DEF Inv, PaymentIsTrue
  <2>5. Onward(payment, acquirer, payment', acquirer', 0)
    BY <1>k, <2>2, <2>3, <2>4 DEF Onward, Held
  <2>6. ASSUME NEW c \in Payments PROVE PaymentIsTrue(c, payment', acquirer')
    BY <2>2, <2>3 DEF Inv, PaymentIsTrue
  <2>7. job' = [job EXCEPT ![w] = Idle] BY <1>2 DEF Finish
  <2>8. AttemptIsTrue(Idle, payment', acquirer') /\ Idle.pc # "link"
    BY IdleIsTrue DEF Idle
  <2>9. Types' BY <2>1, <2>2, <2>3, <2>7, <2>8 DEF Inv, Types, Like, AttemptIsTrue
  <2>10. \A v \in Workers \ {w} : job[v].pc = "link" =>
          job[v].pay # 0 /\ (Idle.pc = "link" => job[v].pay # Idle.pay)
    BY <2>8 DEF Inv, AttemptIsTrue, Payments
  <2>11. ASSUME NEW e \in events' \ events PROVE EventIsTrue(e, acquirer')
    <3>1. e = [pay |-> k, kind |-> CardEvent("canceled"), n |-> acquirer[k].tries]
      BY <1>2, <2>11 DEF AcquirerMoves
    <3>2. e.pay = k /\ e.kind = CardEvent("canceled") BY <3>1
    <3>3. "canceled" \in Held BY DEF Held
    <3> QED BY <2>3, <3>2, <3>3, CardEventIs DEF EventIsTrue
  <2>12. /\ \A x \in answers' \ answers : AnswerIsTrue(x, acquirer')
         /\ \A x \in Invoices : LinkHolds(x, payment', acquirer', invoice')
    BY <1>q, <2>1, <2>5, LinksKept
  <2> QED BY ONLY CollectionBounds, Inv, w \in Workers, <2>5, <2>6, <2>7, <2>8, <2>9,
                  <2>10, <2>11, <2>12, StepFollows
<1> QED BY <1>1, <1>2 DEF LinkIntent

LEMMA ConfirmMoves ==
  ASSUME CollectionBounds, Inv, NEW w \in Workers, NEW heard, Confirm(w, heard)
  PROVE  Inv'
<1> PICK j \in JobType : j = job[w] BY JobTyped
<1>0. AttemptIsTrue(j, payment, acquirer) /\ j.pc = "confirm"
  BY JobTyped DEF Confirm
<1> PICK k \in Payments : k = j.pay BY <1>0 DEF AttemptIsTrue
<1> PICK pc \in {"apply", "defer"} : pc = IF heard THEN "apply" ELSE "defer" OBVIOUS
<1> DEFINE got(o) == UNCHANGED invoice
                     /\ job' = [job EXCEPT ![w] = [j EXCEPT !.pc = pc, !.answer = o]]
<1>g. ASSUME NEW o \in Held, NEW p, NEW a, AttemptIsTrue(j, p, a), o \in Outcomes,
             o = "succeeded" => a[k].status = "succeeded"
      PROVE  LET n == [j EXCEPT !.pc = pc, !.answer = o]
             IN AttemptIsTrue(n, p, a) /\ n.pc # "link" /\ n \in JobType
  <2> PICK n : n = [j EXCEPT !.pc = pc, !.answer = o] OBVIOUS
  <2>1. /\ n \in JobType /\ n.pc = pc /\ n.answer = o /\ n.link = j.link
        /\ n.pay = k
    <3>1. o \in Statuses /\ pc \in Pcs BY DEF Held, Statuses, Pcs
    <3> QED BY <3>1 DEF JobType
  <2> QED BY <1>g, <2>1 DEF AttemptIsTrue
<1>1. ASSUME NEW o, (\E a \in answers : a.pay = k /\ a.answer = o), got(o),
             UNCHANGED <<subscription, payment, acquirer, answers, events>>
      PROVE  Inv'
  <2>1. /\ o \in Outcomes /\ o \in Held
        /\ o = "succeeded" => acquirer[k].status = "succeeded"
    BY <1>1, OutcomesHeld DEF Inv, AnswerIsTrue
  <2> PICK n : n = [j EXCEPT !.pc = pc, !.answer = o] OBVIOUS
  <2>2. AttemptIsTrue(n, payment, acquirer) /\ n.pc # "link"
    BY <1>0, <1>g, <2>1
  <2>3. /\ Rows' = Rows /\ Rows \in RowsType /\ job' = [job EXCEPT ![w] = n]
        /\ UNCHANGED <<payment, acquirer, answers, events>>
    BY <1>1 DEF Rows, Inv, Types
  <2> QED BY <2>2, <2>3, QuietStep, LikeItself
<1>2. ASSUME NEW o \in Outcomes, Chargeable(k), Try(k, o), got(o),
             answers' = answers \cup {[inv |-> j.inv, n |-> j.attempts + 1,
                                       pay |-> k, answer |-> o]},
             UNCHANGED <<subscription, payment>>
      PROVE  Inv'
  <2>1. o \in Held BY OutcomesHeld
  <2>2. payment[k].shown BY <1>0 DEF AttemptIsTrue
  <2>3. /\ AcquirerMoves(k, o, acquirer[k].tries + 1)
        /\ acquirer[k].status \notin {"none", "succeeded", "canceled"}
    BY <1>2 DEF Try, Chargeable
  <2>4. /\ acquirer' \in AcquirerType /\ acquirer'[k].status = o
        /\ Onward(payment, acquirer, payment', acquirer', 0)
        /\ \A c \in Payments : PaymentIsTrue(c, payment', acquirer')
        /\ \A e \in events' \ events : EventIsTrue(e, acquirer')
    BY <1>2, <2>1, <2>2, <2>3, TriesTyped, AcquirerStep
  <2> PICK n : n = [j EXCEPT !.pc = pc, !.answer = o] OBVIOUS
  <2>5. AttemptIsTrue(j, payment', acquirer')
    BY <1>0, <2>4, AttemptFollows
  <2>6. AttemptIsTrue(n, payment', acquirer') /\ n.pc # "link" /\ n \in JobType
    BY <1>g, <2>1, <2>4, <2>5
  <2>7. /\ Rows' = Rows /\ Rows \in RowsType /\ job' = [job EXCEPT ![w] = n]
    BY <1>2 DEF Rows, Inv, Types
  <2>8. Types' BY <1>2, <2>4, <2>6, <2>7 DEF Inv, Types
  <2>9. ASSUME NEW x \in answers' \ answers PROVE AnswerIsTrue(x, acquirer')
    <3>1. x = [inv |-> j.inv, n |-> j.attempts + 1, pay |-> k, answer |-> o]
      BY <1>2, <2>9
    <3>2. x.pay = k /\ x.answer = o BY <3>1
    <3> QED BY <2>4, <3>2 DEF AnswerIsTrue
  <2>10. \A v \in Workers \ {w} : job[v].pc = "link" =>
          job[v].pay # 0 /\ (n.pc = "link" => job[v].pay # n.pay)
    BY <2>6 DEF Inv, AttemptIsTrue, Payments
  <2>11. \A x \in Invoices : LinkHolds(x, payment', acquirer', invoice')
    BY <2>4, <2>7, LinksKept, LikeItself
  <2> QED BY ONLY CollectionBounds, Inv, w \in Workers, <2>4, <2>6, <2>7, <2>8, <2>9,
                  <2>10, <2>11, StepFollows
<1>3. CASE /\ Finish(w, invoice[j.inv])
           /\ UNCHANGED <<subscription, payment, acquirer, answers, events>>
  <2> PICK r \in InvoiceType : r = invoice[job[w].inv] BY JobTyped
  <2> QED BY <1>3, FinishStep
<1>4. \/ /\ \E a \in answers : a.pay = k /\ got(a.answer)
         /\ UNCHANGED <<subscription, payment, acquirer, answers, events>>
      \/ \E o \in Outcomes :
           /\ Chargeable(k) /\ Try(k, o) /\ got(o)
           /\ answers' = answers \cup {[inv |-> j.inv, n |-> j.attempts + 1,
                                        pay |-> k, answer |-> o]}
           /\ UNCHANGED <<subscription, payment>>
      \/ /\ Finish(w, invoice[j.inv])
         /\ UNCHANGED <<subscription, payment, acquirer, answers, events>>
  <2> DEFINE said(o) == /\ job' = [job EXCEPT ![w].pc = IF heard THEN "apply" ELSE "defer",
                                             ![w].answer = o]
                        /\ UNCHANGED invoice
  <2>1. ASSUME NEW o, said(o) PROVE got(o) BY <2>1
  <2> HIDE DEF said, got
  <2>2. \/ /\ \E a \in answers : a.pay = k /\ said(a.answer)
           /\ UNCHANGED <<subscription, payment, acquirer, answers, events>>
        \/ \E o \in Outcomes :
             /\ Chargeable(k) /\ Try(k, o) /\ said(o)
             /\ answers' = answers \cup {[inv |-> j.inv, n |-> j.attempts + 1,
                                          pay |-> k, answer |-> o]}
             /\ UNCHANGED <<subscription, payment>>
        \/ /\ Finish(w, invoice[j.inv])
           /\ UNCHANGED <<subscription, payment, acquirer, answers, events>>
    BY DEF Confirm, Keyed, said
  <2> QED BY <2>1, <2>2
<1> HIDE DEF got
<1> QED BY <1>1, <1>2, <1>3, <1>4

-----------------------------------------------------------------------------
(* The invariant holds, and what follows from it.                          *)

LEMMA InvInit == ASSUME CollectionBounds, Init PROVE Inv
<1>1. 0 \in 0..MaxPayments /\ 1 \in Invoices /\ 0 \in Nat
  BY DEF CollectionBounds, Invoices
<1>2. NoInvoice \in InvoiceType
  BY <1>1 DEF NoInvoice, InvoiceType, InvoiceStatuses, Instants
<1>3. /\ [NoInvoice EXCEPT !.status = "open"] \in InvoiceType
      /\ [NoInvoice EXCEPT !.status = "draft", !.due = "later"] \in InvoiceType
  BY <1>2 DEF InvoiceType, InvoiceStatuses, Instants
<1>4. invoice \in [Invoices -> InvoiceType] BY <1>2, <1>3 DEF Init
<1>5. subscription \in SubscriptionType
  BY <1>1 DEF Init, SubscriptionType, SubscriptionStatuses
<1>6. ASSUME NEW i \in Invoices PROVE invoice[i].link = 0 /\ ~ByCard(invoice[i])
  BY DEF Init, NoInvoice, ByCard
<1>7. /\ \A k \in Payments : /\ payment[k].status = "none" /\ ~payment[k].shown
                              /\ acquirer[k].status = "none"
      /\ payment \in PaymentsType /\ acquirer \in AcquirerType
  BY <1>1 DEF Init, PaymentsType, AcquirerType
<1>8. \A w \in Workers : job[w] = Idle BY DEF Init
<1>9. /\ \A w \in Workers : AttemptIsTrue(job[w], payment, acquirer) /\ job[w].pc # "link"
      /\ job \in [Workers -> JobType]
  <2>1. AttemptIsTrue(Idle, payment, acquirer) /\ Idle.pc # "link" /\ Idle \in JobType
    BY IdleIsTrue DEF Idle, AttemptIsTrue
  <2> QED BY <1>8, <2>1 DEF Init
<1>10. Types BY <1>4, <1>5, <1>7, <1>9 DEF Types, Rows, RowsType
<1>11. \A k \in Payments : PaymentIsTrue(k, payment, acquirer)
  BY <1>7 DEF PaymentIsTrue
<1>12. \A i \in Invoices : LinkHolds(i, payment, acquirer, invoice)
  BY <1>6, <1>7 DEF LinkHolds
<1>13. events = {} /\ answers = {} BY DEF Init
<1> QED BY <1>9, <1>10, <1>11, <1>12, <1>13 DEF Inv

LEMMA InvStays == ASSUME CollectionBounds, Inv, [Next]_vars PROVE Inv'
<1>1. ASSUME NEW w \in Workers, Attempt(w) PROVE Inv'
  <2>1. CASE ConfirmCard(w) BY <2>1, ConfirmMoves DEF ConfirmCard
  <2> QED
    BY <1>1, <2>1, StepMoves, AttemptMoves, IntentMoves, LinkMoves, PrepareMoves,
       ApplyMoves, SettleMoves, DeferMoves DEF Attempt
<1>2. ASSUME NEW w \in Workers, LoseAnswer(w) PROVE Inv'
  BY <1>2, ConfirmMoves DEF LoseAnswer
<1>3. CASE UNCHANGED vars
  <2>1. /\ UNCHANGED <<payment, acquirer, answers, events, job>>
        /\ Rows' = Rows /\ Rows \in RowsType
    BY <1>3 DEF vars, Rows, Inv, Types
  <2> QED BY <2>1, QuietWorld, LikeItself
<1> QED
  BY <1>1, <1>2, <1>3, MissingMethodMoves, OutageMoves, CrashMoves, ClaimMoves,
     PayInvoiceMoves, PayerMoves, SettlesMoves, CancelPaymentMoves, EventMoves,
     TimeMoves, VoidInvoiceMoves, OutOfBandMoves, RenewMoves, ExpireMoves, CancelMoves
  DEF Next

\* The invariant, for every value of the constants.
THEOREM InvAlways == ASSUME CollectionBounds PROVE Spec => []Inv
<1>1. Init => Inv BY InvInit
<1>2. Inv /\ [Next]_vars => Inv' BY InvStays
<1> QED BY <1>1, <1>2, PTL DEF Spec

\* Whatever the workers, payer, merchant and acquirer do to one another's rows,
\* each row stays what its schema allows.
THEOREM TypesHold == ASSUME CollectionBounds PROVE Spec => []TypeOK
<1>1. Inv => TypeOK
  <2> SUFFICES ASSUME Inv PROVE TypeOK OBVIOUS
  <2>1. /\ subscription \in SubscriptionType /\ invoice \in [Invoices -> InvoiceType]
        /\ payment \in PaymentsType
        /\ \A k \in Payments : acquirer[k].status \in Held \cup {"none"}
    BY DEF Inv, Types, Rows, RowsType, AcquirerType
  <2>2. Held \subseteq Statuses BY DEF Held, Statuses
  <2>3. \A e \in events : e.pay \in Payments /\ e.kind \in CardEvents
    BY DEF Inv, EventIsTrue
  <2> QED
    BY <2>1, <2>2, <2>3, Domains
    DEF TypeOK, SubscriptionType, InvoiceType, InvoiceStatuses, PaymentsType
<1> QED BY <1>1, InvAlways, PTL

\* However many attempts overlap on an invoice - after a lapsed lease, beside a
\* request, beside the payer's own confirmation - it is charged once.
THEOREM OneInvoiceOneCharge == ASSUME CollectionBounds PROVE Spec => []ChargedOnce
<1>1. Inv => ChargedOnce
  <2> SUFFICES ASSUME Inv, NEW i \in Invoices
               PROVE  Cardinality({k \in Payments : /\ payment[k].inv = i
                                     /\ acquirer[k].status = "succeeded"}) <= 1
    BY DEF ChargedOnce
  <2> DEFINE charged == {k \in Payments : payment[k].inv = i
                                         /\ acquirer[k].status = "succeeded"}
             one == {invoice[i].link}
  <2>1. charged \subseteq one BY DEF Inv, PaymentIsTrue, LinkHolds
  <2>2. IsFiniteSet(one) /\ Cardinality(one) = 1 BY FS_Singleton
  <2> HIDE DEF charged, one
  <2>3. Cardinality(charged) <= Cardinality(one) /\ Cardinality(charged) \in Nat
    BY <2>1, <2>2, FS_Subset, FS_CardinalityType
  <2>4. Cardinality(charged) <= 1 BY <2>2, <2>3
  <2> QED BY <2>4 DEF charged
<1> QED BY <1>1, InvAlways, PTL

\* An invoice is marked paid by the charge of the payment it still links, or out
\* of band: never by an answer or an event that the acquirer took back.
THEOREM PaidWasCharged == ASSUME CollectionBounds PROVE Spec => []PaidIsCharged
<1>1. Inv => PaidIsCharged
  BY DEF Inv, LinkHolds, ByCard, PaidIsCharged
<1> QED BY <1>1, InvAlways, PTL

-----------------------------------------------------------------------------
(* A subscription does not wait for a latest invoice that is paid.         *)

Waits == {"incomplete", "past_due", "unpaid"}
Restored(b) == b.inv[b.sub.latest].status = "paid" => b.sub.status \notin Waits

LEMMA TransitionRestores ==
  ASSUME NEW b \in RowsType, Restored(b), NEW to \in SubscriptionStatuses,
         to \in Waits => b.inv[b.sub.latest].status # "paid"
  PROVE  Restored(TransitionSubscription(b, to))
<1> PICK c : c = TransitionSubscription(b, to) OBVIOUS
<1>1. CASE c = b BY <1>1
<1>2. CASE c = [b EXCEPT !.sub.status = to]
  <2>1. c.inv = b.inv /\ c.sub.latest = b.sub.latest /\ c.sub.status = to
    BY <1>2 DEF RowsType, SubscriptionType
  <2> QED BY <2>1 DEF Restored
<1> QED BY <1>1, <1>2 DEF TransitionSubscription

LEMMA PastDueRestores ==
  ASSUME NEW b \in RowsType, Restored(b), NEW i \in Invoices, b.inv[i].status # "paid"
  PROVE  Restored(MarkSubscriptionPastDue(b, i))
<1>1. "past_due" \in SubscriptionStatuses BY DEF SubscriptionStatuses
<1> QED BY <1>1, TransitionRestores DEF MarkSubscriptionPastDue

\* The other invoices keep their rows.
Others(b, i, c) == \A j \in Invoices \ {i} : c.inv[j] = b.inv[j]

\* One row is written, and not to "paid".
LEMMA WrittenRestores ==
  ASSUME NEW b \in RowsType, Restored(b), NEW i \in Invoices, NEW n \in InvoiceType,
         n.status = "paid" => b.inv[i].status = "paid"
  PROVE  LET c == With(b, i, n) IN Restored(c) /\ c.sub = b.sub /\ Others(b, i, c)
<1> PICK c : c = With(b, i, n) OBVIOUS
<1>1. /\ c.inv[i] = n /\ \A j \in Invoices \ {i} : c.inv[j] = b.inv[j]
      /\ c.sub = b.sub
  BY InvoiceWritten DEF With, RowsType
<1>2. b.sub.latest \in Invoices BY ZenonT(60) DEF RowsType, SubscriptionType
<1> QED BY <1>1, <1>2 DEF Restored, Others

LEMMA FinalActionRestores ==
  ASSUME CollectionBounds, NEW b \in RowsType, Restored(b), NEW i \in Invoices,
         b.inv[i].status # "paid"
  PROVE  LET c == RunFinalDunningAction(b, i) IN Restored(c) /\ Others(b, i, c)
<1> PICK r \in InvoiceType : r = b.inv[i] BY DEF RowsType
<1> PICK n : n = [r EXCEPT !.exhausted = TRUE, !.due = "none"] OBVIOUS
<1> PICK u : u = [n EXCEPT !.status = "uncollectible"] OBVIOUS
<1>1. n \in InvoiceType /\ n.status # "paid" BY DEF InvoiceType, Instants
<1>2. u \in InvoiceType /\ u.status # "paid"
  BY <1>1 DEF InvoiceType, InvoiceStatuses
<1> PICK spent : spent = With(b, i, n) OBVIOUS
<1>3. /\ spent \in RowsType /\ Restored(spent) /\ spent.inv[i] = n
      /\ spent.sub = b.sub /\ Others(b, i, spent)
  BY ONLY <1>1, InvoiceWritten, WrittenRestores, b \in RowsType, Restored(b),
          i \in Invoices, spent = With(b, i, n)
<1> PICK done : done = With(spent, i, u) OBVIOUS
<1>4. /\ done \in RowsType /\ Restored(done) /\ done.inv[i] = u
      /\ done.sub = b.sub /\ Others(b, i, done)
  BY ONLY ZenonT(60), <1>2, <1>3, InvoiceWritten, WrittenRestores, i \in Invoices,
          done = With(spent, i, u), Others(b, i, spent) DEF Others
<1> PICK left : left = IF InvoiceAction = "mark_uncollectible" /\ b.inv[i].status = "open"
                       THEN [spent EXCEPT !.inv[i].status = "uncollectible"] ELSE spent
  OBVIOUS
<1>5. /\ spent = [b EXCEPT !.inv[i].exhausted = TRUE, !.inv[i].due = "none"]
      /\ done = [spent EXCEPT !.inv[i].status = "uncollectible"]
  <2>1. spent = [b EXCEPT !.inv[i].exhausted = TRUE, !.inv[i].due = "none"]
    BY DEF RowsType, InvoiceType, With
  <2>2. done = [spent EXCEPT !.inv[i].status = "uncollectible"]
    BY <1>3 DEF RowsType, InvoiceType, With
  <2> QED BY <2>1, <2>2
<1>6. /\ left \in RowsType /\ Restored(left) /\ left.inv[i].status # "paid"
      /\ left.sub = b.sub /\ Others(b, i, left)
  BY <1>1, <1>2, <1>3, <1>4, <1>5
<1>7. (IF FinalAction = "cancel" THEN "canceled" ELSE FinalAction) \in SubscriptionStatuses
  BY DEF CollectionBounds, SubscriptionStatuses
<1> PICK to \in SubscriptionStatuses :
      to = IF FinalAction = "cancel" THEN "canceled" ELSE FinalAction
  BY <1>7
<1>8. ASSUME b.sub.latest = i
      PROVE  /\ Restored(TransitionSubscription(left, to))
             /\ Others(b, i, TransitionSubscription(left, to))
  <2>1. left.inv[left.sub.latest].status # "paid" BY <1>6, <1>8
  <2>2. Restored(TransitionSubscription(left, to))
    BY ONLY <1>6, <2>1, to \in SubscriptionStatuses, TransitionRestores
  <2>3. TransitionSubscription(left, to).inv = left.inv
    BY ONLY <1>6, to \in SubscriptionStatuses, SubscriptionMoves
  <2> QED BY ZenonT(60), <1>6, <2>2, <2>3 DEF Others
<1>9. Others(b, i, b) BY DEF Others
<1> QED BY <1>5, <1>6, <1>8, <1>9 DEF RunFinalDunningAction

LEMMA FailedAttemptRestores ==
  ASSUME CollectionBounds, NEW b \in RowsType, Restored(b), NEW i \in Invoices,
         b.inv[i].status # "paid"
  PROVE  LET c == RecordFailedAttempt(b, i) IN Restored(c) /\ Others(b, i, c)
<1> DEFINE attempts == b.inv[i].attempts + 1
           dunned == Reason(i) # "subscription_create"
           again == dunned /\ attempts <= Retries
<1> PICK r \in InvoiceType : r = b.inv[i] BY DEF RowsType
<1> PICK n : n = [r EXCEPT !.attempts = attempts, !.due = IF again THEN "later" ELSE "none"]
  OBVIOUS
<1>1. attempts \in Nat BY DEF InvoiceType
<1> HIDE DEF attempts, again
<1>2. n \in InvoiceType /\ n.status # "paid" BY <1>1 DEF InvoiceType, Instants
<1> PICK tried : tried = [b EXCEPT !.inv[i].attempts = attempts,
                                   !.inv[i].due = IF again THEN "later" ELSE "none"]
  OBVIOUS
<1>3. tried = With(b, i, n) BY DEF RowsType, InvoiceType, With
<1>4. /\ tried \in RowsType /\ Restored(tried) /\ tried.inv[i].status # "paid"
      /\ Others(b, i, tried)
  BY ONLY <1>2, <1>3, InvoiceWritten, WrittenRestores, b \in RowsType, Restored(b),
          i \in Invoices
<1> PICK counted : counted = MarkSubscriptionPastDue(tried, i) OBVIOUS
<1>5. /\ counted \in RowsType /\ Restored(counted) /\ counted.inv[i].status # "paid"
      /\ Others(b, i, counted)
  BY <1>4, PastDueMoves, PastDueRestores DEF Others
<1>6. /\ Restored(RunFinalDunningAction(counted, i))
      /\ Others(b, i, RunFinalDunningAction(counted, i))
  BY <1>5, FinalActionRestores DEF Others
<1>7. RecordFailedAttempt(b, i) =
        IF dunned /\ ~again THEN RunFinalDunningAction(counted, i) ELSE counted
  BY DEF RecordFailedAttempt, attempts, again
<1> QED BY <1>5, <1>6, <1>7

\* activateOnPayment leaves from every state of dunning.
LEMMA PaidRestored ==
  ASSUME NEW b \in RowsType, Restored(b), NEW i \in Invoices, NEW byCard \in BOOLEAN
  PROVE  Restored(MarkInvoicePaid(b, i, byCard))
<1> PICK r \in InvoiceType : r = b.inv[i] BY DEF RowsType
<1> PICK more \in {0, 1} : more = IF byCard THEN 1 ELSE 0 OBVIOUS
<1> PICK n : n = PaidRow(r, byCard) OBVIOUS
<1>1. r.attempts + more \in Nat BY DEF InvoiceType
<1>2. n \in InvoiceType BY <1>1 DEF InvoiceType, InvoiceStatuses, Instants, PaidRow
<1> PICK paid : paid = With(b, i, n) OBVIOUS
<1>3. /\ paid \in RowsType /\ paid.sub = b.sub
      /\ \A j \in Invoices \ {i} : paid.inv[j] = b.inv[j]
  BY ONLY <1>2, InvoiceWritten, b \in RowsType, i \in Invoices, paid = With(b, i, n)
     DEF With, RowsType
<1> PICK c : c = ActivateOnPayment(paid, i) OBVIOUS
<1>4. c = MarkInvoicePaid(b, i, byCard) BY DEF MarkInvoicePaid, With
<1>5. CASE paid.sub.latest = i /\ paid.sub.status \in Waits
  <2>1. SubscriptionMayMove(paid.sub.status, "active")
    BY <1>5 DEF Waits, SubscriptionMayMove, SubscriptionAllowed
  <2>2. c = [paid EXCEPT !.sub.status = "active"]
    BY <1>5, <2>1 DEF ActivateOnPayment, Waits, TransitionSubscription
  <2>3. c.sub.status = "active" BY <1>3, <2>2 DEF RowsType, SubscriptionType
  <2> QED BY <1>4, <2>3 DEF Restored, Waits
<1>6. CASE ~(paid.sub.latest = i /\ paid.sub.status \in Waits)
  <2>1. c = paid BY <1>6 DEF ActivateOnPayment, Waits
  <2>2. paid.sub.latest \in Invoices BY <1>3 DEF RowsType, SubscriptionType
  <2> QED BY <1>3, <1>4, <1>6, <2>1, <2>2 DEF Restored
<1> QED BY <1>5, <1>6

LEMMA VoidRestores ==
  ASSUME NEW b \in RowsType, Restored(b), NEW i \in Invoices
  PROVE  Restored(VoidInvoiceIn(b, i))
<1> PICK r \in InvoiceType : r = b.inv[i] BY DEF RowsType
<1> PICK n : n = [r EXCEPT !.status = "void", !.due = "none"] OBVIOUS
<1>1. n \in InvoiceType /\ n.status # "paid"
  BY DEF InvoiceType, InvoiceStatuses, Instants
<1>2. VoidInvoiceIn(b, i) = With(b, i, n)
  BY DEF VoidInvoiceIn, RowsType, InvoiceType, With
<1> QED
  BY ONLY <1>1, <1>2, WrittenRestores, b \in RowsType, Restored(b), i \in Invoices

LEMMA HookRestores ==
  ASSUME CollectionBounds, NEW b \in RowsType, Restored(b), NEW k \in Payments,
         NEW from, NEW to
  PROVE  Restored(OnPaymentTransition(b, k, from, to))
<1> PICK c : c = OnPaymentTransition(b, k, from, to) OBVIOUS
<1> PICK i : i = CHOOSE j \in Invoices : b.inv[j].link = k BY SMTT(60)
<1>1. CASE \A j \in Invoices : b.inv[j].link # k
  BY Zenon, <1>1 DEF OnPaymentTransition
<1>2. CASE \E j \in Invoices : b.inv[j].link = k
  <2>1. i \in Invoices BY <1>2
  <2> PICK r \in InvoiceType : r = b.inv[i] BY <2>1 DEF RowsType
  <2>2. CASE c = MarkInvoicePaid(b, i, TRUE)
    <3> PICK yes \in BOOLEAN : yes = TRUE OBVIOUS
    <3> QED BY <2>1, <2>2, PaidRestored
  <2>3. CASE r.status = "open" /\ c = RecordFailedAttempt(b, i)
    BY <2>1, <2>3, FailedAttemptRestores
  <2>4. CASE /\ r.status = "open"
             /\ c = MarkSubscriptionPastDue(
                      [b EXCEPT !.inv[i].attempts = @ + 1, !.inv[i].due = "none"], i)
    <3> PICK n : n = [r EXCEPT !.attempts = @ + 1, !.due = "none"] BY Zenon
    <3>1. r.attempts + 1 \in Nat BY SMTT(60) DEF InvoiceType
    <3>2. n \in InvoiceType /\ n.status # "paid"
      BY ZenonT(60), <2>4, <3>1 DEF InvoiceType, Instants
    <3> PICK d : d = [b EXCEPT !.inv[i].attempts = @ + 1, !.inv[i].due = "none"] BY Zenon
    <3>3. d = With(b, i, n)
      BY ONLY <2>1, b \in RowsType, r = b.inv[i], r \in InvoiceType,
              n = [r EXCEPT !.attempts = @ + 1, !.due = "none"],
              d = [b EXCEPT !.inv[i].attempts = @ + 1, !.inv[i].due = "none"]
         DEF RowsType, InvoiceType, With
    <3>4. d \in RowsType /\ Restored(d) /\ d.inv[i].status # "paid"
      BY ONLY <2>1, <3>2, <3>3, InvoiceWritten, WrittenRestores, b \in RowsType, Restored(b)
    <3> QED BY ZenonT(60), <2>1, <2>4, <3>4, PastDueRestores
  <2>5. CASE r.status = "open" /\ c = [b EXCEPT !.inv[i].link = 0]
    <3> PICK n : n = [r EXCEPT !.link = 0] OBVIOUS
    <3>1. n \in InvoiceType /\ n.status # "paid"
      <4>1. 0 \in 0..MaxPayments BY DEF CollectionBounds
      <4> QED BY <2>5, <4>1 DEF InvoiceType
    <3>2. c = With(b, i, n) BY <2>1, <2>5 DEF RowsType, InvoiceType, With
    <3> QED BY ONLY <2>1, <3>1, <3>2, WrittenRestores, b \in RowsType, Restored(b),
                    c = OnPaymentTransition(b, k, from, to)
  <2>6. CASE c = b BY <2>6
  <2> QED BY Zenon, <1>2, <2>2, <2>3, <2>4, <2>5, <2>6 DEF OnPaymentTransition
<1> QED BY <1>1, <1>2

-----------------------------------------------------------------------------
\* Whoever writes one row, and no subscription, makes nothing paid.
LEMMA RowRestores ==
  ASSUME Inv, Restored(Rows), NEW i \in Invoices, NEW n,
         n.status = "paid" => invoice[i].status = "paid",
         UNCHANGED subscription, invoice' = [invoice EXCEPT ![i] = n]
  PROVE  Restored(Rows')
<1>1. subscription.latest \in Invoices /\ invoice \in [Invoices -> InvoiceType]
  BY DEF Inv, Types, Rows, RowsType, SubscriptionType
<1> QED BY <1>1 DEF Restored, Rows

LEMMA FinishRestores ==
  ASSUME Inv, Restored(Rows), NEW w \in Workers, NEW row \in InvoiceType,
         row.status = "paid" => invoice[job[w].inv].status = "paid",
         Finish(w, row), UNCHANGED subscription
  PROVE  Restored(Rows')
<1> PICK i \in Invoices : i = job[w].inv BY JobTyped
<1> PICK n : n = Ended(row, job[w].auto) OBVIOUS
<1>1. invoice' = [invoice EXCEPT ![i] = n] BY DEF Finish, Ended
<1>2. n.status = row.status BY DEF Ended, InvoiceType
<1> QED BY <1>1, <1>2, RowRestores

LEMMA AttemptRestores ==
  ASSUME CollectionBounds, Inv, Restored(Rows), NEW w \in Workers, Attempt(w)
  PROVE  Restored(Rows')
<1> PICK r \in InvoiceType : r = invoice[job[w].inv] BY JobTyped
<1>1. CASE UNCHANGED billing BY <1>1 DEF billing, Rows
<1>2. ASSUME NEW row \in InvoiceType, row.status = "paid" => r.status = "paid",
             Finish(w, row), UNCHANGED subscription
      PROVE  Restored(Rows')
  BY <1>2, FinishRestores
<1>3. CASE RunInvoiceStep(w)
  <2>1. /\ [r EXCEPT !.status = "open"] \in InvoiceType
        /\ [r EXCEPT !.status = "open"].status = "open"
        /\ [r EXCEPT !.due = "none"] \in InvoiceType
        /\ [r EXCEPT !.due = "none"].status = r.status
    BY DEF InvoiceType, InvoiceStatuses, Instants
  <2> QED BY <1>1, <1>2, <1>3, <2>1 DEF RunInvoiceStep, Goto, billing
<1>4. CASE AttemptInvoicePayment(w)
  BY ZenonT(60), <1>1, <1>2, <1>4 DEF AttemptInvoicePayment, billing
<1>5. CASE IntentFor(w) BY <1>1, <1>2, <1>5 DEF IntentFor, billing
<1>6. CASE LinkIntent(w)
  <2> PICK i \in Invoices : i = job[w].inv BY JobTyped
  <2> PICK n : n = [r EXCEPT !.link = job[w].pay] OBVIOUS
  <2>1. n.status = r.status BY DEF InvoiceType
  <2>2. CASE MayLink(w)
    <3>1. invoice' = [invoice EXCEPT ![i] = n] /\ UNCHANGED subscription
      BY <1>6, <2>2 DEF LinkIntent
    <3> QED BY <2>1, <3>1, RowRestores
  <2>3. CASE ~MayLink(w) BY <1>2, <1>6, <2>3 DEF LinkIntent
  <2> QED BY <2>2, <2>3
<1>7. CASE Prepare(w) BY <1>1, <1>7 DEF Prepare, Goto, billing
<1>8. CASE ConfirmCard(w) BY <1>1, <1>2, <1>8 DEF ConfirmCard, Confirm, billing
<1>9. CASE ApplyAnswer(w)
  <2>1. CASE UNCHANGED billing BY <1>1, <2>1
  <2>2. ASSUME NEW from, NEW to, TransitionIntent(job[w].pay, from, to)
        PROVE  Restored(Rows')
    <3>1. job[w].pay \in Payments BY <1>9, JobTyped DEF ApplyAnswer, AttemptIsTrue
    <3>2. CASE Commit(OnPaymentTransition(Rows, job[w].pay, from, to))
      <4> PICK c : c = OnPaymentTransition(Rows, job[w].pay, from, to) OBVIOUS
      <4>1. Restored(c) BY <3>1, HookRestores DEF Inv, Types
      <4>2. Rows'.sub = c.sub /\ Rows'.inv = c.inv BY <3>2 DEF Commit, Rows
      <4> QED BY <4>1, <4>2 DEF Restored
    <3> QED BY <1>1, <2>2, <3>2 DEF TransitionIntent
  <2> QED BY <1>9, <2>1, <2>2 DEF ApplyAnswer
<1>10. CASE SettleAttemptSchedule(w)
  <2> PICK n : n = [r EXCEPT !.due = "none"] OBVIOUS
  <2>1. n \in InvoiceType /\ n.status = r.status BY DEF InvoiceType, Instants
  <2> QED BY <1>2, <1>10, <2>1 DEF SettleAttemptSchedule
<1>11. CASE DeferAttempt(w)
  <2> PICK n : n = [r EXCEPT !.due = "later"] OBVIOUS
  <2>1. n \in InvoiceType /\ n.status = r.status BY DEF InvoiceType, Instants
  <2> QED BY <1>2, <1>11, <2>1 DEF DeferAttempt
<1> QED BY <1>3, <1>4, <1>5, <1>6, <1>7, <1>8, <1>9, <1>10, <1>11 DEF Attempt

\* A transaction commits what keeps a subscription from waiting.
LEMMA CommitRestores ==
  ASSUME NEW c, Restored(c), Commit(c) PROVE Restored(Rows')
BY DEF Commit, Rows, Restored

LEMMA WorkerRestores ==
  ASSUME CollectionBounds, Inv, Restored(Rows), NEW w \in Workers,
         \/ RecordMissingPaymentMethod(w) \/ LoseAnswer(w) \/ Outage(w) \/ Crash(w)
         \/ \E i \in Invoices : ClaimDueInvoice(w, i) \/ PayInvoice(w, i)
  PROVE  Restored(Rows')
<1>1. CASE UNCHANGED billing BY <1>1 DEF billing, Rows
<1> PICK r \in InvoiceType : r = invoice[job[w].inv] BY ZenonT(60), JobTyped
<1>2. CASE RecordMissingPaymentMethod(w)
  <2> PICK i \in Invoices : i = job[w].inv BY JobTyped
  <2>0. Rows \in RowsType /\ Rows.inv = invoice BY DEF Inv, Types, Rows
  <2> PICK c : /\ c = IF job[w].auto /\ invoice[i].status = "open"
                      THEN RecordFailedAttempt(Rows, i) ELSE Rows
               /\ subscription' = c.sub /\ Finish(w, c.inv[i])
    BY <1>2 DEF RecordMissingPaymentMethod
  <2>1. Like(Rows, c) BY <2>0, FailedAttemptMoves, LikeItself
  <2>2. Restored(c) /\ Others(Rows, i, c) BY <2>0, FailedAttemptRestores DEF Others
  <2>3. c \in RowsType BY <2>1 DEF Like
  <2> PICK row \in InvoiceType : row = c.inv[i] BY <2>3 DEF RowsType
  <2> PICK n : n = Ended(row, job[w].auto) BY ZenonT(60)
  <2>4. invoice' = [invoice EXCEPT ![i] = n] BY ZenonT(60) DEF Finish, Ended
  <2>5. n.status = row.status BY ZenonT(60) DEF Ended, InvoiceType
  <2>6. invoice'[i] = n /\ \A j \in Invoices \ {i} : invoice'[j] = c.inv[j]
    BY ZenonT(60), <2>0, <2>2, <2>4 DEF Others, RowsType
  <2>7. c.sub.latest \in Invoices BY ZenonT(60), <2>3 DEF RowsType, SubscriptionType
  <2>8. \A j \in Invoices : invoice'[j].status = c.inv[j].status BY ZenonT(60), <2>5, <2>6
  <2>9. subscription' = c.sub OBVIOUS
  <2> QED BY ZenonT(60), <2>2, <2>7, <2>8, <2>9 DEF Restored, Rows
<1>3. CASE LoseAnswer(w)
  BY <1>1, <1>3, FinishRestores DEF LoseAnswer, Confirm, billing
<1>4. CASE Outage(w) BY <1>1, <1>4 DEF Outage, Goto, billing
<1>5. CASE Crash(w) BY <1>1, <1>5 DEF Crash
<1>6. ASSUME NEW i \in Invoices, ClaimDueInvoice(w, i) PROVE Restored(Rows')
  <2> PICK s \in InvoiceType : s = invoice[i] BY DEF Inv, Types, Rows, RowsType
  <2> PICK n : n = [s EXCEPT !.leased = TRUE] OBVIOUS
  <2>1. n.status = s.status BY DEF InvoiceType
  <2>2. invoice' = [invoice EXCEPT ![i] = n] /\ UNCHANGED subscription
    BY <1>6 DEF ClaimDueInvoice
  <2> QED BY <2>1, <2>2, RowRestores
<1>7. ASSUME NEW i \in Invoices, PayInvoice(w, i) PROVE Restored(Rows')
  BY <1>1, <1>7 DEF PayInvoice
<1> QED BY <1>2, <1>3, <1>4, <1>5, <1>6, <1>7

LEMMA WorldRestores ==
  ASSUME CollectionBounds, Inv, Restored(Rows),
         \/ \E k \in Payments : PayerConfirms(k) \/ AcquirerSettles(k) \/ CancelPayment(k)
         \/ \E e \in events : ProcessProviderEvent(e)
         \/ \E i \in Invoices : \/ LeaseLapses(i) \/ FallsDue(i) \/ VoidInvoice(i)
                                \/ MarkInvoiceUncollectible(i) \/ PaidOutOfBand(i)
                                \/ FinalizeInvoice(i)
         \/ Renew \/ ExpireIncomplete \/ CancelSubscriptionNow
  PROVE  Restored(Rows')
<1>0. Rows \in RowsType /\ Rows.inv = invoice /\ Rows.sub = subscription
  BY DEF Inv, Types, Rows
<1>1. CASE UNCHANGED billing BY <1>1 DEF billing, Rows
<1>2. ASSUME NEW k \in Payments, PayerConfirms(k) \/ AcquirerSettles(k) \/ CancelPayment(k)
      PROVE  Restored(Rows')
  BY <1>1, <1>2 DEF PayerConfirms, AcquirerSettles, CancelPayment
<1>3. ASSUME NEW e \in events, ProcessProviderEvent(e) PROVE Restored(Rows')
  <2>1. e.pay \in Payments BY <1>3 DEF Inv, EventIsTrue
  <2>2. ASSUME NEW from, NEW to, TransitionIntent(e.pay, from, to) PROVE Restored(Rows')
    <3>1. Restored(OnPaymentTransition(Rows, e.pay, from, to)) BY <1>0, <2>1, HookRestores
    <3> QED BY <1>1, <2>2, <3>1, CommitRestores DEF TransitionIntent
  <2> QED BY <1>1, <1>3, <2>2 DEF ProcessProviderEvent
<1>4. ASSUME NEW i \in Invoices,
             \/ LeaseLapses(i) \/ FallsDue(i) \/ VoidInvoice(i)
             \/ MarkInvoiceUncollectible(i) \/ PaidOutOfBand(i) \/ FinalizeInvoice(i)
      PROVE  Restored(Rows')
  <2> PICK s \in InvoiceType : s = invoice[i] BY DEF Inv, Types, Rows, RowsType
  <2>1. /\ [s EXCEPT !.leased = FALSE].status = s.status
        /\ [s EXCEPT !.due = "now"].status = s.status
        /\ [s EXCEPT !.status = "uncollectible", !.due = "none"].status = "uncollectible"
    BY DEF InvoiceType
  <2>2. ASSUME NEW n, n.status = "paid" => s.status = "paid",
               invoice' = [invoice EXCEPT ![i] = n], UNCHANGED subscription
        PROVE  Restored(Rows')
    BY <2>2, RowRestores
  <2>3. LeaseLapses(i) => Restored(Rows')
    <3> SUFFICES ASSUME LeaseLapses(i) PROVE Restored(Rows') OBVIOUS
    <3> PICK n : n = [s EXCEPT !.leased = FALSE] OBVIOUS
    <3>1. invoice' = [invoice EXCEPT ![i] = n] /\ UNCHANGED subscription
      BY DEF LeaseLapses
    <3> QED BY <2>1, <2>2, <3>1
  <2>4. FallsDue(i) => Restored(Rows')
    <3> SUFFICES ASSUME FallsDue(i) PROVE Restored(Rows') OBVIOUS
    <3> PICK n : n = [s EXCEPT !.due = "now"] OBVIOUS
    <3>1. invoice' = [invoice EXCEPT ![i] = n] /\ UNCHANGED subscription
      BY DEF FallsDue
    <3> QED BY <2>1, <2>2, <3>1
  <2>5. MarkInvoiceUncollectible(i) => Restored(Rows')
    <3> SUFFICES ASSUME MarkInvoiceUncollectible(i) PROVE Restored(Rows') OBVIOUS
    <3> PICK n : n = [s EXCEPT !.status = "uncollectible", !.due = "none"] OBVIOUS
    <3>1. invoice' = [invoice EXCEPT ![i] = n] /\ UNCHANGED subscription
      BY DEF MarkInvoiceUncollectible
    <3> QED BY <2>1, <2>2, <3>1
  <2>6. VoidInvoice(i) => Restored(Rows')
    BY <1>0, VoidRestores, CommitRestores DEF VoidInvoice
  <2>7. PaidOutOfBand(i) => Restored(Rows')
    <3> PICK no \in BOOLEAN : no = FALSE OBVIOUS
    <3> QED BY <1>0, PaidRestored, CommitRestores DEF PaidOutOfBand
  <2>8. FinalizeInvoice(i) => Restored(Rows')
    <3> SUFFICES ASSUME FinalizeInvoice(i) PROVE Restored(Rows') OBVIOUS
    <3> PICK due : due = IF s.due = "none" THEN "none" ELSE "now" OBVIOUS
    <3> PICK n : n = [s EXCEPT !.status = "open", !.due = due] OBVIOUS
    <3>1. invoice' = [invoice EXCEPT ![i] = n] /\ UNCHANGED subscription
      BY DEF FinalizeInvoice, InvoiceType
    <3>2. n.status = "open" BY DEF InvoiceType
    <3> QED BY <2>2, <3>1, <3>2
  <2> QED BY <1>4, <2>3, <2>4, <2>5, <2>6, <2>7, <2>8
<1>5. CASE Renew
  <2> PICK next : next = subscription.latest + 1 OBVIOUS
  <2>1. next \in Invoices /\ subscription' = [subscription EXCEPT !.latest = next]
        /\ invoice'[next].status = "draft"
    BY <1>0, <1>5 DEF Renew, RowsType, InvoiceType
  <2>2. subscription'.latest = next BY <1>0, <2>1 DEF RowsType, SubscriptionType
  <2> QED BY <2>1, <2>2 DEF Restored, Rows
<1>6. CASE ExpireIncomplete
  <2> PICK c : c = TransitionSubscription(Rows, "incomplete_expired") OBVIOUS
  <2>1. "incomplete_expired" \in SubscriptionStatuses /\ "incomplete_expired" \notin Waits
    BY DEF SubscriptionStatuses, Waits
  <2>2. Restored(c) /\ c \in RowsType
    BY <1>0, <2>1, TransitionRestores, SubscriptionMoves
  <2>3. subscription.latest \in Invoices BY <1>0 DEF RowsType, SubscriptionType
  <2>4. Restored(VoidInvoiceIn(c, subscription.latest)) BY <2>2, <2>3, VoidRestores
  <2> QED BY <1>6, <2>2, <2>4, CommitRestores DEF ExpireIncomplete
<1>7. CASE CancelSubscriptionNow
  <2>1. "canceled" \in SubscriptionStatuses /\ "canceled" \notin Waits
    BY DEF SubscriptionStatuses, Waits
  <2>2. Restored(TransitionSubscription(Rows, "canceled"))
    BY <1>0, <2>1, TransitionRestores
  <2> QED BY <1>7, <2>2, CommitRestores DEF CancelSubscriptionNow
<1> QED BY <1>2, <1>3, <1>4, <1>5, <1>6, <1>7

\* However late the latest invoice is paid, and from whatever state of dunning,
\* onInvoicePaymentTransition and markInvoicePaid leave no subscription waiting
\* for it, and nothing that still runs makes it wait again.
THEOREM PaidInvoiceRestores == ASSUME CollectionBounds PROVE Spec => []PaidRestores
<1>1. Init => Restored(Rows)
  <2>1. Init => invoice[1].status # "paid" /\ subscription.latest = 1
    BY DEF Init, Invoices, NoInvoice, CollectionBounds
  <2> QED BY <2>1 DEF Restored, Rows
<1>2. Inv /\ Restored(Rows) /\ [Next]_vars => Restored(Rows')
  <2>1. UNCHANGED vars => Rows' = Rows BY DEF vars, Rows
  <2> QED BY <2>1, AttemptRestores, WorkerRestores, WorldRestores DEF Next
<1>3. Restored(Rows) => PaidRestores BY DEF Restored, Rows, PaidRestores, Waits
<1>4. Restored(Rows)' <=> Restored(Rows') BY DEF Restored, Rows
<1>5. Inv /\ Restored(Rows) /\ [Next]_vars => Restored(Rows)' BY <1>2, <1>4
<1> QED BY <1>1, <1>3, <1>5, InvAlways, PTL DEF Spec

-----------------------------------------------------------------------------
(*****************************************************************************)
(* Collections at terminal readers, for any readers, payments, workers and   *)
(* bounds. Executions hold copies of a reader's action that may be old;      *)
(* what makes them harmless is that an attempt's number is never given       *)
(* twice, so a copy with the number of an attempt in progress is of that     *)
(* attempt, names its payment, and nobody has told its end.                  *)
(*****************************************************************************)
CONSTANTS Readers, DeskPayments, MaxAttempts
VARIABLES action, started, device, paid, known, told

Desk == INSTANCE TerminalReader WITH Payments <- DeskPayments

DeskStatuses == Desk!Outcomes \cup {"none", "in_progress"}
ActionType ==
  [n : 0..MaxAttempts, payment : DeskPayments \cup {"none"}, status : DeskStatuses,
   acked : BOOLEAN, aged : BOOLEAN]
Collection == [payment : DeskPayments \cup {"none"}, status : DeskStatuses]
DeskJobType ==
      [pc : Desk!Pcs, reader : Readers \cup {"none"}, payment : DeskPayments \cup {"none"},
       before : ActionType, row : ActionType, read : Collection,
       outcome : Desk!Outcomes \cup {"none"}]

\* What an execution at work names.
Names(j) ==
  /\ j.pc # "idle" => j.reader \in Readers
  /\ j.pc \in {"before", "claim", "send", "ack", "release"} => j.payment \in DeskPayments
  /\ j.pc = "settle" => j.outcome \in Desk!Outcomes

DeskTypes ==
      /\ action \in [Readers -> ActionType] /\ started \in 0..MaxAttempts
      /\ device \in [Readers -> Collection]
      /\ \A r \in Readers : device[r].status = "in_progress"
           => device[r].payment \in DeskPayments
      /\ paid \subseteq DeskPayments /\ known \subseteq paid
      /\ told \in [1..MaxAttempts -> [Desk!Outcomes -> Nat]]
      /\ job \in [Workers -> DeskJobType] /\ \A w \in Workers : Names(job[w])
      /\ faults \in 0..MaxFaults

\* The attempts anything speaks of: those of the readers' rows and of the copies.
Pair(a) == <<a.n, a.payment>>
Pairs ==
  {Pair(action[r]) : r \in Readers} \cup {Pair(job[w].row) : w \in Workers}
    \cup {Pair(job[w].before) : w \in Workers}

\* An attempt has been started, and has one payment.
Numbered ==
  /\ \A x \in Pairs : x[1] \in 0..started /\ (x[1] = 0 => x[2] = "none")
  /\ \A x, y \in Pairs : x[1] = y[1] => x[2] = y[2]

\* An attempt in progress is of one reader and is still to be told of; so are
\* the attempts to come.
Untold(n) == told[n]["succeeded"] = 0 /\ told[n]["failed"] = 0
Open ==
  /\ \A r \in Readers : Desk!InProgress(action[r]) =>
       action[r].n \in 1..started /\ Untold(action[r].n)
  /\ \A r, q \in Readers :
       Desk!InProgress(action[r]) /\ Desk!InProgress(action[q]) /\ action[r].n = action[q].n
         => r = q
  /\ \A n \in 1..MaxAttempts : n > started => Untold(n)

\* A success that anything speaks of is of a payment the provider took.
TrueJob(j) ==
  /\ j.read.status = "succeeded" => j.read.payment \in paid
  /\ j.before.status = "succeeded" => j.before.payment \in paid
  /\ j.pc = "settle" /\ j.outcome = "succeeded" => j.row.payment \in paid
Truth ==
  /\ \A r \in Readers : device[r].status = "succeeded" => device[r].payment \in paid
  /\ \A w \in Workers : TrueJob(job[w])
  /\ Desk!SuccessWasTaken

-----------------------------------------------------------------------------
NoPair == <<0, "none">>

\* A job that an execution may come to hold.
Sane(j) ==
  /\ j \in DeskJobType /\ Names(j) /\ TrueJob(j)
  /\ Pair(j.before) \in Pairs \cup {NoPair}

LEMMA IdleIsSane ==
  ASSUME Desk!TerminalBounds
  PROVE  /\ Desk!NoAction \in ActionType /\ Desk!NoCollection \in Collection
           /\ Sane(Desk!Idle)
         /\ Pair(Desk!NoAction) = NoPair /\ Pair(Desk!Idle.row) = NoPair
         /\ Desk!Idle.pc = "idle" /\ ~Desk!InProgress(Desk!NoAction)
<1>1. Desk!NoAction \in ActionType /\ Pair(Desk!NoAction) = NoPair
        /\ Desk!NoAction.status = "none"
  BY DEF Desk!NoAction, ActionType, DeskStatuses, Desk!TerminalBounds, Pair, NoPair
<1>2. Desk!NoCollection \in Collection /\ Desk!NoCollection.status = "none"
  BY DEF Desk!NoCollection, Collection, DeskStatuses
<1>3. Desk!Idle.before = Desk!NoAction /\ Desk!Idle.row = Desk!NoAction
        /\ Desk!Idle.read = Desk!NoCollection /\ Desk!Idle.pc = "idle"
  BY DEF Desk!Idle
<1>4. Desk!Idle \in DeskJobType BY <1>1, <1>2 DEF Desk!Idle, DeskJobType, Desk!Pcs
<1>5. Names(Desk!Idle) /\ TrueJob(Desk!Idle) BY <1>1, <1>2, <1>3 DEF Names, TrueJob
<1> QED BY <1>1, <1>2, <1>3, <1>4, <1>5 DEF Sane, Desk!InProgress

\* What an execution holds.
LEMMA DeskHeld ==
  ASSUME DeskTypes, Truth, NEW w \in Workers
  PROVE  /\ job[w] \in DeskJobType /\ Names(job[w]) /\ TrueJob(job[w])
         /\ Pair(job[w].before) \in Pairs /\ Pair(job[w].row) \in Pairs
         /\ Desk!Reader(w) = job[w].reader
BY DEF DeskTypes, Truth, Pairs, Desk!Reader

LEMMA DeskRows ==
  ASSUME DeskTypes, NEW r \in Readers
  PROVE  action[r] \in ActionType /\ device[r] \in Collection /\ Pair(action[r]) \in Pairs
BY DEF DeskTypes, Pairs

\* Where an execution goes from what it holds.
LEMMA MovesFrom ==
  ASSUME DeskTypes, Truth, NEW w \in Workers, NEW j \in DeskJobType, job[w].pc # "idle",
         j.reader = job[w].reader, j.payment = job[w].payment,
         j.pc \in {"before", "claim", "send", "ack", "release"} =>
           job[w].pc \in {"before", "claim", "send", "ack", "release"},
         j.pc = "settle" => j.outcome \in Desk!Outcomes,
         j.pc = "settle" /\ j.outcome = "succeeded" => j.row.payment \in paid,
         j.read.status = "succeeded" => j.read.payment \in paid,
         j.before.status = "succeeded" => j.before.payment \in paid,
         Pair(j.before) \in Pairs \cup {NoPair}
  PROVE  Sane(j)
<1>1. Names(job[w]) BY DeskHeld
<1> QED BY <1>1 DEF Sane, Names, TrueJob

\* A step whose execution holds, afterwards, what it held or what a row says.
Moves(w) ==
  \E j : /\ Desk!Go(w, j) /\ Sane(j)
         /\ Pair(j.row) \in Pairs \cup {NoPair} \cup {Pair(action'[r]) : r \in Readers}

LEMMA IdleMoves ==
  ASSUME Desk!TerminalBounds, NEW w, Desk!Go(w, Desk!Idle) PROVE Moves(w)
BY IdleIsSane DEF Moves


\* The acquirer's side stays as it is.
LEMMA CollectionMoves ==
  ASSUME Desk!TerminalBounds, DeskTypes, Truth, NEW w \in Workers,
         \/ Desk!StartCollection(w) \/ Desk!ReadBefore(w) \/ Desk!ClaimReaderAction(w)
              \/ Desk!ClaimRefused(w)
         \/ Desk!SendCollection(w) \/ Desk!SendCollectionLost(w)
              \/ Desk!ReleaseReaderAction(w)
         \/ Desk!AcknowledgeReaderAction(w)
  PROVE  Moves(w)
<1> DEFINE J == job[w]
<1>0. /\ J \in DeskJobType /\ Names(J) /\ TrueJob(J) /\ Pair(J.before) \in Pairs
      /\ Pair(J.row) \in Pairs /\ Desk!Reader(w) = J.reader
      /\ J.read \in Collection /\ J.row \in ActionType /\ J.before \in ActionType
      /\ J.outcome \in Desk!Outcomes \cup {"none"}
  BY DeskHeld DEF DeskJobType
<1>1. CASE Desk!StartCollection(w)
  <2>1. PICK r \in Readers, p \in DeskPayments :
          Desk!Go(w, [Desk!Idle EXCEPT !.pc = "before", !.reader = r, !.payment = p])
    BY <1>1 DEF Desk!StartCollection
  <2> DEFINE j == [Desk!Idle EXCEPT !.pc = "before", !.reader = r, !.payment = p]
  <2>2. /\ j.pc = "before" /\ j.reader = r /\ j.payment = p /\ j.row = Desk!Idle.row
        /\ j.before = Desk!Idle.before /\ j.read = Desk!Idle.read /\ j \in DeskJobType
    BY IdleIsSane DEF Sane, DeskJobType, Desk!Pcs
  <2> HIDE DEF j
  <2>3. Names(j) BY <2>2 DEF Names
  <2>4. TrueJob(j) BY <2>2, IdleIsSane DEF TrueJob, Sane
  <2>5. Pair(j.row) = NoPair /\ Pair(j.before) \in Pairs \cup {NoPair}
    BY <2>2, IdleIsSane DEF Sane
  <2>6. Desk!Go(w, j) BY <2>1 DEF j
  <2> QED BY <2>2, <2>3, <2>4, <2>5, <2>6 DEF Moves, Sane
<1>2. CASE Desk!ReadBefore(w)
  <2>1. PICK j : j = [J EXCEPT !.pc = "claim", !.before = action[Desk!Reader(w)]] OBVIOUS
  <2>2. J.pc = "before" /\ Desk!Go(w, j) BY <1>2, <2>1 DEF Desk!ReadBefore, Desk!At
  <2>3. J.reader \in Readers BY <1>0, <2>2 DEF Names
  <2>4. action[J.reader].status = "succeeded" => action[J.reader].payment \in paid
    BY <2>3 DEF Truth, Desk!SuccessWasTaken
  <2>5. /\ j \in DeskJobType /\ j.pc = "claim" /\ j.read = J.read
        /\ j.row = J.row /\ j.outcome = J.outcome
        /\ j.before = action[J.reader] /\ j.reader = J.reader
        /\ j.payment = J.payment
    BY <1>0, <2>1, <2>3, DeskRows DEF DeskJobType, Desk!Pcs, Desk!Outcomes
  <2>6. Sane(j) /\ j.row = J.row
    BY <1>0, <2>2, <2>3, <2>4, <2>5, DeskRows, MovesFrom DEF TrueJob
  <2> QED BY <1>0, <2>2, <2>6 DEF Moves
<1>3. CASE Desk!ClaimReaderAction(w)
  <2>1. PICK j : j = [J EXCEPT !.pc = "send", !.row = action'[Desk!Reader(w)]] OBVIOUS
  <2>2. J.pc = "claim" /\ Desk!Go(w, j) BY <1>3, <2>1 DEF Desk!ClaimReaderAction, Desk!At
  <2>3. J.reader \in Readers /\ J.payment \in DeskPayments BY <1>0, <2>2 DEF Names
  <2>4. action'[J.reader] \in ActionType
    BY <1>0, <1>3, <2>3 DEF Desk!ClaimReaderAction, DeskTypes, ActionType, DeskStatuses,
       Desk!TerminalBounds
  <2>5. /\ j \in DeskJobType /\ j.pc = "send" /\ j.read = J.read
        /\ j.row = action'[J.reader] /\ j.outcome = J.outcome
        /\ j.before = J.before /\ j.reader = J.reader
        /\ j.payment = J.payment
    BY <1>0, <2>1, <2>4 DEF DeskJobType, Desk!Pcs, Desk!Outcomes
  <2>6. Sane(j) /\ j.row = action'[J.reader]
    BY <1>0, <2>2, <2>4, <2>5, MovesFrom DEF TrueJob
  <2> QED BY <2>2, <2>3, <2>6 DEF Moves
<1>4. CASE Desk!ClaimRefused(w)
  <2>1. CASE Desk!Go(w, Desk!Idle) BY <2>1, IdleMoves
  <2>2. CASE Desk!Go(w, [Desk!Idle EXCEPT !.pc = "ask", !.reader = Desk!Reader(w),
                 !.row = action[Desk!Reader(w)]])
    <3>1. J.reader \in Readers BY <1>0, <1>4 DEF Names, Desk!ClaimRefused, Desk!At
    <3>2. PICK j : j = [Desk!Idle EXCEPT !.pc = "ask", !.reader = Desk!Reader(w),
                   !.row = action[Desk!Reader(w)]]
      OBVIOUS
    <3>3. /\ j \in DeskJobType /\ j.pc = "ask" /\ j.reader = J.reader
               /\ j.row = action[J.reader]
          /\ j.before = Desk!Idle.before /\ j.read = Desk!Idle.read
      BY <1>0, <3>1, <3>2, IdleIsSane, DeskRows DEF Sane, DeskJobType, Desk!Pcs
    <3>4. Names(j) /\ TrueJob(j) BY <3>1, <3>3, IdleIsSane DEF Names, TrueJob, Sane
    <3>5. Pair(j.before) \in Pairs \cup {NoPair} /\ Pair(j.row) \in Pairs
      BY <3>1, <3>3, IdleIsSane, DeskRows DEF Sane
    <3>6. Desk!Go(w, j) BY <2>2, <3>2
    <3> QED BY <3>3, <3>4, <3>5, <3>6 DEF Moves, Sane
  <2> QED BY <1>4, <2>1, <2>2 DEF Desk!ClaimRefused
<1>5. CASE Desk!SendCollection(w)
  <2> DEFINE asked == [payment |-> J.payment, status |-> "in_progress"]
  <2>1. J.pc = "send" /\ J.payment \in DeskPayments
    BY <1>0, <1>5 DEF Desk!SendCollection, Desk!At, Names
  <2>2. asked \in Collection /\ asked.status # "succeeded"
    BY <2>1 DEF Collection, DeskStatuses
  <2>3. CASE Desk!Go(w, [J EXCEPT !.pc = "ack", !.read = asked])
    <3>1. PICK j : j = [J EXCEPT !.pc = "ack", !.read = asked] OBVIOUS
    <3>2. Desk!Go(w, j) BY <2>3, <3>1
    <3> HIDE DEF asked
    <3>3. /\ j \in DeskJobType /\ j.pc = "ack" /\ j.read = asked /\ j.row = J.row
          /\ j.outcome = J.outcome /\ j.before = J.before
          /\ j.reader = J.reader /\ j.payment = J.payment
      BY <1>0, <2>2, <3>1 DEF DeskJobType, Desk!Pcs, Desk!Outcomes
    <3>4. Sane(j) /\ j.row = J.row
      BY <1>0, <2>1, <2>2, <3>3, MovesFrom DEF TrueJob
    <3> QED BY <1>0, <3>2, <3>4 DEF Moves
  <2>4. CASE Desk!Go(w, [J EXCEPT !.pc = "release"])
    <3>1. PICK j : j = [J EXCEPT !.pc = "release"] OBVIOUS
    <3>2. Desk!Go(w, j) BY <2>4, <3>1
    <3>3. /\ j \in DeskJobType /\ j.pc = "release" /\ j.read = J.read
          /\ j.row = J.row /\ j.outcome = J.outcome /\ j.before = J.before
          /\ j.reader = J.reader /\ j.payment = J.payment
      BY <1>0, <3>1 DEF DeskJobType, Desk!Pcs, Desk!Outcomes
    <3>4. Sane(j) /\ j.row = J.row
      BY <1>0, <2>1, <3>3, MovesFrom DEF TrueJob
    <3> QED BY <1>0, <3>2, <3>4 DEF Moves
  <2> QED BY <1>5, <2>3, <2>4 DEF Desk!SendCollection
<1>6. CASE Desk!SendCollectionLost(w) \/ Desk!ReleaseReaderAction(w)
  BY <1>6, IdleMoves DEF Desk!SendCollectionLost, Desk!ReleaseReaderAction
<1>7. CASE Desk!AcknowledgeReaderAction(w)
  <2>1. PICK j : j = [J EXCEPT !.pc = "refresh", !.row = action'[Desk!Reader(w)]] OBVIOUS
  <2>2. J.pc = "ack" /\ Desk!Go(w, j) BY <1>7, <2>1 DEF Desk!AcknowledgeReaderAction, Desk!At
  <2>3. J.reader \in Readers BY <1>0, <2>2 DEF Names
  <2>4. action'[J.reader] \in ActionType
    <3>1. [action[J.reader] EXCEPT !.acked = TRUE] \in ActionType
      BY <2>3, DeskRows DEF ActionType
    <3> QED BY <1>0, <1>7, <2>3, <3>1, DeskRows DEF Desk!AcknowledgeReaderAction, DeskTypes
  <2>5. /\ j \in DeskJobType /\ j.pc = "refresh" /\ j.read = J.read
        /\ j.row = action'[J.reader] /\ j.outcome = J.outcome
        /\ j.before = J.before /\ j.reader = J.reader
        /\ j.payment = J.payment
    BY <1>0, <2>1, <2>4 DEF DeskJobType, Desk!Pcs, Desk!Outcomes
  <2>6. Sane(j) /\ j.row = action'[J.reader]
    BY <1>0, <2>2, <2>4, <2>5, MovesFrom DEF TrueJob
  <2> QED BY <2>2, <2>3, <2>6 DEF Moves
<1> QED BY <1>1, <1>2, <1>3, <1>4, <1>5, <1>6, <1>7

LEMMA ReconcileMoves ==
  ASSUME Desk!TerminalBounds, DeskTypes, Truth, NEW w \in Workers,
         \/ Desk!StartReconcile(w) \/ Desk!AskReader(w) \/ Desk!CancelReaderAction(w)
              \/ Desk!RefreshDevice(w)
         \/ Desk!PaymentWasTaken(w) \/ Desk!PaymentUnreadable(w)
              \/ Desk!SettleReaderAction(w) \/ Desk!Abort(w)
  PROVE  Moves(w)
<1> DEFINE J == job[w]
<1>0. /\ J \in DeskJobType /\ Names(J) /\ TrueJob(J) /\ Pair(J.before) \in Pairs
      /\ Pair(J.row) \in Pairs /\ Desk!Reader(w) = J.reader
      /\ J.read \in Collection /\ J.row \in ActionType /\ J.before \in ActionType
      /\ J.outcome \in Desk!Outcomes \cup {"none"}
  BY DeskHeld DEF DeskJobType
<1>1. CASE Desk!StartReconcile(w)
  <2>1. PICK r \in Readers :
          Desk!Go(w, [Desk!Idle EXCEPT !.pc = "ask", !.reader = r, !.row = action[r]])
    BY <1>1 DEF Desk!StartReconcile
  <2>2. PICK j : j = [Desk!Idle EXCEPT !.pc = "ask", !.reader = r, !.row = action[r]] OBVIOUS
  <2>3. /\ j \in DeskJobType /\ j.pc = "ask" /\ j.reader = r /\ j.row = action[r]
        /\ j.before = Desk!Idle.before /\ j.read = Desk!Idle.read
    BY <2>2, IdleIsSane, DeskRows DEF Sane, DeskJobType, Desk!Pcs
  <2>4. Names(j) /\ TrueJob(j) BY <2>3, IdleIsSane DEF Names, TrueJob, Sane
  <2>5. Pair(j.before) \in Pairs \cup {NoPair} /\ Pair(j.row) \in Pairs
    BY <2>3, IdleIsSane, DeskRows DEF Sane
  <2>6. Desk!Go(w, j) BY <2>1, <2>2
  <2> QED BY <2>3, <2>4, <2>5, <2>6 DEF Moves, Sane
<1>2. ASSUME NEW read \in Collection, J.pc = "ask",
             read.status = "succeeded" => read.payment \in paid,
             Desk!Go(w, [J EXCEPT !.pc = "refresh", !.read = read])
      PROVE  Moves(w)
  <2>1. PICK j : j = [J EXCEPT !.pc = "refresh", !.read = read] OBVIOUS
  <2>2. Desk!Go(w, j) BY <1>2, <2>1
  <2>3. /\ j \in DeskJobType /\ j.pc = "refresh" /\ j.read = read
        /\ j.row = J.row /\ j.outcome = J.outcome /\ j.before = J.before
        /\ j.reader = J.reader /\ j.payment = J.payment
    BY <1>0, <1>2, <2>1 DEF DeskJobType, Desk!Pcs, Desk!Outcomes
  <2>4. Sane(j) /\ j.row = J.row
    BY <1>0, <1>2, <2>3, MovesFrom DEF TrueJob
  <2> QED BY <1>0, <2>2, <2>4 DEF Moves
<1>3. CASE Desk!AskReader(w)
  <2>1. J.pc = "ask" /\ J.reader \in Readers BY <1>0, <1>3 DEF Desk!AskReader, Desk!At, Names
  <2>2. device[J.reader] \in Collection BY <2>1, DeskRows
  <2>3. device[J.reader].status = "succeeded" => device[J.reader].payment \in paid
    BY <2>1 DEF Truth
  <2> QED BY <1>0, <1>2, <1>3, <2>1, <2>2, <2>3 DEF Desk!AskReader
<1>4. CASE Desk!CancelReaderAction(w)
  <2>1. J.pc = "ask" /\ J.reader \in Readers
    BY <1>0, <1>4 DEF Desk!CancelReaderAction, Desk!At, Names
  <2>2. device'[J.reader] \in Collection /\ device'[J.reader].status = "failed"
    <3>1. device[J.reader] \in Collection BY <2>1, DeskRows
    <3>2. device' = [device EXCEPT ![J.reader] = [device[J.reader] EXCEPT !.status = "failed"]]
      BY <1>0, <1>4 DEF Desk!CancelReaderAction
    <3> QED BY <2>1, <3>1, <3>2 DEF Collection, DeskStatuses, Desk!Outcomes, DeskTypes
  <2> QED BY <1>0, <1>2, <1>4, <2>1, <2>2 DEF Desk!CancelReaderAction
<1>5. CASE Desk!RefreshDevice(w)
  <2>1. J.pc = "refresh" /\ J.reader \in Readers
    BY <1>0, <1>5 DEF Desk!RefreshDevice, Desk!At, Names
  <2>2. PICK row \in {J.row, action[J.reader]} :
          \/ Desk!Go(w, Desk!Idle)
          \/ /\ Desk!AboutThis(row, J.read) /\ J.read.status = "succeeded"
             /\ Desk!Go(w, [J EXCEPT !.pc = "settle", !.row = row, !.outcome = "succeeded"])
          \/ Desk!Go(w, [J EXCEPT !.pc = "pay", !.row = row])
    BY <1>0, <1>5 DEF Desk!RefreshDevice
  <2>3. row \in ActionType /\ Pair(row) \in Pairs BY <1>0, <2>1, DeskRows
  <2>4. CASE /\ Desk!AboutThis(row, J.read) /\ J.read.status = "succeeded"
             /\ Desk!Go(w, [J EXCEPT !.pc = "settle", !.row = row, !.outcome = "succeeded"])
    <3>1. row.payment \in paid BY <1>0, <2>4 DEF Desk!AboutThis, TrueJob
    <3>2. PICK j : j = [J EXCEPT !.pc = "settle", !.row = row,
                   !.outcome = "succeeded"] OBVIOUS
    <3>3. Desk!Go(w, j) BY <2>4, <3>2
    <3>4. /\ j \in DeskJobType /\ j.pc = "settle" /\ j.read = J.read /\ j.row = row
          /\ j.outcome = "succeeded" /\ j.before = J.before
          /\ j.reader = J.reader /\ j.payment = J.payment
      BY <1>0, <2>3, <3>2 DEF DeskJobType, Desk!Pcs, Desk!Outcomes
    <3>5. Sane(j) /\ j.row = row
      BY <1>0, <2>1, <2>3, <3>1, <3>4, MovesFrom DEF TrueJob, Desk!Outcomes
    <3> QED BY <2>3, <3>3, <3>5 DEF Moves
  <2>5. CASE Desk!Go(w, [J EXCEPT !.pc = "pay", !.row = row])
    <3>1. PICK j : j = [J EXCEPT !.pc = "pay", !.row = row] OBVIOUS
    <3>2. Desk!Go(w, j) BY <2>5, <3>1
    <3>3. /\ j \in DeskJobType /\ j.pc = "pay" /\ j.read = J.read /\ j.row = row
          /\ j.outcome = J.outcome /\ j.before = J.before
          /\ j.reader = J.reader /\ j.payment = J.payment
      BY <1>0, <2>3, <3>1 DEF DeskJobType, Desk!Pcs, Desk!Outcomes
    <3>4. Sane(j) /\ j.row = row
      BY <1>0, <2>1, <2>3, <3>3, MovesFrom DEF TrueJob
    <3> QED BY <2>3, <3>2, <3>4 DEF Moves
  <2> QED BY <2>2, <2>4, <2>5, IdleMoves
<1>6. ASSUME NEW outcome \in Desk!Outcomes, J.pc = "pay",
             outcome = "succeeded" => J.row.payment \in paid,
             Desk!Go(w, [J EXCEPT !.pc = "settle", !.outcome = outcome])
      PROVE  Moves(w)
  <2>1. PICK j : j = [J EXCEPT !.pc = "settle", !.outcome = outcome] OBVIOUS
  <2>2. Desk!Go(w, j) BY <1>6, <2>1
  <2>3. /\ j \in DeskJobType /\ j.pc = "settle" /\ j.read = J.read
        /\ j.row = J.row /\ j.outcome = outcome /\ j.before = J.before
        /\ j.reader = J.reader /\ j.payment = J.payment
    BY <1>0, <1>6, <2>1 DEF DeskJobType, Desk!Pcs, Desk!Outcomes
  <2>4. Sane(j) /\ j.row = J.row
    BY <1>0, <1>6, <2>3, MovesFrom DEF TrueJob
  <2> QED BY <1>0, <2>2, <2>4 DEF Moves
<1>7. CASE Desk!PaymentWasTaken(w)
  <2>1. J.pc = "pay" BY <1>7 DEF Desk!PaymentWasTaken, Desk!At
  <2>2. CASE J.row.payment \in paid
    BY <1>6, <1>7, <2>1, <2>2 DEF Desk!PaymentWasTaken, Desk!Outcomes
  <2>3. CASE J.row.payment \notin paid
    BY <1>6, <1>7, <2>1, <2>3 DEF Desk!PaymentWasTaken, Desk!Outcomes
  <2> QED BY <2>2, <2>3
<1>8. CASE Desk!PaymentUnreadable(w)
  <2>1. CASE Desk!Go(w, [J EXCEPT !.pc = "settle", !.outcome = "failed"])
    BY <1>6, <1>8, <2>1 DEF Desk!PaymentUnreadable, Desk!At, Desk!Outcomes
  <2> QED BY <1>8, <2>1, IdleMoves DEF Desk!PaymentUnreadable
<1>9. CASE Desk!SettleReaderAction(w) \/ Desk!Abort(w)
  BY <1>9, IdleMoves DEF Desk!SettleReaderAction, Desk!Abort
<1> QED BY <1>1, <1>3, <1>4, <1>5, <1>7, <1>8, <1>9

-----------------------------------------------------------------------------
\* What a step does to the rows, as far as the invariants tell it apart.
LEMMA MovesTypes ==
  ASSUME DeskTypes, NEW w \in Workers, Moves(w)
  PROVE  job' \in [Workers -> DeskJobType] /\ \A x \in Workers : Names(job'[x])
BY DEF DeskTypes, Moves, Sane, Desk!Go

LEMMA RequestMoves ==
  ASSUME Desk!TerminalBounds, DeskTypes, Truth, NEW w \in Workers, Desk!Step(w)
  PROVE  Moves(w)
BY CollectionMoves, ReconcileMoves DEF Desk!Step

\* Telling the merchant an outcome of one attempt.
Tells(n, o) == told' = [told EXCEPT ![n][o] = @ + 1]

LEMMA TellsOnce ==
  ASSUME DeskTypes, NEW n, NEW o \in Desk!Outcomes, Tells(n, o)
  PROVE  /\ told' \in [1..MaxAttempts -> [Desk!Outcomes -> Nat]]
         /\ n \in 1..MaxAttempts =>
              /\ told'[n][o] = told[n][o] + 1
              /\ \A p \in Desk!Outcomes \ {o} : told'[n][p] = told[n][p]
         /\ \A m \in (1..MaxAttempts) \ {n} : told'[m] = told[m]
<1>1. CASE n \in 1..MaxAttempts
  <2> DEFINE row == [told[n] EXCEPT ![o] = told[n][o] + 1]
  <2>1. told[n] \in [Desk!Outcomes -> Nat] BY <1>1 DEF DeskTypes
  <2>2. /\ row \in [Desk!Outcomes -> Nat] /\ row[o] = told[n][o] + 1
        /\ \A p \in Desk!Outcomes \ {o} : row[p] = told[n][p]
    BY <2>1
  <2>3. told' = [told EXCEPT ![n] = row] BY DEF Tells
  <2> HIDE DEF row
  <2> QED BY <1>1, <2>2, <2>3 DEF DeskTypes
<1>2. CASE n \notin 1..MaxAttempts BY <1>2 DEF DeskTypes, Tells
<1> QED BY <1>1, <1>2

LEMMA TypesStep ==
  ASSUME Desk!TerminalBounds PROVE DeskTypes /\ Truth /\ [Desk!Next]_(Desk!vars) => DeskTypes'
<1> SUFFICES ASSUME DeskTypes, Truth, [Desk!Next]_(Desk!vars) PROVE DeskTypes'
  OBVIOUS
<1>1. ASSUME NEW w \in Workers, Desk!Step(w) PROVE DeskTypes'
  <2> DEFINE J == job[w]
  <2>0. J \in DeskJobType /\ Names(J) /\ Desk!Reader(w) = J.reader /\ J.before \in ActionType
    BY DeskHeld DEF DeskJobType
  <2>1. job' \in [Workers -> DeskJobType] /\ \A x \in Workers : Names(job'[x])
    BY <1>1, RequestMoves, MovesTypes
  <2>2. CASE UNCHANGED <<action, started, Desk!provider, known, told>>
               /\ faults' \in 0..MaxFaults
    BY <2>1, <2>2 DEF DeskTypes, Desk!provider
  <2>3. Desk!Fault => faults' \in 0..MaxFaults
    BY DEF Desk!Fault, DeskTypes, Desk!TerminalBounds
  <2>4. CASE \/ Desk!StartCollection(w) \/ Desk!ReadBefore(w) \/ Desk!ClaimRefused(w)
                  \/ Desk!StartReconcile(w)
             \/ Desk!AskReader(w) \/ Desk!RefreshDevice(w) \/ Desk!PaymentWasTaken(w)
             \/ Desk!PaymentUnreadable(w) \/ Desk!Abort(w)
    <3>1. faults' = faults \/ Desk!Fault
      BY <2>4 DEF Desk!StartCollection, Desk!ReadBefore, Desk!ClaimRefused,
         Desk!StartReconcile, Desk!AskReader, Desk!RefreshDevice, Desk!PaymentWasTaken,
         Desk!PaymentUnreadable, Desk!Abort
    <3>2. UNCHANGED <<action, started, Desk!provider, known, told>>
      BY <2>4 DEF Desk!StartCollection, Desk!ReadBefore, Desk!ClaimRefused,
         Desk!StartReconcile, Desk!AskReader, Desk!RefreshDevice, Desk!PaymentWasTaken,
         Desk!PaymentUnreadable, Desk!Abort
    <3>3. faults' \in 0..MaxFaults BY <2>3, <3>1 DEF DeskTypes
    <3> QED BY <2>2, <3>2, <3>3
  <2>5. CASE Desk!ClaimReaderAction(w)
    <3>1. J.pc = "claim" /\ J.reader \in Readers /\ J.payment \in DeskPayments
      BY <2>0, <2>5 DEF Desk!ClaimReaderAction, Desk!At, Names
    <3>2. started' \in 0..MaxAttempts
      BY <2>5 DEF Desk!ClaimReaderAction, DeskTypes, Desk!TerminalBounds
    <3>3. [n |-> started', payment |-> J.payment, status |-> "in_progress",
           acked |-> FALSE, aged |-> FALSE] \in ActionType
      BY <3>1, <3>2 DEF ActionType, DeskStatuses
    <3>4. action' \in [Readers -> ActionType]
      BY <2>0, <2>5, <3>1, <3>3 DEF Desk!ClaimReaderAction, DeskTypes
    <3> QED BY <2>1, <2>5, <3>2, <3>4 DEF Desk!ClaimReaderAction, DeskTypes, Desk!provider
  <2>6. CASE Desk!SendCollection(w) \/ Desk!SendCollectionLost(w)
               \/ Desk!CancelReaderAction(w)
    <3>1. J.reader \in Readers
      BY <2>0, <2>6 DEF Desk!SendCollection, Desk!SendCollectionLost, Desk!CancelReaderAction,
         Desk!At, Names
    <3>2. J.pc = "send" => [payment |-> J.payment, status |-> "in_progress"] \in Collection
      BY <2>0 DEF Collection, DeskStatuses, Names
    <3>3. [device[J.reader] EXCEPT !.status = "failed"] \in Collection
      BY <3>1, DeskRows DEF Collection, DeskStatuses, Desk!Outcomes
    <3>4. device' \in [Readers -> Collection]
      BY <2>0, <2>6, <3>1, <3>2, <3>3 DEF Desk!SendCollection, Desk!SendCollectionLost,
         Desk!CancelReaderAction, Desk!At, DeskTypes
    <3>5. faults' \in 0..MaxFaults
      BY <2>3, <2>6 DEF Desk!SendCollection, Desk!SendCollectionLost, Desk!CancelReaderAction,
         DeskTypes
    <3>6. \A r \in Readers :
            device'[r].status = "in_progress" => device'[r].payment \in DeskPayments
      <4>1. J.pc = "send" => J.payment \in DeskPayments BY <2>0 DEF Names
      <4>2. [device[J.reader] EXCEPT !.status = "failed"].status = "failed"
        BY <3>1, DeskRows DEF Collection
      <4>3. CASE Desk!SendCollection(w) \/ Desk!SendCollectionLost(w)
        <5>1. \/ device' = device
              \/ device' = [device EXCEPT ![J.reader] =
                              [payment |-> J.payment, status |-> "in_progress"]]
          BY <2>0, <4>3 DEF Desk!SendCollection, Desk!SendCollectionLost
        <5>2. J.payment \in DeskPayments
          BY <4>1, <4>3 DEF Desk!SendCollection, Desk!SendCollectionLost, Desk!At
        <5> QED BY <5>1, <5>2 DEF DeskTypes
      <4>4. CASE Desk!CancelReaderAction(w)
        <5>1. device' = [device EXCEPT ![J.reader] = [device[J.reader] EXCEPT !.status = "failed"]]
          BY <2>0, <4>4 DEF Desk!CancelReaderAction
        <5> QED BY <4>2, <5>1 DEF DeskTypes
      <4> QED BY <2>6, <4>3, <4>4
    <3> QED BY <2>1, <2>6, <3>4, <3>5, <3>6 DEF Desk!SendCollection, Desk!SendCollectionLost,
               Desk!CancelReaderAction, DeskTypes, Desk!provider
  <2>7. CASE Desk!ReleaseReaderAction(w) \/ Desk!AcknowledgeReaderAction(w)
    <3>1. J.reader \in Readers
      BY <2>0, <2>7 DEF Desk!ReleaseReaderAction, Desk!AcknowledgeReaderAction, Desk!At, Names
    <3>2. [action[J.reader] EXCEPT !.acked = TRUE] \in ActionType
      BY <3>1, DeskRows DEF ActionType
    <3>3. action' \in [Readers -> ActionType]
      BY <2>0, <2>7, <3>1, <3>2, IdleIsSane
         DEF Desk!ReleaseReaderAction, Desk!AcknowledgeReaderAction, DeskTypes
    <3> QED BY <2>1, <2>7, <3>3
         DEF Desk!ReleaseReaderAction, Desk!AcknowledgeReaderAction, DeskTypes, Desk!provider
  <2>8. CASE Desk!SettleReaderAction(w)
    <3>1. J.reader \in Readers /\ J.outcome \in Desk!Outcomes
      BY <2>0, <2>8 DEF Desk!SettleReaderAction, Desk!At, Names
    <3>2. [action[J.reader] EXCEPT !.status = J.outcome] \in ActionType
      BY <3>1, DeskRows DEF ActionType, DeskStatuses
    <3>3. action' \in [Readers -> ActionType]
      BY <2>0, <2>8, <3>1, <3>2 DEF Desk!SettleReaderAction, DeskTypes
    <3>4. told' \in [1..MaxAttempts -> [Desk!Outcomes -> Nat]]
      <4>1. CASE told' = told BY ZenonT(60), <4>1 DEF DeskTypes
      <4>2. CASE told' = [told EXCEPT ![J.row.n][J.outcome] = @ + 1]
        BY ZenonT(60), <3>1, <4>2, TellsOnce DEF Tells
      <4> QED BY <2>8, <4>1, <4>2 DEF Desk!SettleReaderAction
    <3>5. known' \subseteq paid BY <2>8 DEF Desk!SettleReaderAction, DeskTypes
    <3> QED BY <2>1, <2>8, <3>3, <3>4, <3>5 DEF Desk!SettleReaderAction, DeskTypes,
               Desk!provider
  <2> QED BY <1>1, <2>4, <2>5, <2>6, <2>7, <2>8 DEF Desk!Step
<1>2. CASE Desk!Taps
  <2>1. PICK r \in Readers, o \in Desk!Outcomes :
          /\ device[r].status = "in_progress"
          /\ device' = [device EXCEPT ![r] = [device[r] EXCEPT !.status = o]]
          /\ paid' = IF o = "succeeded" THEN paid \cup {device[r].payment} ELSE paid
    BY <1>2 DEF Desk!Taps
  <2>2. /\ [device[r] EXCEPT !.status = o] \in Collection
        /\ [device[r] EXCEPT !.status = o].status # "in_progress"
    BY DeskRows DEF Collection, DeskStatuses, Desk!Outcomes
  <2>3. device' \in [Readers -> Collection] BY <2>1, <2>2 DEF DeskTypes
  <2>4. \A q \in Readers : device'[q].status = "in_progress"
          => device'[q].payment \in DeskPayments
    BY <2>1, <2>2 DEF DeskTypes
  <2>5. paid' \subseteq DeskPayments /\ paid \subseteq paid' BY <2>1 DEF DeskTypes
  <2> QED BY <1>2, <2>3, <2>4, <2>5 DEF Desk!Taps, DeskTypes
<1>3. CASE Desk!DeviceResets
  <2>1. PICK r \in Readers : device' = [device EXCEPT ![r] = Desk!NoCollection]
    BY <1>3 DEF Desk!DeviceResets
  <2>2. device' \in [Readers -> Collection] BY <2>1, IdleIsSane DEF DeskTypes
  <2>3. \A q \in Readers : device'[q].status = "in_progress"
          => device'[q].payment \in DeskPayments
    BY <2>1 DEF DeskTypes, Desk!NoCollection
  <2> QED
    BY <1>3, <2>2, <2>3 DEF Desk!DeviceResets, Desk!Fault, DeskTypes, Desk!TerminalBounds
<1>4. CASE Desk!PaymentReported BY <1>4 DEF Desk!PaymentReported, Desk!provider, DeskTypes
<1>5. CASE Desk!ClaimAges
  <2>1. PICK r \in Readers : action' = [action EXCEPT ![r] = [action[r] EXCEPT !.aged = TRUE]]
    BY <1>5 DEF Desk!ClaimAges
  <2>2. [action[r] EXCEPT !.aged = TRUE] \in ActionType BY DeskRows DEF ActionType
  <2> QED BY <1>5, <2>1, <2>2 DEF Desk!ClaimAges, Desk!provider, DeskTypes
<1>6. CASE UNCHANGED Desk!vars BY <1>6 DEF Desk!vars, DeskTypes
<1> QED BY <1>1, <1>2, <1>3, <1>4, <1>5, <1>6 DEF Desk!Next

-----------------------------------------------------------------------------
\* A row that stays as it is, or gives way to what no execution works on.
Same(a, b) == a.n = b.n /\ a.payment = b.payment /\ a.status = b.status
RowKept(r) ==
  \/ Same(action'[r], action[r])
  \/ /\ ~Desk!InProgress(action'[r]) /\ Pair(action'[r]) \in Pairs \cup {NoPair}
     /\ action'[r].status = "succeeded" => action'[r].payment \in paid

LEMMA QuietRows ==
  ASSUME Desk!TerminalBounds, DeskTypes, Truth,
         \/ Desk!Taps \/ Desk!DeviceResets \/ Desk!PaymentReported \/ Desk!ClaimAges
              \/ UNCHANGED Desk!vars
         \/ \E w \in Workers :
              Desk!Step(w) /\ ~Desk!ClaimReaderAction(w) /\ ~Desk!SettleReaderAction(w)
  PROVE  /\ \A r \in Readers : RowKept(r)
         /\ UNCHANGED <<started, told>>
<1>1. CASE Desk!ClaimAges
  <2>1. PICK r \in Readers : action' = [action EXCEPT ![r] = [action[r] EXCEPT !.aged = TRUE]]
    BY <1>1 DEF Desk!ClaimAges
  <2>2. Same([action[r] EXCEPT !.aged = TRUE], action[r]) BY DeskRows DEF Same, ActionType
  <2>3. \A q \in Readers : Same(action'[q], action[q]) BY <2>1, <2>2 DEF Same, DeskTypes
  <2> QED BY <1>1, <2>3 DEF RowKept, Desk!ClaimAges
<1>2. CASE Desk!Taps \/ Desk!DeviceResets \/ Desk!PaymentReported \/ UNCHANGED Desk!vars
  BY <1>2 DEF RowKept, Same, Desk!Taps, Desk!DeviceResets, Desk!PaymentReported, Desk!vars
<1>3. ASSUME NEW w \in Workers, Desk!ReleaseReaderAction(w)
      PROVE  (\A r \in Readers : RowKept(r)) /\ UNCHANGED <<started, told>>
  <2> DEFINE J == job[w]
  <2>1. /\ J \in DeskJobType /\ Pair(J.before) \in Pairs /\ Desk!Reader(w) = J.reader
        /\ J.before.status = "succeeded" => J.before.payment \in paid
    BY DeskHeld DEF TrueJob
  <2>2. \A r \in Readers :
          \/ action'[r] = action[r] \/ action'[r] = Desk!NoAction
          \/ action'[r] = J.before /\ ~Desk!InProgress(J.before)
    BY <1>3 DEF Desk!ReleaseReaderAction, DeskTypes
  <2>3. Desk!NoAction.status = "none" BY DEF Desk!NoAction
  <2>4. ASSUME NEW r \in Readers PROVE RowKept(r)
    <3>1. CASE action'[r] = action[r] BY <3>1 DEF RowKept, Same
    <3>2. CASE action'[r] = Desk!NoAction BY <2>3, <3>2, IdleIsSane DEF RowKept
    <3>3. CASE action'[r] = J.before /\ ~Desk!InProgress(J.before) BY <2>1, <3>3 DEF RowKept
    <3> QED BY <2>2, <3>1, <3>2, <3>3
  <2> QED BY <1>3, <2>4 DEF Desk!ReleaseReaderAction
<1>4. ASSUME NEW w \in Workers, Desk!AcknowledgeReaderAction(w)
      PROVE  (\A r \in Readers : RowKept(r)) /\ UNCHANGED <<started, told>>
  <2>1. \A r \in Readers : Same([action[r] EXCEPT !.acked = TRUE], action[r])
    BY DeskRows DEF Same, ActionType
  <2>2. \A r \in Readers :
          action'[r] = action[r] \/ action'[r] = [action[r] EXCEPT !.acked = TRUE]
    BY <1>4 DEF Desk!AcknowledgeReaderAction, DeskTypes
  <2> QED BY <1>4, <2>1, <2>2 DEF RowKept, Same, Desk!AcknowledgeReaderAction
<1>5. ASSUME NEW w
        \in Workers, Desk!Step(w), ~Desk!ClaimReaderAction(w), ~Desk!SettleReaderAction(w),
             ~Desk!ReleaseReaderAction(w), ~Desk!AcknowledgeReaderAction(w)
      PROVE  (\A r \in Readers : RowKept(r)) /\ UNCHANGED <<started, told>>
  <2>1. UNCHANGED <<action, started, told>>
    BY ZenonT(60), <1>5 DEF Desk!Step, Desk!StartCollection, Desk!ReadBefore, Desk!ClaimRefused,
       Desk!SendCollection, Desk!SendCollectionLost, Desk!StartReconcile, Desk!AskReader,
       Desk!CancelReaderAction, Desk!RefreshDevice, Desk!PaymentWasTaken,
       Desk!PaymentUnreadable, Desk!Abort
  <2> QED BY <2>1 DEF RowKept, Same
<1> QED BY <1>1, <1>2, <1>3, <1>4, <1>5

LEMMA ClaimedRow ==
  ASSUME Desk!TerminalBounds, DeskTypes, Truth, NEW w \in Workers, Desk!ClaimReaderAction(w)
  PROVE  LET r == job[w].reader IN
         /\ r \in Readers /\ started' = started + 1 /\ started' \in 1..MaxAttempts
         /\ action'[r].n = started' /\ action'[r].payment = job[w].payment
         /\ action'[r].status = "in_progress" /\ ~Desk!InProgress(action[r])
         /\ \A q \in Readers \ {r} : action'[q] = action[q]
         /\ \A q \in Readers \ {r} : Desk!InProgress(action[q])
              => action[q].payment # job[w].payment
         /\ told' = told
<1>1. job[w].reader \in Readers /\ Desk!Reader(w) = job[w].reader
  BY DeskHeld DEF Desk!ClaimReaderAction, Desk!At, Names
<1>2. started' = started + 1 /\ started' \in 1..MaxAttempts
  BY DEF Desk!ClaimReaderAction, DeskTypes, Desk!TerminalBounds
<1> QED BY <1>1, <1>2 DEF Desk!ClaimReaderAction, Desk!CollectedElsewhere, DeskTypes

LEMMA SettledRow ==
  ASSUME Desk!TerminalBounds, DeskTypes, Truth, NEW w \in Workers, Desk!SettleReaderAction(w)
  PROVE  LET J == job[w]
             r == J.reader
         IN
         /\ r \in Readers /\ J.outcome \in Desk!Outcomes /\ started' = started
         /\ J.outcome = "succeeded" => J.row.payment \in paid
         /\ \/ UNCHANGED <<action, told>>
            \/ /\ Desk!InProgress(action[r]) /\ action[r].n = J.row.n
               /\ action'[r].n = action[r].n /\ action'[r].payment = action[r].payment
               /\ action'[r].status = J.outcome
               /\ \A q \in Readers \ {r} : action'[q] = action[q]
               /\ told' = [told EXCEPT ![action[r].n][J.outcome] = @ + 1]
<1> DEFINE J == job[w]
           r == J.reader
<1>1. /\ r \in Readers /\ Desk!Reader(w) = r /\ J.outcome \in Desk!Outcomes
      /\ J.outcome = "succeeded" => J.row.payment \in paid
  BY DeskHeld DEF Desk!SettleReaderAction, Desk!At, Names, TrueJob
<1>2. CASE UNCHANGED <<action, told>> BY <1>1, <1>2 DEF Desk!SettleReaderAction
<1>3. CASE ~(UNCHANGED <<action, told>>)
  <2>1. /\ Desk!InProgress(action[r]) /\ action[r].n = J.row.n
        /\ action' = [action EXCEPT ![r] = [action[r] EXCEPT !.status = J.outcome]]
        /\ told' = [told EXCEPT ![J.row.n][J.outcome] = @ + 1]
    BY <1>1, <1>3 DEF Desk!SettleReaderAction
  <2>2. action[r] \in ActionType BY <1>1, DeskRows
  <2>3. action'[r] = [action[r] EXCEPT !.status = J.outcome]
          /\ \A q \in Readers \ {r} : action'[q] = action[q]
    BY <1>1, <2>1 DEF DeskTypes
  <2>4. /\ action'[r].n = action[r].n /\ action'[r].payment = action[r].payment
        /\ action'[r].status = J.outcome
    BY <2>2, <2>3 DEF ActionType
  <2> QED BY <1>1, <2>1, <2>3, <2>4 DEF Desk!SettleReaderAction
<1> QED BY <1>2, <1>3

\* The attempts that anything speaks of after a step.
LEMMA PairsGoOn ==
  ASSUME DeskTypes, NEW S, Pairs \cup {NoPair} \subseteq S,
         \A r \in Readers : Pair(action'[r]) \in S,
         job' = job \/ \E w \in Workers : Moves(w)
  PROVE  Pairs' \subseteq S
<1>1. \A w \in Workers : Pair(job[w].row) \in S /\ Pair(job[w].before) \in S BY DEF Pairs
<1>2. \A w \in Workers : Pair(job'[w].row) \in S /\ Pair(job'[w].before) \in S
  <2>1. CASE job' = job BY <1>1, <2>1
  <2>2. ASSUME NEW w \in Workers, Moves(w)
        PROVE  \A x \in Workers : Pair(job'[x].row) \in S /\ Pair(job'[x].before) \in S
    <3>1. PICK j : /\ Desk!Go(w, j) /\ Sane(j)
                   /\ Pair(j.row)
                        \in Pairs \cup {NoPair} \cup {Pair(action'[r]) : r \in Readers}
      BY <2>2 DEF Moves
    <3>2. Pair(j.row) \in S /\ Pair(j.before) \in S BY <3>1 DEF Sane
    <3> QED BY <1>1, <3>1, <3>2 DEF Desk!Go, DeskTypes
  <2> QED BY <2>1, <2>2
<1> QED BY <1>2 DEF Pairs, Pair

LEMMA JobsMove ==
  ASSUME Desk!TerminalBounds, DeskTypes, Truth, [Desk!Next]_(Desk!vars)
  PROVE  job' = job \/ \E w \in Workers : Moves(w)
BY RequestMoves DEF Desk!Next, Desk!Taps, Desk!DeviceResets, Desk!PaymentReported,
   Desk!ClaimAges, Desk!vars

\* What a step is, as far as the rows go: a claim, a settlement, or quiet.
Quiet == (\A r \in Readers : RowKept(r)) /\ UNCHANGED <<started, told>>

LEMMA Kinds ==
  ASSUME Desk!TerminalBounds, DeskTypes, Truth, [Desk!Next]_(Desk!vars)
  PROVE  Quiet \/ \E w \in Workers : Desk!ClaimReaderAction(w) \/ Desk!SettleReaderAction(w)
BY QuietRows DEF Desk!Next, Quiet

LEMMA NumberedStep ==
  ASSUME Desk!TerminalBounds
  PROVE  DeskTypes /\ Truth /\ Numbered /\ [Desk!Next]_(Desk!vars) => Numbered'
<1> SUFFICES ASSUME DeskTypes, Truth, Numbered, [Desk!Next]_(Desk!vars) PROVE Numbered'
  OBVIOUS
<1>0. started \in Nat BY DEF DeskTypes
<1>1. ASSUME started' = started, \A r \in Readers : Pair(action'[r]) \in Pairs \cup {NoPair}
      PROVE  Numbered'
  <2>1. Pairs' \subseteq Pairs \cup {NoPair} BY <1>1, JobsMove, PairsGoOn
  <2>2. NoPair[1] = 0 /\ NoPair[2] = "none" BY DEF NoPair
  <2>3. \A x \in Pairs' : x[1] \in 0..started /\ (x[1] = 0 => x[2] = "none")
    BY <1>0, <2>1, <2>2 DEF Numbered
  <2>4. \A x, y \in Pairs' : x[1] = y[1] => x[2] = y[2]
    BY <2>1, <2>2 DEF Numbered
  <2> QED BY <1>1, <2>3, <2>4 DEF Numbered
<1>2. CASE Quiet
  <2>1. \A r \in Readers : Pair(action'[r]) \in Pairs \cup {NoPair}
    BY <1>2, DeskRows DEF Quiet, RowKept, Same, Pair
  <2> QED BY <1>1, <1>2, <2>1 DEF Quiet
<1>3. ASSUME NEW w \in Workers, Desk!SettleReaderAction(w) PROVE Numbered'
  <2>1. \A r \in Readers : action'[r].n = action[r].n
          /\ action'[r].payment = action[r].payment
    BY <1>3, SettledRow
  <2>2. \A r \in Readers : Pair(action'[r]) \in Pairs BY <2>1, DeskRows DEF Pair
  <2> QED BY <1>1, <1>3, <2>2, SettledRow
<1>4. ASSUME NEW w \in Workers, Desk!ClaimReaderAction(w) PROVE Numbered'
  <2> DEFINE new == <<started + 1, job[w].payment>>
  <2>1. \A r \in Readers : Pair(action'[r]) \in Pairs \cup {NoPair, new}
    BY <1>4, ClaimedRow, DeskRows DEF Pair
  <2>2. Pairs' \subseteq Pairs \cup {NoPair, new} BY <2>1, JobsMove, PairsGoOn
  <2>3. NoPair[1] = 0 /\ NoPair[2] = "none" /\ new[1] = started + 1 BY DEF NoPair
  <2> HIDE DEF new
  <2>4. started' = started + 1 BY <1>4, ClaimedRow
  <2>5. \A x \in Pairs' : x[1] \in 0..started' /\ (x[1] = 0 => x[2] = "none")
    BY <1>0, <2>2, <2>3, <2>4 DEF Numbered
  <2>6. \A x, y \in Pairs' : x[1] = y[1] => x[2] = y[2]
    <3>1. \A x \in Pairs \cup {NoPair} : x[1] # new[1]
      BY <1>0, <2>3 DEF Numbered
    <3>2. \A x, y \in Pairs \cup {NoPair} : x[1] = y[1] => x[2] = y[2]
      BY <2>3 DEF Numbered
    <3> QED BY <2>2, <3>1, <3>2
  <2> QED BY <2>5, <2>6 DEF Numbered
<1> QED BY <1>2, <1>3, <1>4, Kinds

LEMMA OpenStep ==
  ASSUME Desk!TerminalBounds
  PROVE  DeskTypes /\ Truth /\ Open /\ Desk!SettledOnce /\ [Desk!Next]_(Desk!vars)
           => Open' /\ Desk!SettledOnce'
<1> SUFFICES ASSUME DeskTypes, Truth, Open, Desk!SettledOnce, [Desk!Next]_(Desk!vars)
             PROVE  Open' /\ Desk!SettledOnce'
  OBVIOUS
<1>0. /\ started \in Nat /\ MaxAttempts \in Nat /\ started <= MaxAttempts
      /\ DOMAIN told = 1..MaxAttempts
  BY DEF DeskTypes, Desk!TerminalBounds
<1>1. CASE Quiet
  <2>1. \A r \in Readers : Desk!InProgress(action'[r]) =>
          Desk!InProgress(action[r]) /\ action'[r].n = action[r].n
    BY <1>1 DEF Quiet, RowKept, Same, Desk!InProgress
  <2> QED BY <1>1, <2>1 DEF Quiet, Open, Untold, Desk!SettledOnce
<1>2. ASSUME NEW w \in Workers, Desk!ClaimReaderAction(w) PROVE Open' /\ Desk!SettledOnce'
  <2> DEFINE r == job[w].reader
  <2>1. /\ r \in Readers /\ started' = started + 1 /\ started' \in 1..MaxAttempts
        /\ action'[r].n = started' /\ told' = told
        /\ \A q \in Readers \ {r} : action'[q] = action[q]
    BY <1>2, ClaimedRow
  <2> HIDE DEF r
  <2>2. \A q \in Readers : Desk!InProgress(action'[q]) =>
          action'[q].n \in 1..started' /\ Untold(action'[q].n)
    BY <1>0, <2>1 DEF Open
  <2>3. \A q, s \in Readers : Desk!InProgress(action'[q]) /\ Desk!InProgress(action'[s])
          /\ action'[q].n = action'[s].n => q = s
    BY <1>0, <2>1 DEF Open
  <2>4. \A n \in 1..MaxAttempts : n > started' => Untold(n) BY <1>0, <2>1 DEF Open
  <2> QED BY <2>1, <2>2, <2>3, <2>4 DEF Open, Untold, Desk!SettledOnce
<1>3. ASSUME NEW w \in Workers, Desk!SettleReaderAction(w) PROVE Open' /\ Desk!SettledOnce'
  <2> DEFINE r == job[w].reader
             o == job[w].outcome
  <2>1. CASE UNCHANGED <<action, told>>
    <3>1. started' = started BY <1>3, SettledRow
    <3> QED BY <2>1, <3>1 DEF Open, Untold, Desk!SettledOnce
  <2>2. CASE ~(UNCHANGED <<action, told>>)
    <3>1. /\ r \in Readers /\ o \in Desk!Outcomes /\ started' = started
          /\ Desk!InProgress(action[r]) /\ action'[r].status = o
          /\ \A q \in Readers \ {r} : action'[q] = action[q]
          /\ told' = [told EXCEPT ![action[r].n][o] = @ + 1]
      BY ZenonT(60), <1>3, <2>2, SettledRow
    <3>2. PICK n : n = action[r].n OBVIOUS
    <3>3. n \in 1..started /\ n \in 1..MaxAttempts /\ Untold(n) BY <1>0, <3>1, <3>2 DEF Open
    <3>4. /\ told'[n][o] = told[n][o] + 1
          /\ \A p \in Desk!Outcomes \ {o} : told'[n][p] = told[n][p]
          /\ \A m \in (1..MaxAttempts) \ {n} : told'[m] = told[m]
          /\ told' \in [1..MaxAttempts -> [Desk!Outcomes -> Nat]]
      <4>1. Tells(n, o) BY <3>1, <3>2 DEF Tells
      <4> HIDE DEF r, o
      <4> QED BY <3>1, <3>3, <4>1, TellsOnce
    <3>5. ~Desk!InProgress(action'[r]) BY <3>1 DEF Desk!InProgress, Desk!Outcomes
    <3> HIDE DEF r, o
    <3>6. \A q \in Readers : Desk!InProgress(action'[q]) =>
            q # r /\ action'[q] = action[q] /\ Desk!InProgress(action[q]) /\ action[q].n # n
      BY <3>1, <3>2, <3>5 DEF Open
    <3>7. \A m \in (1..MaxAttempts) \ {n} : Untold(m) => Untold(m)' BY <3>4 DEF Untold
    <3>8. told'[n]["succeeded"] + told'[n]["failed"] <= 1
      BY <3>1, <3>3, <3>4 DEF Untold, Desk!Outcomes
    <3>9. Desk!SettledOnce'
      <4>1. \A m \in 1..MaxAttempts : told[m]["succeeded"] + told[m]["failed"] <= 1
        BY <1>0 DEF Desk!SettledOnce
      <4>2. \A m \in 1..MaxAttempts : told'[m]["succeeded"] + told'[m]["failed"] <= 1
        BY <3>4, <3>8, <4>1
      <4> QED BY <3>4, <4>2 DEF Desk!SettledOnce
    <3>10. \A q \in Readers : Desk!InProgress(action'[q]) =>
             \E m \in 1..started : action'[q].n = m /\ Untold(m)'
      <4>1. \A m \in 1..started : m # n /\ Untold(m) => Untold(m)' BY <1>0, <3>7
      <4> QED BY <3>6, <4>1 DEF Open
    <3>11. \A q, s \in Readers : Desk!InProgress(action'[q]) /\ Desk!InProgress(action'[s])
             /\ action'[q].n = action'[s].n => q = s
      BY <3>6 DEF Open
    <3>12. \A m \in 1..MaxAttempts : m > started => Untold(m)'
      BY <1>0, <3>3, <3>7 DEF Open
    <3>13. \A q \in Readers : Desk!InProgress(action'[q]) =>
             action'[q].n \in 1..started /\ told'[action'[q].n]["succeeded"] = 0
               /\ told'[action'[q].n]["failed"] = 0
      BY <3>10 DEF Untold
    <3> QED BY ZenonT(60), <3>1, <3>9, <3>11, <3>12, <3>13 DEF Open, Untold
  <2> QED BY <2>1, <2>2
<1> QED BY <1>1, <1>2, <1>3, Kinds

LEMMA TruthStep ==
  ASSUME Desk!TerminalBounds
  PROVE  DeskTypes /\ Numbered /\ Truth /\ [Desk!Next]_(Desk!vars) => Truth'
<1> SUFFICES ASSUME DeskTypes, Numbered, Truth, [Desk!Next]_(Desk!vars) PROVE Truth'
  BY SMTT(60)
<1>1. paid \subseteq paid'
  BY ZenonT(60) DEF Desk!Next, Desk!Step, Desk!Taps, Desk!DeviceResets, Desk!PaymentReported,
     Desk!ClaimAges, Desk!vars, Desk!provider, Desk!StartCollection, Desk!ReadBefore,
     Desk!ClaimReaderAction, Desk!ClaimRefused, Desk!SendCollection, Desk!SendCollectionLost,
     Desk!ReleaseReaderAction, Desk!AcknowledgeReaderAction, Desk!StartReconcile,
     Desk!AskReader, Desk!CancelReaderAction, Desk!RefreshDevice, Desk!PaymentWasTaken,
     Desk!PaymentUnreadable, Desk!SettleReaderAction, Desk!Abort
<1>2. \A w \in Workers : TrueJob(job[w])'
  <2>1. \A w \in Workers : TrueJob(job'[w])
    <3>1. CASE job' = job BY <3>1 DEF Truth
    <3>2. ASSUME NEW w \in Workers, Moves(w) PROVE \A x \in Workers : TrueJob(job'[x])
      BY <3>2 DEF Moves, Sane, Desk!Go, Truth, DeskTypes
    <3> QED BY <3>1, <3>2, JobsMove
  <2> QED BY <1>1, <2>1 DEF TrueJob
<1>3. \A r \in Readers : device'[r].status = "succeeded" => device'[r].payment \in paid'
  <2>1. CASE UNCHANGED device BY <1>1, <2>1 DEF Truth
  <2>2. CASE Desk!Taps
    <3>1. PICK r \in Readers, o \in Desk!Outcomes :
            /\ device' = [device EXCEPT ![r] = [device[r] EXCEPT !.status = o]]
            /\ paid' = IF o = "succeeded" THEN paid \cup {device[r].payment} ELSE paid
      BY <2>2 DEF Desk!Taps
    <3>2. /\ [device[r] EXCEPT !.status = o].status = o
          /\ [device[r] EXCEPT !.status = o].payment = device[r].payment
      BY DeskRows DEF Collection
    <3> QED BY <1>1, <3>1, <3>2 DEF Truth, DeskTypes
  <2>3. CASE Desk!DeviceResets
    <3>1. Desk!NoCollection.status = "none" BY DEF Desk!NoCollection
    <3> QED BY <1>1, <2>3, <3>1 DEF Desk!DeviceResets, Truth, DeskTypes
  <2>4. ASSUME NEW w \in Workers,
               Desk!SendCollection(w) \/ Desk!SendCollectionLost(w)
                 \/ Desk!CancelReaderAction(w)
        PROVE  \A r \in Readers : device'[r].status = "succeeded"
                 => device'[r].payment \in paid'
    <3>1. \A r \in Readers : [device[r] EXCEPT !.status = "failed"].status = "failed"
      BY DeskRows DEF Collection
    <3>2. Desk!Reader(w) \in Readers
      BY <2>4, DeskHeld DEF Desk!SendCollection, Desk!SendCollectionLost,
         Desk!CancelReaderAction, Desk!At, Names
    <3>3. \A r \in Readers : \/ device'[r] = device[r]
                             \/ device'[r].status \in {"in_progress", "failed"}
      <4>1. CASE Desk!SendCollection(w) \/ Desk!SendCollectionLost(w)
        BY <3>2, <4>1 DEF Desk!SendCollection, Desk!SendCollectionLost, DeskTypes
      <4>2. CASE Desk!CancelReaderAction(w)
        <5>1. device' = [device EXCEPT ![Desk!Reader(w)] =
                           [device[Desk!Reader(w)] EXCEPT !.status = "failed"]]
          BY SMTT(60), <4>2 DEF Desk!CancelReaderAction
        <5> QED BY <3>1, <3>2, <5>1 DEF DeskTypes
      <4> QED BY <2>4, <4>1, <4>2
    <3> QED BY <1>1, <3>3 DEF Truth
  <2>5. \/ UNCHANGED device \/ Desk!Taps \/ Desk!DeviceResets
        \/ \E w \in Workers : Desk!SendCollection(w) \/ Desk!SendCollectionLost(w)
             \/ Desk!CancelReaderAction(w)
    BY Zenon DEF Desk!Next, Desk!Step, Desk!PaymentReported, Desk!ClaimAges, Desk!vars,
       Desk!provider, Desk!StartCollection, Desk!ReadBefore, Desk!ClaimReaderAction,
       Desk!ClaimRefused, Desk!ReleaseReaderAction, Desk!AcknowledgeReaderAction,
       Desk!StartReconcile, Desk!AskReader, Desk!RefreshDevice, Desk!PaymentWasTaken,
       Desk!PaymentUnreadable, Desk!SettleReaderAction, Desk!Abort
  <2> QED BY <2>1, <2>2, <2>3, <2>4, <2>5
<1>4. Desk!SuccessWasTaken'
  <2>1. CASE Quiet
    BY <1>1, <2>1 DEF Quiet, RowKept, Same, Desk!SuccessWasTaken, Truth
  <2>2. ASSUME NEW w \in Workers, Desk!ClaimReaderAction(w) PROVE Desk!SuccessWasTaken'
    BY <1>1, <2>2, ClaimedRow DEF Desk!SuccessWasTaken, Truth
  <2>3. ASSUME NEW w \in Workers, Desk!SettleReaderAction(w) PROVE Desk!SuccessWasTaken'
    <3> DEFINE J == job[w]
               r == J.reader
    <3>1. CASE UNCHANGED <<action, told>> BY <1>1, <3>1 DEF Desk!SuccessWasTaken, Truth
    <3>2. CASE ~(UNCHANGED <<action, told>>)
      <4>1. /\ r \in Readers /\ J.outcome = "succeeded" => J.row.payment \in paid
            /\ action[r].n = J.row.n /\ action'[r].payment = action[r].payment
            /\ action'[r].status = J.outcome
            /\ \A q \in Readers \ {r} : action'[q] = action[q]
        BY <2>3, <3>2, SettledRow
      <4>2. action[r].payment = J.row.payment
        <5>1. Pair(action[r]) \in Pairs /\ Pair(J.row) \in Pairs
          BY <2>3, DeskRows, DeskHeld, SettledRow
        <5>2. Pair(action[r])[1] = Pair(J.row)[1] BY <4>1 DEF Pair
        <5>3. Pair(action[r])[2] = Pair(J.row)[2] BY <5>1, <5>2 DEF Numbered
        <5> QED BY <5>3 DEF Pair
      <4> QED BY <1>1, <4>1, <4>2 DEF Desk!SuccessWasTaken, Truth
    <3> QED BY <3>1, <3>2
  <2> QED BY <2>1, <2>2, <2>3, Kinds
<1> QED BY <1>2, <1>3, <1>4 DEF Truth, TrueJob

LEMMA CollectorStep ==
  ASSUME Desk!TerminalBounds
  PROVE  DeskTypes /\ Truth /\ Desk!OneCollector /\ [Desk!Next]_(Desk!vars)
           => Desk!OneCollector'
<1> SUFFICES ASSUME DeskTypes, Truth, Desk!OneCollector, [Desk!Next]_(Desk!vars)
             PROVE  Desk!OneCollector'
  OBVIOUS
<1>1. CASE Quiet
  <2>1. \A r \in Readers : Desk!InProgress(action'[r]) =>
          Desk!InProgress(action[r]) /\ action'[r].payment = action[r].payment
    BY <1>1 DEF Quiet, RowKept, Same, Desk!InProgress
  <2> QED BY <2>1 DEF Desk!OneCollector
<1>2. ASSUME NEW w \in Workers, Desk!ClaimReaderAction(w) PROVE Desk!OneCollector'
  BY <1>2, ClaimedRow DEF Desk!OneCollector
<1>3. ASSUME NEW w \in Workers, Desk!SettleReaderAction(w) PROVE Desk!OneCollector'
  <2>1. \A r \in Readers : Desk!InProgress(action'[r]) =>
          Desk!InProgress(action[r]) /\ action'[r].payment = action[r].payment
    BY <1>3, SettledRow DEF Desk!InProgress, Desk!Outcomes
  <2> QED BY <2>1 DEF Desk!OneCollector
<1> QED BY <1>1, <1>2, <1>3, Kinds

-----------------------------------------------------------------------------
LEMMA Starts ==
  ASSUME Desk!TerminalBounds
  PROVE  Desk!Init
           => DeskTypes /\ Truth /\ Numbered /\ Open /\ Desk!SettledOnce /\ Desk!OneCollector
<1> SUFFICES ASSUME Desk!Init
             PROVE  DeskTypes /\ Truth /\ Numbered /\ Open /\ Desk!SettledOnce
                      /\ Desk!OneCollector
  OBVIOUS
<1>1. /\ \A r \in Readers : action[r] = Desk!NoAction /\ device[r] = Desk!NoCollection
      /\ \A w \in Workers : job[w] = Desk!Idle
      /\ started = 0 /\ DOMAIN told = 1..MaxAttempts
      /\ \A n \in 1..MaxAttempts : told[n]["succeeded"] = 0 /\ told[n]["failed"] = 0
  BY DEF Desk!Init, Desk!Outcomes
<1>2. /\ Desk!NoAction.status = "none" /\ Desk!NoCollection.status = "none"
      /\ Desk!Idle.row = Desk!NoAction /\ Desk!Idle.before = Desk!NoAction
           /\ Desk!Idle.read = Desk!NoCollection
  BY DEF Desk!NoAction, Desk!NoCollection, Desk!Idle
<1>3. Desk!Idle \in DeskJobType /\ Names(Desk!Idle) BY IdleIsSane DEF Sane
<1>4. DeskTypes
  <2>1. action \in [Readers -> ActionType] /\ device \in [Readers -> Collection]
    BY IdleIsSane DEF Desk!Init
  <2>2. told \in [1..MaxAttempts -> [Desk!Outcomes -> Nat]] BY DEF Desk!Init
  <2>3. job \in [Workers -> DeskJobType] BY <1>3 DEF Desk!Init
  <2> QED BY <1>1, <1>2, <1>3, <2>1, <2>2, <2>3 DEF Desk!Init, DeskTypes, Desk!TerminalBounds
<1>5. Truth
  <2>1. TrueJob(Desk!Idle) BY IdleIsSane DEF Sane
  <2> QED BY <1>1, <1>2, <2>1 DEF Truth, Desk!SuccessWasTaken
<1>6. Numbered
  <2>1. Pairs \subseteq {NoPair} BY <1>1, <1>2, IdleIsSane DEF Pairs
  <2>2. NoPair[1] = 0 /\ NoPair[2] = "none" BY DEF NoPair
  <2> QED BY <1>1, <2>1, <2>2 DEF Numbered
<1>7. Open BY <1>1, <1>2 DEF Open, Untold, Desk!InProgress
<1>8. Desk!SettledOnce BY <1>1 DEF Desk!SettledOnce
<1>9. Desk!OneCollector BY <1>1, <1>2 DEF Desk!OneCollector, Desk!InProgress
<1> QED BY <1>4, <1>5, <1>6, <1>7, <1>8, <1>9

LEMMA SoundAlways == ASSUME Desk!TerminalBounds
                     PROVE  Desk!Spec => [](DeskTypes /\ Truth /\ Numbered)
<1>1. DeskTypes /\ Truth /\ Numbered /\ [Desk!Next]_(Desk!vars)
        => (DeskTypes /\ Truth /\ Numbered)'
  BY TypesStep, TruthStep, NumberedStep
<1> QED BY <1>1, Starts, PTL DEF Desk!Spec

\* Whichever of the requests, the events and the sweep gets there first, and
\* from copies of whatever age: the readers' rows, and what the workers
\* hold of them, stay what their schema allows.
THEOREM DeskTypesHold == ASSUME Desk!TerminalBounds PROVE Desk!Spec => []Desk!TypeOK
<1>1. DeskTypes => Desk!TypeOK
  BY DEF DeskTypes, Desk!TypeOK, ActionType, Collection, DeskJobType, DeskStatuses
<1> QED BY <1>1, SoundAlways, PTL

\* An attempt at a reader ends once and the merchant is told its end once,
\* whichever of processPaymentIntent, reconcileReader and cancelReaderAction
\* settles it, and however old what they read is.
THEOREM AttemptsSettleOnce == ASSUME Desk!TerminalBounds PROVE Desk!Spec => []Desk!SettledOnce
<1>1. DeskTypes /\ Truth /\ Open /\ Desk!SettledOnce /\ [Desk!Next]_(Desk!vars)
        => (Open /\ Desk!SettledOnce)'
  BY OpenStep
<1> QED BY <1>1, Starts, SoundAlways, PTL DEF Desk!Spec

\* settleReaderAction records a success only of a payment the provider took.
THEOREM SuccessesWereTaken ==
  ASSUME Desk!TerminalBounds
  PROVE  Desk!Spec => []Desk!SuccessWasTaken
<1>1. Truth => Desk!SuccessWasTaken BY DEF Truth
<1> QED BY <1>1, SoundAlways, PTL

\* claimReaderAction: two readers never collect one payment at once.
THEOREM CollectedByOne == ASSUME Desk!TerminalBounds PROVE Desk!Spec => []Desk!OneCollector
<1>1. DeskTypes /\ Truth /\ Desk!OneCollector /\ [Desk!Next]_(Desk!vars) => Desk!OneCollector'
  BY CollectorStep
<1> QED BY <1>1, Starts, SoundAlways, PTL DEF Desk!Spec
=============================================================================
