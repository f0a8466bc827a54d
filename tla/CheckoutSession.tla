---------------------------- MODULE CheckoutSession ----------------------------
(***************************************************************************)
(* Checkout sessions in a fiat currency.  A payer edits the order, confirms *)
(* it by card or in FairCoin, and may change his mind while no money has   *)
(* moved; the merchant may expire it; a deadline passes.  The session      *)
(* follows its payment in the transaction that moves the payment, while    *)
(* every request works on the copy of the session it read first.  Orders   *)
(* are "full" or "discounted" by a promotion code that the sessions share. *)
(***************************************************************************)
EXTENDS Naturals, FiniteSets

CONSTANTS
  Sessions, Workers,
  Methods,          \* what the payers choose from
  MaxRedemptions,   \* max_redemptions of the code
  MaxQuotes,        \* bound: FairCoin payments of one session
  MaxWrites,        \* bound: writes of one session's row
  MaxFaults         \* bound: lost answers, dead requests and reorganisations

CheckoutBounds ==
  /\ Methods \subseteq {"card", "faircoin"}
  /\ MaxRedemptions \in Nat /\ MaxQuotes \in Nat /\ MaxWrites \in Nat /\ MaxFaults \in Nat

VARIABLES
  session,    \* checkout_sessions
  payment,    \* the sessions' payment_intents
  acquirer,   \* what a card payment is at the acquirer (external)
  redeemed,   \* times_redeemed of the code
  due,        \* sessions past expires_at
  told,       \* per session: the checkout events of each type
  job,        \* per request: what it holds
  faults

vars == <<session, payment, acquirer, redeemed, due, told, job, faults>>

Orders == {"full", "discounted"}
Ids == (Sessions \X {"card"} \X Orders) \cup (Sessions \X {"faircoin"} \X (1..MaxQuotes))
NoId == <<"none", "none", 0>>
SessionOf(id) == id[1]
Rail(id) == id[2]
News == {"completed", "expired", "async_succeeded", "async_failed"}
Pcs == {"idle", "reprice", "reread", "create", "link", "linked", "create_other",
        "cancel_old", "replace", "orphan", "orphan_row", "read", "expire_cancel",
        "expire_transition", "expire_row"}
NoPayment == [status |-> "none", order |-> "full"]
NewSession == [status |-> "open", paid |-> FALSE, order |-> "full", link |-> NoId, written |-> 0]
\* The session as read, the method chosen, the payment it makes with its status
\* then, and the payment that is to give way.
Idle == [pc |-> "idle", id |-> "none", copy |-> NewSession, method |-> "none",
         fresh |-> NoId, was |-> "none", old |-> NoId]

Init ==
  /\ session = [s \in Sessions |-> NewSession]
  /\ payment = [id \in Ids |-> NoPayment]
  /\ acquirer = [id \in Ids |-> "none"]
  /\ redeemed = 0 /\ due = {}
  /\ told = [s \in Sessions |-> [n \in News |-> 0]]
  /\ job = [w \in Workers |-> Idle]
  /\ faults = 0

At(w, pc) == job[w].pc = pc
Go(w, j) == job' = [job EXCEPT ![w] = j]
GoTo(w, pc) == Go(w, [job[w] EXCEPT !.pc = pc])
Fault == faults < MaxFaults /\ faults' = faults + 1
Writable(s) == session[s].written < MaxWrites
\* Every write stamps updated_at, which the next writer compares.
Put(s, row) == session' = [session EXCEPT ![s] = [row EXCEPT !.written = session[s].written + 1]]
Tell(s, news) == told' = [told EXCEPT ![s][news] = @ + 1]
orders == <<session, redeemed, told>>

-----------------------------------------------------------------------------
\* completion.ts: the session follows its payment, in the same transaction.

Redeem(s) ==
  redeemed' = IF session[s].order = "discounted" /\ redeemed < MaxRedemptions
              THEN redeemed + 1 ELSE redeemed

CompleteAs(s, paid) ==
  /\ Put(s, [session[s] EXCEPT !.status = "complete", !.paid = paid])
  /\ Redeem(s) /\ Tell(s, "completed")

ExpireSessionRow(s) ==
  /\ Put(s, [session[s] EXCEPT !.status = "expired"])
  /\ Tell(s, "expired") /\ UNCHANGED redeemed

FollowSucceeded(s, id) ==
  \/ session[s].status = "open" /\ CompleteAs(s, TRUE)
  \/ /\ session[s].status = "complete" /\ ~session[s].paid
     /\ Put(s, [session[s] EXCEPT !.paid = TRUE])
     /\ (IF Rail(id) = "faircoin" THEN Tell(s, "async_succeeded") ELSE UNCHANGED told)
     /\ UNCHANGED redeemed
  \/ session[s].status \notin {"open"} /\ (session[s].paid \/ session[s].status = "expired")
     /\ UNCHANGED orders

FollowProcessing(s, id) ==
  IF Rail(id) = "faircoin" /\ session[s].status = "open"
  THEN CompleteAs(s, FALSE) ELSE UNCHANGED orders

FollowCanceled(s, id) ==
  CASE session[s].status = "open" /\ Rail(id) = "faircoin" ->
         /\ Put(s, [session[s] EXCEPT !.link = NoId])
         /\ UNCHANGED <<redeemed, told>>
    [] session[s].status = "open" /\ Rail(id) = "card" -> ExpireSessionRow(s)
    [] session[s].status = "complete" /\ ~session[s].paid /\ Rail(id) = "faircoin" ->
         Tell(s, "async_failed") /\ UNCHANGED <<session, redeemed>>
    [] OTHER -> UNCHANGED orders

\* A faulty variant: a payment that succeeds completes its session again.
FollowIntentAgain(id, status) ==
  LET s == SessionOf(id)
  IN IF session[s].link # id THEN UNCHANGED orders
     ELSE CASE status = "succeeded"  -> CompleteAs(s, TRUE)
            [] status = "processing" -> FollowProcessing(s, id)
            [] status = "canceled"   -> FollowCanceled(s, id)

\* A faulty variant: a broadcast is taken for the payment.
FollowIntentEarly(id, status) ==
  LET s == SessionOf(id)
  IN IF session[s].link # id THEN UNCHANGED orders
     ELSE CASE status = "succeeded"  -> FollowSucceeded(s, id)
            [] status = "processing" -> FollowSucceeded(s, id)
            [] status = "canceled"   -> FollowCanceled(s, id)

\* followIntentForCheckout: only the session that links the payment.
FollowIntent(id, status) ==
  LET s == SessionOf(id)
  IN IF session[s].link # id THEN UNCHANGED orders
     ELSE CASE status = "succeeded"  -> FollowSucceeded(s, id)
            [] status = "processing" -> FollowProcessing(s, id)
            [] status = "canceled"   -> FollowCanceled(s, id)

\* transitionIntent: the compare-and-swap, and the session with it.
MovePayment(id, from, to) ==
  IF payment[id].status = from
  THEN payment' = [payment EXCEPT ![id].status = to] /\ FollowIntent(id, to)
  ELSE UNCHANGED <<payment, orders>>

-----------------------------------------------------------------------------
\* The payer's edit, a compare-and-swap on the row's updated_at: a code is
\* applied while it has redemptions left, or removed.
UpdateSessionAsPayer(s) ==
  /\ session[s].status = "open" /\ session[s].link = NoId /\ s \notin due /\ Writable(s)
  /\ session[s].order = "full" => redeemed < MaxRedemptions
  /\ Put(s, [session[s] EXCEPT !.order = IF @ = "full" THEN "discounted" ELSE "full"])
  /\ UNCHANGED <<payment, acquirer, redeemed, due, told, job, faults>>

\* confirmSessionAsPayer
StartConfirm(w) ==
  /\ At(w, "idle")
  /\ \E s \in Sessions, method \in Methods :
       /\ session[s].status = "open"
       /\ session[s].link = NoId => s \notin due
       /\ Go(w, [Idle EXCEPT !.pc = IF session[s].link = NoId THEN "reprice" ELSE "linked",
                   !.id = s, !.copy = session[s], !.method = method])
  /\ UNCHANGED <<payment, acquirer, orders, due, faults>>

\* The order is priced again and locked, unless the row was written meanwhile.
WriteSessionOrder(w) ==
  /\ At(w, "reprice")
  /\ LET s == job[w].id
     IN IF /\ session[s].written = job[w].copy.written
           /\ session[s].status = "open" /\ session[s].link = NoId
        THEN Writable(s) /\ Put(s, session[s]) /\ GoTo(w, "reread")
        ELSE UNCHANGED session /\ Go(w, Idle)
  /\ UNCHANGED <<payment, acquirer, redeemed, due, told, faults>>

RereadSession(w) ==
  /\ At(w, "reread")
  /\ Go(w, [job[w] EXCEPT !.pc = "create", !.copy = session[job[w].id]])
  /\ UNCHANGED <<payment, acquirer, orders, due, faults>>

\* A card payment is named by its session and amount, a quoted one is new.
SessionPayments(s, order, method) ==
  IF method = "card" THEN {<<s, "card", order>>}
  ELSE {<<s, "faircoin", n>> :
          n \in {k \in 1..MaxQuotes : \A i \in 1..MaxQuotes :
                   (payment[<<s, "faircoin", i>>].status # "none") <=> i < k}}

\* createSessionPayment: a key that was used answers with the payment it made.
CreateSessionPayment(w) ==
  /\ job[w].pc \in {"create", "create_other"}
  /\ \E id \in SessionPayments(job[w].id, job[w].copy.order, job[w].method) :
       LET new == payment[id].status = "none"
       IN /\ payment' = IF new
                        THEN [payment EXCEPT ![id] = [status |-> "waiting",
                                                      order |-> job[w].copy.order]]
                        ELSE payment
          /\ acquirer' = IF new /\ job[w].method = "card"
                         THEN [acquirer EXCEPT ![id] = "open"] ELSE acquirer
          /\ Go(w, [job[w] EXCEPT !.fresh = id, !.was = payment'[id].status,
                      !.pc = CASE At(w, "create") -> "link"
                               [] At(w, "create_other") /\ Rail(job[w].old) = "card" -> "cancel_old"
                               [] At(w, "create_other") /\ Rail(job[w].old) # "card" -> "replace"])
  /\ UNCHANGED <<orders, due, faults>>

Held(s) ==
  Cardinality({o \in Sessions \ {s} : /\ session[o].status = "open" /\ session[o].link # NoId
                                      /\ session[o].order = "discounted"})

\* A faulty variant: what other orders hold is not counted.
MayRedeemUncounted(s) == session[s].order = "discounted" => redeemed < MaxRedemptions

\* reserveDiscount, under the code's lock.
MayRedeem(s) == session[s].order = "discounted" => redeemed + Held(s) < MaxRedemptions

\* A faulty variant: linked at whatever the order costs by now.
LinksRegardless(w) ==
  LET s == job[w].id IN session[s].status = "open" /\ session[s].link = NoId

Links(w) ==
  LET s == job[w].id
  IN /\ session[s].status = "open" /\ session[s].link = NoId
     /\ session[s].order = payment[job[w].fresh].order

\* The transaction that links the payment, or finds it nobody's.
LinkSessionObject(w) ==
  /\ At(w, "link")
  /\ LET s == job[w].id
         id == job[w].fresh
     IN \/ /\ Links(w) /\ MayRedeem(s) /\ Writable(s)
           /\ Put(s, [session[s] EXCEPT !.link = id])
           /\ Go(w, Idle)
           /\ UNCHANGED <<payment, redeemed, told>>
        \/ /\ Links(w) /\ ~MayRedeem(s)
           /\ GoTo(w, "orphan")
           /\ UNCHANGED <<payment, orders>>
        \/ /\ ~Links(w) /\ session[s].link = id
           /\ Go(w, Idle)
           /\ UNCHANGED <<payment, orders>>
        \/ /\ ~Links(w) /\ session[s].link # id /\ job[w].method = "card"
           /\ GoTo(w, "orphan")
           /\ UNCHANGED <<payment, orders>>
        \/ /\ ~Links(w) /\ session[s].link # id /\ job[w].method = "faircoin"
           /\ MovePayment(id, job[w].was, "canceled")
           /\ Go(w, Idle)
  /\ UNCHANGED <<acquirer, due, faults>>

\* replaceSessionPaymentAsPayer
ReadLinked(w) ==
  /\ At(w, "linked")
  /\ LET old == job[w].copy.link
         replaceable == payment[old].status = "waiting"
     IN \/ Go(w, Idle) /\ (~replaceable \/ Rail(old) = job[w].method)
        \/ /\ replaceable /\ (Rail(old) # job[w].method \/ Rail(old) = "faircoin")
           /\ Go(w, [job[w] EXCEPT !.pc = "create_other", !.old = old])
  /\ UNCHANGED <<payment, acquirer, orders, due, faults>>

\* cancelCardPaymentAtProvider: asked, then what is true there.
CancelAtProvider(id) ==
  acquirer' = [acquirer EXCEPT ![id] = IF @ = "open" THEN "canceled" ELSE @]

CancelOldAtProvider(w) ==
  /\ At(w, "cancel_old")
  /\ CancelAtProvider(job[w].old)
  /\ \/ /\ GoTo(w, IF acquirer'[job[w].old] = "canceled" THEN "replace" ELSE "orphan")
        /\ UNCHANGED faults
     \/ Fault /\ GoTo(w, "orphan")
  /\ UNCHANGED <<payment, orders, due>>

\* A faulty variant: the order is written as the request read it, whatever the
\* payment that gives way has become.
ReplaceSessionPaymentOver(w) ==
  /\ At(w, "replace")
  /\ LET s == job[w].id
         old == job[w].old
     IN /\ Writable(s)
        /\ Put(s, [job[w].copy EXCEPT !.link = job[w].fresh])
        /\ payment' = IF payment[old].status = "waiting"
                      THEN [payment EXCEPT ![old].status = "canceled"] ELSE payment
        /\ Go(w, Idle)
  /\ UNCHANGED <<acquirer, redeemed, due, told, faults>>

\* Linked first, so that the old payment's cancellation finds no session.
ReplaceSessionPayment(w) ==
  /\ At(w, "replace")
  /\ LET s == job[w].id
         old == job[w].old
     IN IF /\ session[s].status = "open" /\ session[s].link = old
           /\ session[s].order = payment[job[w].fresh].order
           /\ payment[old].status = "waiting"
        THEN /\ Writable(s)
             /\ Put(s, [session[s] EXCEPT !.link = job[w].fresh])
             /\ payment' = [payment EXCEPT ![old].status = "canceled"]
             /\ Go(w, Idle)
        ELSE GoTo(w, "orphan") /\ UNCHANGED <<session, payment>>
  /\ UNCHANGED <<acquirer, redeemed, due, told, faults>>

\* cancelOrphanIntent, on the payment as it was when the request made it.
CancelOrphan(w) ==
  /\ At(w, "orphan")
  /\ LET id == job[w].fresh
     IN IF job[w].was # "waiting" THEN Go(w, Idle) /\ UNCHANGED <<acquirer, faults>>
        ELSE IF Rail(id) = "faircoin" THEN GoTo(w, "orphan_row") /\ UNCHANGED <<acquirer, faults>>
        ELSE /\ CancelAtProvider(id)
             /\ \/ /\ IF acquirer'[id] = "canceled" THEN GoTo(w, "orphan_row") ELSE Go(w, Idle)
                   /\ UNCHANGED faults
                \/ Fault /\ Go(w, Idle)
  /\ UNCHANGED <<payment, orders, due>>

CancelOrphanRow(w) ==
  /\ At(w, "orphan_row")
  /\ MovePayment(job[w].fresh, "waiting", "canceled")
  /\ Go(w, Idle)
  /\ UNCHANGED <<acquirer, due, faults>>

-----------------------------------------------------------------------------
\* expireSessionForMerchant
StartExpire(w) ==
  /\ At(w, "idle")
  /\ \E s \in Sessions :
       /\ session[s].status = "open"
       /\ Go(w, [Idle EXCEPT !.pc = IF session[s].link = NoId THEN "expire_row" ELSE "read",
                   !.id = s, !.copy = session[s], !.old = session[s].link])
  /\ UNCHANGED <<payment, acquirer, orders, due, faults>>

ReadPayment(w) ==
  /\ At(w, "read")
  /\ CASE payment[job[w].old].status = "canceled" -> GoTo(w, "expire_row")
       [] payment[job[w].old].status = "waiting"  -> GoTo(w, "expire_cancel")
       [] OTHER                                   -> Go(w, Idle)
  /\ UNCHANGED <<payment, acquirer, orders, due, faults>>

ExpireCancel(w) ==
  /\ At(w, "expire_cancel")
  /\ LET id == job[w].old
     IN IF Rail(id) = "faircoin"
        THEN GoTo(w, "expire_transition") /\ UNCHANGED <<acquirer, faults>>
        ELSE /\ CancelAtProvider(id)
             /\ \/ /\ (IF acquirer'[id] = "canceled" THEN GoTo(w, "expire_transition")
                       ELSE Go(w, Idle))
                   /\ UNCHANGED faults
                \/ Fault /\ Go(w, Idle)
  /\ UNCHANGED <<payment, orders, due>>

ExpireTransition(w) ==
  /\ At(w, "expire_transition")
  /\ (IF payment[job[w].old].status = "waiting" THEN GoTo(w, "expire_row") ELSE Go(w, Idle))
  /\ MovePayment(job[w].old, "waiting", "canceled")
  /\ UNCHANGED <<acquirer, due, faults>>

\* A faulty variant: expired whatever the session is by then.
ExpireRowAlways(w) ==
  /\ At(w, "expire_row")
  /\ ExpireSessionRow(job[w].id)
  /\ Go(w, Idle)
  /\ UNCHANGED <<payment, acquirer, due, faults>>

ExpireRow(w) ==
  /\ At(w, "expire_row")
  /\ IF session[job[w].id].status = "open" THEN ExpireSessionRow(job[w].id)
     ELSE UNCHANGED orders
  /\ Go(w, Idle)
  /\ UNCHANGED <<payment, acquirer, due, faults>>

\* A faulty variant: an order whose payment was canceled is left to that payment.
ExpireDueSessionsUnlinked(s) ==
  /\ s \in due /\ session[s].status = "open" /\ session[s].link = NoId
  /\ ExpireSessionRow(s)
  /\ UNCHANGED <<payment, acquirer, due, job, faults>>

\* expireDueSessions: only when no payment can still arrive.
ExpireDueSessions(s) ==
  /\ s \in due /\ session[s].status = "open"
  /\ session[s].link # NoId => payment[session[s].link].status = "canceled"
  /\ ExpireSessionRow(s)
  /\ UNCHANGED <<payment, acquirer, due, job, faults>>

-----------------------------------------------------------------------------
\* The payments: what CardIntent and FairSettlement model in detail.

\* A quote lapses, or its address's key was replaced; a card payment expires
\* with the order, at the acquirer first.
QuoteLapses(id) ==
  /\ Rail(id) = "faircoin" /\ payment[id].status = "waiting"
  /\ MovePayment(id, "waiting", "canceled")
  /\ UNCHANGED <<acquirer, due, job, faults>>

CardExpires(id) ==
  /\ SessionOf(id) \in due /\ acquirer[id] = "open"
  /\ CancelAtProvider(id)
  /\ UNCHANGED <<payment, orders, due, job, faults>>

\* The acquirer's word reaches the row.
CardReported(id) ==
  /\ acquirer[id] \in {"paid", "canceled"} /\ payment[id].status = "waiting"
  /\ MovePayment(id, "waiting", IF acquirer[id] = "paid" THEN "succeeded" ELSE "canceled")
  /\ UNCHANGED <<acquirer, due, job, faults>>

\* The payer pays what his page shows him.
PayCard(id) ==
  /\ session[SessionOf(id)].link = id /\ acquirer[id] = "open"
  /\ acquirer' = [acquirer EXCEPT ![id] = "paid"]
  /\ UNCHANGED <<payment, orders, due, job, faults>>

Broadcast(id) ==
  /\ session[SessionOf(id)].link = id /\ Rail(id) = "faircoin" /\ payment[id].status = "waiting"
  /\ MovePayment(id, "waiting", "processing")
  /\ UNCHANGED <<acquirer, due, job, faults>>

\* Deep enough, or short of the amount.
ChainDecides(id) ==
  /\ payment[id].status = "processing"
  /\ \E to \in {"succeeded", "canceled"} : MovePayment(id, "processing", to)
  /\ UNCHANGED <<acquirer, due, job, faults>>

ChainRewinds(id) ==
  /\ Rail(id) = "faircoin" /\ payment[id].status = "succeeded" /\ Fault
  /\ MovePayment(id, "succeeded", "processing")
  /\ UNCHANGED <<acquirer, due, job>>

DeadlinePasses(s) ==
  /\ s \notin due /\ due' = due \cup {s}
  /\ UNCHANGED <<payment, acquirer, orders, job, faults>>

Abort(w) ==
  /\ ~At(w, "idle") /\ Fault
  /\ Go(w, Idle)
  /\ UNCHANGED <<payment, acquirer, orders, due>>

Confirm(w) ==
  \/ WriteSessionOrder(w) \/ RereadSession(w) \/ CreateSessionPayment(w)
  \/ LinkSessionObject(w) \/ ReadLinked(w) \/ CancelOldAtProvider(w)
  \/ ReplaceSessionPayment(w) \/ CancelOrphan(w) \/ CancelOrphanRow(w)

Expire(w) == ReadPayment(w) \/ ExpireCancel(w) \/ ExpireTransition(w) \/ ExpireRow(w)

Next ==
  \/ \E w \in Workers : StartConfirm(w) \/ Confirm(w) \/ StartExpire(w) \/ Expire(w) \/ Abort(w)
  \/ \E s \in Sessions : UpdateSessionAsPayer(s) \/ ExpireDueSessions(s) \/ DeadlinePasses(s)
  \/ \E id \in Ids : \/ QuoteLapses(id) \/ CardExpires(id) \/ CardReported(id) \/ PayCard(id)
                     \/ Broadcast(id) \/ ChainDecides(id) \/ ChainRewinds(id)

Spec == Init /\ [][Next]_vars

\* Requests end, sweeps and drains run.  Nobody has to pay.
Fairness ==
  /\ \A w \in Workers : WF_vars(Confirm(w) \/ Expire(w))
  /\ \A s \in Sessions : WF_vars(ExpireDueSessions(s))
  /\ \A id \in Ids :
       WF_vars(QuoteLapses(id)) /\ WF_vars(CardExpires(id)) /\ WF_vars(CardReported(id))

FairSpec == Spec /\ Fairness

-----------------------------------------------------------------------------
Statuses == {"none", "waiting", "processing", "succeeded", "canceled"}
SessionRows == [status : {"open", "complete", "expired"}, paid : BOOLEAN, order : Orders,
                link : Ids \cup {NoId}, written : Nat]

TypeOK ==
  /\ session \in [Sessions -> SessionRows]
  /\ payment \in [Ids -> [status : Statuses, order : Orders]]
  /\ acquirer \in [Ids -> {"none", "open", "paid", "canceled"}]
  /\ redeemed \in 0..MaxRedemptions /\ due \subseteq Sessions
  /\ told \in [Sessions -> [News -> Nat]]
  /\ job \in [Workers -> [pc : Pcs, id : Sessions \cup {"none"}, copy : SessionRows,
                          method : {"card", "faircoin", "none"}, fresh : Ids \cup {NoId},
                          was : Statuses, old : Ids \cup {NoId}]]
  /\ faults \in 0..MaxFaults

\* A code sells as often as it may, whoever races for its last redemption and
\* however often an order lets go of a payment and takes another.
CodeWithinBound ==
  Cardinality({s \in Sessions : session[s].status = "complete" /\ session[s].order = "discounted"})
    <= MaxRedemptions

\* An order is paid once: changing from one method to the other while the first
\* payment is being made never leaves two payments that took money.
Took(id) == acquirer[id] = "paid" \/ payment[id].status \in {"processing", "succeeded"}
PaidOnce == \A s \in Sessions : Cardinality({id \in Ids : SessionOf(id) = s /\ Took(id)}) <= 1

\* A session that says it was paid was, at the price the order has (while the
\* chain undoes nothing).
PaidIsReceived ==
  faults = 0 =>
    \A s \in Sessions : session[s].paid =>
      /\ session[s].link # NoId /\ payment[session[s].link].status = "succeeded"
      /\ payment[session[s].link].order = session[s].order

\* The merchant is told once how the order ended, and once that a payment which
\* was still being confirmed arrived.
NewsOnce ==
  \A s \in Sessions :
    told[s]["completed"] + told[s]["expired"] <= 1 /\ told[s]["async_succeeded"] <= 1

\* An open order's card payment can be paid while the order may be: a payer who
\* changes his mind twice is not given back the one canceled the first time.
CardChoicePayable ==
  \A s \in Sessions : session[s].status = "open" /\ s \notin due /\ Rail(session[s].link) = "card" =>
    payment[session[s].link].status # "canceled"

\* An order ends because its time is over or the merchant ends it, never because
\* the payer chose how to pay.
ChoosingEndsNothing ==
  [][\A s \in Sessions : session[s].status = "open" /\ session'[s].status = "expired" =>
       \/ s \in due
       \/ \E w \in Workers :
            job[w].id = s /\ job[w].pc \in {"expire_transition", "expire_row"}]_session

\* Nobody pays an order that has expired.
ExpiredTakesNothing ==
  \A s \in Sessions : session[s].status = "expired" =>
    \A id \in Ids : SessionOf(id) = s => ~Took(id)

\* An order past its deadline does not stay open.
DueOrderEnds == \A s \in Sessions : s \in due ~> session[s].status # "open"
=============================================================================
