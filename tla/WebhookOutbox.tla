---------------------------- MODULE WebhookOutbox ----------------------------
(***************************************************************************)
(* The webhook outbox: an event is committed with one pending delivery per *)
(* enabled endpoint, and dispatcher passes on every task claim due         *)
(* deliveries under a lease, POST each once, and record what happened.     *)
(*                                                                         *)
(* One lease covers the whole batch a pass claims, the batch is attempted  *)
(* in sequence, and what a pass records is addressed to the delivery alone *)
(* and not to the claim it made: nothing keeps a batch from outlasting its *)
(* lease, and the history variable overrun says of which deliveries one    *)
(* has.                                                                    *)
(***************************************************************************)
EXTENDS Naturals, FiniteSets

CONSTANTS
  Events,          \* events a merchant's objects produce
  Endpoints,       \* the merchant's webhook endpoints
  Passes,          \* dispatcher passes that may run at once
  ScheduleLength,  \* entries of the backoff schedule
  BatchSize,       \* deliveries one pass claims
  MaxRedeliveries, \* bound: manual redeliveries of one event to one endpoint
  MaxFaults        \* bound: passes that die or fail to write

OutboxBounds ==
  /\ ScheduleLength \in Nat \ {0} /\ BatchSize \in Nat \ {0}
  /\ MaxRedeliveries \in Nat /\ MaxFaults \in Nat

VARIABLES
  recorded,  \* events committed so far
  delivery,  \* webhook_deliveries, by event, endpoint and redelivery
  endpoint,  \* webhook_endpoints: status, whether its stored url is refused,
             \* and its run of failures
  pass,      \* what each pass is doing, with the rows it claimed
  accepted,  \* external: the deliveries an endpoint has taken in
  overrun,   \* history: the deliveries whose lease ran out under a pass that held
             \* them still
  faults

vars == <<recorded, delivery, endpoint, pass, accepted, overrun, faults>>

Ids == Events \X Endpoints \X (0..MaxRedeliveries)
EndpointOf(d) == d[2]

Ended == {"delivered", "failed", "dead"}
Leases == {"none", "live", "lapsed"}
Outcomes == {"delivered", "refused", "retry"}
NoRow == [status |-> "none", attempts |-> 0, due |-> FALSE, lease |-> "none"]
NewRow == [status |-> "pending", attempts |-> 0, due |-> TRUE, lease |-> "none"]

\* A claimed row, as the claim returned it: the attempts are those of then.
Claimed == [id : Ids, attempts : Nat]
NoClaim == [id |-> <<>>, attempts |-> 0]
Idle == [pc |-> "idle", todo |-> {}, row |-> NoClaim, outcome |-> "none"]

Init ==
  /\ recorded = {}
  /\ delivery = [d \in Ids |-> NoRow]
  /\ endpoint \in [Endpoints -> [status : {"enabled"}, refused : BOOLEAN,
                                 failing : {"no"}]]
  /\ pass = [p \in Passes |-> Idle]
  /\ accepted = {} /\ overrun = {}
  /\ faults = 0

-----------------------------------------------------------------------------
\* recordEvent: the event and its fan-out, in the transaction of the change.
RecordEvent(e) ==
  /\ e \notin recorded
  /\ recorded' = recorded \cup {e}
  /\ delivery' = [d \in Ids |->
       IF d[1] = e /\ d[3] = 0 /\ endpoint[EndpointOf(d)].status = "enabled"
       THEN NewRow ELSE delivery[d]]
  /\ UNCHANGED <<endpoint, pass, accepted, faults, overrun>>

\* A redelivery is a new delivery of the same event to the same endpoint.
Redeliver(d) ==
  /\ d[3] > 0
  /\ delivery[d].status = "none"
  /\ delivery[<<d[1], d[2], d[3] - 1>>].status \notin {"none", "deleted"}
  /\ endpoint[EndpointOf(d)].status = "enabled"
  /\ delivery' = [delivery EXCEPT ![d] = NewRow]
  /\ UNCHANGED <<recorded, endpoint, pass, accepted, faults, overrun>>

(***************************************************************************)
(* The merchant disables an endpoint, enables it (which ends its run of    *)
(* failures), or moves it to a url that has passed the rules.              *)
(***************************************************************************)
UpdateEndpoint(w) ==
  /\ endpoint[w].status # "deleted"
  /\ \E status \in {"enabled", "disabled", "as it is"}, moved \in BOOLEAN :
       endpoint' = [endpoint EXCEPT ![w] =
         [status  |-> IF status = "as it is" THEN @.status ELSE status,
          refused |-> @.refused /\ ~moved,
          failing |-> IF status = "enabled" THEN "no" ELSE @.failing]]
  /\ UNCHANGED <<recorded, delivery, pass, accepted, faults, overrun>>

\* Its deliveries go with it, pending ones included.
DeleteEndpoint(w) ==
  /\ endpoint[w].status # "deleted"
  /\ endpoint' = [endpoint EXCEPT ![w] =
       [status |-> "deleted", refused |-> FALSE, failing |-> "no"]]
  /\ delivery' = [d \in Ids |->
       IF EndpointOf(d) = w /\ delivery[d].status # "none"
       THEN [NoRow EXCEPT !.status = "deleted"] ELSE delivery[d]]
  /\ UNCHANGED <<recorded, pass, accepted, faults, overrun>>

-----------------------------------------------------------------------------
\* A faulty variant: whoever holds it, a due row is claimed.
ClaimableByAnyone ==
  {d \in Ids : delivery[d].status = "pending" /\ delivery[d].due}

\* A faulty variant: a row whose claimant died is never claimed again.
ClaimableOnce ==
  {d \in Ids : /\ delivery[d].status = "pending" /\ delivery[d].due
               /\ delivery[d].lease = "none"}

\* One statement: pending, due, and under no live lease.
Claimable ==
  {d \in Ids : /\ delivery[d].status = "pending" /\ delivery[d].due
               /\ delivery[d].lease # "live"}

ClaimDueDeliveries(p) ==
  /\ pass[p] = Idle
  /\ \E batch \in SUBSET Claimable :
       /\ Cardinality(batch) =
            IF Cardinality(Claimable) < BatchSize
            THEN Cardinality(Claimable) ELSE BatchSize
       /\ batch # {}
       /\ delivery' = [d \in Ids |->
            IF d \in batch THEN [delivery[d] EXCEPT !.lease = "live"]
                           ELSE delivery[d]]
       /\ pass' = [pass EXCEPT ![p] =
            [Idle EXCEPT !.pc = "next",
               !.todo = {[id |-> d, attempts |-> delivery[d].attempts] : d \in batch}]]
  /\ UNCHANGED <<recorded, endpoint, accepted, faults, overrun>>

\* A faulty variant: a pass does not see the end of its batch.
AfterRowForever(todo) == [Idle EXCEPT !.pc = "next", !.todo = todo]

\* Between two rows of the batch, or at its end.
AfterRow(todo) == IF todo = {} THEN Idle ELSE [Idle EXCEPT !.pc = "next", !.todo = todo]
NextRow(p) == pass' = [pass EXCEPT ![p] = AfterRow(@.todo)]

(***************************************************************************)
(* deliverOne reads the endpoint as it is now.  The row of an endpoint     *)
(* deleted meanwhile is gone too, and releasing it matches nothing.        *)
(***************************************************************************)
FindEndpointSigningTarget(p) ==
  /\ pass[p].pc = "next"
  /\ \E row \in pass[p].todo :
       LET target == endpoint[EndpointOf(row.id)]
           rest == pass[p].todo \ {row}
           go(pc) == [pc |-> pc, todo |-> rest, row |-> row, outcome |-> "none"]
       IN pass' = [pass EXCEPT ![p] =
            CASE target.status = "deleted" -> AfterRow(rest)
              [] target.status = "disabled" -> go("release")
              [] target.status = "enabled" ->
                   go(IF target.refused THEN "refuse" ELSE "post")]
  /\ UNCHANGED <<recorded, delivery, endpoint, accepted, faults, overrun>>

\* An endpoint whose stored url breaks the rules is disabled, if still enabled.
DisableEndpoint(p) ==
  LET w == EndpointOf(pass[p].row.id) IN
  /\ pass[p].pc = "refuse"
  /\ endpoint' = IF endpoint[w].status = "enabled"
                 THEN [endpoint EXCEPT ![w].status = "disabled"] ELSE endpoint
  /\ pass' = [pass EXCEPT ![p].pc = "release"]
  /\ UNCHANGED <<recorded, delivery, accepted, faults, overrun>>

\* An update addressed to a row does nothing once the row is deleted.
Write(d, row) ==
  delivery' = IF delivery[d].status = "deleted" THEN delivery
              ELSE [delivery EXCEPT ![d] = row]

ReleaseDeliveryClaim(p) ==
  LET d == pass[p].row.id IN
  /\ pass[p].pc = "release"
  /\ Write(d, [delivery[d] EXCEPT !.status = "failed", !.due = FALSE,
                                  !.lease = "none"])
  /\ NextRow(p)
  /\ UNCHANGED <<recorded, endpoint, accepted, faults, overrun>>

(***************************************************************************)
(* One signed POST.  A 2xx is delivered, a 4xx refused, anything else is   *)
(* tried again, including an answer that was lost after the endpoint took  *)
(* the event in.                                                           *)
(***************************************************************************)
AttemptDelivery(p) ==
  /\ pass[p].pc = "post"
  /\ \E outcome \in Outcomes :
       /\ pass' = [pass EXCEPT ![p].pc = "record", ![p].outcome = outcome]
       /\ \/ outcome # "refused" /\ accepted' = accepted \cup {pass[p].row.id}
          \/ outcome # "delivered" /\ UNCHANGED accepted
  /\ UNCHANGED <<recorded, delivery, endpoint, faults, overrun>>

\* A faulty variant: the last entry of the schedule is never waited for.
ScheduleSpentEarly(attemptsCompleted) == attemptsCompleted >= ScheduleLength

\* nextAttemptDelayMs is null once the schedule is spent.
ScheduleSpent(attemptsCompleted) == attemptsCompleted > ScheduleLength

\* A faulty variant: an unclear answer is taken for an acceptance.
StatusAfterTrusting(outcome, attemptsCompleted) ==
  IF outcome = "refused" THEN "failed" ELSE "delivered"

StatusAfter(outcome, attemptsCompleted) ==
  CASE outcome = "delivered" -> "delivered"
    [] outcome = "refused" -> "failed"
    [] outcome = "retry" ->
         IF ScheduleSpent(attemptsCompleted) THEN "dead" ELSE "pending"

\* A faulty variant: only a row to be tried again gives its lease back.
AttemptedRowHeld(row, status) ==
  [status |-> status, attempts |-> row.attempts + 1, due |-> FALSE,
   lease |-> IF status = "pending" THEN "none" ELSE row.lease]

\* The count is the row's own; the budget is judged on the claimed one.
AttemptedRow(row, status) ==
  [status |-> status, attempts |-> row.attempts + 1, due |-> FALSE, lease |-> "none"]

RecordDeliveryAttempt(p) ==
  LET claimed == pass[p].row
      d == claimed.id
      status == StatusAfter(pass[p].outcome, claimed.attempts + 1)
  IN
  /\ pass[p].pc = "record"
  /\ Write(d, AttemptedRow(delivery[d], status))
  /\ pass' = [pass EXCEPT ![p].pc = "fold"]
  /\ UNCHANGED <<recorded, endpoint, accepted, faults, overrun>>

(***************************************************************************)
(* A delivered attempt ends the endpoint's run of failures, a failed one   *)
(* starts it or, once it is three days old, disables the endpoint.         *)
(***************************************************************************)
RecordEndpointAttempt(p) ==
  LET w == EndpointOf(pass[p].row.id) IN
  /\ pass[p].pc = "fold"
  /\ endpoint' =
       IF pass[p].outcome = "delivered"
       THEN [endpoint EXCEPT ![w].failing = "no"]
       ELSE IF endpoint[w].status # "enabled" THEN endpoint
       ELSE IF endpoint[w].failing = "days"
            THEN [endpoint EXCEPT ![w].status = "disabled"]
            ELSE [endpoint EXCEPT ![w].failing = "open"]
  /\ NextRow(p)
  /\ UNCHANGED <<recorded, delivery, accepted, faults, overrun>>

-----------------------------------------------------------------------------
\* Time: a backoff ends, a run of failures becomes three days old, a lease
\* runs out.
BackoffEnds(d) ==
  /\ delivery[d].status = "pending" /\ ~delivery[d].due
  /\ delivery' = [delivery EXCEPT ![d].due = TRUE]
  /\ UNCHANGED <<recorded, endpoint, pass, accepted, faults, overrun>>

FailingForDays(w) ==
  /\ endpoint[w].failing = "open"
  /\ endpoint' = [endpoint EXCEPT ![w].failing = "days"]
  /\ UNCHANGED <<recorded, delivery, pass, accepted, faults, overrun>>

\* The deliveries a pass claimed and has not finished recording.
Holds(p) ==
  {r.id : r \in pass[p].todo}
    \cup (IF pass[p].pc \in {"refuse", "release", "post", "record"}
          THEN {pass[p].row.id} ELSE {})

(***************************************************************************)
(* A lease is longer than any one attempt, and covers a whole batch: it    *)
(* may run out for a row that waits for the attempts before it.            *)
(***************************************************************************)
LeaseLapses(d) ==
  /\ delivery[d].lease = "live"
  /\ \A p \in Passes : d \in Holds(p) =>
       pass[p].pc # "next" /\ \E r \in pass[p].todo : r.id = d
  /\ delivery' = [delivery EXCEPT ![d].lease = "lapsed"]
  /\ overrun' = IF \E p \in Passes : d \in Holds(p) THEN overrun \cup {d} ELSE overrun
  /\ UNCHANGED <<recorded, endpoint, pass, accepted, faults>>

\* A read or write fails and the pass goes on with the batch, or the task dies.
Fault(p) ==
  /\ pass[p] # Idle
  /\ faults < MaxFaults
  /\ faults' = faults + 1
  /\ \/ pass[p].pc # "next" /\ NextRow(p)
     \/ pass' = [pass EXCEPT ![p] = Idle]
     \/ \E row \in pass[p].todo :
          /\ pass[p].pc = "next"
          /\ pass' = [pass EXCEPT ![p] = AfterRow(@.todo \ {row})]
  /\ UNCHANGED <<recorded, delivery, endpoint, accepted, overrun>>

Step(p) ==
  \/ FindEndpointSigningTarget(p) \/ DisableEndpoint(p) \/ ReleaseDeliveryClaim(p)
  \/ AttemptDelivery(p) \/ RecordDeliveryAttempt(p) \/ RecordEndpointAttempt(p)

Next ==
  \/ \E e \in Events : RecordEvent(e)
  \/ \E d \in Ids : Redeliver(d) \/ BackoffEnds(d) \/ LeaseLapses(d)
  \/ \E w \in Endpoints :
       UpdateEndpoint(w) \/ DeleteEndpoint(w) \/ FailingForDays(w)
  \/ \E p \in Passes : ClaimDueDeliveries(p) \/ Step(p) \/ Fault(p)

Spec == Init /\ [][Next]_vars

(***************************************************************************)
(* A pass goes on, the loop starts another one every five seconds and      *)
(* claims oldest first, and clocks run.                                    *)
(***************************************************************************)
Fairness ==
  /\ \A p \in Passes : WF_vars(Step(p))
  /\ \A d \in Ids :
       /\ WF_vars(BackoffEnds(d)) /\ WF_vars(LeaseLapses(d))
       /\ SF_vars(\E p \in Passes : ClaimDueDeliveries(p) /\ d \in Holds(p)')

FairSpec == Spec /\ Fairness

-----------------------------------------------------------------------------
RowType ==
  [status : {"none", "pending", "deleted"} \cup Ended,
   attempts : Nat, due : BOOLEAN, lease : Leases]

TypeOK ==
  /\ recorded \subseteq Events
  /\ delivery \in [Ids -> RowType]
  /\ endpoint \in [Endpoints -> [status : {"enabled", "disabled", "deleted"},
                                 refused : BOOLEAN, failing : {"no", "open", "days"}]]
  /\ pass \in [Passes -> [pc : {"idle", "next", "refuse", "release",
                                "post", "record", "fold"},
                          todo : SUBSET Claimed,
                          row : Claimed \cup {NoClaim},
                          outcome : Outcomes \cup {"none"}]]
  /\ \A p \in Passes : pass[p].pc = "next" => pass[p].todo # {}
  /\ accepted \subseteq Ids /\ overrun \subseteq Ids
  /\ faults \in Nat

(***************************************************************************)
(* webhook_deliveries' checks: a terminal row holds no lease, and only a   *)
(* pending one is ever due, whatever order the passes wrote in.            *)
(***************************************************************************)
TerminalHoldsNothing ==
  \A d \in Ids :
    delivery[d].status # "pending" => ~delivery[d].due /\ delivery[d].lease = "none"

\* delivered means the endpoint took the event in, never that it might have.
DeliveredWasAccepted ==
  \A d \in Ids : delivery[d].status = "delivered" => d \in accepted

(***************************************************************************)
(* A delivery is given up only when its whole schedule has been tried: not *)
(* sooner, however the passes that counted its attempts were interleaved.  *)
(***************************************************************************)
DeadMeansTried ==
  \A d \in Ids : delivery[d].status = "dead" => delivery[d].attempts > ScheduleLength

(***************************************************************************)
(* claimDueDeliveries: exactly one claimant.  No two passes are to attempt *)
(* the same delivery, unless its lease ran out under the one that held it. *)
(***************************************************************************)
OneClaimant ==
  \A p, q \in Passes : p # q => Holds(p) \cap Holds(q) \subseteq overrun

(***************************************************************************)
(* A delivery that ended is not taken up again: recordDeliveryAttempt and  *)
(* releaseDeliveryClaim name the delivery alone, and only its lease keeps  *)
(* a pass from writing over what another one recorded.  Where that lease   *)
(* never ran out under a pass, only a deleted endpoint takes it away.      *)
(***************************************************************************)
EndedStaysEnded ==
  [][\A d \in Ids \ overrun : delivery[d].status \in Ended =>
       delivery'[d].status \in {delivery[d].status, "deleted"}]_vars

(***************************************************************************)
(* webhook-delivery.mdx: "delivered: terminal success".                    *)
(***************************************************************************)
DeliveredIsTerminal ==
  [][\A d \in Ids : delivery[d].status = "delivered" =>
       delivery'[d].status \in {"delivered", "deleted"}]_vars

(***************************************************************************)
(* No delivery is forgotten: dispatchers may die mid-attempt, endpoints    *)
(* may fail, be disabled or move, and each pending delivery still ends.    *)
(***************************************************************************)
DeliveriesEnd ==
  \A d \in Ids : (delivery[d].status = "pending") ~> (delivery[d].status # "pending")
=============================================================================
