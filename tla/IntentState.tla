----------------------------- MODULE IntentState -----------------------------
(***************************************************************************)
(* The status machine of a payment intent, shared by both rails: the table *)
(* of legal edges (shared-types/src/paymentIntent.ts) and the events that  *)
(* walk them (backend/src/services/intentState.ts).  No state of its own:  *)
(* the modules that move a row use these operators in their guards.        *)
(***************************************************************************)

Statuses ==
  {"requires_payment_method", "requires_confirmation", "requires_action",
   "processing", "requires_capture", "succeeded", "canceled"}

Rails == {"card", "faircoin"}

\* ALLOWED: where each status may go.
Allowed ==
  [s \in Statuses |->
    CASE s = "requires_payment_method" ->
           {"requires_confirmation", "requires_action", "processing",
            "requires_capture", "succeeded", "canceled"}
      [] s = "requires_confirmation" ->
           {"requires_payment_method", "requires_action", "processing",
            "requires_capture", "succeeded", "canceled"}
      [] s = "requires_action" ->
           {"requires_payment_method", "processing", "requires_capture",
            "succeeded", "canceled"}
      [] s = "processing" ->
           {"requires_payment_method", "requires_capture", "succeeded",
            "canceled"}
      [] s = "requires_capture" -> {"processing", "succeeded", "canceled"}
      [] OTHER -> {}]

IsValidStatusTransition(from, to) == to \in Allowed[from]

TerminalStatuses == {"succeeded", "canceled"}

CanStillBePaid(s) == s \notin TerminalStatuses

ExpirableStatuses ==
  {"requires_payment_method", "requires_confirmation", "requires_action"}

\* The statuses only a card payment can reach.
CardOnlyStatuses ==
  {"requires_payment_method", "requires_confirmation", "requires_capture"}

-----------------------------------------------------------------------------

ChainEvents ==
  {"broadcast", "confirmed", "underpaid", "reorg_below_threshold",
   "broadcast_lost"}

CardEvents ==
  {"card_requires_payment_method", "card_requires_confirmation",
   "card_requires_action", "card_processing", "card_requires_capture",
   "card_succeeded", "card_failed", "card_canceled"}

IntentEvents == ChainEvents \cup CardEvents \cup {"expire", "cancel"}

\* A faulty variant: an authorization taken for a settlement.
TargetStatusForEager(event) ==
  CASE event \in {"broadcast", "reorg_below_threshold", "card_processing"}
         -> "processing"
    [] event \in {"confirmed", "card_succeeded", "card_requires_capture"}
         -> "succeeded"
    [] event \in {"underpaid", "broadcast_lost", "expire", "cancel",
                  "card_canceled"} -> "canceled"
    [] event \in {"card_requires_payment_method", "card_failed"}
         -> "requires_payment_method"
    [] event = "card_requires_confirmation" -> "requires_confirmation"
    [] event = "card_requires_action" -> "requires_action"

TargetStatusFor(event) ==
  CASE event \in {"broadcast", "reorg_below_threshold", "card_processing"}
         -> "processing"
    [] event \in {"confirmed", "card_succeeded"} -> "succeeded"
    [] event \in {"underpaid", "broadcast_lost", "expire", "cancel",
                  "card_canceled"} -> "canceled"
    [] event \in {"card_requires_payment_method", "card_failed"}
         -> "requires_payment_method"
    [] event = "card_requires_confirmation" -> "requires_confirmation"
    [] event = "card_requires_action" -> "requires_action"
    [] event = "card_requires_capture" -> "requires_capture"

\* Which rails an event may act on.
RailsOf(event) ==
  IF event \in ChainEvents THEN {"faircoin"}
  ELSE IF event \in CardEvents THEN {"card"} ELSE Rails

Cancellable == ExpirableStatuses \cup {"requires_capture"}

\* Where an event may act FROM, narrower than the table.
LegalSources(event) ==
  CASE event = "broadcast" -> {"requires_action"}
    [] event \in {"confirmed", "underpaid", "broadcast_lost"} -> {"processing"}
    [] event = "reorg_below_threshold" -> {"succeeded"}
    [] event = "expire" -> ExpirableStatuses
    [] event = "cancel" -> Cancellable
    [] event \in {"card_requires_payment_method", "card_failed"} ->
         {"requires_confirmation", "requires_action", "processing"}
    [] event = "card_requires_confirmation" -> {"requires_payment_method"}
    [] event = "card_requires_action" ->
         {"requires_payment_method", "requires_confirmation"}
    [] event = "card_processing" -> ExpirableStatuses \cup {"requires_capture"}
    [] event = "card_requires_capture" ->
         ExpirableStatuses \cup {"processing"}
    [] event = "card_succeeded" ->
         ExpirableStatuses \cup {"processing", "requires_capture"}
    [] event = "card_canceled" -> Cancellable \cup {"processing"}

\* Faulty variants: any event of the rail acts, also on an ended row; or on
\* every row that has not ended.
CanApplyAlways(current, event, rail) == rail \in RailsOf(event)
CanApplyUntilEnded(current, event, rail) ==
  /\ rail \in RailsOf(event)
  /\ current = TargetStatusFor(event) \/ CanStillBePaid(current)

(***************************************************************************)
(* applyEvent throws unless CanApply: the wrong rail, a source the event   *)
(* may not act from, or an edge the table does not have.  A status that is *)
(* already the target absorbs the event (a redelivery, a re-poll), except  *)
(* for the reorg, the one edge that leaves a terminal status.              *)
(***************************************************************************)
CanApply(current, event, rail) ==
  /\ rail \in RailsOf(event)
  /\ IF event = "reorg_below_threshold"
     THEN current = "succeeded"
     ELSE \/ current = TargetStatusFor(event)
          \/ /\ current \in LegalSources(event)
             /\ IsValidStatusTransition(current, TargetStatusFor(event))
=============================================================================
