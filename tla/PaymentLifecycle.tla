--------------------------- MODULE PaymentLifecycle ---------------------------
(***************************************************************************)
(* What a payment intent promises its merchant, whatever rail moves the    *)
(* money and however many handlers, sweepers and drains race to move it:   *)
(* it is created once, follows the published table of edges, ends once,    *)
(* and the merchant is told that one ending in the step that reached it.   *)
(* The modules of both rails are shown to implement this specification.    *)
(***************************************************************************)
EXTENDS Sequences, IntentState

VARIABLES
  status,     \* "none" before the intent exists, then one of Statuses
  outcomes    \* the endings the merchant has been told, oldest first

vars == <<status, outcomes>>

Init ==
  /\ status = "none"
  /\ outcomes = <<>>

\* A new intent waits on somebody: a payer, a payment method, a confirmation.
Create ==
  /\ status = "none"
  /\ status' \in ExpirableStatuses
  /\ UNCHANGED outcomes

\* An edge of the published table; an ending is told with it.
Move(to) ==
  /\ status # "none"
  /\ IsValidStatusTransition(status, to)
  /\ status' = to
  /\ outcomes' = IF to \in TerminalStatuses
                 THEN Append(outcomes, to) ELSE outcomes

Next == Create \/ \E to \in Statuses : Move(to)

Spec == Init /\ [][Next]_vars
=============================================================================
