SPECIFICATION Spec
CONSTANTS
  Workers = {w1}
  MaxInvoices = 1
  MaxPayments = 1
  MaxTries = 2
  MaxRequests = 1
  MaxFaults = 0
  Retries = 1
  MayLackMethod = FALSE
  Outcomes = {"succeeded", "requires_payment_method"}
  FinalAction = "unpaid"
  InvoiceAction = "mark_uncollectible"
  FirstReason = "subscription_create"
INVARIANT FirstPaymentRetired
CHECK_DEADLOCK FALSE
