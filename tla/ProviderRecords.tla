---------------------------- MODULE ProviderRecords ----------------------------
(***************************************************************************)
(* What the payment provider adapters make of a provider's records: each   *)
(* native status, event name and page of a list is turned into FinStack's  *)
(* vocabulary.  The tables of native statuses and of the ways they change  *)
(* are external; the conversions are the adapters'.                        *)
(***************************************************************************)

Adapters == {"mock", "paystack", "stripe", "flutterwave", "paypal"}

-----------------------------------------------------------------------------
(* Native statuses (external): how records start and how they change.  A    *)
(* Stripe session is its status and its payment_status, a PayPal order that *)
(* has been captured is its capture.                                        *)

\* The mock provider's records go wherever its tester sends them (simulateOutcome,
\* simulateRefundOutcome, simulatePayoutOutcome).
MockPaymentMoves == {"pending", "successful", "failed"} \X {"successful", "failed"}
MockRefundMoves == {"pending", "successful", "failed"} \X {"successful", "failed"}
MockTransferMoves == {"pending", "successful", "failed", "reversed"} \X {"successful", "failed", "reversed"}

PaymentStart(a) ==
  CASE a = "stripe" -> "open-unpaid" [] a = "paypal" -> "CREATED" [] OTHER -> "pending"

PaymentMoves(a) ==
  CASE a = "paystack" -> {<<"pending", "success">>, <<"pending", "failed">>,
         <<"pending", "abandoned">>, <<"abandoned", "success">>,
         <<"success", "reversal-pending">>, <<"reversal-pending", "reversed">>}
    [] a = "stripe" -> {<<"open-unpaid", "complete-paid">>, <<"open-unpaid", "expired-unpaid">>,
         <<"open-unpaid", "complete-unpaid">>, <<"complete-unpaid", "complete-paid">>}
    [] a = "flutterwave" -> {<<"pending", s>> : s \in {"successful", "failed", "cancelled"}}
    [] a = "paypal" -> {<<"CREATED", "APPROVED">>, <<"CREATED", "VOIDED">>,
         <<"PENDING", "COMPLETED">>, <<"PENDING", "DECLINED">>,
         <<"COMPLETED", "PARTIALLY_REFUNDED">>, <<"PARTIALLY_REFUNDED", "REFUNDED">>}
    [] OTHER -> MockPaymentMoves

\* What capturing an approved PayPal order may come to; a declined one can be
\* approved again with another source.
CaptureOutcomes == {"COMPLETED", "PENDING", "DECLINED", "APPROVED"}

\* The mock answers with the outcome unless it is told to leave it open.
MockStarts == {"successful", "pending"}

RefundStarts(a) ==
  CASE a = "flutterwave" -> {"processing"} [] a = "paypal" -> {"PENDING"}
    [] a = "mock" -> MockStarts [] OTHER -> {"pending"}

RefundMoves(a) ==
  CASE a = "paystack" -> {<<"pending", "processing">>, <<"processing", "processed">>,
         <<"processing", "failed">>}
    [] a = "stripe" -> {<<"pending", s>> : s \in {"succeeded", "failed", "canceled"}}
    [] a = "flutterwave" -> {<<"processing", s>> : s \in {"completed", "completed-mpgs", "failed"}}
    [] a = "paypal" -> {<<"PENDING", s>> : s \in {"COMPLETED", "FAILED", "CANCELLED"}}
    [] OTHER -> MockRefundMoves

TransferStarts(a) ==
  CASE a = "flutterwave" -> {"NEW"} [] a = "paypal" -> {"PENDING"}
    [] a = "mock" -> MockStarts [] OTHER -> {"pending"}

TransferMoves(a) ==
  CASE a = "paystack" -> {<<"pending", "otp">>, <<"pending", "failed">>, <<"pending", "success">>,
         <<"otp", "success">>, <<"otp", "abandoned">>, <<"success", "reversed">>}
    [] a = "flutterwave" -> {<<"NEW", "PENDING">>, <<"PENDING", "SUCCESSFUL">>, <<"PENDING", "FAILED">>}
    [] a = "paypal" -> {<<"PENDING", "SUCCESS">>, <<"PENDING", "UNCLAIMED">>, <<"PENDING", "BLOCKED">>,
         <<"PENDING", "FAILED">>, <<"UNCLAIMED", "SUCCESS">>, <<"UNCLAIMED", "RETURNED">>,
         <<"UNCLAIMED", "CANCELED">>, <<"SUCCESS", "REFUNDED">>}
    [] a = "mock" -> MockTransferMoves
    [] OTHER -> {}  \* Stripe's adapter sends no payouts

-----------------------------------------------------------------------------
(* The adapters' status maps. *)

PaystackStatus(s) ==
  CASE s = "success" -> "successful"
    [] s \in {"failed", "abandoned", "reversed"} -> "failed"
    [] OTHER -> "pending"

\* A refund under way was still collected.
PaystackListed_PendingReversal(s) ==
  CASE s = "success" -> "successful"
    [] s = "reversed" -> "refunded"
    [] s \in {"failed", "abandoned"} -> "failed"
    [] OTHER -> "pending"

PaystackListed(s) ==
  CASE s = "success" -> "successful"
    [] s \in {"reversed", "reversal-pending"} -> "refunded"
    [] s \in {"failed", "abandoned"} -> "failed"
    [] OTHER -> "pending"

PaystackRefund(s) ==
  CASE s = "processed" -> "successful" [] s = "failed" -> "failed" [] OTHER -> "pending"

PaystackTransfer(s) ==
  CASE s = "success" -> "successful"
    [] s \in {"failed", "abandoned", "rejected"} -> "failed"
    [] s = "reversed" -> "reversed"
    [] OTHER -> "pending"

\* A session that is complete but unpaid (an asynchronous payment, also one
\* that has failed) is pending.
StripeStatus(s) ==
  CASE s = "complete-paid" -> "successful" [] s = "expired-unpaid" -> "failed" [] OTHER -> "pending"

StripeRefund(s) ==
  CASE s = "succeeded" -> "successful" [] s \in {"failed", "canceled"} -> "failed" [] OTHER -> "pending"

FlutterwaveStatus(s) ==
  CASE s = "successful" -> "successful" [] s \in {"failed", "cancelled"} -> "failed" [] OTHER -> "pending"

FlutterwaveRefund(s) ==
  CASE s \in {"completed", "completed-mpgs"} -> "successful" [] s = "failed" -> "failed" [] OTHER -> "pending"

FlutterwaveTransfer(s) ==
  CASE s = "SUCCESSFUL" -> "successful" [] s = "FAILED" -> "failed" [] OTHER -> "pending"

PayPalStatus(s) ==
  CASE s \in {"COMPLETED", "PARTIALLY_REFUNDED", "REFUNDED"} -> "successful"
    [] s \in {"VOIDED", "DECLINED", "FAILED"} -> "failed"
    [] OTHER -> "pending"

PayPalRefund(s) ==
  CASE s = "COMPLETED" -> "successful" [] s \in {"FAILED", "CANCELLED"} -> "failed" [] OTHER -> "pending"

\* An unclaimed payout waits for its recipient, and is returned after 30 days.
PayPalTransfer(s) ==
  CASE s = "SUCCESS" -> "successful"
    [] s \in {"FAILED", "DENIED", "BLOCKED", "CANCELED"} -> "failed"
    [] s \in {"RETURNED", "REFUNDED", "REVERSED"} -> "reversed"
    [] OTHER -> "pending"

\* verifyPayment, refund and payout results of each adapter.
PaymentStatus(a, s) ==
  CASE a = "paystack" -> PaystackStatus(s) [] a = "stripe" -> StripeStatus(s)
    [] a = "flutterwave" -> FlutterwaveStatus(s) [] a = "paypal" -> PayPalStatus(s) [] OTHER -> s

RefundStatus(a, s) ==
  CASE a = "paystack" -> PaystackRefund(s) [] a = "stripe" -> StripeRefund(s)
    [] a = "flutterwave" -> FlutterwaveRefund(s) [] a = "paypal" -> PayPalRefund(s) [] OTHER -> s

PayoutStatus(a, s) ==
  CASE a = "paystack" -> PaystackTransfer(s) [] a = "flutterwave" -> FlutterwaveTransfer(s)
    [] a = "paypal" -> PayPalTransfer(s) [] OTHER -> s

\* listPayments of the adapters that have the reconciliation capability.
Listed(a, s) == IF a = "paystack" THEN PaystackListed(s) ELSE PaymentStatus(a, s)

-----------------------------------------------------------------------------
(* Webhooks: what the provider sends when a record changes (external), and  *)
(* parseWebhookEvent.                                                       *)

\* The event's name; "unreported" when the provider reports nothing of this.
EventName(a, kind, from, to) ==
  CASE a \in {"paystack", "mock"} ->
        ( CASE kind = "payment" /\ to \in {"success", "successful"} -> "charge.success"
            [] kind = "payment" /\ to = "failed" -> "charge.failed"
            [] kind = "refund" /\ to \in {"processed", "successful"} -> "refund.processed"
            [] kind = "refund" /\ to = "failed" -> "refund.failed"
            [] kind = "payout" /\ to \in {"success", "successful"} -> "transfer.success"
            [] kind = "payout" /\ to = "failed" -> "transfer.failed"
            [] kind = "payout" /\ to = "reversed" -> "transfer.reversed"
            [] OTHER -> "unreported" )
    [] a = "stripe" ->
        ( CASE kind = "refund" -> "refund.updated"
            [] from = "open-unpaid" /\ to # "expired-unpaid" -> "checkout.session.completed"
            [] to = "expired-unpaid" -> "checkout.session.expired"
            [] OTHER -> "checkout.session.async_payment_succeeded" )
    [] a = "flutterwave" ->
        ( CASE kind = "payment" -> "charge.completed"
            [] kind = "payout" -> "transfer.completed"
            [] OTHER -> "unreported" )
    [] a = "paypal" ->
        ( CASE kind = "payment" /\ to \in {"APPROVED", "COMPLETED", "DECLINED"} -> "payment-event"
            [] kind = "refund" /\ to = "COMPLETED" -> "capture-refunded"
            [] kind = "payout" -> "payout-item-event"
            [] OTHER -> "unreported" )

PaystackEventType(name) ==
  CASE name = "charge.success" -> "payment.succeeded" [] name = "charge.failed" -> "payment.failed"
    [] name = "refund.processed" -> "refund.succeeded" [] name = "refund.failed" -> "refund.failed"
    [] name = "transfer.success" -> "payout.succeeded" [] name = "transfer.failed" -> "payout.failed"
    [] name = "transfer.reversed" -> "payout.reversed" [] OTHER -> "unknown"

StripeEventType(name, to) ==
  CASE name = "refund.updated" ->
        (CASE StripeRefund(to) = "successful" -> "refund.succeeded"
           [] StripeRefund(to) = "failed" -> "refund.failed" [] OTHER -> "unknown")
    [] name \in {"checkout.session.completed", "checkout.session.async_payment_succeeded"} ->
        "payment.succeeded"
    [] OTHER -> "payment.failed"

\* Anything that is not a failure is taken for a success; it is verified anyway.
FlutterwaveEventType(name, to) ==
  IF name = "charge.completed"
    THEN IF FlutterwaveStatus(to) = "failed" THEN "payment.failed" ELSE "payment.succeeded"
    ELSE IF FlutterwaveTransfer(to) = "failed" THEN "payout.failed" ELSE "payout.succeeded"

\* PayPal's event names end in the status they report.
PayPalEventType_Raw(name, to) ==
  CASE name = "capture-refunded" -> "refund.succeeded"
    [] name = "payment-event" /\ to = "APPROVED" -> "payment.approved"
    [] name = "payment-event" /\ to = "COMPLETED" -> "payment.succeeded"
    [] name = "payment-event" /\ to = "DECLINED" -> "payment.failed"
    [] name = "payout-item-event" /\ to = "SUCCESS" -> "payout.succeeded"
    [] name = "payout-item-event" /\ to \in {"FAILED", "BLOCKED", "DENIED", "CANCELED"} -> "payout.failed"
    [] name = "payout-item-event" /\ to \in {"RETURNED", "REFUNDED"} -> "payout.reversed"
    [] OTHER -> name

PayPalEventType(name, to) ==
  CASE name = "capture-refunded" -> "refund.succeeded"
    [] name = "payment-event" /\ to = "APPROVED" -> "payment.approved"
    [] name = "payment-event" /\ to = "COMPLETED" -> "payment.succeeded"
    [] name = "payment-event" /\ to = "DECLINED" -> "payment.failed"
    [] name = "payout-item-event" /\ to = "SUCCESS" -> "payout.succeeded"
    [] name = "payout-item-event" /\ to \in {"FAILED", "BLOCKED", "DENIED", "CANCELED"} -> "payout.failed"
    [] name = "payout-item-event" /\ to \in {"RETURNED", "REFUNDED"} -> "payout.reversed"
    [] OTHER -> "unknown"

EventType(a, name, to) ==
  CASE a \in {"paystack", "mock"} -> PaystackEventType(name)
    [] a = "stripe" -> StripeEventType(name, to)
    [] a = "flutterwave" -> FlutterwaveEventType(name, to)
    [] OTHER -> PayPalEventType(name, to)

\* The id duplicates are recognised by: the provider's own event id, except
\* that Paystack and Flutterwave have none.
EventId_NoStatus(a, name, record, to) ==
  IF a \in {"paystack", "flutterwave"} THEN <<name, record, "any">> ELSE <<name, record, to>>

EventId(a, name, record, to) ==
  IF a = "paystack" THEN <<name, record, "any">> ELSE <<name, record, to>>

=============================================================================
