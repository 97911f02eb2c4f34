------------------------------- MODULE Providers -------------------------------
(***************************************************************************)
(* One payment provider behind its adapter: the records of a payment, its  *)
(* refunds and a payout change at the provider, which reports the changes  *)
(* by webhook; a caller sends the refund and the payout through the        *)
(* adapter, and looks for them before it sends them again when it could    *)
(* not tell what became of them.  Every HTTP request of JsonHttpClient may *)
(* fail, and it is not known then whether the provider acted on it.        *)
(* (Requests that arrive after their sender gave up: RefundSubmission.)    *)
(***************************************************************************)
EXTENDS ProviderRecords, Integers, Sequences, FiniteSets

CONSTANTS
  PageSize,      \* LIST_PAGE_SIZE, Stripe's limit, FIND_REFUND_MAX
  OtherRefunds,  \* bound on the refunds others make of the payment
  MaxAttempts    \* bound on the requests of the caller

ASSUME ProvidersAssumption ==
  PageSize \in Nat \ {0} /\ OtherRefunds \in Nat /\ MaxAttempts \in Nat

VARIABLES
  adapter,   \* the provider
  payment,   \* native status of the payment
  refunds,   \* its refunds: whose, the note the provider keeps, native status
  transfer,  \* native status of our payout, or "none"
  heard,     \* webhook events that were not dropped as duplicates
  caller,    \* of each kind of operation: what the caller knows of it
  attempts   \* requests made so far

providerVars == <<adapter, payment, refunds, transfer, heard, caller, attempts>>
records == <<payment, refunds, transfer>>

Operations == {"refund", "payout"}

ProvidersInit ==
  /\ adapter \in Adapters
  /\ payment = PaymentStart(adapter)
  /\ refunds = << >>
  /\ transfer = "none"
  /\ heard = {}
  /\ caller = [k \in Operations |-> "ready"]
  /\ attempts = 0

Ours == {i \in DOMAIN refunds : refunds[i].ours}

\* What the provider has of the operation.
Made(k) == IF k = "refund" THEN Ours # {} ELSE transfer # "none"

-----------------------------------------------------------------------------
(* Webhooks: stored once per event id. *)

Hear(kind, number, from, to) ==
  LET name == EventName(adapter, kind, from, to)
      record == <<kind, number>>
      id == EventId(adapter, name, record, to)
  IN heard' = IF name = "unreported" \/ \E e \in heard : e.id = id THEN heard
              ELSE heard \cup {[id |-> id, record |-> record, native |-> to,
                                type |-> EventType(adapter, name, to)]}

PaymentChanges ==
  \E s \in {m[2] : m \in {n \in PaymentMoves(adapter) : n[1] = payment}} :
    /\ payment' = s
    /\ Hear("payment", 1, payment, s)
    /\ UNCHANGED <<adapter, refunds, transfer, caller, attempts>>

RefundChanges ==
  \E i \in Ours : \E s \in {m[2] : m \in {n \in RefundMoves(adapter) : n[1] = refunds[i].native}} :
    /\ refunds' = [refunds EXCEPT ![i].native = s]
    /\ Hear("refund", i, refunds[i].native, s)
    /\ UNCHANGED <<adapter, payment, transfer, caller, attempts>>

TransferChanges ==
  \E s \in {m[2] : m \in {n \in TransferMoves(adapter) : n[1] = transfer}} :
    /\ transfer' = s
    /\ Hear("payout", 1, transfer, s)
    /\ UNCHANGED <<adapter, payment, refunds, caller, attempts>>

\* Refunds made in the provider's dashboard, labelled or not.
RefundedByOthers ==
  /\ Len(refunds) - Cardinality(Ours) < OtherRefunds
  /\ \E note \in {"other", "none"}, native \in RefundStarts(adapter) :
       refunds' = Append(refunds, [ours |-> FALSE, note |-> note, native |-> native])
  /\ UNCHANGED <<adapter, payment, transfer, heard, caller, attempts>>

-----------------------------------------------------------------------------
(* JsonHttpClient.request: how a request may end.  The provider has acted   *)
(* when it answers with success, has not when it refuses, and may or may    *)
(* not have in every other case.  A body may be cut, or replaced on its     *)
(* way: it is unreadable then (an answer whose body breaks off with an      *)
(* error is no answer to the caller, and one of a 5xx stays a 5xx).         *)

HttpResponses ==
  {"200", "200-unreadable", "4xx", "429", "429-unreadable", "5xx", "no-answer"}

\* Paystack and Flutterwave may say in the body of a 200 that they refuse.
PaystackResponses == HttpResponses \cup {"200-refused"}
FlutterwaveResponses == HttpResponses \cup {"200-refused"}
StripeResponses == HttpResponses
\* A PayPal call whose access token cannot be had ends like one that was not answered.
PayPalResponses == HttpResponses
\* The mock is made to answer, to reject, or to be unavailable or lose its answer.
MockResponses == {"200", "4xx", "no-answer"}

Responses ==
  CASE adapter = "paystack" -> PaystackResponses [] adapter = "flutterwave" -> FlutterwaveResponses
    [] adapter = "stripe" -> StripeResponses [] adapter = "paypal" -> PayPalResponses
    [] OTHER -> MockResponses

MayAct(r) == r \in {"200", "200-unreadable", "5xx", "no-answer"}
MayNotAct(r) == r \notin {"200", "200-unreadable"}

\* An envelope that says failure ("200-refused") is a rejection, and so is an error
\* below 500 with an unreadable body.  The unreadable body of a success is not
\* retryable either, and the services do with it what they do with a rejection.
Classify(r) ==
  CASE r = "200" -> "answered"
    [] r \in {"no-answer", "429", "5xx"} -> "retryable"
    [] r = "200-unreadable" -> "unreadable"
    [] OTHER -> "rejected"

Attempt == attempts < MaxAttempts /\ attempts' = attempts + 1

Knows(k, what) == caller' = [caller EXCEPT ![k] = what]

-----------------------------------------------------------------------------
(* refundPayment *)

\* Stripe's Idempotency-Key and PayPal's request id make a resent refund the
\* same refund; the others make another.  A note may be dropped where it is
\* free text.
CreateRefund ==
  IF adapter \in {"stripe", "paypal"} /\ Ours # {} THEN UNCHANGED refunds
  ELSE \E note \in {"ours"} \cup (IF adapter \in {"paystack", "flutterwave"} THEN {"none"} ELSE {}),
          native \in RefundStarts(adapter) :
         refunds' = Append(refunds, [ours |-> TRUE, note |-> note, native |-> native])

\* FinStack refunds only what was collected.
Collected == Listed(adapter, payment) \in {"successful", "refunded"}

\* Stripe, Flutterwave and PayPal look the payment up first; what was collected has
\* the payment intent, the transaction or the capture that they look for.
NeedsLookup == adapter \in {"stripe", "flutterwave", "paypal"}

RefundLookup ==
  /\ caller["refund"] = "ready" /\ NeedsLookup /\ Collected /\ Attempt
  /\ \E r \in Responses :
       CASE Classify(r) = "answered" -> Knows("refund", "found-payment")
         [] Classify(r) = "retryable" -> UNCHANGED caller
         [] OTHER -> Knows("refund", Classify(r))
  /\ UNCHANGED <<adapter, records, heard>>

\* The provider refuses to refund a payment that it is taking back itself.
Refundable == PaymentStatus(adapter, payment) = "successful"

RefundPost ==
  /\ caller["refund"] = IF NeedsLookup THEN "found-payment" ELSE "ready"
  /\ Collected /\ Attempt
  /\ \E r \in Responses :
       /\ \/ MayAct(r) /\ Refundable /\ CreateRefund
          \/ MayNotAct(r) /\ UNCHANGED refunds
       /\ Knows("refund", CASE Classify(r) = "answered" -> "made"
                            [] Classify(r) = "retryable" -> "unknown"
                            [] OTHER -> Classify(r))
  /\ UNCHANGED <<adapter, payment, transfer, heard>>

-----------------------------------------------------------------------------
(* findRefund: "found", "null", or "unsure" (a retryable error). *)

FirstPage == SubSeq(refunds, 1, IF Len(refunds) < PageSize THEN Len(refunds) ELSE PageSize)
MorePages == Len(refunds) > PageSize

Labelled(page, note) == \E i \in DOMAIN page : page[i].note = note

PickOurRefund_Guess(page) ==
  IF Labelled(page, "ours") THEN "found" ELSE "null"

PickOurRefund(page) ==
  CASE Labelled(page, "ours") -> "found"
    [] ~Labelled(page, "ours") /\ Labelled(page, "none") -> "unsure"
    [] OTHER -> "null"

PaystackFindRefund == IF MorePages THEN "unsure" ELSE PickOurRefund(refunds)

FlutterwaveFindRefund == IF MorePages THEN "unsure" ELSE PickOurRefund(refunds)

\* The metadata of our refund is always returned.
StripeFindRefund ==
  CASE Labelled(FirstPage, "ours") -> "found"
    [] ~Labelled(FirstPage, "ours") /\ MorePages -> "unsure"
    [] OTHER -> "null"

PayPalFindRefund ==
  IF MorePages THEN "unsure" ELSE IF Labelled(refunds, "ours") THEN "found" ELSE "null"

MockFindRefund == IF Labelled(refunds, "ours") THEN "found" ELSE "null"

FoundRefund ==
  CASE adapter = "paystack" -> PaystackFindRefund [] adapter = "stripe" -> StripeFindRefund
    [] adapter = "flutterwave" -> FlutterwaveFindRefund [] adapter = "paypal" -> PayPalFindRefund
    [] OTHER -> MockFindRefund

\* Only a definite absence lets the caller send the refund again.
FindRefund ==
  /\ caller["refund"] = "unknown" /\ Attempt
  /\ \E r \in Responses :
       IF Classify(r) # "answered" THEN UNCHANGED caller
       ELSE Knows("refund", CASE FoundRefund = "found" -> "made"
                              [] FoundRefund = "null" -> "ready" [] OTHER -> "unknown")
  /\ UNCHANGED <<adapter, records, heard>>

-----------------------------------------------------------------------------
(* payouts.initiate and payouts.find *)

\* What a send may do with a transfer.
PaystackTransferred == IF transfer = "none" THEN TransferStarts("paystack") ELSE {}
FlutterwaveTransferred == IF transfer = "none" THEN TransferStarts("flutterwave") ELSE {}
\* The same request id: PayPal replays its batch.
PayPalTransferred == IF transfer = "none" THEN TransferStarts("paypal") ELSE {transfer}
MockTransferred == IF transfer = "none" THEN TransferStarts("mock") ELSE {}

\* The others refuse a reference they know.
Transferred ==
  CASE adapter = "paystack" -> PaystackTransferred [] adapter = "flutterwave" -> FlutterwaveTransferred
    [] adapter = "paypal" -> PayPalTransferred [] OTHER -> MockTransferred

\* The caller takes a rejection for one only of a first send
\* (payouts.service.ts): a payout that was sent before stays unknown.
Initiate_RejectsResend ==
  /\ caller["payout"] \in {"ready", "absent"} /\ TransferMoves(adapter) # {} /\ Attempt
  /\ \E r \in Responses :
       /\ \/ MayAct(r) /\ transfer' \in Transferred
          \/ MayNotAct(r) /\ UNCHANGED transfer
       /\ Knows("payout", CASE Classify(r) = "answered" -> "made"
                            [] Classify(r) = "retryable" -> "unknown"
                            [] OTHER -> Classify(r))
  /\ UNCHANGED <<adapter, payment, refunds, heard>>

Initiate ==
  /\ caller["payout"] \in {"ready", "absent"} /\ TransferMoves(adapter) # {} /\ Attempt
  /\ \E r \in Responses :
       /\ \/ MayAct(r) /\ transfer' \in Transferred
          \/ MayNotAct(r) /\ UNCHANGED transfer
       /\ Knows("payout", CASE Classify(r) = "answered" -> "made"
                            [] Classify(r) \in {"rejected", "unreadable"} /\ caller["payout"] = "ready" -> Classify(r)
                            [] OTHER -> "unknown")
  /\ UNCHANGED <<adapter, payment, refunds, heard>>

\* Paystack answers 404 for a reference it does not know, which is null; Flutterwave's
\* list is searched.
PaystackFindTransfer == IF transfer = "none" THEN "absent" ELSE "made"
FlutterwaveFindTransfer == IF transfer = "none" THEN "absent" ELSE "made"
MockFindPayout == IF transfer = "none" THEN "absent" ELSE "made"

\* PayPal's adapter cannot look a batch up without its id, which a lost response has not
\* given it: null.
PayPalFindPayout == "absent"

FoundPayout ==
  CASE adapter = "paystack" -> PaystackFindTransfer [] adapter = "flutterwave" -> FlutterwaveFindTransfer
    [] adapter = "paypal" -> PayPalFindPayout [] OTHER -> MockFindPayout

FindPayout ==
  /\ caller["payout"] = "unknown" /\ Attempt
  /\ \E r \in Responses :
       IF Classify(r) = "answered" THEN Knows("payout", FoundPayout) ELSE UNCHANGED caller
  /\ UNCHANGED <<adapter, records, heard>>

-----------------------------------------------------------------------------
(* verifyPayment of a PayPal order captures it once it is approved; 422     *)
(* (captured by another worker, or declined) reads the order again.         *)
Capture ==
  /\ adapter = "paypal" /\ payment = "APPROVED" /\ Attempt
  /\ \E r \in Responses, s \in CaptureOutcomes :
       IF MayAct(r) THEN payment' = s /\ Hear("payment", 1, payment, s)
       ELSE UNCHANGED <<payment, heard>>
  /\ UNCHANGED <<adapter, refunds, transfer, caller>>

ProvidersNext ==
  \/ PaymentChanges
  \/ RefundChanges
  \/ TransferChanges
  \/ RefundedByOthers
  \/ RefundLookup
  \/ RefundPost
  \/ FindRefund
  \/ Initiate
  \/ FindPayout
  \/ Capture

ProvidersSpec == ProvidersInit /\ [][ProvidersNext]_providerVars

-----------------------------------------------------------------------------

\* The caller's and the provider's state are well formed, and every event that an adapter
\* makes of a webhook has a type that WebhooksService knows.
ProvidersTypeOK ==
  /\ adapter \in Adapters
  /\ \A i \in DOMAIN refunds : refunds[i].note \in {"ours", "other", "none"}
  /\ caller \in [Operations -> {"ready", "found-payment", "unknown", "absent", "made", "rejected",
                            "unreadable"}]
  /\ attempts \in 0..MaxAttempts
  /\ \A e \in heard : e.type \in {"payment.approved", "payment.succeeded", "payment.failed",
       "refund.succeeded", "refund.failed", "payout.succeeded", "payout.failed",
       "payout.reversed", "unknown"}

\* However its requests end, the provider makes at most one refund for us:
\* findRefund answers null only when there is none ("null only when the
\* provider confirms it has none", payment-provider.ts).
RefundedOnce == Cardinality(Ours) <= 1

\* What the provider refuses, by an error status or in the body of a success, it has not
\* done: the caller returns the money.
RejectedIsNotMade == \A k \in Operations : caller[k] = "rejected" => ~Made(k)

\* "`retryable` distinguishes outages from rejections": the services take every error
\* that is not retryable for "a definite rejection".  (Violated: the unreadable body of a
\* success is not retryable, and the provider has acted.)
NonRetryableIsNotMade ==
  \A k \in Operations : caller[k] \in {"rejected", "unreadable"} => ~Made(k)

\* Final statuses of payouts and refunds stick however the native ones go on: what was
\* paid out may only be reversed, what failed stays failed.  A payment that was
\* collected stays collected in the listings that reconciliation compares; verifyPayment
\* takes a success back only for a reversal, and a failure only for an abandoned charge.
PayoutSticks ==
  transfer # "none" =>
    \/ PayoutStatus(adapter, transfer) = "pending"
    \/ PayoutStatus(adapter, transfer') = PayoutStatus(adapter, transfer)
    \/ PayoutStatus(adapter, transfer) = "successful" /\ PayoutStatus(adapter, transfer') = "reversed"

RefundsStick ==
  \A i \in Ours : RefundStatus(adapter, refunds[i].native) # "pending" =>
    RefundStatus(adapter, refunds'[i].native) = RefundStatus(adapter, refunds[i].native)

PaymentSticks ==
  /\ Listed(adapter, payment) \in {"successful", "refunded"} =>
       Listed(adapter, payment') \in {"successful", "refunded"}
  /\ PaymentStatus(adapter, payment) = "successful" =>
       PaymentStatus(adapter, payment') = "successful" \/ payment' = "reversal-pending"
  /\ PaymentStatus(adapter, payment) = "failed" =>
       PaymentStatus(adapter, payment') = "failed" \/ payment = "abandoned"

\* (The mock's tester may change any status.)
FinalStatusesStick ==
  [][adapter # "mock" => PayoutSticks /\ RefundsStick /\ PaymentSticks]_providerVars

\* A payout that comes to its outcome is heard of: the event that reports it is not
\* dropped as a duplicate of an earlier one, and has a type that is acted on.
\* (Paystack reports no abandoned transfers, and Flutterwave no refunds.)
OutcomeIsHeard ==
  transfer \notin {"none", transfer'} /\ PayoutStatus(adapter, transfer') # "pending" /\ transfer' # "abandoned" =>
    \E e \in heard' : e.record[1] = "payout" /\ e.native = transfer' /\ e.type # "unknown"

OutcomesAreHeard == [][OutcomeIsHeard]_providerVars

\* Whatever is lost, cut or late, the provider makes a refund once, and what it refuses
\* was not made.
RequestsMadeOnce == ProvidersTypeOK /\ RefundedOnce /\ RejectedIsNotMade

\* What the adapters report of a payout or a refund is never taken back but by a reversal,
\* of a payment only by a reversal or by its being paid late, and every outcome of a
\* payout is heard.
StatusesAreKept == FinalStatusesStick /\ OutcomesAreHeard
=============================================================================
