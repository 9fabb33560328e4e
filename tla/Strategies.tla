----------------------------- MODULE Strategies -----------------------------
(***************************************************************************)
(* The two payment strategies of apps/payments/strategies as functions of  *)
(* what the provider knows about one payment session: which notifications  *)
(* the provider can have sent, and the PaymentStatus that every answer or  *)
(* notification is normalised to.  There are no variables: Checkout holds  *)
(* the sessions and composes these operators.                              *)
(*                                                                         *)
(* A session is, at the provider (external):                               *)
(*    "none"        not created                                            *)
(*    "simulated"   made up by the strategy: the provider has none         *)
(*    "open"        created, the customer is on the hosted page            *)
(*    "processing"  handed in by the customer, the money not yet captured  *)
(*                  (Stripe: a delayed payment method; bKash: authorised,  *)
(*                  waiting for execute)                                   *)
(*    "paid"        captured                                               *)
(*    "failed"      handed in, then declined                               *)
(*    "expired"     closed without being handed in                         *)
(***************************************************************************)

\* PaymentStatus (payments/models.py)
PaymentStatus == {"initiated", "pending", "succeeded", "failed", "canceled"}

\* PaymentProvider: the keys of the registry
PaymentProvider == {"stripe", "bkash"}

SessionState == {"none", "simulated", "open", "processing", "paid", "failed", "expired"}

(***************************************************************************)
(* External: what a session may do next at the provider.  A delayed Stripe *)
(* payment settles by itself; a bKash payment only when it is executed.    *)
(***************************************************************************)
ProviderMoves(provider, s) ==
  CASE s = "open" /\ provider = "stripe" -> {"processing", "paid", "expired"}
    [] s = "open" /\ provider = "bkash"  -> {"processing", "expired"}
    [] s = "processing" /\ provider = "stripe" -> {"paid", "failed"}
    [] OTHER -> {}

(***************************************************************************)
(* External: the notifications a session in state s can have given rise    *)
(* to.  A notification once sent may arrive at any later time, any number  *)
(* of times and in any order.                                              *)
(***************************************************************************)
StripeEvents(s) ==
  CASE s = "processing" -> {"completed"}
    [] s = "paid"       -> {"completed", "async_payment_succeeded"}
    [] s = "failed"     -> {"completed", "async_payment_failed"}
    [] s = "expired"    -> {"expired"}
    [] OTHER            -> {}

BkashEvents(s) ==
  CASE s = "processing" -> {"Authorized"}
    [] s = "paid"       -> {"Authorized", "Completed"}
    [] s = "failed"     -> {"Authorized", "Failed"}
    [] s = "expired"    -> {"Cancelled"}
    [] OTHER            -> {}

Events(provider, s) ==
  IF provider = "stripe" THEN StripeEvents(s) ELSE BkashEvents(s)

\* Every notification of a provider
ProviderEvents(provider) ==
  IF provider = "stripe"
    THEN {"completed", "async_payment_succeeded", "async_payment_failed", "expired"}
    ELSE {"Authorized", "Completed", "Failed", "Cancelled"}

Event == ProviderEvents("stripe") \union ProviderEvents("bkash")

-----------------------------------------------------------------------------
\* Bug variant: any session that is not open counts as paid
StatusFromSessionClosed(s) == IF s = "open" THEN "pending" ELSE "succeeded"

\* StripeStrategy._status_from_session
StatusFromSession(s) ==
  CASE s = "paid"    -> "succeeded"
    [] s = "expired" -> "canceled"
    [] OTHER         -> "pending"

\* The status branch of StripeStrategy.parse_webhook: the event type decides
StripeWebhookStatus(e) ==
  CASE e \in {"completed", "async_payment_succeeded"} -> "succeeded"
    [] e = "expired"              -> "canceled"
    [] e = "async_payment_failed" -> "failed"
    [] OTHER                      -> "pending"

\* Bug variant: an authorised payment counts as completed
BkashStatusMapAuthorized(t) ==
  CASE t \in {"Completed", "Authorized"} -> "succeeded"
    [] t = "Cancelled" -> "canceled"
    [] t = "Failed"    -> "failed"
    [] OTHER           -> "pending"

\* _BKASH_STATUS_MAP with the default of its .get calls
BkashStatusMap(t) ==
  CASE t = "Completed" -> "succeeded"
    [] t = "Cancelled" -> "canceled"
    [] t = "Failed"    -> "failed"
    [] OTHER           -> "pending"

\* External: the transactionStatus the bKash status query answers for s
TransactionStatus(s) ==
  CASE s = "processing" -> "Authorized"
    [] s = "paid"       -> "Completed"
    [] s = "failed"     -> "Failed"
    [] s = "expired"    -> "Cancelled"
    [] OTHER            -> "Initiated"

-----------------------------------------------------------------------------
\* Status of the PaymentResult of initiate: both providers answer with a
\* session the customer has yet to pay
InitiateStatus(provider) ==
  IF provider = "stripe" THEN StatusFromSession("open") ELSE BkashStatusMap("Initiated")

\* Strategy.verify: fake is the strategy's own _fake_enabled()
VerifyStatus(provider, s, fake) ==
  CASE fake                -> "succeeded"
    [] provider = "stripe" -> StatusFromSession(s)
    [] OTHER               -> BkashStatusMap(TransactionStatus(s))

(***************************************************************************)
(* Strategy.confirm, as the set of [session, status] pairs it can lead to. *)
(* Stripe re-reads the session.  bKash executes an authorised payment,     *)
(* which captures or declines it; for any other session the reply carries  *)
(* no transactionStatus and falls to the default, except that executing a  *)
(* captured payment again may also repeat the first answer.                *)
(***************************************************************************)
ConfirmResults(provider, s, fake) ==
  IF fake \/ provider = "stripe"
    THEN {[session |-> s, status |-> VerifyStatus(provider, s, fake)]}
    ELSE IF s = "processing"
      THEN {[session |-> "paid",   status |-> BkashStatusMap("Completed")],
            [session |-> "failed", status |-> BkashStatusMap("Failed")]}
      ELSE {[session |-> s, status |-> BkashStatusMap("absent")]}
           \union IF s = "paid"
                    THEN {[session |-> s, status |-> BkashStatusMap("Completed")]}
                    ELSE {}

\* Bug variant: no signature is checked
AcceptedUnchecked(provider, s, unsigned) == ProviderEvents(provider)

(***************************************************************************)
(* Strategy.parse_webhook: the notifications it lets through.  A signature *)
(* proves that the provider sent it.  unsigned says that the webhook       *)
(* secret is left at its default, "": bKash's signature is then not looked *)
(* at and Stripe's is made with a key everyone has, so that any            *)
(* notification passes, whatever the session is.                           *)
(***************************************************************************)
Accepted(provider, s, unsigned) ==
  IF unsigned THEN ProviderEvents(provider) ELSE Events(provider, s)

\* Strategy.parse_webhook: the status of a notification let through
WebhookStatus(provider, e) ==
  IF provider = "stripe" THEN StripeWebhookStatus(e) ELSE BkashStatusMap(e)

(***************************************************************************)
(* The sessions the customer has completed as far as the strategies can    *)
(* tell: those some answer or notification reports as a success.           *)
(***************************************************************************)
Completed(provider, s) ==
  \/ s = "paid"
  \/ provider = "stripe" /\ s \in {"processing", "failed"}
=============================================================================
