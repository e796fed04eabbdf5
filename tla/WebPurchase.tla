---------------------------- MODULE WebPurchase ----------------------------
(***************************************************************************)
(* Buying credits on the web, across the two services: the payments service *)
(* (services/payments: payment_intents, the PSP webhook and the refund      *)
(* endpoint) and the game back end (backend/internal/monetization:          *)
(* web_purchases, credit-grant, admin refunds and chargebacks), with the    *)
(* wallet they credit and debit.  The payment provider (iyzico) and the     *)
(* buyer are external: the actions Pay, Decline, Dispute and PspRefund.      *)
(*                                                                         *)
(* A worker is one HTTP handler from its first database step to its answer: *)
(* a webhook delivery with the call it makes to the game back end, or an    *)
(* admin refund with its call to the payments service.  Each step of a       *)
(* worker is one transaction or one call; between two steps anything else    *)
(* may happen, and the worker may stop (Fail: a crash, a time-out of its    *)
(* caller, a refused call, an open circuit breaker).  The PSP delivers an    *)
(* event again, perhaps while an earlier delivery runs, until one delivery   *)
(* has answered 2xx.                                                        *)
(***************************************************************************)
EXTENDS Wallet, FiniteSets

CONSTANTS
    Payments,       \* payment_intents.id; one provider_payment_id each
    Buyer,          \* payment_intents.user_id
    Credits,        \* payment_intents.credits, base credits plus bonus
    Disputed,       \* payments whose buyer may open a dispute
    GrantKey,       \* ledger key of a purchase: the provider_payment_id
    RefundKey,      \* ledger key of a clawback: "refund:" + provider_payment_id
    SpendKeys,      \* supports the buyers may pay for in the meantime
    SpendAmounts,   \* what such a support costs
    Handlers,       \* webhook deliveries running at the same time (bound)
    Jobs,           \* admin refunds running at the same time (bound)
    Idle,           \* a worker with nothing to do
    MaxFailures     \* bound: how many workers stop before their answer

PurchaseKeys == {GrantKey[p] : p \in Payments}
ClawbackKeys == {RefundKey[p] : p \in Payments}

ASSUME PurchaseAssumption ==
    /\ Buyer \in [Payments -> Users]
    /\ Credits \in [Payments -> Nat \ {0}]
    /\ Disputed \subseteq Payments
    /\ GrantKey \in [Payments -> Keys]
    /\ RefundKey \in [Payments -> Keys]
    /\ \A p, q \in Payments : p # q => GrantKey[p] # GrantKey[q] /\ RefundKey[p] # RefundKey[q]
    /\ PurchaseKeys \cap ClawbackKeys = {}
    /\ SpendKeys \subseteq Keys \ (PurchaseKeys \cup ClawbackKeys)
    /\ SpendAmounts \subseteq Nat \ {0}
    /\ Handlers \cap Jobs = {}
    /\ MaxFailures \in Nat

VARIABLES
    intent,     \* payment_intents.status, "none" before the row exists
    money,      \* where the buyer's money is (external)
    events,     \* PSP events no delivery of which has answered 2xx (external)
    disputes,   \* payments the PSP has charged back (external)
    purchase,   \* web_purchases.status, "none" before the row exists
    flagged,    \* purchases with a chargeback row in flagged_users
    work,       \* what each worker is doing
    failures    \* workers that have stopped early

paymentVars == <<intent, money, events, disputes>>
gameVars == <<walletVars, purchase, flagged>>
workVars == <<work, failures>>
vars == <<walletVars, intent, money, events, disputes, purchase, flagged, work, failures>>

Workers == Handlers \cup Jobs
Kinds == {"success", "failure", "chargeback"}
Event == [pay : Payments, kind : Kinds]
Phases == {"grant", "mark", "flag", "check", "psp", "claw", "clawing"}
Task == [pay : Payments, kind : Kinds \cup {"refund"}, phase : Phases, take : Nat]

TypeOK ==
    /\ WalletTypeOK
    /\ intent \in [Payments -> {"none", "pending", "succeeded", "failed", "refunded"}]
    /\ money \in [Payments -> {"unpaid", "declined", "paid", "returned"}]
    /\ events \subseteq Event
    /\ disputes \subseteq Disputed
    /\ purchase \in [Payments -> {"none", "verified", "refunded"}]
    /\ flagged \subseteq Payments
    /\ work \in [Workers -> Task \cup {Idle}]
    /\ failures \in 0 .. MaxFailures

Init ==
    /\ WalletInit
    /\ intent = [p \in Payments |-> "none"]
    /\ money = [p \in Payments |-> "unpaid"]
    /\ events = {}
    /\ disputes = {}
    /\ purchase = [p \in Payments |-> "none"]
    /\ flagged = {}
    /\ work = [w \in Workers |-> Idle]
    /\ failures = 0

-----------------------------------------------------------------------------
(* Workers                                                                  *)

Begin(w, p, kind, phase) ==
    work' = [work EXCEPT ![w] = [pay |-> p, kind |-> kind, phase |-> phase, take |-> 0]]

At(w, phase) == work[w] # Idle /\ work[w].phase = phase

GoTo(w, phase) == work' = [work EXCEPT ![w].phase = phase]

End(w) == work' = [work EXCEPT ![w] = Idle]

(* The worker answers 2xx; the answer settles the event only if it arrives.  *)
Answer(w) ==
    /\ End(w)
    /\ \/ events' = events \ {[pay |-> work[w].pay, kind |-> work[w].kind]}
       \/ UNCHANGED events

(* The worker stops before its next step: what it wrote stays.               *)
Fail(w) ==
    /\ work[w] # Idle
    /\ failures < MaxFailures
    /\ failures' = failures + 1
    /\ End(w)
    /\ UNCHANGED <<paymentVars, gameVars>>

-----------------------------------------------------------------------------
(* The buyer and the payment provider                                       *)

(* StartCheckout: the payments service creates the charge and the intent,    *)
(* the game stores the quote, and only then the buyer gets the checkout URL.  *)
(* A checkout that breaks off in between is an intent nobody can pay.        *)
StartCheckout(p) ==
    /\ intent[p] = "none"
    /\ intent' = [intent EXCEPT ![p] = "pending"]
    /\ UNCHANGED <<money, events, disputes, gameVars, workVars>>

Pay(p) ==
    /\ intent[p] # "none"
    /\ money[p] = "unpaid"
    /\ money' = [money EXCEPT ![p] = "paid"]
    /\ events' = events \cup {[pay |-> p, kind |-> "success"]}
    /\ UNCHANGED <<intent, disputes, gameVars, workVars>>

Decline(p) ==
    /\ intent[p] # "none"
    /\ money[p] = "unpaid"
    /\ money' = [money EXCEPT ![p] = "declined"]
    /\ events' = events \cup {[pay |-> p, kind |-> "failure"]}
    /\ UNCHANGED <<intent, disputes, gameVars, workVars>>

(* The buyer's bank takes the money back, whatever the services know.         *)
Dispute(p) ==
    /\ p \in Disputed \ disputes
    /\ money[p] = "paid"
    /\ money' = [money EXCEPT ![p] = "returned"]
    /\ disputes' = disputes \cup {p}
    /\ events' = events \cup {[pay |-> p, kind |-> "chargeback"]}
    /\ UNCHANGED <<intent, gameVars, workVars>>

(* The buyer spends credits on a city.                                       *)
Spend(u, n, key) ==
    /\ Outcome(u, -n, "support_spend", key) = "applied"
    /\ ApplyOnTx(u, -n, "support_spend", key)
    /\ UNCHANGED <<paymentVars, purchase, flagged, workVars>>

-----------------------------------------------------------------------------
(* The webhook of the payments service                                      *)

(* MarkSucceeded: the first delivery moves pending to succeeded and goes on   *)
(* to emit the credit grant; any later one is answered at once.              *)
DeliverSuccess(w, p) ==
    /\ [pay |-> p, kind |-> "success"] \in events
    /\ work[w] = Idle
    /\ IF intent[p] = "pending"
       THEN /\ intent' = [intent EXCEPT ![p] = "succeeded"]
            /\ Begin(w, p, "success", "grant")
            /\ UNCHANGED events
       ELSE /\ events' = events \ {[pay |-> p, kind |-> "success"]}
            /\ UNCHANGED <<intent, work>>
    /\ UNCHANGED <<money, disputes, gameVars, failures>>

(* Mutant: a failed payment is handled as a successful one.                  *)
DeliverFailure_AsSuccess(w, p) ==
    /\ [pay |-> p, kind |-> "failure"] \in events
    /\ work[w] = Idle
    /\ intent[p] = "pending"
    /\ intent' = [intent EXCEPT ![p] = "succeeded"]
    /\ Begin(w, p, "success", "grant")
    /\ UNCHANGED <<money, events, disputes, gameVars, failures>>

(* Any status but succeeded and chargeback: MarkFailed, its error ignored.    *)
DeliverFailure(w, p) ==
    /\ [pay |-> p, kind |-> "failure"] \in events
    /\ work[w] = Idle
    /\ intent' = [intent EXCEPT ![p] = IF @ = "pending" THEN "failed" ELSE @]
    /\ events' = events \ {[pay |-> p, kind |-> "failure"]}
    /\ UNCHANGED <<money, disputes, gameVars, workVars>>

(* The intent's status is read here and acted on in the next step.           *)
DeliverChargeback(w, p) ==
    /\ [pay |-> p, kind |-> "chargeback"] \in events
    /\ work[w] = Idle
    /\ Begin(w, p, "chargeback", IF intent[p] = "succeeded" THEN "mark" ELSE "flag")
    /\ UNCHANGED <<paymentVars, gameVars, failures>>

(* MarkRefunded: succeeded to refunded.  A chargeback goes on when it does    *)
(* not apply; a refund answers with an error.                                *)
MarkRefunded(w) ==
    LET p == work[w].pay
    IN
    /\ At(w, "mark")
    /\ intent' = [intent EXCEPT ![p] = IF @ = "succeeded" THEN "refunded" ELSE @]
    /\ IF work[w].kind = "chargeback" THEN GoTo(w, "flag")
       ELSE IF intent[p] = "succeeded" THEN GoTo(w, "claw") ELSE End(w)
    /\ UNCHANGED <<money, events, disputes, gameVars, failures>>

-----------------------------------------------------------------------------
(* The game back end                                                        *)

(* GrantFromPayments: insert web_purchases unless the payment has a row, and *)
(* credit it under the payment's key, in one transaction.                    *)
GrantFromPayments(w) ==
    LET p == work[w].pay
    IN
    /\ At(w, "grant")
    /\ purchase' = [purchase EXCEPT ![p] = IF @ = "none" THEN "verified" ELSE @]
    /\ ApplyOnTx(Buyer[p], Credits[p], "purchase", GrantKey[p])
    /\ Answer(w)
    /\ UNCHANGED <<intent, money, disputes, flagged, failures>>

(* Mutant: a chargeback of an unknown purchase is answered with 200.         *)
FlagChargeback_UnknownIsOk(w) ==
    LET p == work[w].pay
    IN
    /\ At(w, "flag")
    /\ IF purchase[p] = "none"
       THEN Answer(w) /\ UNCHANGED flagged
       ELSE /\ flagged' = flagged \cup {p}
            /\ IF purchase[p] = "refunded" THEN Answer(w)
               ELSE GoTo(w, "claw") /\ UNCHANGED events
    /\ UNCHANGED <<walletVars, intent, money, disputes, purchase, failures>>

(* Mutant: flagging the account ends the chargeback.                         *)
FlagChargeback_Only(w) ==
    LET p == work[w].pay
    IN
    /\ At(w, "flag")
    /\ IF purchase[p] = "none"
       THEN End(w) /\ UNCHANGED <<events, flagged>>
       ELSE flagged' = flagged \cup {p} /\ Answer(w)
    /\ UNCHANGED <<walletVars, intent, money, disputes, purchase, failures>>

(* HandleChargeback up to the commit of the moderation flag; a payment with   *)
(* no purchase is an error, so the PSP delivers the event again.             *)
FlagChargeback(w) ==
    LET p == work[w].pay
    IN
    /\ At(w, "flag")
    /\ IF purchase[p] = "none"
       THEN End(w) /\ UNCHANGED <<events, flagged>>
       ELSE /\ flagged' = flagged \cup {p}
            /\ IF purchase[p] = "refunded" THEN Answer(w)
               ELSE GoTo(w, "claw") /\ UNCHANGED events
    /\ UNCHANGED <<walletVars, intent, money, disputes, purchase, failures>>

(* RefundWebPurchase on a verified purchase, and then the payments service's  *)
(* Refund, which starts by reading the intent.                               *)
StartRefund(w, p) ==
    /\ work[w] = Idle
    /\ purchase[p] = "verified"
    /\ Begin(w, p, "refund", "check")
    /\ UNCHANGED <<paymentVars, gameVars, failures>>

CheckIntent(w) ==
    /\ At(w, "check")
    /\ IF intent[work[w].pay] = "succeeded" THEN GoTo(w, "psp") ELSE End(w)
    /\ UNCHANGED <<paymentVars, gameVars, failures>>

(* The PSP returns the money, or replays an earlier refund; when it refuses,  *)
(* the worker fails.                                                         *)
PspRefund(w) ==
    /\ At(w, "psp")
    /\ money' = [money EXCEPT ![work[w].pay] = "returned"]
    /\ GoTo(w, "mark")
    /\ UNCHANGED <<intent, events, disputes, gameVars, failures>>

-----------------------------------------------------------------------------
(* applyCreditClawback                                                      *)

PurchaseFree(p) == \A w \in Workers : At(w, "clawing") => work[w].pay # p

(* Lock the purchase row, re-read its status, read the balance unlocked.      *)
ReadClawback(w) ==
    LET p == work[w].pay
    IN
    /\ At(w, "claw")
    /\ PurchaseFree(p)
    /\ IF purchase[p] = "refunded" THEN Answer(w)
       ELSE /\ work' = [work EXCEPT ![w].phase = "clawing",
                  ![w].take = IF balance[Buyer[p]] < Credits[p]
                              THEN balance[Buyer[p]] ELSE Credits[p]]
            /\ UNCHANGED events
    /\ UNCHANGED <<intent, money, disputes, gameVars, failures>>

(* Mutant: the purchase stays verified.                                      *)
CommitClawback_StaysVerified(w) ==
    LET p == work[w].pay
        take == work[w].take
    IN
    /\ At(w, "clawing")
    /\ IF take > 0 THEN ApplyOnTx(Buyer[p], -take, "refund", RefundKey[p])
       ELSE UNCHANGED walletVars
    /\ Answer(w)
    /\ UNCHANGED <<intent, money, disputes, purchase, flagged, failures>>

(* Debit what was read, mark the purchase refunded, commit.  When the buyer    *)
(* has spent in between, the debit is refused and everything rolls back.      *)
CommitClawback(w) ==
    LET p == work[w].pay
        take == work[w].take
        refused == take > 0
            /\ Outcome(Buyer[p], -take, "refund", RefundKey[p]) \in {"insufficient", "conflict"}
    IN
    /\ At(w, "clawing")
    /\ IF refused
       THEN End(w) /\ UNCHANGED <<walletVars, purchase, events>>
       ELSE /\ IF take > 0 THEN ApplyOnTx(Buyer[p], -take, "refund", RefundKey[p])
               ELSE UNCHANGED walletVars
            /\ purchase' = [purchase EXCEPT ![p] = "refunded"]
            /\ Answer(w)
    /\ UNCHANGED <<intent, money, disputes, flagged, failures>>

-----------------------------------------------------------------------------
Deliver(p, kind) == \E w \in Handlers :
    \/ kind = "success" /\ DeliverSuccess(w, p)
    \/ kind = "failure" /\ DeliverFailure(w, p)
    \/ kind = "chargeback" /\ DeliverChargeback(w, p)

Work(w) ==
    \/ MarkRefunded(w) \/ GrantFromPayments(w) \/ FlagChargeback(w)
    \/ CheckIntent(w) \/ PspRefund(w) \/ ReadClawback(w) \/ CommitClawback(w)

Next ==
    \/ \E p \in Payments : StartCheckout(p) \/ Pay(p) \/ Decline(p) \/ Dispute(p)
    \/ \E u \in Users, n \in SpendAmounts, key \in SpendKeys : Spend(u, n, key)
    \/ \E p \in Payments, kind \in Kinds : Deliver(p, kind)
    \/ \E w \in Jobs, p \in Payments : StartRefund(w, p)
    \/ \E w \in Workers : Work(w)
    \/ \E w \in Workers : Fail(w)

(* Handlers run to their answer; the PSP repeats an event until one arrives,  *)
(* an event at a time even when others keep the handlers busy; the support     *)
(* team repeats a refund until the purchase is refunded.                     *)
Fairness ==
    /\ \A w \in Workers : WF_vars(Work(w))
    /\ \A p \in Payments, kind \in Kinds : SF_vars(Deliver(p, kind))
    /\ \A p \in Payments : SF_vars(\E w \in Jobs : StartRefund(w, p))

Spec == Init /\ [][Next]_vars
FairSpec == Spec /\ Fairness

-----------------------------------------------------------------------------
(* The sale the two services and the ledger show.                            *)
MoneyPlace == [unpaid |-> "out", declined |-> "out", paid |-> "in", returned |-> "back"]
Money == [p \in Payments |-> MoneyPlace[money[p]]]
Clawed == [p \in Payments |->
    {-row.delta : row \in {x \in RowsOf(Buyer[p]) : x.key = RefundKey[p]}}]

Sale == INSTANCE CreditSale WITH money <- Money, sale <- purchase, clawed <- Clawed

(* Every behaviour of the two services is one of the sale without services:   *)
(* a purchase and its credits, a refund and its clawback each happen in one   *)
(* instant, for money that came in or went back, and credits move for        *)
(* nothing else but what the buyers spend.                                   *)
ImplementsSale == Sale!SaleSpec

(* A payment's credits are in the ledger exactly once when it has a           *)
(* web_purchases row, for its buyer and its amount, and only money that was    *)
(* paid buys credits, however often and in whatever order the PSP delivers    *)
(* ("Duplicate provider_payment_id grants exactly once").                     *)
PurchasesAreGrantedOnce ==
    \A p \in Payments :
        LET rows == {u \in Users : \E row \in RowsOf(u) : row.key = GrantKey[p]}
        IN IF purchase[p] = "none" THEN rows = {}
           ELSE /\ money[p] \in {"paid", "returned"}
                /\ rows = {Buyer[p]}
                /\ SameMovement(Buyer[p], Credits[p], "purchase", GrantKey[p])
                /\ Cardinality({i \in DOMAIN ledger[Buyer[p]] :
                       ledger[Buyer[p]][i].key = GrantKey[p]}) = 1

(* A refunded purchase is one whose money went back, and it takes back at     *)
(* most the credits it granted; a purchase that is not refunded has lost      *)
(* none, and an admin refund and a chargeback of one payment never both take   *)
(* credits (refunds.go: "claws back unspent credits").                        *)
ClawbackFollowsTheMoney ==
    \A p \in Payments :
        LET rows == {row \in RowsOf(Buyer[p]) : row.key = RefundKey[p]}
        IN /\ purchase[p] = "refunded" => money[p] = "returned"
           /\ rows # {} => purchase[p] = "refunded"
           /\ \A row \in rows : -row.delta \in 1 .. Credits[p]

(* Once the PSP has its 2xx for a chargeback, the account is in the           *)
(* moderation queue and the purchase is refunded: nothing else will settle it. *)
AnsweredChargebackIsSettled ==
    \A p \in disputes :
        [pay |-> p, kind |-> "chargeback"] \notin events
            => p \in flagged /\ purchase[p] = "refunded"

(* A charged-back purchase is refunded in the end, whatever order the success *)
(* and the chargeback events arrive in and whichever handlers stop half-way.  *)
DisputedPurchasesAreRefunded ==
    \A p \in Payments :
        (p \in disputes /\ purchase[p] = "verified") ~> (purchase[p] = "refunded")

(* A successful charge triggers the credit grant                              *)
(* (prompts/implementation-roadmap-and-prompts.md:647): when the PSP has its   *)
(* 2xx for a payment and no handler is at work on it, the purchase exists.    *)
PaymentsAreNotForgotten ==
    \A p \in Payments :
        (/\ money[p] = "paid"
         /\ [pay |-> p, kind |-> "success"] \notin events
         /\ \A w \in Workers : work[w] # Idle => work[w].pay # p)
            => purchase[p] # "none"

(* A refund "calls payments POST /v1/refunds then claws back unspent credits" *)
(* (refunds.go:63): once the payments service has refunded, the purchase is   *)
(* refunded in the end, as the support team repeats the request.              *)
RefundedPaymentsAreClawedBack ==
    \A p \in Payments :
        (intent[p] = "refunded" /\ purchase[p] = "verified") ~> (purchase[p] = "refunded")
=============================================================================
