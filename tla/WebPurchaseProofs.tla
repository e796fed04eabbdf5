------------------------- MODULE WebPurchaseProofs -------------------------
(***************************************************************************)
(* Theorems about WebPurchase, for any payments, users and workers, and any  *)
(* number of early stops.                                                    *)
(***************************************************************************)
EXTENDS WebPurchase, WalletProofs, FiniteSetTheorems

(* The buyer has paid, whether or not the money went back since.             *)
Taken == {"paid", "returned"}

(* What the payment provider and the intents say of the money.               *)
MoneyIsKnown ==
    /\ \A p \in Payments : [pay |-> p, kind |-> "success"] \in events => money[p] \in Taken
    /\ \A p \in Payments : intent[p] \in {"succeeded", "refunded"} => money[p] \in Taken
    /\ \A p \in disputes : money[p] = "returned"
    /\ \A p \in Payments : [pay |-> p, kind |-> "chargeback"] \in events => p \in disputes

(* What a worker may rely on in its next step, whatever the others have done  *)
(* since its last one.                                                       *)
TaskOK(t) ==
    /\ t.kind # "failure"
    /\ t.kind = "success" <=> t.phase = "grant"
    /\ t.phase = "grant" => money[t.pay] \in Taken
    /\ t.phase \in {"mark", "flag", "claw", "clawing"} => money[t.pay] = "returned"
    /\ t.kind = "chargeback" => t.pay \in disputes
    /\ t.phase = "flag" => t.kind = "chargeback"
    /\ t.kind = "chargeback" /\ t.phase \in {"claw", "clawing"} => t.pay \in flagged
    /\ t.kind = "refund" \/ t.phase \in {"claw", "clawing"} => purchase[t.pay] # "none"
    /\ t.phase = "clawing" => t.take <= Credits[t.pay]

Tasks == \A w \in Workers : work[w] # Idle => TaskOK(work[w])

(* PurchasesAreGrantedOnce, without what the unique keys say already.        *)
Granted ==
    \A p \in Payments :
        IF purchase[p] = "none" THEN ~KeyUsed(GrantKey[p])
        ELSE /\ money[p] \in Taken
             /\ SameMovement(Buyer[p], Credits[p], "purchase", GrantKey[p])

(* The inductive invariant.                                                  *)
PInv ==
    /\ TypeOK
    /\ BalanceMatchesLedger
    /\ KeysMoveCreditsOnce
    /\ MoneyIsKnown
    /\ Tasks
    /\ Granted
    /\ ClawbackFollowsTheMoney
    /\ AnsweredChargebackIsSettled
-----------------------------------------------------------------------------
(* What only ever grows: money that came in, money that went back, disputes,  *)
(* flags, purchases.                                                         *)
Grows ==
    /\ \A p \in Payments : money[p] \in Taken => money'[p] \in Taken
    /\ \A p \in Payments : money[p] = "returned" => money'[p] = "returned"
    /\ disputes \subseteq disputes'
    /\ flagged \subseteq flagged'
    /\ \A p \in Payments : purchase[p] # "none" => purchase'[p] # "none"
    /\ \A p \in Payments : purchase[p] = "refunded" => purchase'[p] = "refunded"

(* What a worker relies on stays true while others grow the state.           *)
LEMMA TaskStays ==
  ASSUME NEW t \in Task, TaskOK(t), Grows
  PROVE  TaskOK(t)'
  BY DEF TaskOK, Grows, Task, Taken

(* One worker moves on to x and the others stay where they are.              *)
LEMMA TasksStep ==
  ASSUME TypeOK, Tasks, Grows, NEW w \in Workers, NEW x,
         work' = [work EXCEPT ![w] = x], x = Idle \/ TaskOK(x)'
  PROVE  Tasks'
  <1> SUFFICES ASSUME NEW v \in Workers, work'[v] # Idle PROVE TaskOK(work[v])'
    BY DEF Tasks
  <1> PICK y : y = work'[v]
    OBVIOUS
  <1>1. TaskOK(y)'
    <2>1. CASE v = w
      BY <2>1 DEF TypeOK
    <2>2. CASE v # w
      <3>1. y = work[v] /\ y # Idle
        BY <2>2 DEF TypeOK
      <3>2. y \in Task /\ TaskOK(y)
        BY <3>1 DEF TypeOK, Tasks
      <3> QED BY <3>2, TaskStays
    <2> QED BY <2>1, <2>2
  <1> QED BY <1>1 DEF TaskOK

LEMMA TasksStay ==
  ASSUME TypeOK, Tasks, Grows, UNCHANGED work
  PROVE  Tasks'
  <1> SUFFICES ASSUME NEW v \in Workers, work'[v] # Idle PROVE TaskOK(work[v])'
    BY DEF Tasks
  <1> PICK y : y = work'[v]
    OBVIOUS
  <1>1. y \in Task /\ TaskOK(y)
    BY DEF TypeOK, Tasks
  <1>2. TaskOK(y)'
    BY <1>1, TaskStays
  <1> QED BY <1>2 DEF TaskOK

(* A step that leaves the wallet and the purchases alone keeps what is said   *)
(* of them.                                                                  *)
LEMMA QuietWallet ==
  ASSUME UNCHANGED walletVars
  PROVE  /\ WalletTypeOK' = WalletTypeOK
         /\ BalanceMatchesLedger' = BalanceMatchesLedger
         /\ KeysMoveCreditsOnce' = KeysMoveCreditsOnce
         /\ \A v \in Users : RowsOf(v)' = RowsOf(v)
  BY DEF walletVars, WalletTypeOK, BalanceMatchesLedger, KeysMoveCreditsOnce, RowsOf

(* The purchases with a row stay the ones whose key is in the ledger.        *)
LEMMA GrantedStep ==
  ASSUME Granted, Grows,
         \A v \in Users : RowsOf(v) \subseteq RowsOf(v)',
         \A p \in Payments : purchase[p] = "none" => purchase'[p] = "none",
         \A v \in Users : \A row \in RowsOf(v)' : row.key \in PurchaseKeys => row \in RowsOf(v)
  PROVE  Granted'
  <1> SUFFICES ASSUME NEW p \in Payments
               PROVE  IF purchase'[p] = "none" THEN ~KeyUsed(GrantKey[p])'
                      ELSE /\ money'[p] \in Taken
                           /\ SameMovement(Buyer[p], Credits[p], "purchase", GrantKey[p])'
    BY DEF Granted
  <1>1. CASE purchase[p] = "none"
    <2>1. purchase'[p] = "none" /\ ~KeyUsed(GrantKey[p])
      BY <1>1 DEF Granted
    <2>2. GrantKey[p] \in PurchaseKeys
      BY DEF PurchaseKeys
    <2> QED BY <2>1, <2>2 DEF KeyUsed
  <1>2. CASE purchase[p] # "none"
    <2>1. /\ money[p] \in Taken /\ Buyer[p] \in Users
          /\ SameMovement(Buyer[p], Credits[p], "purchase", GrantKey[p])
      BY <1>2, PurchaseAssumption DEF Granted
    <2>2. money'[p] \in Taken /\ purchase'[p] # "none"
      BY <1>2, <2>1 DEF Grows
    <2>3. SameMovement(Buyer[p], Credits[p], "purchase", GrantKey[p])'
      BY <2>1 DEF SameMovement
    <2> QED BY <2>2, <2>3
  <1> QED BY <1>1, <1>2

(* No clawback is added, and only money that went back marks a purchase.      *)
LEMMA ClawbackStays ==
  ASSUME ClawbackFollowsTheMoney, Grows,
         \A p \in Payments : purchase'[p] = "refunded" => money'[p] = "returned",
         \A v \in Users : \A row \in RowsOf(v)' : row.key \in ClawbackKeys => row \in RowsOf(v)
  PROVE  ClawbackFollowsTheMoney'
  <1> SUFFICES ASSUME NEW p \in Payments
               PROVE  /\ purchase'[p] = "refunded" => money'[p] = "returned"
                      /\ \A row \in RowsOf(Buyer[p])' : row.key = RefundKey[p] =>
                            purchase'[p] = "refunded" /\ -row.delta \in 1 .. Credits[p]
    BY DEF ClawbackFollowsTheMoney
  <1>1. Buyer[p] \in Users /\ RefundKey[p] \in ClawbackKeys
    BY PurchaseAssumption DEF ClawbackKeys
  <1>2. \A row \in RowsOf(Buyer[p]) : row.key = RefundKey[p] =>
           purchase[p] = "refunded" /\ -row.delta \in 1 .. Credits[p]
    BY DEF ClawbackFollowsTheMoney
  <1> QED BY <1>1, <1>2 DEF Grows

(* An answered chargeback stays settled; the one being answered now is.       *)
LEMMA SettledStep ==
  ASSUME AnsweredChargebackIsSettled, Grows, disputes' = disputes, disputes \subseteq Payments,
         \A p \in disputes :
            \/ [pay |-> p, kind |-> "chargeback"] \in events
                  => [pay |-> p, kind |-> "chargeback"] \in events'
            \/ p \in flagged' /\ purchase'[p] = "refunded"
  PROVE  AnsweredChargebackIsSettled'
  BY DEF AnsweredChargebackIsSettled, Grows

(* A step that leaves the wallet and the purchases alone.                    *)
LEMMA QuietStep ==
  ASSUME PInv, Grows, UNCHANGED <<walletVars, purchase>>
  PROVE  /\ WalletTypeOK' /\ BalanceMatchesLedger' /\ KeysMoveCreditsOnce'
         /\ Granted' /\ ClawbackFollowsTheMoney'
  <1>1. WalletTypeOK /\ BalanceMatchesLedger /\ KeysMoveCreditsOnce
    BY DEF PInv, TypeOK
  <1>2. /\ WalletTypeOK' /\ BalanceMatchesLedger' /\ KeysMoveCreditsOnce'
        /\ \A v \in Users : RowsOf(v)' = RowsOf(v)
    BY <1>1, QuietWallet
  <1>3. Granted'
    BY <1>2, GrantedStep DEF PInv
  <1>4. \A p \in Payments : purchase'[p] = "refunded" => money'[p] = "returned"
    BY DEF PInv, ClawbackFollowsTheMoney, Grows
  <1>5. ClawbackFollowsTheMoney'
    BY <1>2, <1>4, ClawbackStays DEF PInv
  <1> QED BY <1>2, <1>3, <1>5
-----------------------------------------------------------------------------
(* The buyer and the payment provider                                       *)

LEMMA StartCheckoutKeeps ==
  ASSUME PInv, NEW p \in Payments, StartCheckout(p)
  PROVE  PInv'
  <1>1. Grows
    BY DEF StartCheckout, gameVars, Grows
  <1>2. UNCHANGED <<walletVars, purchase, flagged, work, failures, money, events, disputes>>
    BY DEF StartCheckout, gameVars, workVars
  <1>3. intent' = [intent EXCEPT ![p] = "pending"]
    BY DEF StartCheckout
  <1>4. /\ WalletTypeOK' /\ BalanceMatchesLedger' /\ KeysMoveCreditsOnce'
        /\ Granted' /\ ClawbackFollowsTheMoney'
    BY <1>1, <1>2, QuietStep
  <1>5. TypeOK'
    BY <1>2, <1>3, <1>4 DEF PInv, TypeOK
  <1>6. Tasks'
    BY <1>1, <1>2, TasksStay DEF PInv
  <1>7. MoneyIsKnown'
    BY <1>2, <1>3 DEF PInv, TypeOK, MoneyIsKnown
  <1>8. AnsweredChargebackIsSettled'
    BY <1>2 DEF PInv, AnsweredChargebackIsSettled
  <1> QED BY <1>4, <1>5, <1>6, <1>7, <1>8 DEF PInv

(* The payment provider moves money and posts an event.                      *)
LEMMA ProviderKeeps ==
  ASSUME PInv, NEW p \in Payments, NEW kind \in Kinds,
         NEW there \in {"declined", "paid", "returned"},
         money' = [money EXCEPT ![p] = there],
         events' = events \cup {[pay |-> p, kind |-> kind]},
         disputes' \in SUBSET Disputed, disputes \subseteq disputes',
         UNCHANGED <<intent, gameVars, workVars>>,
         \/ kind = "success" /\ money[p] = "unpaid" /\ there = "paid" /\ disputes' = disputes
         \/ kind = "failure" /\ money[p] = "unpaid" /\ there = "declined" /\ disputes' = disputes
         \/ kind = "chargeback" /\ there = "returned" /\ disputes' = disputes \cup {p}
              /\ money[p] = "paid"
  PROVE  PInv'
  <1> USE DEF PInv
  <1>1. money \in [Payments -> {"unpaid", "declined", "paid", "returned"}]
    BY DEF TypeOK
  <1>2. UNCHANGED <<walletVars, purchase, flagged, work, failures, intent>>
    BY DEF gameVars, workVars
  <1>3. Grows
    BY <1>1, <1>2 DEF Grows, Taken
  <1>4. /\ WalletTypeOK' /\ BalanceMatchesLedger' /\ KeysMoveCreditsOnce'
        /\ Granted' /\ ClawbackFollowsTheMoney'
    BY <1>2, <1>3, QuietStep
  <1>5. TypeOK'
    <2>1. money' \in [Payments -> {"unpaid", "declined", "paid", "returned"}]
      BY <1>1
    <2>2. events' \subseteq Event
      BY DEF TypeOK, Event
    <2> QED BY <1>2, <1>4, <2>1, <2>2 DEF TypeOK
  <1>6. Tasks'
    BY <1>2, <1>3, TasksStay
  <1>7. MoneyIsKnown'
    <2>1. MoneyIsKnown /\ disputes \subseteq Payments
      BY PurchaseAssumption DEF TypeOK
    <2>2. \A q \in Payments : [pay |-> q, kind |-> "success"] \in events' => money'[q] \in Taken
      BY <1>1, <1>3, <2>1 DEF MoneyIsKnown, Taken, Grows
    <2>3. \A q \in Payments : intent'[q] \in {"succeeded", "refunded"} => money'[q] \in Taken
      BY <1>2, <1>3, <2>1 DEF MoneyIsKnown, Grows
    <2>4. \A q \in disputes' : money'[q] = "returned"
      BY <1>1, <1>3, <2>1 DEF MoneyIsKnown, Grows
    <2>5. \A q \in Payments : [pay |-> q, kind |-> "chargeback"] \in events' => q \in disputes'
      BY <2>1 DEF MoneyIsKnown
    <2> QED BY <2>2, <2>3, <2>4, <2>5 DEF MoneyIsKnown
  <1>8. AnsweredChargebackIsSettled'
    BY <1>2 DEF AnsweredChargebackIsSettled
  <1> QED BY <1>4, <1>5, <1>6, <1>7, <1>8

LEMMA PayKeeps ==
  ASSUME PInv, NEW p \in Payments, Pay(p) \/ Decline(p) \/ Dispute(p)
  PROVE  PInv'
  <1>0. disputes \subseteq Disputed
    BY DEF PInv, TypeOK
  <1>1. CASE Pay(p)
    BY <1>0, <1>1, ProviderKeeps DEF Pay, Kinds
  <1>2. CASE Decline(p)
    BY <1>0, <1>2, ProviderKeeps DEF Decline, Kinds
  <1>3. CASE Dispute(p)
    BY <1>0, <1>3, ProviderKeeps DEF Dispute, Kinds
  <1> QED BY <1>1, <1>2, <1>3

LEMMA SpendKeeps ==
  ASSUME PInv, NEW u \in Users, NEW n \in SpendAmounts, NEW key \in SpendKeys,
         Spend(u, n, key)
  PROVE  PInv'
  <1> USE DEF PInv
  <1>1. /\ n \in Nat \ {0} /\ key \in Keys
        /\ key \notin PurchaseKeys /\ key \notin ClawbackKeys
    BY PurchaseAssumption
  <1>2. /\ ApplyOnTx(u, -n, "support_spend", key)
        /\ UNCHANGED <<intent, money, events, disputes, purchase, flagged, work, failures>>
    BY DEF Spend, paymentVars, workVars
  <1> PICK delta \in Int : delta = -n
    BY <1>1
  <1>3. WalletInv /\ WalletTypeOK /\ ApplyOnTx(u, delta, "support_spend", key)
    BY <1>2 DEF WalletInv, TypeOK
  <1> HIDE DEF PInv
  <1>4. "support_spend" \in Reasons
    BY DEF Reasons
  <1>5. WalletInv'
    BY <1>1, <1>3, <1>4, ApplyKeepsWallet
  <1>6. \A v \in Users : RowsOf(v) \subseteq RowsOf(v)'
    BY <1>1, <1>3, <1>4, ApplyOnlyAdds
  <1>7. \A v \in Users : \A row \in RowsOf(v)' : row \in RowsOf(v) \/ row.key = key
    BY <1>1, <1>3, <1>4, ApplyAddsOne
  <1>8. Grows
    BY <1>2 DEF Grows
  <1>9. Granted'
    BY <1>1, <1>2, <1>6, <1>7, <1>8, GrantedStep DEF PInv
  <1>10. \A p \in Payments : purchase'[p] = "refunded" => money'[p] = "returned"
    BY <1>2 DEF PInv, ClawbackFollowsTheMoney
  <1>11. ClawbackFollowsTheMoney'
    BY <1>1, <1>7, <1>8, <1>10, ClawbackStays DEF PInv
  <1>12. TypeOK' /\ BalanceMatchesLedger' /\ KeysMoveCreditsOnce'
    BY <1>2, <1>5 DEF PInv, TypeOK, WalletInv
  <1>13. Tasks'
    BY <1>2, <1>8, TasksStay DEF PInv
  <1>14. MoneyIsKnown' /\ AnsweredChargebackIsSettled'
    BY <1>2 DEF PInv, MoneyIsKnown, AnsweredChargebackIsSettled
  <1> QED BY <1>9, <1>11, <1>12, <1>13, <1>14 DEF PInv

-----------------------------------------------------------------------------
(* The webhook of the payments service                                      *)

(* A worker of the payments service moves on: the wallet, the purchases and    *)
(* the flags stay, and an event answered is no chargeback.                    *)
LEMMA PaymentsStep ==
  ASSUME PInv, NEW w \in Workers, NEW x, work' = [work EXCEPT ![w] = x],
         x \in Task \cup {Idle}, x = Idle \/ TaskOK(x)', Grows,
         UNCHANGED <<gameVars, disputes, failures>>,
         intent' \in [Payments -> {"none", "pending", "succeeded", "failed", "refunded"}],
         money' \in [Payments -> {"unpaid", "declined", "paid", "returned"}],
         \A p \in Payments : intent'[p] \in {"succeeded", "refunded"} => money'[p] \in Taken,
         events' \subseteq events,
         \A p \in Payments : [pay |-> p, kind |-> "chargeback"] \in events
            => [pay |-> p, kind |-> "chargeback"] \in events'
  PROVE  PInv'
  <1>2. UNCHANGED <<walletVars, purchase, flagged>>
    BY DEF gameVars
  <1>4. /\ WalletTypeOK' /\ BalanceMatchesLedger' /\ KeysMoveCreditsOnce'
        /\ Granted' /\ ClawbackFollowsTheMoney'
    BY <1>2, QuietStep
  <1>5. TypeOK'
    <2>1. work' \in [Workers -> Task \cup {Idle}]
      BY DEF PInv, TypeOK
    <2> QED BY <1>2, <1>4, <2>1 DEF PInv, TypeOK
  <1>6. Tasks'
    BY <1>2, TasksStep DEF PInv
  <1>7. disputes \subseteq Payments
    BY PurchaseAssumption DEF PInv, TypeOK
  <1>8. MoneyIsKnown'
    BY <1>7 DEF PInv, MoneyIsKnown, Grows
  <1>9. AnsweredChargebackIsSettled'
    BY <1>7, SettledStep DEF PInv
  <1> QED BY <1>4, <1>5, <1>6, <1>8, <1>9 DEF PInv
(* The record a worker starts with.                                          *)
LEMMA NewTask ==
  ASSUME NEW p \in Payments, NEW kind \in Kinds \cup {"refund"}, NEW phase \in Phases
  PROVE  \E x \in Task : /\ x = [pay |-> p, kind |-> kind, phase |-> phase, take |-> 0]
                         /\ x.pay = p /\ x.kind = kind /\ x.phase = phase /\ x.take = 0
  <1> DEFINE x == [pay |-> p, kind |-> kind, phase |-> phase, take |-> 0]
  <1>1. x \in Task /\ x.pay = p /\ x.kind = kind /\ x.phase = phase /\ x.take = 0
    BY DEF Task
  <1> QED BY <1>1

(* The record of a worker that goes to another phase.                        *)
LEMMA GoToTask ==
  ASSUME TypeOK, NEW w \in Workers, work[w] # Idle, NEW phase \in Phases, GoTo(w, phase)
  PROVE  \E x \in Task : /\ work' = [work EXCEPT ![w] = x]
                         /\ x.pay = work[w].pay /\ x.kind = work[w].kind
                         /\ x.phase = phase /\ x.take = work[w].take
  <1> PICK t \in Task : t = work[w]
    BY DEF TypeOK
  <1> DEFINE x == [t EXCEPT !.phase = phase]
  <1>1. x \in Task /\ x.pay = t.pay /\ x.kind = t.kind /\ x.phase = phase /\ x.take = t.take
    BY DEF Task
  <1>2. work' = [work EXCEPT ![w] = x]
    BY DEF GoTo
  <1> QED BY <1>1, <1>2

(* What a busy worker is doing.                                              *)
LEMMA BusyTask ==
  ASSUME PInv, NEW w \in Workers, work[w] # Idle
  PROVE  /\ work[w] \in Task /\ TaskOK(work[w]) /\ work[w].pay \in Payments
         /\ work[w].kind \in Kinds \cup {"refund"} /\ work[w].phase \in Phases
         /\ work[w].take \in Nat
  BY DEF PInv, TypeOK, Tasks, Task

LEMMA DeliverKeeps ==
  ASSUME PInv, NEW w \in Workers, NEW p \in Payments,
         DeliverSuccess(w, p) \/ DeliverFailure(w, p) \/ DeliverChargeback(w, p)
  PROVE  PInv'
  <1>0. /\ intent \in [Payments -> {"none", "pending", "succeeded", "failed", "refunded"}]
        /\ money \in [Payments -> {"unpaid", "declined", "paid", "returned"}]
        /\ work \in [Workers -> Task \cup {Idle}]
        /\ MoneyIsKnown
    BY DEF PInv, TypeOK
  <1>1. CASE DeliverSuccess(w, p)
    <2>1. /\ UNCHANGED <<money, disputes, gameVars, failures>> /\ money[p] \in Taken
          /\ UNCHANGED <<purchase, flagged>>
      BY <1>0, <1>1 DEF DeliverSuccess, MoneyIsKnown, gameVars
    <2>2. Grows
      BY <2>1 DEF Grows
    <2>3. CASE intent[p] = "pending"
      <3>1. /\ work' = [work EXCEPT ![w] = [pay |-> p, kind |-> "success",
                                            phase |-> "grant", take |-> 0]]
            /\ intent' = [intent EXCEPT ![p] = "succeeded"] /\ events' = events
        BY <1>1, <2>3 DEF DeliverSuccess, Begin
      <3>2. PICK x \in Task :
               /\ x = [pay |-> p, kind |-> "success", phase |-> "grant", take |-> 0]
               /\ x.pay = p /\ x.kind = "success" /\ x.phase = "grant" /\ x.take = 0
        BY NewTask DEF Kinds, Phases
      <3>3. TaskOK(x)'
        BY <2>1, <3>2 DEF TaskOK
      <3>4. \A q \in Payments : intent'[q] \in {"succeeded", "refunded"} => money'[q] \in Taken
        BY <1>0, <2>1, <3>1 DEF MoneyIsKnown
      <3>5. intent' \in [Payments -> {"none", "pending", "succeeded", "failed", "refunded"}]
        BY <1>0, <3>1
      <3>6. money' \in [Payments -> {"unpaid", "declined", "paid", "returned"}]
        BY <1>0, <2>1
      <3> QED BY <2>1, <2>2, <3>1, <3>2, <3>3, <3>4, <3>5, <3>6, PaymentsStep
    <2>4. CASE intent[p] # "pending"
      <3>1. /\ UNCHANGED <<intent, work>>
            /\ events' = events \ {[pay |-> p, kind |-> "success"]}
        BY <1>1, <2>4 DEF DeliverSuccess
      <3>2. work' = [work EXCEPT ![w] = Idle]
        BY <1>0, <1>1, <3>1 DEF DeliverSuccess
      <3>3. \A q \in Payments : intent'[q] \in {"succeeded", "refunded"} => money'[q] \in Taken
        BY <1>0, <2>1, <3>1 DEF MoneyIsKnown
      <3> QED BY <1>0, <2>1, <2>2, <3>1, <3>2, <3>3, PaymentsStep
    <2> QED BY <2>3, <2>4
  <1>2. CASE DeliverFailure(w, p)
    <2>1. /\ UNCHANGED <<money, disputes, gameVars, failures, work>>
          /\ UNCHANGED <<purchase, flagged>>
          /\ intent' = [intent EXCEPT ![p] = IF intent[p] = "pending" THEN "failed" ELSE intent[p]]
          /\ events' = events \ {[pay |-> p, kind |-> "failure"]} /\ work[w] = Idle
      BY <1>2 DEF DeliverFailure, gameVars, workVars
    <2>2. Grows
      BY <2>1 DEF Grows
    <2>3. work' = [work EXCEPT ![w] = Idle]
      BY <1>0, <2>1
    <2>4. \A q \in Payments : intent'[q] \in {"succeeded", "refunded"} => money'[q] \in Taken
      BY <1>0, <2>1 DEF MoneyIsKnown
    <2>5. intent' \in [Payments -> {"none", "pending", "succeeded", "failed", "refunded"}]
      BY <1>0, <2>1
    <2>6. money' \in [Payments -> {"unpaid", "declined", "paid", "returned"}]
      BY <1>0, <2>1
    <2> QED BY <2>1, <2>2, <2>3, <2>4, <2>5, <2>6, PaymentsStep
  <1>3. CASE DeliverChargeback(w, p)
    <2>1. /\ UNCHANGED <<paymentVars, intent, money, events, disputes, gameVars, failures>>
          /\ UNCHANGED <<purchase, flagged>>
          /\ p \in disputes /\ money[p] = "returned"
      BY <1>0, <1>3 DEF DeliverChargeback, MoneyIsKnown, gameVars, paymentVars
    <2>2. Grows
      BY <2>1 DEF Grows
    <2>3. PICK phase \in {"mark", "flag"} : Begin(w, p, "chargeback", phase)
      BY <1>3 DEF DeliverChargeback
    <2>4. PICK x \in Task :
             /\ x = [pay |-> p, kind |-> "chargeback", phase |-> phase, take |-> 0]
             /\ x.pay = p /\ x.kind = "chargeback" /\ x.phase = phase /\ x.take = 0
      BY NewTask DEF Kinds, Phases
    <2>5. TaskOK(x)'
      BY <2>1, <2>4 DEF TaskOK
    <2>6. work' = [work EXCEPT ![w] = x]
      BY <2>3, <2>4 DEF Begin
    <2>7. \A q \in Payments : intent'[q] \in {"succeeded", "refunded"} => money'[q] \in Taken
      BY <1>0, <2>1 DEF MoneyIsKnown
    <2> QED BY <1>0, <2>1, <2>2, <2>4, <2>5, <2>6, <2>7, PaymentsStep
  <1> QED BY <1>1, <1>2, <1>3

LEMMA MarkRefundedKeeps ==
  ASSUME PInv, NEW w \in Workers, MarkRefunded(w)
  PROVE  PInv'
  <1>0. /\ intent \in [Payments -> {"none", "pending", "succeeded", "failed", "refunded"}]
        /\ money \in [Payments -> {"unpaid", "declined", "paid", "returned"}]
        /\ MoneyIsKnown /\ TypeOK
    BY DEF PInv, TypeOK
  <1>1. work[w] # Idle /\ work[w].phase = "mark"
    BY DEF MarkRefunded, At
  <1>2. PICK t \in Task : t = work[w]
    BY <1>1, BusyTask
  <1>3. TaskOK(t) /\ t.pay \in Payments /\ t.phase = "mark" /\ money[t.pay] = "returned"
    BY <1>1, <1>2, BusyTask DEF TaskOK
  <1>4. /\ UNCHANGED <<money, events, disputes, gameVars, failures, purchase, flagged>>
        /\ intent' = [intent EXCEPT ![t.pay] =
                        IF intent[t.pay] = "succeeded" THEN "refunded" ELSE intent[t.pay]]
    BY <1>2 DEF MarkRefunded, gameVars
  <1>5. Grows
    BY <1>4 DEF Grows
  <1>6. \A q \in Payments : intent'[q] \in {"succeeded", "refunded"} => money'[q] \in Taken
    BY <1>0, <1>3, <1>4 DEF MoneyIsKnown, Taken
  <1>7. intent' \in [Payments -> {"none", "pending", "succeeded", "failed", "refunded"}]
    BY <1>0, <1>3, <1>4
  <1>8. money' \in [Payments -> {"unpaid", "declined", "paid", "returned"}]
    BY <1>0, <1>4
  <1>9. CASE t.kind = "chargeback"
    <2>1. GoTo(w, "flag")
      BY <1>2, <1>9 DEF MarkRefunded
    <2>2. PICK x \in Task : /\ work' = [work EXCEPT ![w] = x]
                            /\ x.pay = t.pay /\ x.kind = t.kind /\ x.phase = "flag"
      BY <1>0, <1>1, <1>2, <2>1, GoToTask DEF Phases
    <2>3. TaskOK(x)'
      BY <1>3, <1>4, <1>9, <2>2 DEF TaskOK
    <2> QED BY <1>4, <1>5, <1>6, <1>7, <1>8, <2>2, <2>3, PaymentsStep
  <1>10. CASE t.kind # "chargeback" /\ intent[t.pay] = "succeeded"
    <2>1. GoTo(w, "claw")
      BY <1>2, <1>10 DEF MarkRefunded
    <2>2. PICK x \in Task : /\ work' = [work EXCEPT ![w] = x]
                            /\ x.pay = t.pay /\ x.kind = t.kind /\ x.phase = "claw"
      BY <1>0, <1>1, <1>2, <2>1, GoToTask DEF Phases
    <2>3. t.kind = "refund"
      BY <1>2, <1>3, <1>10 DEF TaskOK, Task, Kinds
    <2>4. TaskOK(x)'
      BY <1>3, <1>4, <1>10, <2>2, <2>3 DEF TaskOK
    <2> QED BY <1>4, <1>5, <1>6, <1>7, <1>8, <2>2, <2>4, PaymentsStep
  <1>11. CASE t.kind # "chargeback" /\ intent[t.pay] # "succeeded"
    <2>1. work' = [work EXCEPT ![w] = Idle]
      BY <1>2, <1>11 DEF MarkRefunded, End
    <2> QED BY <1>4, <1>5, <1>6, <1>7, <1>8, <2>1, PaymentsStep
  <1> QED BY <1>9, <1>10, <1>11
(* An admin refund starts, reads the intent, and the provider pays back.      *)
LEMMA RefundKeeps ==
  ASSUME PInv, NEW w \in Workers,
         (\E p \in Payments : StartRefund(w, p)) \/ CheckIntent(w) \/ PspRefund(w)
  PROVE  PInv'
  <1>0. /\ intent \in [Payments -> {"none", "pending", "succeeded", "failed", "refunded"}]
        /\ money \in [Payments -> {"unpaid", "declined", "paid", "returned"}]
        /\ MoneyIsKnown /\ TypeOK
    BY DEF PInv, TypeOK
  <1>1. ASSUME NEW p \in Payments, StartRefund(w, p) PROVE PInv'
    <2>1. /\ UNCHANGED <<intent, money, events, disputes, gameVars, failures, purchase, flagged>>
          /\ purchase[p] # "none"
          /\ work' = [work EXCEPT ![w] = [pay |-> p, kind |-> "refund",
                                          phase |-> "check", take |-> 0]]
      BY <1>1 DEF StartRefund, paymentVars, gameVars, Begin
    <2>2. Grows
      BY <2>1 DEF Grows
    <2>3. PICK x \in Task :
             /\ x = [pay |-> p, kind |-> "refund", phase |-> "check", take |-> 0]
             /\ x.pay = p /\ x.kind = "refund" /\ x.phase = "check" /\ x.take = 0
      BY NewTask DEF Kinds, Phases
    <2>4. TaskOK(x)'
      BY <2>1, <2>3 DEF TaskOK
    <2>5. \A q \in Payments : intent'[q] \in {"succeeded", "refunded"} => money'[q] \in Taken
      BY <1>0, <2>1 DEF MoneyIsKnown
    <2> QED BY <1>0, <2>1, <2>2, <2>3, <2>4, <2>5, PaymentsStep
  <1>2. CASE CheckIntent(w)
    <2>1. /\ UNCHANGED <<intent, money, events, disputes, gameVars, failures, purchase, flagged>>
          /\ work[w] # Idle /\ work[w].phase = "check"
          /\ GoTo(w, "psp") \/ work' = [work EXCEPT ![w] = Idle]
      BY <1>2 DEF CheckIntent, paymentVars, gameVars, At, End
    <2>2. Grows
      BY <2>1 DEF Grows
    <2>3. \A q \in Payments : intent'[q] \in {"succeeded", "refunded"} => money'[q] \in Taken
      BY <1>0, <2>1 DEF MoneyIsKnown
    <2>4. CASE GoTo(w, "psp")
      <3>1. PICK t \in Task : t = work[w] /\ TaskOK(t) /\ t.phase = "check"
        BY <2>1, BusyTask
      <3>2. PICK x \in Task : /\ work' = [work EXCEPT ![w] = x]
                              /\ x.pay = t.pay /\ x.kind = t.kind /\ x.phase = "psp"
        BY <1>0, <2>1, <2>4, <3>1, GoToTask DEF Phases
      <3>3. TaskOK(x)'
        BY <2>1, <3>1, <3>2 DEF TaskOK
      <3> QED BY <1>0, <2>1, <2>2, <2>3, <3>2, <3>3, PaymentsStep
    <2>5. CASE work' = [work EXCEPT ![w] = Idle]
      BY <1>0, <2>1, <2>2, <2>3, <2>5, PaymentsStep
    <2> QED BY <2>1, <2>4, <2>5
  <1>3. CASE PspRefund(w)
    <2>1. /\ UNCHANGED <<intent, events, disputes, gameVars, failures, purchase, flagged>>
          /\ work[w] # Idle /\ work[w].phase = "psp" /\ GoTo(w, "mark")
      BY <1>3 DEF PspRefund, gameVars, At
    <2>2. PICK t \in Task : t = work[w] /\ TaskOK(t) /\ t.phase = "psp" /\ t.pay \in Payments
      BY <2>1, BusyTask
    <2>3. money' = [money EXCEPT ![t.pay] = "returned"]
      BY <1>3, <2>2 DEF PspRefund
    <2>4. Grows
      BY <1>0, <2>1, <2>2, <2>3 DEF Grows, Taken
    <2>5. PICK x \in Task : /\ work' = [work EXCEPT ![w] = x]
                            /\ x.pay = t.pay /\ x.kind = t.kind /\ x.phase = "mark"
      BY <1>0, <2>1, <2>2, GoToTask DEF Phases
    <2>6. money'[t.pay] = "returned"
      BY <1>0, <2>2, <2>3
    <2>7. TaskOK(x)'
      BY <2>1, <2>2, <2>5, <2>6 DEF TaskOK
    <2>8. \A q \in Payments : intent'[q] \in {"succeeded", "refunded"} => money'[q] \in Taken
      BY <1>0, <2>1, <2>4 DEF MoneyIsKnown, Grows
    <2>9. money' \in [Payments -> {"unpaid", "declined", "paid", "returned"}]
      BY <1>0, <2>3
    <2> QED BY <1>0, <2>1, <2>4, <2>5, <2>7, <2>8, <2>9, PaymentsStep
  <1> QED BY <1>1, <1>2, <1>3

LEMMA FailKeeps ==
  ASSUME PInv, NEW w \in Workers, Fail(w)
  PROVE  PInv'
  <1>1. /\ UNCHANGED <<intent, money, events, disputes, walletVars, purchase, flagged>>
        /\ work' = [work EXCEPT ![w] = Idle]
        /\ failures < MaxFailures /\ failures' = failures + 1
    BY DEF Fail, End, paymentVars, gameVars
  <1>2. Grows
    BY <1>1 DEF Grows
  <1>3. /\ WalletTypeOK' /\ BalanceMatchesLedger' /\ KeysMoveCreditsOnce'
        /\ Granted' /\ ClawbackFollowsTheMoney'
    BY <1>1, <1>2, QuietStep
  <1>4. TypeOK'
    <2>1. work' \in [Workers -> Task \cup {Idle}]
      BY <1>1 DEF PInv, TypeOK
    <2>2. failures' \in 0 .. MaxFailures
      BY <1>1, PurchaseAssumption DEF PInv, TypeOK
    <2> QED BY <1>1, <1>3, <2>1, <2>2 DEF PInv, TypeOK
  <1>5. Tasks'
    BY <1>1, <1>2, TasksStep DEF PInv
  <1>6. MoneyIsKnown' /\ AnsweredChargebackIsSettled'
    BY <1>1 DEF PInv, MoneyIsKnown, AnsweredChargebackIsSettled
  <1> QED BY <1>3, <1>4, <1>5, <1>6 DEF PInv

-----------------------------------------------------------------------------
(* The game back end                                                        *)

(* A worker of the game moves on: the intents and the money stay, and a        *)
(* chargeback is answered when it is settled.                                *)
LEMMA GameStep ==
  ASSUME PInv, NEW w \in Workers, NEW x, work' = [work EXCEPT ![w] = x],
         x \in Task \cup {Idle}, x = Idle \/ TaskOK(x)', Grows,
         UNCHANGED <<intent, money, disputes, failures>>,
         WalletTypeOK' /\ BalanceMatchesLedger' /\ KeysMoveCreditsOnce',
         Granted', ClawbackFollowsTheMoney',
         purchase' \in [Payments -> {"none", "verified", "refunded"}],
         flagged' \subseteq Payments,
         events' \subseteq events,
         \A p \in Payments :
            \/ [pay |-> p, kind |-> "chargeback"] \in events
                  => [pay |-> p, kind |-> "chargeback"] \in events'
            \/ p \in flagged' /\ purchase'[p] = "refunded"
  PROVE  PInv'
  <1>1. TypeOK'
    <2>1. work' \in [Workers -> Task \cup {Idle}]
      BY DEF PInv, TypeOK
    <2> QED BY <2>1 DEF PInv, TypeOK
  <1>2. Tasks'
    BY TasksStep DEF PInv
  <1>3. disputes \subseteq Payments
    BY PurchaseAssumption DEF PInv, TypeOK
  <1>4. MoneyIsKnown'
    BY DEF PInv, MoneyIsKnown
  <1>5. AnsweredChargebackIsSettled'
    BY <1>3, SettledStep DEF PInv
  <1> QED BY <1>1, <1>2, <1>4, <1>5 DEF PInv

(* What an answer does to the events.                                        *)
LEMMA AnswerSettles ==
  ASSUME NEW w \in Workers, Answer(w)
  PROVE  /\ work' = [work EXCEPT ![w] = Idle]
         /\ events' \subseteq events
         /\ \A p \in Payments :
               \/ work[w].kind = "chargeback" /\ p = work[w].pay
               \/ [pay |-> p, kind |-> "chargeback"] \in events
                     => [pay |-> p, kind |-> "chargeback"] \in events'
  BY DEF Answer, End

LEMMA GrantKeeps ==
  ASSUME PInv, NEW w \in Workers, GrantFromPayments(w)
  PROVE  PInv'
  <1>1. work[w] # Idle /\ work[w].phase = "grant" /\ Answer(w)
    BY DEF GrantFromPayments, At
  <1>2. PICK t \in Task, p \in Payments :
           t = work[w] /\ TaskOK(t) /\ t.phase = "grant" /\ p = t.pay
    BY <1>1, BusyTask
  <1>3. money[p] \in Taken /\ t.kind = "success"
    BY <1>2 DEF TaskOK
  <1>4. PICK u \in Users, n \in Nat \ {0}, key \in Keys :
           u = Buyer[p] /\ n = Credits[p] /\ key = GrantKey[p]
    BY PurchaseAssumption
  <1>5. /\ UNCHANGED <<intent, money, disputes, flagged, failures>>
        /\ purchase' = [purchase EXCEPT ![p] =
                          IF purchase[p] = "none" THEN "verified" ELSE purchase[p]]
        /\ ApplyOnTx(u, n, "purchase", key)
    BY <1>2, <1>4 DEF GrantFromPayments
  <1>6. /\ purchase \in [Payments -> {"none", "verified", "refunded"}]
        /\ WalletInv /\ WalletTypeOK /\ Granted
        /\ balance \in [Users -> Nat] /\ n \in Int
    BY DEF PInv, TypeOK, WalletInv, WalletTypeOK
  <1>7. Grows
    BY <1>5, <1>6 DEF Grows
  <1>8. "purchase" \in Reasons
    BY DEF Reasons
  <1>9. WalletInv'
    BY <1>5, <1>6, <1>8, ApplyKeepsWallet
  <1>10. \A v \in Users : RowsOf(v) \subseteq RowsOf(v)'
    BY <1>5, <1>6, <1>8, ApplyOnlyAdds
  <1>11. \A v \in Users : \A row \in RowsOf(v)' : row \in RowsOf(v) \/ row.key = key
    BY <1>5, <1>6, <1>8, ApplyAddsOne
  <1>12. key \in PurchaseKeys /\ key \notin ClawbackKeys
    BY <1>4, PurchaseAssumption DEF PurchaseKeys, ClawbackKeys
  <1>13. Granted'
    <2>1. CASE purchase[p] = "none"
      <3>1. ~KeyUsed(key)
        BY <1>4, <1>6, <2>1 DEF Granted
      <3>2. ~(balance[u] + n < 0)
        BY <1>6
      <3>3. Outcome(u, n, "purchase", key) = "applied"
        BY <3>1, <3>2 DEF Outcome
      <3>4. SameMovement(u, n, "purchase", key)'
        BY <1>5, <1>6, <1>8, <3>3, ApplyAddsOne
      <3> SUFFICES ASSUME NEW q \in Payments
                   PROVE  IF purchase'[q] = "none" THEN ~KeyUsed(GrantKey[q])'
                          ELSE /\ money'[q] \in Taken
                               /\ SameMovement(Buyer[q], Credits[q], "purchase", GrantKey[q])'
        BY DEF Granted
      <3>5. CASE q = p
        BY <1>3, <1>4, <1>5, <1>6, <2>1, <3>4, <3>5
      <3>6. CASE q # p
        <4>1. purchase'[q] = purchase[q] /\ GrantKey[q] # key
          BY <1>4, <1>5, <1>6, <3>6, PurchaseAssumption
        <4>2. CASE purchase[q] = "none"
          <5>1. ~KeyUsed(GrantKey[q])
            BY <1>6, <4>2 DEF Granted
          <5>2. ~KeyUsed(GrantKey[q])'
            BY <1>11, <4>1, <5>1 DEF KeyUsed
          <5> QED BY <4>1, <4>2, <5>2
        <4>3. CASE purchase[q] # "none"
          <5>1. /\ money[q] \in Taken /\ Buyer[q] \in Users
                /\ SameMovement(Buyer[q], Credits[q], "purchase", GrantKey[q])
            BY <1>6, <4>3, PurchaseAssumption DEF Granted
          <5>2. SameMovement(Buyer[q], Credits[q], "purchase", GrantKey[q])'
            BY <1>10, <5>1 DEF SameMovement
          <5> QED BY <1>5, <4>1, <4>3, <5>1, <5>2
        <4> QED BY <4>2, <4>3
      <3> QED BY <3>5, <3>6
    <2>2. CASE purchase[p] # "none"
      <3>1. SameMovement(u, n, "purchase", key)
        BY <1>4, <1>6, <2>2 DEF Granted
      <3>2. KeyUsed(key)
        BY <3>1 DEF SameMovement, KeyUsed
      <3>3. Outcome(u, n, "purchase", key) # "applied"
        BY <3>1, <3>2 DEF Outcome
      <3>4. UNCHANGED <<walletVars, purchase>>
        BY <1>5, <1>6, <2>2, <3>3 DEF ApplyOnTx
      <3> QED BY <1>7, <3>4, QuietStep
    <2> QED BY <2>1, <2>2
  <1>14. ClawbackFollowsTheMoney'
    <2>1. \A q \in Payments : purchase'[q] = "refunded" => money'[q] = "returned"
      BY <1>5, <1>6 DEF PInv, ClawbackFollowsTheMoney
    <2> QED BY <1>7, <1>11, <1>12, <2>1, ClawbackStays DEF PInv
  <1>15. /\ work' = [work EXCEPT ![w] = Idle] /\ events' \subseteq events
         /\ \A q \in Payments : [pay |-> q, kind |-> "chargeback"] \in events
               => [pay |-> q, kind |-> "chargeback"] \in events'
    BY <1>1, <1>2, <1>3, AnswerSettles
  <1>16. flagged' \subseteq Payments
    BY <1>5 DEF PInv, TypeOK
  <1>17. purchase' \in [Payments -> {"none", "verified", "refunded"}]
    BY <1>5, <1>6
  <1>18. WalletTypeOK' /\ BalanceMatchesLedger' /\ KeysMoveCreditsOnce'
    BY <1>9 DEF WalletInv
  <1> QED BY <1>5, <1>7, <1>13, <1>14, <1>15, <1>16, <1>17, <1>18, GameStep
LEMMA FlagKeeps ==
  ASSUME PInv, NEW w \in Workers, FlagChargeback(w)
  PROVE  PInv'
  <1>1. work[w] # Idle /\ work[w].phase = "flag"
    BY DEF FlagChargeback, At
  <1>2. PICK t \in Task, p \in Payments :
           t = work[w] /\ TaskOK(t) /\ t.phase = "flag" /\ p = t.pay
    BY <1>1, BusyTask
  <1>3. money[p] = "returned" /\ p \in disputes /\ t.kind = "chargeback"
    BY <1>2 DEF TaskOK
  <1>4. /\ UNCHANGED <<walletVars, intent, money, disputes, purchase, failures>>
        /\ flagged \subseteq flagged' /\ flagged' \subseteq flagged \cup {p}
    BY <1>2 DEF FlagChargeback
  <1>5. Grows
    BY <1>4 DEF Grows
  <1>6. /\ WalletTypeOK' /\ BalanceMatchesLedger' /\ KeysMoveCreditsOnce'
        /\ Granted' /\ ClawbackFollowsTheMoney'
    BY <1>4, <1>5, QuietStep
  <1>7. /\ purchase' \in [Payments -> {"none", "verified", "refunded"}]
        /\ flagged' \subseteq Payments /\ TypeOK
    BY <1>4 DEF PInv, TypeOK
  <1>8. CASE purchase[p] = "none"
    <2>1. work' = [work EXCEPT ![w] = Idle] /\ events' = events
      BY <1>2, <1>8 DEF FlagChargeback, End
    <2> QED BY <1>4, <1>5, <1>6, <1>7, <2>1, GameStep
  <1>9. CASE purchase[p] = "refunded"
    <2>1. Answer(w) /\ p \in flagged'
      BY <1>2, <1>9 DEF FlagChargeback
    <2>2. /\ work' = [work EXCEPT ![w] = Idle] /\ events' \subseteq events
          /\ \A q \in Payments :
               \/ q = p
               \/ [pay |-> q, kind |-> "chargeback"] \in events
                     => [pay |-> q, kind |-> "chargeback"] \in events'
      BY <1>2, <2>1, AnswerSettles
    <2>3. purchase'[p] = "refunded"
      BY <1>4, <1>9
    <2> QED BY <1>4, <1>5, <1>6, <1>7, <2>1, <2>2, <2>3, GameStep
  <1>10. CASE purchase[p] \notin {"none", "refunded"}
    <2>1. GoTo(w, "claw") /\ events' = events /\ p \in flagged'
      BY <1>2, <1>10 DEF FlagChargeback
    <2>2. PICK x \in Task : /\ work' = [work EXCEPT ![w] = x]
                            /\ x.pay = p /\ x.kind = t.kind /\ x.phase = "claw"
      BY <1>1, <1>2, <1>7, <2>1, GoToTask DEF Phases
    <2>3. TaskOK(x)'
      BY <1>3, <1>4, <1>10, <2>1, <2>2 DEF TaskOK
    <2> QED BY <1>4, <1>5, <1>6, <1>7, <2>1, <2>2, <2>3, GameStep
  <1> QED BY <1>8, <1>9, <1>10

LEMMA ReadClawbackKeeps ==
  ASSUME PInv, NEW w \in Workers, ReadClawback(w)
  PROVE  PInv'
  <1>1. work[w] # Idle /\ work[w].phase = "claw"
    BY DEF ReadClawback, At
  <1>2. PICK t \in Task, p \in Payments :
           t = work[w] /\ TaskOK(t) /\ t.phase = "claw" /\ p = t.pay
    BY <1>1, BusyTask
  <1>3. /\ money[p] = "returned" /\ purchase[p] # "none"
        /\ t.kind = "chargeback" => p \in disputes /\ p \in flagged
        /\ t.kind \notin {"success", "failure"}
    BY <1>2 DEF TaskOK
  <1>4. UNCHANGED <<walletVars, purchase, flagged, intent, money, disputes, failures>>
    BY DEF ReadClawback, gameVars
  <1>5. Grows
    BY <1>4 DEF Grows
  <1>6. /\ WalletTypeOK' /\ BalanceMatchesLedger' /\ KeysMoveCreditsOnce'
        /\ Granted' /\ ClawbackFollowsTheMoney'
    BY <1>4, <1>5, QuietStep
  <1>7. /\ purchase' \in [Payments -> {"none", "verified", "refunded"}]
        /\ flagged' \subseteq Payments /\ TypeOK
    BY <1>4 DEF PInv, TypeOK
  <1>8. CASE purchase[p] = "refunded"
    <2>1. Answer(w)
      BY <1>2, <1>8 DEF ReadClawback
    <2>2. /\ work' = [work EXCEPT ![w] = Idle] /\ events' \subseteq events
          /\ \A q \in Payments :
               \/ q = p /\ t.kind = "chargeback"
               \/ [pay |-> q, kind |-> "chargeback"] \in events
                     => [pay |-> q, kind |-> "chargeback"] \in events'
      BY <1>2, <2>1, AnswerSettles
    <2>3. purchase'[p] = "refunded" /\ flagged' = flagged
      BY <1>4, <1>8
    <2> QED BY <1>3, <1>4, <1>5, <1>6, <1>7, <2>2, <2>3, GameStep
  <1>9. CASE purchase[p] # "refunded"
    <2>1. PICK n \in Nat :
             /\ n = IF balance[Buyer[p]] < Credits[p] THEN balance[Buyer[p]] ELSE Credits[p]
             /\ n <= Credits[p]
      <3>1. balance[Buyer[p]] \in Nat /\ Credits[p] \in Nat
        BY <1>7, PurchaseAssumption DEF TypeOK, WalletTypeOK
      <3> QED BY <3>1
    <2>2. events' = events /\ work' = [work EXCEPT ![w].phase = "clawing", ![w].take = n]
      BY <1>2, <1>9, <2>1 DEF ReadClawback
    <2> DEFINE new == [t EXCEPT !.phase = "clawing", !.take = n]
    <2>3. PICK x \in Task : /\ x = new /\ x.pay = p /\ x.kind = t.kind
                            /\ x.phase = "clawing" /\ x.take = n
      <3>1. /\ new \in Task /\ new.pay = t.pay /\ new.kind = t.kind
            /\ new.phase = "clawing" /\ new.take = n
        BY DEF Task, Phases
      <3> QED BY <1>2, <3>1
    <2>4. work' = [work EXCEPT ![w] = x]
      BY <1>2, <1>7, <2>2, <2>3 DEF TypeOK
    <2>5. TaskOK(x)'
      BY <1>3, <1>4, <2>1, <2>3 DEF TaskOK
    <2> QED BY <1>4, <1>5, <1>6, <1>7, <2>2, <2>3, <2>4, <2>5, GameStep
  <1> QED BY <1>8, <1>9

(* The debit of a clawback: at most what the purchase granted, and nothing of *)
(* any other purchase.                                                       *)
LEMMA ClawbackDebits ==
  ASSUME PInv, NEW p \in Payments, NEW n \in Nat \ {0}, n <= Credits[p], Grows,
         money'[p] = "returned", purchase' = [purchase EXCEPT ![p] = "refunded"],
         purchase[p] # "none",
         UNCHANGED money,
         ApplyOnTx(Buyer[p], -n, "refund", RefundKey[p])
  PROVE  /\ WalletTypeOK' /\ BalanceMatchesLedger' /\ KeysMoveCreditsOnce'
         /\ Granted' /\ ClawbackFollowsTheMoney'
  <1>1. PICK u \in Users, key \in Keys, delta \in Int :
           u = Buyer[p] /\ key = RefundKey[p] /\ delta = -n
    BY PurchaseAssumption
  <1>2. /\ purchase \in [Payments -> {"none", "verified", "refunded"}]
        /\ WalletInv /\ WalletTypeOK /\ Granted /\ ClawbackFollowsTheMoney
        /\ "refund" \in Reasons
    BY DEF PInv, TypeOK, WalletInv, Reasons
  <1>3. ApplyOnTx(u, delta, "refund", key)
    BY <1>1
  <1>4. WalletInv'
    BY <1>2, <1>3, ApplyKeepsWallet
  <1>5. \A v \in Users : RowsOf(v) \subseteq RowsOf(v)'
    BY <1>2, <1>3, ApplyOnlyAdds
  <1>6. \A v \in Users : \A row \in RowsOf(v)' :
           row \in RowsOf(v) \/ (row.key = key /\ row.delta = delta)
    BY <1>2, <1>3, ApplyAddsOne
  <1>7. key \notin PurchaseKeys
    BY <1>1, PurchaseAssumption DEF PurchaseKeys, ClawbackKeys
  <1>8. Granted'
    <2>1. \A q \in Payments : purchase[q] = "none" => purchase'[q] = "none"
      BY <1>2
    <2> QED BY <1>2, <1>5, <1>6, <1>7, <2>1, GrantedStep
  <1>9. ClawbackFollowsTheMoney'
    <2> SUFFICES ASSUME NEW q \in Payments
                 PROVE  /\ purchase'[q] = "refunded" => money'[q] = "returned"
                        /\ \A row \in RowsOf(Buyer[q])' : row.key = RefundKey[q] =>
                              purchase'[q] = "refunded" /\ -row.delta \in 1 .. Credits[q]
      BY DEF ClawbackFollowsTheMoney
    <2>1. /\ purchase[q] = "refunded" => money[q] = "returned"
          /\ \A row \in RowsOf(Buyer[q]) : row.key = RefundKey[q] =>
                purchase[q] = "refunded" /\ -row.delta \in 1 .. Credits[q]
      BY <1>2 DEF ClawbackFollowsTheMoney
    <2>2. Buyer[q] \in Users /\ Credits[p] \in Nat
      BY PurchaseAssumption
    <2>3. purchase'[q] = "refunded" => money'[q] = "returned"
      BY <1>2, <2>1
    <2>4. ASSUME NEW row \in RowsOf(Buyer[q])', row.key = RefundKey[q]
          PROVE  purchase'[q] = "refunded" /\ -row.delta \in 1 .. Credits[q]
      <3>1. CASE row \in RowsOf(Buyer[q])
        BY <1>2, <2>1, <2>4, <3>1
      <3>2. CASE row \notin RowsOf(Buyer[q])
        <4>1. row.key = key /\ row.delta = delta
          BY <1>6, <2>2, <3>2
        <4>2. q = p
          BY <1>1, <2>4, <4>1, PurchaseAssumption
        <4>3. -row.delta \in 1 .. Credits[p]
          BY <1>1, <2>2, <4>1
        <4> QED BY <1>2, <4>2, <4>3
      <3> QED BY <3>1, <3>2
    <2> QED BY <2>3, <2>4
  <1> QED BY <1>4, <1>8, <1>9 DEF WalletInv

LEMMA CommitClawbackKeeps ==
  ASSUME PInv, NEW w \in Workers, CommitClawback(w)
  PROVE  PInv'
  <1>1. work[w] # Idle /\ work[w].phase = "clawing"
    BY DEF CommitClawback, At
  <1>2. PICK t \in Task, p \in Payments, n \in Nat :
           t = work[w] /\ TaskOK(t) /\ t.phase = "clawing" /\ p = t.pay /\ n = t.take
    BY <1>1, BusyTask
  <1>3. /\ money[p] = "returned" /\ purchase[p] # "none" /\ n <= Credits[p]
        /\ t.kind = "chargeback" => p \in disputes /\ p \in flagged
    BY <1>2 DEF TaskOK
  <1>4. UNCHANGED <<intent, money, disputes, flagged, failures>>
    BY DEF CommitClawback
  <1>5. TypeOK /\ purchase \in [Payments -> {"none", "verified", "refunded"}]
    BY DEF PInv, TypeOK
  <1>6. flagged' \subseteq Payments
    BY <1>4, <1>5 DEF TypeOK
  <1>7. CASE End(w) /\ UNCHANGED <<walletVars, purchase, events>>
    <2>1. Grows
      BY <1>4, <1>7 DEF Grows
    <2>2. /\ WalletTypeOK' /\ BalanceMatchesLedger' /\ KeysMoveCreditsOnce'
          /\ Granted' /\ ClawbackFollowsTheMoney'
      BY <1>7, <2>1, QuietStep
    <2>3. work' = [work EXCEPT ![w] = Idle]
      BY <1>7 DEF End
    <2> QED BY <1>4, <1>5, <1>6, <1>7, <2>1, <2>2, <2>3, GameStep
  <1>8. CASE /\ IF n > 0 THEN ApplyOnTx(Buyer[p], -n, "refund", RefundKey[p])
                ELSE UNCHANGED walletVars
             /\ purchase' = [purchase EXCEPT ![p] = "refunded"]
             /\ Answer(w)
    <2>1. Grows
      BY <1>4, <1>5, <1>8 DEF Grows
    <2>2. money'[p] = "returned" /\ purchase'[p] = "refunded"
      BY <1>3, <1>4, <1>5, <1>8
    <2>3. /\ WalletTypeOK' /\ BalanceMatchesLedger' /\ KeysMoveCreditsOnce'
          /\ Granted' /\ ClawbackFollowsTheMoney'
      <3>1. CASE n > 0
        <4>1. n \in Nat \ {0} /\ ApplyOnTx(Buyer[p], -n, "refund", RefundKey[p])
          BY <1>8, <3>1
        <4> QED BY <1>3, <1>4, <1>8, <2>1, <2>2, <4>1, ClawbackDebits
      <3>2. CASE ~(n > 0)
        <4>1. UNCHANGED walletVars
          BY <1>8, <3>2
        <4>2. /\ WalletTypeOK' /\ BalanceMatchesLedger' /\ KeysMoveCreditsOnce'
              /\ \A v \in Users : RowsOf(v)' = RowsOf(v)
          BY <1>5, <4>1, QuietWallet DEF PInv, TypeOK
        <4>3. \A q \in Payments : purchase[q] = "none" => purchase'[q] = "none"
          BY <1>3, <1>5, <1>8
        <4>4. Granted'
          BY <2>1, <4>2, <4>3, GrantedStep DEF PInv
        <4>5. \A q \in Payments : purchase'[q] = "refunded" => money'[q] = "returned"
          BY <1>4, <1>5, <1>8, <2>2 DEF PInv, ClawbackFollowsTheMoney
        <4>6. ClawbackFollowsTheMoney'
          BY <2>1, <4>2, <4>5, ClawbackStays DEF PInv
        <4> QED BY <4>2, <4>4, <4>6
      <3> QED BY <3>1, <3>2
    <2>4. /\ work' = [work EXCEPT ![w] = Idle] /\ events' \subseteq events
          /\ \A q \in Payments :
               \/ q = p /\ t.kind = "chargeback"
               \/ [pay |-> q, kind |-> "chargeback"] \in events
                     => [pay |-> q, kind |-> "chargeback"] \in events'
      BY <1>2, <1>8, AnswerSettles
    <2>5. purchase' \in [Payments -> {"none", "verified", "refunded"}]
      BY <1>5, <1>8
    <2> QED BY <1>3, <1>4, <1>6, <2>1, <2>2, <2>3, <2>4, <2>5, GameStep
  <1> QED BY <1>2, <1>7, <1>8 DEF CommitClawback
-----------------------------------------------------------------------------
(* The theorems                                                             *)

LEMMA PInvInit == Init => PInv
  <1> SUFFICES ASSUME Init PROVE PInv
    OBVIOUS
  <1>1. WalletInv
    BY WalletInitInv DEF Init
  <1>2. TypeOK
    BY <1>1, PurchaseAssumption DEF Init, TypeOK, WalletInv
  <1>3. \A u \in Users : RowsOf(u) = {}
    <2> SUFFICES ASSUME NEW u \in Users PROVE RowsOf(u) = {}
      OBVIOUS
    <2>1. ledger[u] = <<>>
      BY DEF Init, WalletInit
    <2>2. DOMAIN ledger[u] = {}
      BY <2>1
    <2> QED BY <2>2 DEF RowsOf
  <1>4. MoneyIsKnown /\ AnsweredChargebackIsSettled
    BY DEF Init, MoneyIsKnown, AnsweredChargebackIsSettled
  <1>5. Tasks
    BY DEF Init, Tasks
  <1>6. Granted
    BY <1>3 DEF Init, Granted, KeyUsed
  <1>7. ClawbackFollowsTheMoney
    BY <1>3, PurchaseAssumption DEF Init, ClawbackFollowsTheMoney
  <1> QED BY <1>1, <1>2, <1>4, <1>5, <1>6, <1>7 DEF PInv, WalletInv

LEMMA PInvStep == PInv /\ [Next]_vars => PInv'
  <1> SUFFICES ASSUME PInv, [Next]_vars PROVE PInv'
    OBVIOUS
  <1>1. ASSUME NEW p \in Payments, StartCheckout(p) \/ Pay(p) \/ Decline(p) \/ Dispute(p)
        PROVE  PInv'
    BY <1>1, StartCheckoutKeeps, PayKeeps
  <1>2. ASSUME NEW u \in Users, NEW n \in SpendAmounts, NEW key \in SpendKeys, Spend(u, n, key)
        PROVE  PInv'
    BY <1>2, SpendKeeps
  <1>3. ASSUME NEW p \in Payments, NEW kind \in Kinds, Deliver(p, kind)
        PROVE  PInv'
    <2>1. PICK w \in Workers :
             DeliverSuccess(w, p) \/ DeliverFailure(w, p) \/ DeliverChargeback(w, p)
      BY <1>3 DEF Deliver, Workers
    <2> QED BY <2>1, DeliverKeeps
  <1>4. ASSUME NEW w \in Jobs, NEW p \in Payments, StartRefund(w, p)
        PROVE  PInv'
    <2>1. w \in Workers
      BY DEF Workers
    <2> QED BY <1>4, <2>1, RefundKeeps
  <1>5. ASSUME NEW w \in Workers, Work(w)
        PROVE  PInv'
    <2>1. CASE CheckIntent(w) \/ PspRefund(w)
      BY <2>1, RefundKeeps
    <2> QED BY <1>5, <2>1, MarkRefundedKeeps, GrantKeeps, FlagKeeps, ReadClawbackKeeps,
               CommitClawbackKeeps DEF Work
  <1>6. ASSUME NEW w \in Workers, Fail(w)
        PROVE  PInv'
    BY <1>6, FailKeeps
  <1>7. CASE UNCHANGED vars
    <2>1. UNCHANGED <<walletVars, intent, money, events, disputes, purchase, flagged,
                      work, failures>>
      BY <1>7 DEF vars
    <2>2. Grows
      BY <2>1 DEF Grows
    <2>3. /\ WalletTypeOK' /\ BalanceMatchesLedger' /\ KeysMoveCreditsOnce'
          /\ Granted' /\ ClawbackFollowsTheMoney'
      BY <2>1, <2>2, QuietStep
    <2>4. Tasks'
      BY <2>1, <2>2, TasksStay DEF PInv
    <2>5. TypeOK' /\ MoneyIsKnown' /\ AnsweredChargebackIsSettled'
      BY <2>1, <2>3 DEF PInv, TypeOK, MoneyIsKnown, AnsweredChargebackIsSettled
    <2> QED BY <2>3, <2>4, <2>5 DEF PInv
  <1> QED BY <1>1, <1>2, <1>3, <1>4, <1>5, <1>6, <1>7 DEF Next

THEOREM PurchasesHold == Spec => []PInv
  BY PInvInit, PInvStep, PTL DEF Spec

(* Every variable keeps the type of its column, message or counter; in        *)
(* particular no balance goes below zero and no early stop is counted beyond   *)
(* the bound.                                                                *)
THEOREM PurchaseTypes == Spec => []TypeOK
  BY PurchasesHold, PTL DEF PInv

(* The wallet two services write to stays the sum of its ledger, and no key    *)
(* moves credits twice (credits/wallet.go:143, the unique idempotency_key).   *)
THEOREM PurchaseWallet == Spec => [](BalanceMatchesLedger /\ KeysMoveCreditsOnce)
  BY PurchasesHold, PTL DEF PInv

(* The index of a row in a ledger is the only one with its key.              *)
LEMMA OneRow ==
  ASSUME KeysMoveCreditsOnce, NEW u \in Users, NEW key, NEW i \in DOMAIN ledger[u],
         ledger[u][i].key = key
  PROVE  /\ {v \in Users : \E row \in RowsOf(v) : row.key = key} = {u}
         /\ Cardinality({j \in DOMAIN ledger[u] : ledger[u][j].key = key}) = 1
  <1>1. {j \in DOMAIN ledger[u] : ledger[u][j].key = key} = {i}
    BY DEF KeysMoveCreditsOnce
  <1>2. Cardinality({i}) = 1
    BY FS_Singleton
  <1>3. {v \in Users : \E row \in RowsOf(v) : row.key = key} = {u}
    BY DEF KeysMoveCreditsOnce, RowsOf
  <1> QED BY <1>1, <1>2, <1>3

(* A payment's credits are in the ledger exactly once when it has a           *)
(* web_purchases row, for its buyer and its amount, and only for money that    *)
(* was paid, whatever the PSP repeats or reorders and wherever a handler       *)
(* stops (monetization/grant.go, GrantFromPayments).                          *)
THEOREM GrantedOnce == Spec => []PurchasesAreGrantedOnce
  <1>1. PInv => PurchasesAreGrantedOnce
    <2> SUFFICES ASSUME PInv, NEW p \in Payments
                 PROVE  LET rows == {u \in Users : \E row \in RowsOf(u) : row.key = GrantKey[p]}
                        IN IF purchase[p] = "none" THEN rows = {}
                           ELSE /\ money[p] \in {"paid", "returned"}
                                /\ rows = {Buyer[p]}
                                /\ SameMovement(Buyer[p], Credits[p], "purchase", GrantKey[p])
                                /\ Cardinality({i \in DOMAIN ledger[Buyer[p]] :
                                       ledger[Buyer[p]][i].key = GrantKey[p]}) = 1
      BY DEF PurchasesAreGrantedOnce
    <2>1. CASE purchase[p] = "none"
      BY <2>1 DEF PInv, Granted, KeyUsed
    <2>2. CASE purchase[p] # "none"
      <3>1. /\ money[p] \in {"paid", "returned"} /\ Buyer[p] \in Users
            /\ SameMovement(Buyer[p], Credits[p], "purchase", GrantKey[p])
        BY <2>2, PurchaseAssumption DEF PInv, Granted, Taken
      <3>2. PICK i \in DOMAIN ledger[Buyer[p]] : ledger[Buyer[p]][i].key = GrantKey[p]
        BY <3>1 DEF SameMovement, RowsOf
      <3>3. /\ {v \in Users : \E row \in RowsOf(v) : row.key = GrantKey[p]} = {Buyer[p]}
            /\ Cardinality({j \in DOMAIN ledger[Buyer[p]] :
                   ledger[Buyer[p]][j].key = GrantKey[p]}) = 1
        BY <3>1, <3>2, OneRow DEF PInv
      <3> QED BY <2>2, <3>1, <3>3
    <2> QED BY <2>1, <2>2
  <1> QED BY <1>1, PurchasesHold, PTL

(* A refunded purchase is one whose money went back, and the clawback takes    *)
(* at most what the purchase granted, with an admin refund and a chargeback of *)
(* one payment running together (monetization/refunds.go, applyCreditClawback). *)
THEOREM ClawbackCorrect == Spec => []ClawbackFollowsTheMoney
  BY PurchasesHold, PTL DEF PInv

(* Once the PSP has its 2xx for a chargeback, the account is in the           *)
(* moderation queue and the purchase is refunded (HandleChargeback).          *)
THEOREM ChargebacksSettled == Spec => []AnsweredChargebackIsSettled
  BY PurchasesHold, PTL DEF PInv
-----------------------------------------------------------------------------
(* The sale                                                                  *)

(* One worker at a time is between the two halves of a clawback of a payment, *)
(* its purchase is still verified, and a refund key in the ledger is that of  *)
(* a refunded purchase: what makes a clawback happen once.                    *)
ClawInv ==
    /\ \A v, w \in Workers :
          /\ At(v, "clawing") /\ At(w, "clawing")
          /\ work[v].pay = work[w].pay
          => v = w
    /\ \A w \in Workers : At(w, "clawing") => purchase[work[w].pay] = "verified"
    /\ \A p \in Payments : KeyUsed(RefundKey[p]) => purchase[p] = "refunded"

(* No worker but a clawback's comes to the second half.                      *)
LEMMA NoneBegins ==
  ASSUME TypeOK, NEW w \in Workers,
         \/ UNCHANGED work
         \/ End(w)
         \/ \E phase \in Phases \ {"clawing"} :
               \/ GoTo(w, phase) /\ work[w] # Idle
               \/ \E p \in Payments, kind \in Kinds \cup {"refund"} : Begin(w, p, kind, phase)
  PROVE  \A v \in Workers : At(v, "clawing")' => At(v, "clawing") /\ work'[v] = work[v]
  <1>1. work \in [Workers -> Task \cup {Idle}]
    BY DEF TypeOK
  <1>2. CASE UNCHANGED work
    BY <1>2 DEF At
  <1>3. ASSUME NEW x, work' = [work EXCEPT ![w] = x], x = Idle \/ x.phase # "clawing"
        PROVE  \A v \in Workers : At(v, "clawing")' => At(v, "clawing") /\ work'[v] = work[v]
    <2> SUFFICES ASSUME NEW v \in Workers, work'[v] # Idle, work'[v].phase = "clawing"
                 PROVE  At(v, "clawing") /\ work'[v] = work[v]
      BY DEF At
    <2>1. v # w
      BY <1>1, <1>3
    <2>2. work'[v] = work[v]
      BY <1>1, <1>3, <2>1
    <2> QED BY <2>2 DEF At
  <1>4. CASE End(w)
    BY <1>3, <1>4 DEF End
  <1>5. ASSUME NEW phase \in Phases \ {"clawing"}, GoTo(w, phase), work[w] # Idle
        PROVE  \A v \in Workers : At(v, "clawing")' => At(v, "clawing") /\ work'[v] = work[v]
    <2>1. PICK x \in Task : work' = [work EXCEPT ![w] = x] /\ x.phase = phase
      BY <1>5, GoToTask
    <2> QED BY <1>3, <1>5, <2>1
  <1>6. ASSUME NEW phase \in Phases \ {"clawing"}, NEW p \in Payments,
               NEW kind \in Kinds \cup {"refund"}, Begin(w, p, kind, phase)
        PROVE  \A v \in Workers : At(v, "clawing")' => At(v, "clawing") /\ work'[v] = work[v]
    <2>1. PICK x \in Task :
             /\ x = [pay |-> p, kind |-> kind, phase |-> phase, take |-> 0]
             /\ x.phase = phase
      BY <1>6, NewTask
    <2>2. work' = [work EXCEPT ![w] = x]
      BY <1>6, <2>1 DEF Begin
    <2> QED BY <1>3, <1>6, <2>1, <2>2
  <1> QED BY <1>2, <1>4, <1>5, <1>6

(* A step that adds no refund key, moves no purchase on from verified and     *)
(* brings no worker to the second half.                                      *)
LEMMA ClawStays ==
  ASSUME ClawInv,
         \A v \in Workers : At(v, "clawing")' => At(v, "clawing") /\ work'[v] = work[v],
         \A w \in Workers : At(w, "clawing") => work[w].pay \in Payments,
         \A p \in Payments : purchase[p] # "none" => purchase'[p] = purchase[p],
         \A v \in Users : \A row \in RowsOf(v)' : row.key \in ClawbackKeys => row \in RowsOf(v)
  PROVE  ClawInv'
  <1>1. ASSUME NEW v \in Workers, NEW w \in Workers, At(v, "clawing")', At(w, "clawing")',
               work'[v].pay = work'[w].pay
        PROVE  v = w
    BY <1>1 DEF ClawInv
  <1>2. ASSUME NEW w \in Workers, At(w, "clawing")'
        PROVE  purchase'[work'[w].pay] = "verified"
    BY <1>2 DEF ClawInv
  <1>3. ASSUME NEW p \in Payments, KeyUsed(RefundKey[p])'
        PROVE  purchase'[p] = "refunded"
    <2>1. RefundKey[p] \in ClawbackKeys
      BY DEF ClawbackKeys
    <2>2. PICK v \in Users : \E row \in RowsOf(v)' : row.key = RefundKey[p]
      BY <1>3 DEF KeyUsed
    <2>3. KeyUsed(RefundKey[p])
      BY <2>1, <2>2 DEF KeyUsed
    <2> QED BY <2>3 DEF ClawInv
  <1> QED BY <1>1, <1>2, <1>3 DEF ClawInv

(* The steps of the services that move neither credits nor purchases.        *)
Services ==
    \/ \E p \in Payments : StartCheckout(p) \/ Pay(p) \/ Decline(p) \/ Dispute(p)
    \/ \E p \in Payments, kind \in Kinds : Deliver(p, kind)
    \/ \E w \in Jobs, p \in Payments : StartRefund(w, p)
    \/ \E w \in Workers :
          MarkRefunded(w) \/ FlagChargeback(w) \/ CheckIntent(w) \/ PspRefund(w) \/ Fail(w)

LEMMA ServicesMoveNoCredits ==
  ASSUME PInv, Services
  PROVE  /\ UNCHANGED <<walletVars, purchase>>
         /\ \A v \in Workers : At(v, "clawing")' => At(v, "clawing") /\ work'[v] = work[v]
  <1> DEFINE Stays == \A v \in Workers :
                         At(v, "clawing")' => At(v, "clawing") /\ work'[v] = work[v]
  <1>0. TypeOK /\ work \in [Workers -> Task \cup {Idle}]
    BY DEF PInv, TypeOK
  <1>1. UNCHANGED work => Stays
    BY DEF At
  <1>2. ASSUME NEW w \in Workers, End(w) PROVE Stays
    BY <1>0, <1>2, NoneBegins
  <1>3. ASSUME NEW w \in Workers, NEW phase \in Phases \ {"clawing"}, GoTo(w, phase),
               work[w] # Idle
        PROVE  Stays
    BY <1>0, <1>3, NoneBegins
  <1>4. ASSUME NEW w \in Workers, NEW p \in Payments, NEW kind \in Kinds \cup {"refund"},
               NEW phase \in Phases \ {"clawing"}, Begin(w, p, kind, phase)
        PROVE  Stays
    BY <1>0, <1>4, NoneBegins
  <1>5. {"grant", "mark", "flag", "check", "psp", "claw"} = Phases \ {"clawing"}
    BY DEF Phases
  <1>6. \A w \in Workers : Answer(w) => End(w)
    BY DEF Answer
  <1> HIDE DEF Stays
  <1>7. ASSUME NEW p \in Payments, StartCheckout(p) \/ Pay(p) \/ Decline(p) \/ Dispute(p)
        PROVE  UNCHANGED <<walletVars, purchase>> /\ Stays
    BY <1>1, <1>7 DEF StartCheckout, Pay, Decline, Dispute, gameVars, workVars
  <1>8. ASSUME NEW p \in Payments, NEW kind \in Kinds, Deliver(p, kind)
        PROVE  UNCHANGED <<walletVars, purchase>> /\ Stays
    <2>1. PICK w \in Workers :
             DeliverSuccess(w, p) \/ DeliverFailure(w, p) \/ DeliverChargeback(w, p)
      BY <1>8 DEF Deliver, Workers
    <2>2. CASE DeliverSuccess(w, p)
      BY <1>1, <1>4, <1>5, <2>2 DEF DeliverSuccess, gameVars, Kinds
    <2>3. CASE DeliverFailure(w, p)
      BY <1>1, <2>3 DEF DeliverFailure, gameVars, workVars
    <2>4. CASE DeliverChargeback(w, p)
      <3>1. PICK phase \in {"mark", "flag"} : Begin(w, p, "chargeback", phase)
        BY <2>4 DEF DeliverChargeback
      <3> QED BY <1>4, <1>5, <2>4, <3>1 DEF DeliverChargeback, gameVars, Kinds
    <2> QED BY <2>1, <2>2, <2>3, <2>4
  <1>9. ASSUME NEW w \in Jobs, NEW p \in Payments, StartRefund(w, p)
        PROVE  UNCHANGED <<walletVars, purchase>> /\ Stays
    <2>1. w \in Workers
      BY DEF Workers
    <2> QED BY <1>4, <1>5, <1>9, <2>1 DEF StartRefund, gameVars
  <1>10. ASSUME NEW w \in Workers,
                MarkRefunded(w) \/ FlagChargeback(w) \/ CheckIntent(w) \/ PspRefund(w) \/ Fail(w)
         PROVE  UNCHANGED <<walletVars, purchase>> /\ Stays
    <2>1. CASE MarkRefunded(w)
      <3>1. work[w] # Idle /\ (GoTo(w, "flag") \/ GoTo(w, "claw") \/ End(w))
        BY <2>1 DEF MarkRefunded, At
      <3> QED BY <1>2, <1>3, <1>5, <2>1, <3>1 DEF MarkRefunded, gameVars
    <2>2. CASE FlagChargeback(w)
      <3>1. work[w] # Idle /\ (GoTo(w, "claw") \/ End(w))
        BY <1>6, <2>2 DEF FlagChargeback, At
      <3> QED BY <1>2, <1>3, <1>5, <2>2, <3>1 DEF FlagChargeback
    <2>3. CASE CheckIntent(w)
      <3>1. work[w] # Idle /\ (GoTo(w, "psp") \/ End(w))
        BY <2>3 DEF CheckIntent, At
      <3> QED BY <1>2, <1>3, <1>5, <2>3, <3>1 DEF CheckIntent, gameVars
    <2>4. CASE PspRefund(w)
      BY <1>3, <1>5, <2>4 DEF PspRefund, gameVars, At
    <2>5. CASE Fail(w)
      BY <1>2, <2>5 DEF Fail, gameVars
    <2> QED BY <1>10, <2>1, <2>2, <2>3, <2>4, <2>5
  <1>11. UNCHANGED <<walletVars, purchase>> /\ Stays
    BY <1>7, <1>8, <1>9, <1>10 DEF Services
  <1> QED BY <1>11 DEF Stays
(* The refunds of the ledger stay when no refund key is added.               *)
LEMMA ClawedStays ==
  ASSUME \A v \in Users : RowsOf(v) \subseteq RowsOf(v)',
         \A v \in Users : \A row \in RowsOf(v)' : row.key \in ClawbackKeys => row \in RowsOf(v)
  PROVE  Clawed' = Clawed
  <1>1. ASSUME NEW p \in Payments
        PROVE  {row \in RowsOf(Buyer[p]) : row.key = RefundKey[p]}'
                  = {row \in RowsOf(Buyer[p]) : row.key = RefundKey[p]}
    <2>1. Buyer[p] \in Users /\ RefundKey[p] \in ClawbackKeys
      BY PurchaseAssumption DEF ClawbackKeys
    <2> QED BY <2>1
  <1> QED BY <1>1 DEF Clawed

LEMMA SameRows ==
  ASSUME UNCHANGED walletVars
  PROVE  /\ \A v \in Users : RowsOf(v) \subseteq RowsOf(v)'
         /\ \A v \in Users : \A row \in RowsOf(v)' : row \in RowsOf(v)
  BY DEF walletVars, RowsOf

(* Where the money is, to the sale.                                          *)
LEMMA MoneyShows ==
  ASSUME TypeOK, NEW p \in Payments
  PROVE  /\ Money[p] = "out" <=> money[p] \in {"unpaid", "declined"}
         /\ Money[p] = "in" <=> money[p] = "paid"
         /\ Money[p] = "back" <=> money[p] = "returned"
  BY DEF TypeOK, Money, MoneyPlace

(* A step that moves money to a place the sale shows.                        *)
LEMMA MoneyMoves ==
  ASSUME TypeOK, NEW p \in Payments, NEW there \in {"unpaid", "declined", "paid", "returned"},
         money' = [money EXCEPT ![p] = there]
  PROVE  Money' = [Money EXCEPT ![p] = MoneyPlace[there]]
  <1>1. money \in [Payments -> {"unpaid", "declined", "paid", "returned"}]
    BY DEF TypeOK
  <1>2. \A q \in Payments : MoneyPlace[money'[q]]
                               = IF q = p THEN MoneyPlace[there] ELSE MoneyPlace[money[q]]
    BY <1>1
  <1> QED BY <1>2 DEF Money

(* The services' steps are money that comes in or goes back, or nothing.     *)
LEMMA ServicesStep ==
  ASSUME PInv, ClawInv, Services
  PROVE  ClawInv' /\ [Sale!SaleNext]_(Sale!saleVars)
  <1>1. /\ UNCHANGED <<walletVars, purchase>>
        /\ \A v \in Workers : At(v, "clawing")' => At(v, "clawing") /\ work'[v] = work[v]
    BY ServicesMoveNoCredits
  <1>2. /\ \A v \in Users : RowsOf(v) \subseteq RowsOf(v)'
        /\ \A v \in Users : \A row \in RowsOf(v)' : row \in RowsOf(v)
    BY <1>1, SameRows
  <1>3. TypeOK /\ money \in [Payments -> {"unpaid", "declined", "paid", "returned"}]
    BY DEF PInv, TypeOK
  <1>4. ClawInv'
    <2>1. \A w \in Workers : At(w, "clawing") => work[w].pay \in Payments
      BY BusyTask DEF At
    <2> QED BY <1>1, <1>2, <2>1, ClawStays
  <1>5. UNCHANGED <<purchase, Clawed, balance>>
    BY <1>1, <1>2, ClawedStays DEF walletVars
  <1>6. CASE UNCHANGED money
    <2>1. UNCHANGED Money
      BY <1>6 DEF Money
    <2> QED BY <1>4, <1>5, <2>1 DEF Sale!saleVars
  <1>7. ASSUME NEW p \in Payments, money[p] = "unpaid", money' = [money EXCEPT ![p] = "paid"]
        PROVE  Sale!SaleNext
    <2>1. Money[p] = "out" /\ Money' = [Money EXCEPT ![p] = "in"]
      BY <1>3, <1>7, MoneyShows, MoneyMoves DEF MoneyPlace
    <2>2. Sale!PayIn(p)
      BY <1>5, <2>1 DEF Sale!PayIn
    <2> QED BY <2>2 DEF Sale!SaleNext
  <1>8. ASSUME NEW p \in Payments, money[p] = "paid", money' = [money EXCEPT ![p] = "returned"]
        PROVE  Sale!SaleNext
    <2>1. Money[p] = "in" /\ Money' = [Money EXCEPT ![p] = "back"]
      BY <1>3, <1>8, MoneyShows, MoneyMoves DEF MoneyPlace
    <2>2. Sale!PayBack(p)
      BY <1>5, <2>1 DEF Sale!PayBack
    <2> QED BY <2>2 DEF Sale!SaleNext
  <1>9. ASSUME NEW p \in Payments, money[p] = "unpaid",
               money' = [money EXCEPT ![p] = "declined"]
        PROVE  UNCHANGED Sale!saleVars
    <2>1. Money[p] = "out" /\ Money' = [Money EXCEPT ![p] = "out"]
      BY <1>3, <1>9, MoneyShows, MoneyMoves DEF MoneyPlace
    <2>2. UNCHANGED Money
      BY <2>1 DEF Money
    <2> QED BY <1>5, <2>2 DEF Sale!saleVars
  <1>10. ASSUME NEW w \in Workers, PspRefund(w)
         PROVE  [Sale!SaleNext]_(Sale!saleVars)
    <2>1. work[w] # Idle /\ work[w].phase = "psp"
      BY <1>10 DEF PspRefund, At
    <2>2. PICK t \in Task, p \in Payments :
             t = work[w] /\ TaskOK(t) /\ t.phase = "psp" /\ p = t.pay
      BY <2>1, BusyTask
    <2>3. t.kind = "refund" \/ t.kind = "chargeback"
      BY <2>2 DEF TaskOK, Task, Kinds
    <2>4. money[p] \in Taken
      BY <2>2, <2>3 DEF TaskOK, PInv, Granted, MoneyIsKnown, Taken
    <2>5. money' = [money EXCEPT ![p] = "returned"]
      BY <1>10, <2>2 DEF PspRefund
    <2>6. CASE money[p] = "returned"
      <3>1. UNCHANGED money
        BY <1>3, <2>5, <2>6
      <3> QED BY <1>6, <3>1
    <2> QED BY <1>8, <2>4, <2>5, <2>6 DEF Taken
  <1>11. ASSUME NEW p \in Payments, StartCheckout(p) \/ Pay(p) \/ Decline(p) \/ Dispute(p)
         PROVE  [Sale!SaleNext]_(Sale!saleVars)
    BY <1>6, <1>7, <1>8, <1>9, <1>11 DEF StartCheckout, Pay, Decline, Dispute
  <1>12. ASSUME NEW p \in Payments, NEW kind \in Kinds, Deliver(p, kind)
         PROVE  UNCHANGED money
    BY <1>12 DEF Deliver, DeliverSuccess, DeliverFailure, DeliverChargeback, paymentVars
  <1>13. ASSUME NEW w \in Jobs, NEW p \in Payments, StartRefund(w, p)
         PROVE  UNCHANGED money
    BY <1>13 DEF StartRefund, paymentVars
  <1>14. ASSUME NEW w \in Workers,
                MarkRefunded(w) \/ FlagChargeback(w) \/ CheckIntent(w) \/ Fail(w)
         PROVE  UNCHANGED money
    BY <1>14 DEF MarkRefunded, FlagChargeback, CheckIntent, Fail, paymentVars
  <1> QED BY <1>4, <1>6, <1>10, <1>11, <1>12, <1>13, <1>14 DEF Services

(* The buyer's spending.                                                     *)
LEMMA SpendStep ==
  ASSUME PInv, ClawInv, NEW u \in Users, NEW n \in SpendAmounts, NEW key \in SpendKeys,
         Spend(u, n, key)
  PROVE  ClawInv' /\ [Sale!SaleNext]_(Sale!saleVars)
  <1>1. n \in Nat \ {0} /\ key \in Keys /\ key \notin ClawbackKeys
    BY PurchaseAssumption
  <1> PICK delta \in Int : delta = -n
    BY <1>1
  <1>2. /\ ApplyOnTx(u, delta, "support_spend", key)
        /\ Outcome(u, delta, "support_spend", key) = "applied"
        /\ UNCHANGED <<money, purchase, work>>
    BY DEF Spend, paymentVars, workVars
  <1>3. /\ TypeOK /\ WalletTypeOK /\ balance \in [Users -> Nat] /\ "support_spend" \in Reasons
    BY DEF PInv, TypeOK, WalletTypeOK, Reasons
  <1>4. /\ \A v \in Users : RowsOf(v) \subseteq RowsOf(v)'
        /\ \A v \in Users : \A row \in RowsOf(v)' : row \in RowsOf(v) \/ row.key = key
    BY <1>1, <1>2, <1>3, ApplyOnlyAdds, ApplyAddsOne
  <1>5. ClawInv'
    <2>1. \A w \in Workers : At(w, "clawing") => work[w].pay \in Payments
      BY BusyTask DEF At
    <2>2. \A v \in Workers : At(v, "clawing")' => At(v, "clawing") /\ work'[v] = work[v]
      BY <1>2 DEF At
    <2> QED BY <1>1, <1>2, <1>4, <2>1, <2>2, ClawStays
  <1>6. UNCHANGED <<Money, purchase, Clawed>>
    BY <1>1, <1>2, <1>4, ClawedStays DEF Money
  <1>7. PICK had \in Nat : had = balance[u]
    BY <1>3
  <1>8. PICK left \in Int : left = had + delta
    BY <1>7
  <1>9. left >= 0 /\ balance' = [balance EXCEPT ![u] = left]
    BY <1>2, <1>7, <1>8 DEF ApplyOnTx, Outcome, Post
  <1>10. balance'[u] = left /\ left = had - n /\ left < had /\ had - left = n /\ n <= had
    BY <1>1, <1>3, <1>7, <1>8, <1>9
  <1>11. Sale!Spend(u, n)
    BY <1>6, <1>7, <1>9, <1>10 DEF Sale!Spend
  <1>12. balance'[u] < balance[u] /\ Sale!Spend(u, balance[u] - balance'[u])
    BY <1>7, <1>10, <1>11
  <1> QED BY <1>5, <1>12 DEF Sale!SaleNext

(* A grant is the sale's, or the repetition of one, which does nothing.      *)
LEMMA GrantStep ==
  ASSUME PInv, ClawInv, NEW w \in Workers, GrantFromPayments(w)
  PROVE  ClawInv' /\ [Sale!SaleNext]_(Sale!saleVars)
  <1>1. work[w] # Idle /\ work[w].phase = "grant" /\ End(w)
    BY DEF GrantFromPayments, At, Answer
  <1>2. PICK t \in Task, p \in Payments :
           t = work[w] /\ TaskOK(t) /\ t.phase = "grant" /\ p = t.pay
    BY <1>1, BusyTask
  <1>3. money[p] \in Taken
    BY <1>2 DEF TaskOK
  <1>4. PICK u \in Users, n \in Nat \ {0}, key \in Keys :
           u = Buyer[p] /\ n = Credits[p] /\ key = GrantKey[p]
    BY PurchaseAssumption
  <1>5. /\ UNCHANGED money
        /\ purchase' = [purchase EXCEPT ![p] =
                          IF purchase[p] = "none" THEN "verified" ELSE purchase[p]]
        /\ ApplyOnTx(u, n, "purchase", key)
    BY <1>2, <1>4 DEF GrantFromPayments
  <1>6. /\ purchase \in [Payments -> {"none", "verified", "refunded"}]
        /\ TypeOK /\ WalletTypeOK /\ balance \in [Users -> Nat]
        /\ "purchase" \in Reasons /\ n \in Int
    BY DEF PInv, TypeOK, WalletTypeOK, Reasons
  <1>12. key \notin ClawbackKeys
    BY <1>4, PurchaseAssumption DEF PurchaseKeys, ClawbackKeys
  <1>7. /\ \A v \in Users : RowsOf(v) \subseteq RowsOf(v)'
        /\ \A v \in Users : \A row \in RowsOf(v)' : row \in RowsOf(v) \/ row.key = key
    BY <1>5, <1>6, ApplyOnlyAdds, ApplyAddsOne
  <1>8. ClawInv'
    <2>1. \A v \in Workers : At(v, "clawing") => work[v].pay \in Payments
      BY BusyTask DEF At
    <2>2. \A v \in Workers : At(v, "clawing")' => At(v, "clawing") /\ work'[v] = work[v]
      BY <1>1, <1>6, NoneBegins
    <2>3. \A q \in Payments : purchase[q] # "none" => purchase'[q] = purchase[q]
      BY <1>5, <1>6
    <2> QED BY <1>7, <1>12, <2>1, <2>2, <2>3, ClawStays
  <1>9. UNCHANGED <<Money, Clawed>>
    BY <1>5, <1>7, <1>12, ClawedStays DEF Money
  <1>10. CASE purchase[p] = "none"
    <2>1. ~KeyUsed(key)
      BY <1>4, <1>10 DEF PInv, Granted
    <2>2. PICK up \in Nat : up = balance[u] + n
      BY <1>6
    <2>3. balance' = [balance EXCEPT ![u] = up]
      BY <1>5, <2>1, <2>2 DEF ApplyOnTx, Outcome, Post
    <2>4. balance' = [balance EXCEPT ![Buyer[p]] = @ + Credits[p]]
      BY <1>4, <2>2, <2>3
    <2>5. Money[p] # "out"
      BY <1>3, <1>6, MoneyShows DEF Taken
    <2>6. purchase' = [purchase EXCEPT ![p] = "verified"]
      BY <1>5, <1>10
    <2>7. Sale!Grant(p)
      BY <1>9, <1>10, <2>4, <2>5, <2>6 DEF Sale!Grant
    <2> QED BY <1>8, <2>7 DEF Sale!SaleNext
  <1>11. CASE purchase[p] # "none"
    <2>1. SameMovement(u, n, "purchase", key)
      BY <1>4, <1>11 DEF PInv, Granted
    <2>2. Outcome(u, n, "purchase", key) # "applied"
      BY <2>1 DEF Outcome, SameMovement, KeyUsed
    <2>3. UNCHANGED <<purchase, balance>>
      BY <1>5, <1>6, <1>11, <2>2 DEF ApplyOnTx, walletVars
    <2> QED BY <1>8, <1>9, <2>3 DEF Sale!saleVars
  <1> QED BY <1>10, <1>11
(* The first half of a clawback, which reads, and its answer.                *)
LEMMA ReadClawbackStep ==
  ASSUME PInv, ClawInv, NEW w \in Workers, ReadClawback(w)
  PROVE  ClawInv' /\ [Sale!SaleNext]_(Sale!saleVars)
  <1>1. work[w] # Idle /\ work[w].phase = "claw" /\ TypeOK
    BY DEF ReadClawback, At, PInv
  <1>2. PICK t \in Task, p \in Payments :
           t = work[w] /\ TaskOK(t) /\ t.phase = "claw" /\ p = t.pay
    BY <1>1, BusyTask
  <1>3. UNCHANGED <<walletVars, purchase, money>>
    BY DEF ReadClawback, gameVars
  <1>4. /\ \A v \in Users : RowsOf(v) \subseteq RowsOf(v)'
        /\ \A v \in Users : \A row \in RowsOf(v)' : row \in RowsOf(v)
    BY <1>3, SameRows
  <1>5. UNCHANGED Sale!saleVars
    BY <1>3, <1>4, ClawedStays DEF Sale!saleVars, Money, walletVars
  <1>6. CASE End(w)
    <2>1. \A v \in Workers : At(v, "clawing") => work[v].pay \in Payments
      BY BusyTask DEF At
    <2>2. \A v \in Workers : At(v, "clawing")' => At(v, "clawing") /\ work'[v] = work[v]
      BY <1>1, <1>6, NoneBegins
    <2> QED BY <1>3, <1>4, <1>5, <2>1, <2>2, ClawStays
  <1>7. CASE purchase[p] # "refunded"
    <2>1. PICK n \in Nat :
             n = IF balance[Buyer[p]] < Credits[p] THEN balance[Buyer[p]] ELSE Credits[p]
      <3>1. balance[Buyer[p]] \in Nat /\ Credits[p] \in Nat
        BY <1>1, PurchaseAssumption DEF TypeOK, WalletTypeOK
      <3> QED BY <3>1
    <2> DEFINE new == [t EXCEPT !.phase = "clawing", !.take = n]
    <2>2. PurchaseFree(p) /\ work' = [work EXCEPT ![w] = [t EXCEPT !.phase = "clawing", !.take = n]]
      BY <1>2, <1>7, <2>1 DEF ReadClawback
    <2>3. PICK x \in Task : x = new /\ x.pay = p
      <3>1. new \in Task /\ new.pay = t.pay
        BY DEF Task, Phases
      <3> QED BY <1>2, <3>1
    <2>4. work \in [Workers -> Task \cup {Idle}] /\ work' = [work EXCEPT ![w] = x]
      BY <1>1, <2>2, <2>3 DEF TypeOK
    <2>5. \A v \in Workers : At(v, "clawing") => work[v].pay # p /\ v # w
      BY <1>1, <2>2 DEF PurchaseFree, At
    <2>6. work'[w] = x /\ \A v \in Workers \ {w} : work'[v] = work[v]
      BY <2>4
    <2>7. purchase[p] = "verified"
      BY <1>1, <1>2, <1>7 DEF TaskOK, TypeOK
    <2>8. \A v \in Workers \ {w} : At(v, "clawing")' => At(v, "clawing")
      BY <2>6 DEF At
    <2>9. ASSUME NEW u \in Workers, NEW v \in Workers, At(u, "clawing")', At(v, "clawing")',
                 work'[u].pay = work'[v].pay
          PROVE  u = v
      <3>1. CASE u # w /\ v # w
        BY <2>6, <2>8, <2>9, <3>1 DEF ClawInv
      <3>2. ASSUME NEW other \in Workers \ {w}, At(other, "clawing")'
            PROVE  work'[other].pay # work'[w].pay
        BY <2>3, <2>5, <2>6, <2>8, <3>2
      <3> QED BY <2>9, <3>1, <3>2
    <2>10. ASSUME NEW v \in Workers, At(v, "clawing")'
           PROVE  purchase'[work'[v].pay] = "verified"
      BY <1>3, <2>3, <2>6, <2>7, <2>8, <2>10 DEF ClawInv
    <2>11. \A q \in Payments : KeyUsed(RefundKey[q])' => purchase'[q] = "refunded"
      BY <1>3, <1>4 DEF KeyUsed, ClawInv
    <2> QED BY <1>5, <2>9, <2>10, <2>11 DEF ClawInv
  <1>8. CASE purchase[p] = "refunded"
    <2>1. End(w)
      BY <1>2, <1>8 DEF ReadClawback, Answer
    <2> QED BY <1>6, <2>1
  <1> QED BY <1>7, <1>8

(* The rows a debit adds to the refunds of a payment.                        *)
LEMMA ClawedOne ==
  ASSUME PInv, NEW p \in Payments, NEW n \in Nat \ {0}, NEW delta \in Int, delta = -n,
         ~KeyUsed(RefundKey[p]), ApplyOnTx(Buyer[p], delta, "refund", RefundKey[p]),
         Outcome(Buyer[p], delta, "refund", RefundKey[p]) = "applied"
  PROVE  Clawed' = [Clawed EXCEPT ![p] = {n}]
  <1>1. PICK u \in Users, key \in Keys : u = Buyer[p] /\ key = RefundKey[p]
    BY PurchaseAssumption
  <1>2. WalletTypeOK /\ "refund" \in Reasons /\ ApplyOnTx(u, delta, "refund", key)
    BY <1>1 DEF PInv, TypeOK, Reasons
  <1>3. /\ \A v \in Users : RowsOf(v) \subseteq RowsOf(v)'
        /\ \A v \in Users : \A row \in RowsOf(v)' :
              row \in RowsOf(v) \/ (row.key = key /\ row.delta = delta)
        /\ SameMovement(u, delta, "refund", key)'
    BY <1>1, <1>2, ApplyOnlyAdds, ApplyAddsOne
  <1>4. ASSUME NEW q \in Payments
        PROVE  Clawed'[q] = IF q = p THEN {n} ELSE Clawed[q]
    <2>1. Buyer[q] \in Users
      BY PurchaseAssumption
    <2>2. CASE q = p
      <3>1. \A row \in RowsOf(u) : row.key # key
        BY <1>1 DEF KeyUsed
      <3>2. \A row \in RowsOf(u)' : row.key = key => row.delta = delta
        BY <1>3, <3>1
      <3>3. \E row \in RowsOf(u)' : row.key = key /\ row.delta = delta
        BY <1>3 DEF SameMovement
      <3>4. -delta = n
        OBVIOUS
      <3>5. {-row.delta : row \in {x \in RowsOf(u)' : x.key = key}} = {n}
        BY <3>2, <3>3, <3>4
      <3> QED BY <1>1, <2>2, <3>5 DEF Clawed
    <2>3. CASE q # p
      <3>1. RefundKey[q] # key
        BY <1>1, <2>3, PurchaseAssumption
      <3>2. {x \in RowsOf(Buyer[q])' : x.key = RefundKey[q]}
               = {x \in RowsOf(Buyer[q]) : x.key = RefundKey[q]}
        BY <1>3, <2>1, <3>1
      <3> QED BY <2>3, <3>2 DEF Clawed
    <2> QED BY <2>2, <2>3
  <1> QED BY <1>4 DEF Clawed

(* The second half of a clawback takes the credits back, once.               *)
LEMMA CommitClawbackStep ==
  ASSUME PInv, ClawInv, NEW w \in Workers, CommitClawback(w)
  PROVE  ClawInv' /\ [Sale!SaleNext]_(Sale!saleVars)
  <1>1. work[w] # Idle /\ work[w].phase = "clawing" /\ TypeOK /\ End(w)
    BY DEF CommitClawback, At, PInv, Answer
  <1>2. PICK t \in Task, p \in Payments, n \in Nat :
           t = work[w] /\ TaskOK(t) /\ t.phase = "clawing" /\ p = t.pay /\ n = t.take
    BY <1>1, BusyTask
  <1>3. /\ money[p] = "returned" /\ n <= Credits[p] /\ purchase[p] = "verified"
        /\ ~KeyUsed(RefundKey[p])
    BY <1>1, <1>2 DEF TaskOK, ClawInv, At
  <1>4. UNCHANGED money
    BY DEF CommitClawback
  <1>5. /\ purchase \in [Payments -> {"none", "verified", "refunded"}]
        /\ balance \in [Users -> Nat] /\ work \in [Workers -> Task \cup {Idle}]
        /\ Buyer[p] \in Users /\ Credits[p] \in Nat
    BY <1>1, PurchaseAssumption DEF TypeOK, WalletTypeOK
  <1>6. \A v \in Workers : At(v, "clawing")' => At(v, "clawing") /\ work'[v] = work[v]
    BY <1>1, NoneBegins
  <1>7. UNCHANGED Money
    BY <1>4 DEF Money
  <1>8. CASE UNCHANGED <<walletVars, purchase>>
    <2>1. /\ \A v \in Users : RowsOf(v) \subseteq RowsOf(v)'
          /\ \A v \in Users : \A row \in RowsOf(v)' : row \in RowsOf(v)
      BY <1>8, SameRows
    <2>2. \A v \in Workers : At(v, "clawing") => work[v].pay \in Payments
      BY BusyTask DEF At
    <2>3. ClawInv'
      BY <1>6, <1>8, <2>1, <2>2, ClawStays
    <2> QED BY <1>7, <1>8, <2>1, <2>3, ClawedStays DEF Sale!saleVars, walletVars
  <1>9. CASE /\ n > 0 => Outcome(Buyer[p], -n, "refund", RefundKey[p])
                            \notin {"insufficient", "conflict"}
             /\ IF n > 0 THEN ApplyOnTx(Buyer[p], -n, "refund", RefundKey[p])
                ELSE UNCHANGED walletVars
             /\ purchase' = [purchase EXCEPT ![p] = "refunded"]
    <2>1. /\ Clawed' = [Clawed EXCEPT ![p] = {n} \ {0}]
          /\ \A v \in Users : \A row \in RowsOf(v)' : row \in RowsOf(v) \/ row.key = RefundKey[p]
          /\ n <= balance[Buyer[p]] /\ balance' = [balance EXCEPT ![Buyer[p]] = @ - n]
      <3>1. CASE n > 0
        <4>1. PICK delta \in Int : delta = -n
          BY <1>2
        <4>2. PICK u \in Users, key \in Keys : u = Buyer[p] /\ key = RefundKey[p]
          BY PurchaseAssumption
        <4>3. /\ ApplyOnTx(u, delta, "refund", key)
              /\ Outcome(u, delta, "refund", key) \notin {"insufficient", "conflict"}
              /\ ~KeyUsed(key)
          BY <1>3, <1>9, <3>1, <4>1, <4>2
        <4>4. Outcome(u, delta, "refund", key) = "applied" /\ ~(balance[u] + delta < 0)
          BY <4>3 DEF Outcome
        <4>5. n \in Nat \ {0}
          BY <3>1
        <4>6. Clawed' = [Clawed EXCEPT ![p] = {n}]
          BY <4>1, <4>2, <4>3, <4>4, <4>5, ClawedOne
        <4>7. {n} \ {0} = {n}
          BY <3>1
        <4>8. \A v \in Users : \A row \in RowsOf(v)' : row \in RowsOf(v) \/ row.key = key
          BY <1>1, <4>2, <4>3, ApplyAddsOne DEF TypeOK, Reasons
        <4>9. PICK had \in Nat : had = balance[u]
          BY <1>5
        <4>10. had + delta = had - n /\ n <= had
          BY <4>1, <4>4, <4>9
        <4>11. balance' = [balance EXCEPT ![u] = had + delta]
          BY <4>3, <4>4, <4>9 DEF ApplyOnTx, Post
        <4> QED BY <4>2, <4>6, <4>7, <4>8, <4>9, <4>10, <4>11
      <3>2. CASE n = 0
        <4>1. UNCHANGED walletVars
          BY <1>9, <3>2
        <4>2. /\ \A v \in Users : RowsOf(v) \subseteq RowsOf(v)'
              /\ \A v \in Users : \A row \in RowsOf(v)' : row \in RowsOf(v)
          BY <4>1, SameRows
        <4>3. Clawed' = Clawed
          BY <4>2, ClawedStays
        <4>4. Clawed[p] = {}
          BY <1>3, <1>5 DEF Clawed, KeyUsed
        <4>5. Clawed' = [Clawed EXCEPT ![p] = {n} \ {0}]
          BY <3>2, <4>3, <4>4 DEF Clawed
        <4>6. PICK had \in Nat : had = balance[Buyer[p]]
          BY <1>5
        <4>7. n <= had /\ had - n = had
          BY <3>2
        <4>8. balance' = [balance EXCEPT ![Buyer[p]] = balance[Buyer[p]]]
          BY <1>5, <4>1 DEF walletVars
        <4> QED BY <4>2, <4>5, <4>6, <4>7, <4>8
      <3> QED BY <3>1, <3>2
    <2>2. Sale!TakeBack(p, n)
      <3>1. Money[p] = "back"
        BY <1>1, <1>3, MoneyShows
      <3> QED BY <1>3, <1>7, <1>9, <2>1, <3>1 DEF Sale!TakeBack
    <2>3. n \in 0 .. Credits[p]
      BY <1>3, <1>5
    <2>4. Sale!SaleNext
      BY <2>2, <2>3 DEF Sale!SaleNext
    <2>5. \A v \in Workers : At(v, "clawing") /\ v # w => work[v].pay # p /\ work[v].pay \in Payments
      <3>1. \A v \in Workers : At(v, "clawing") => work[v].pay \in Payments
        BY BusyTask DEF At
      <3> QED BY <1>1, <1>2, <3>1 DEF ClawInv, At
    <2>6. work'[w] = Idle
      BY <1>1, <1>5 DEF End
    <2>7. ASSUME NEW u \in Workers, NEW v \in Workers, At(u, "clawing")', At(v, "clawing")',
                 work'[u].pay = work'[v].pay
          PROVE  u = v
      BY <1>6, <2>7 DEF ClawInv
    <2>8. ASSUME NEW v \in Workers, At(v, "clawing")'
          PROVE  purchase'[work'[v].pay] = "verified"
      <3>1. v # w
        BY <2>6, <2>8 DEF At
      <3>2. /\ work'[v] = work[v] /\ work[v].pay # p /\ work[v].pay \in Payments
            /\ purchase[work[v].pay] = "verified"
        BY <1>6, <2>5, <2>8, <3>1 DEF ClawInv
      <3> QED BY <1>5, <1>9, <3>2
    <2>9. ASSUME NEW q \in Payments, KeyUsed(RefundKey[q])'
          PROVE  purchase'[q] = "refunded"
      <3>1. CASE q = p
        BY <1>5, <1>9, <3>1
      <3>2. CASE q # p
        <4>1. RefundKey[q] # RefundKey[p]
          BY <3>2, PurchaseAssumption
        <4>2. KeyUsed(RefundKey[q])
          BY <2>1, <2>9, <4>1 DEF KeyUsed
        <4> QED BY <1>5, <1>9, <3>2, <4>2 DEF ClawInv
      <3> QED BY <3>1, <3>2
    <2>10. ClawInv'
      BY <2>7, <2>8, <2>9 DEF ClawInv
    <2> QED BY <2>4, <2>10
  <1>10. \/ UNCHANGED <<walletVars, purchase>>
         \/ /\ n > 0 => Outcome(Buyer[p], -n, "refund", RefundKey[p])
                           \notin {"insufficient", "conflict"}
            /\ IF n > 0 THEN ApplyOnTx(Buyer[p], -n, "refund", RefundKey[p])
               ELSE UNCHANGED walletVars
            /\ purchase' = [purchase EXCEPT ![p] = "refunded"]
    BY <1>2 DEF CommitClawback
  <1> QED BY <1>8, <1>9, <1>10

LEMMA SaleStep ==
  ASSUME PInv, ClawInv, [Next]_vars
  PROVE  ClawInv' /\ [Sale!SaleNext]_(Sale!saleVars)
  <1>1. CASE Services
    BY <1>1, ServicesStep
  <1>2. ASSUME NEW u \in Users, NEW n \in SpendAmounts, NEW key \in SpendKeys, Spend(u, n, key)
        PROVE  ClawInv' /\ [Sale!SaleNext]_(Sale!saleVars)
    BY <1>2, SpendStep
  <1>3. ASSUME NEW w \in Workers, GrantFromPayments(w) \/ ReadClawback(w) \/ CommitClawback(w)
        PROVE  ClawInv' /\ [Sale!SaleNext]_(Sale!saleVars)
    BY <1>3, GrantStep, ReadClawbackStep, CommitClawbackStep
  <1>4. CASE UNCHANGED vars
    <2>1. UNCHANGED <<walletVars, purchase, money, work>>
      BY <1>4 DEF vars
    <2>2. /\ \A v \in Users : RowsOf(v) \subseteq RowsOf(v)'
          /\ \A v \in Users : \A row \in RowsOf(v)' : row \in RowsOf(v)
      BY <2>1, SameRows
    <2>3. \A v \in Workers : At(v, "clawing") => work[v].pay \in Payments
      BY BusyTask DEF At
    <2>4. \A v \in Workers : At(v, "clawing")' => At(v, "clawing") /\ work'[v] = work[v]
      BY <2>1 DEF At
    <2>5. ClawInv'
      BY <2>1, <2>2, <2>3, <2>4, ClawStays
    <2> QED BY <2>1, <2>2, <2>5, ClawedStays DEF Sale!saleVars, Money, walletVars
  <1> QED BY <1>1, <1>2, <1>3, <1>4 DEF Next, Work, Services

(* The two services, with their events, retries and early stops, show only    *)
(* what a sale without them shows: each payment is granted and taken back in  *)
(* one instant, for money that came in or went back (monetization/grant.go,   *)
(* monetization/refunds.go).                                                 *)
THEOREM PurchasesImplementSale == Spec => ImplementsSale
  <1>1. Init => ClawInv /\ Sale!SaleInit
    <2> SUFFICES ASSUME Init PROVE ClawInv /\ Sale!SaleInit
      OBVIOUS
    <2>1. \A u \in Users : RowsOf(u) = {}
      <3>1. \A u \in Users : ledger[u] = <<>>
        BY DEF Init, WalletInit
      <3>2. DOMAIN <<>> = {}
        OBVIOUS
      <3> QED BY <3>1, <3>2 DEF RowsOf
    <2>2. ClawInv
      BY <2>1 DEF Init, ClawInv, At, KeyUsed
    <2>3. \A p \in Payments : Money[p] = "out" /\ Clawed[p] = {}
      BY <2>1, PurchaseAssumption DEF Init, Money, MoneyPlace, Clawed
    <2>4. Money = [p \in Payments |-> "out"] /\ Clawed = [p \in Payments |-> {}]
      BY <2>3 DEF Money, Clawed
    <2> QED BY <2>2, <2>4 DEF Init, WalletInit, Sale!SaleInit
  <1>2. PInv /\ ClawInv /\ [Next]_vars => ClawInv' /\ [Sale!SaleNext]_(Sale!saleVars)
    BY SaleStep
  <1> QED BY <1>1, <1>2, PurchasesHold, PTL DEF Spec, ImplementsSale, Sale!SaleSpec
=============================================================================
