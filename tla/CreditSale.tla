----------------------------- MODULE CreditSale -----------------------------
(***************************************************************************)
(* What the shop promises about credits bought on the web, with no services, *)
(* events, handlers or retries: a payment that came in is granted once, in   *)
(* full and at once; a payment that went back is refunded once, and the      *)
(* refund takes no more than was granted and no more than is there; credits   *)
(* move for nothing else but what their owner spends.  WebPurchase            *)
(* implements this specification.                                            *)
(***************************************************************************)
EXTENDS Integers

CONSTANTS Users, Payments, Buyer, Credits

VARIABLES
    money,      \* of each payment: "out" before it is paid, "in", or "back"
    sale,       \* "none", "verified" once granted, "refunded"
    clawed,     \* the amounts taken back for each payment
    balance     \* credits of each user

saleVars == <<money, sale, clawed, balance>>

SaleInit ==
    /\ money = [p \in Payments |-> "out"]
    /\ sale = [p \in Payments |-> "none"]
    /\ clawed = [p \in Payments |-> {}]
    /\ balance = [u \in Users |-> 0]

PayIn(p) ==
    /\ money[p] = "out"
    /\ money' = [money EXCEPT ![p] = "in"]
    /\ UNCHANGED <<sale, clawed, balance>>

PayBack(p) ==
    /\ money[p] = "in"
    /\ money' = [money EXCEPT ![p] = "back"]
    /\ UNCHANGED <<sale, clawed, balance>>

Grant(p) ==
    /\ sale[p] = "none" /\ money[p] # "out"
    /\ sale' = [sale EXCEPT ![p] = "verified"]
    /\ balance' = [balance EXCEPT ![Buyer[p]] = @ + Credits[p]]
    /\ UNCHANGED <<money, clawed>>

TakeBack(p, n) ==
    /\ sale[p] = "verified" /\ money[p] = "back"
    /\ n <= balance[Buyer[p]]
    /\ sale' = [sale EXCEPT ![p] = "refunded"]
    /\ clawed' = [clawed EXCEPT ![p] = {n} \ {0}]
    /\ balance' = [balance EXCEPT ![Buyer[p]] = @ - n]
    /\ UNCHANGED money

Spend(u, n) ==
    /\ n <= balance[u]
    /\ balance' = [balance EXCEPT ![u] = @ - n]
    /\ UNCHANGED <<money, sale, clawed>>

(* What is spent is read off the step, so that the specification can be       *)
(* evaluated without enumerating all numbers.                                *)
SaleNext ==
    \/ \E p \in Payments : \/ PayIn(p) \/ PayBack(p) \/ Grant(p)
                           \/ \E n \in 0..Credits[p] : TakeBack(p, n)
    \/ \E u \in Users : balance'[u] < balance[u] /\ Spend(u, balance[u] - balance'[u])

SaleSpec == SaleInit /\ [][SaleNext]_saleVars
=============================================================================
