--------------------------- MODULE MCWebPurchase ---------------------------
(* Two payments of one buyer, of 2 and 1 credits, both of which may be        *)
(* disputed; the buyer may spend a credit on a city in the meantime.         *)
EXTENDS WebPurchase, TLC

CONSTANTS buyer, p1, p2, s1

MCKeys == {<<"grant", p>> : p \in Payments} \cup {<<"refund", p>> : p \in Payments}
              \cup {<<"spend", s>> : s \in {s1}}
MCBuyer == [p \in Payments |-> buyer]
MCCredits == [p \in Payments |-> IF p = p1 THEN 2 ELSE 1]
MCGrantKey == [p \in Payments |-> <<"grant", p>>]
MCRefundKey == [p \in Payments |-> <<"refund", p>>]
WorkerSymmetry == Permutations(Handlers) \cup Permutations(Jobs)
MCSpendKeys == {<<"spend", s1>>}
=============================================================================
