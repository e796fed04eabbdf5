------------------------------ MODULE MCStore ------------------------------
(* Two users, one purchase, a tier with a cosmetic and one with 50 credits. *)
EXTENDS Store, TLC

CONSTANTS tier1, tier2, tierKey1, tierKey2

MCPackOf == [x \in Txns |-> 100]
MCReward == [t \in Tiers |-> IF t = tier2 THEN 50 ELSE 0]
MCXPRequired == [t \in Tiers |-> IF t = tier2 THEN 2 ELSE 1]
MCTierKey == [t \in Tiers |-> IF t = tier2 THEN tierKey2 ELSE tierKey1]
=============================================================================
