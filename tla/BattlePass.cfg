SPECIFICATION StoreSpec
CONSTANTS
    tier1 = tier1
    tier2 = tier2
    tierKey1 = tierKey1
    tierKey2 = tierKey2
    Users = {ali, bey}
    Txns = {txn}
    Keys = {txn, tierKey1, tierKey2}
    PackOf <- MCPackOf
    Buys = {buy1}
    Percents = {20, 250}
    Tiers = {tier1, tier2}
    Reward <- MCReward
    XPRequired <- MCXPRequired
    MaxXP = 2
    Claims = {claim1, claim2}
    TierKey <- MCTierKey
    Nobody = Nobody
INVARIANT ClaimsUnlockEligibleTiers
CHECK_DEADLOCK FALSE
