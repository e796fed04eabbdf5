\* One payment that may be disputed, with repeated deliveries and refunds.
SPECIFICATION FairSpec
CONSTANTS
    buyer = buyer
    p1 = p1
    p2 = p2
    s1 = s1
    Users = {buyer}
    Payments = {p1}
    Disputed = {p1}
    Keys <- MCKeys
    Buyer <- MCBuyer
    Credits <- MCCredits
    GrantKey <- MCGrantKey
    RefundKey <- MCRefundKey
    SpendKeys <- MCSpendKeys
    SpendAmounts = {1}
    Handlers = {h1, h2}
    Jobs = {j1}
    Idle = Idle
    MaxFailures = 2
PROPERTY DisputedPurchasesAreRefunded
CHECK_DEADLOCK FALSE
