\* One payment whose admin refund may stop after the PSP has refunded.
SPECIFICATION FairSpec
CONSTANTS
    buyer = buyer
    p1 = p1
    p2 = p2
    s1 = s1
    Users = {buyer}
    Payments = {p1}
    Disputed = {}
    Keys <- MCKeys
    Buyer <- MCBuyer
    Credits <- MCCredits
    GrantKey <- MCGrantKey
    RefundKey <- MCRefundKey
    SpendKeys <- MCSpendKeys
    SpendAmounts = {1}
    Handlers = {h1}
    Jobs = {j1}
    Idle = Idle
    MaxFailures = 1
PROPERTY RefundedPaymentsAreClawedBack
CHECK_DEADLOCK FALSE
