\* Two payments of one buyer, two webhook deliveries and two admin refunds at a
\* time, one early stop.  A finished run of events leaves nothing to do.
SPECIFICATION Spec
CONSTANTS
    buyer = buyer
    p1 = p1
    p2 = p2
    s1 = s1
    Users = {buyer}
    Payments = {p1, p2}
    Disputed = {p1}
    Keys <- MCKeys
    Buyer <- MCBuyer
    Credits <- MCCredits
    GrantKey <- MCGrantKey
    RefundKey <- MCRefundKey
    SpendKeys <- MCSpendKeys
    SpendAmounts = {1}
    Handlers = {h1, h2}
    Jobs = {j1, j2}
    Idle = Idle
    MaxFailures = 1
SYMMETRY WorkerSymmetry
INVARIANT TypeOK
INVARIANT PurchasesAreGrantedOnce
INVARIANT ClawbackFollowsTheMoney
INVARIANT AnsweredChargebackIsSettled
PROPERTY ImplementsSale
CHECK_DEADLOCK FALSE
