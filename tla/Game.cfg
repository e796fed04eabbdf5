\* Each start of MCStarts explores the components it names.
SPECIFICATION GameSpec
CONSTANTS
    ali = ali
    bey = bey
    p1 = p1
    p2 = p2
    google = google
    mail = mail
    c1 = c1
    c2 = c2
    c3 = c3
    appeal1 = appeal1
    appeal2 = appeal2
    flag1 = flag1
    flag2 = flag2
    report1 = report1
    Users = {ali, bey}
    Phones = {p1, p2}
    Emails = {mail}
    Identities = {google}
    ClaimedPhone <- MCClaimedPhone
    ClaimedEmail <- MCClaimedEmail
    Calls = {c1, c2, c3}
    Revokers = {w1, w2}
    None = None
    MaxCodes = 1
    Jobs = {1, 2}
    Workers = {w1, w2}
    MaxFailures = 1
    MaxCrashes = 1
    Items = {appeal1, appeal2, flag1, flag2, report1}
    ItemKind <- MCItemKind
    ItemUser <- MCItemUser
    Moderators = {m1, m2}
    Done = Done
    Restricted = {bey}
    Devices = {phone1, phone2}
    Redemptions = {r1, r2}
    MaxMessages = 1
    can = can
    client1 = client1
    client2 = client2
    Players = {ali, bey, can}
    s1 = s1
    s2 = s2
    s3 = s3
    s4 = s4
    s5 = s5
    Supports = {s1, s2, s3, s4, s5}
    Supporter <- MCSupporter
    SideOf <- MCSideOf
    Worth <- MCWorth
    Held <- MCHeld
    MaxFaults = 1
    Readers = {reader1, reader2}
    Nil = Nil
    MaxExpiries = 1
    MaxRow = 3
    CityOfRow <- MCCityOfRow
    Page = 1
    MarkAlls = {mark1, mark2}
    StreakOf <- MCStreakOf
    Advancing = {s1, s3}
    Target <- MCTarget
    Thresholds = {2}
    Earlier <- MCEarlier
    NoRow = NoRow
    Keys_ <- MCKeys_
    RankKey = "tribe_rank"
    NoArchive = NoArchive
    MaxRuns = 2
    low = low
    lead = lead
    TensionLevels = {low}
    LeadLevel = lead
    Percent <- MCPercent
    PushWorkers = {push1, push2}
    Devices_ = {handset}
    MemberOf <- MCMemberOf
    Free = Free
    Clients = {client1, client2}
    Buffer = 1
    NoFan = NoFan
    MaxClicks = 1
    fener = fener
    gala = gala
    Members = {ali, bey}
    Clubs = {fener, gala}
    NoClub = NoClub
    Seeds = {fener}
    Personas <- MCPersonas
    Requests = {request1, request2}
    Admins = {admin1, admin2}
    Posts = {post1}
    MaxCooldowns = 1
    MaxBeats = 5
    txn = txn
    tier1 = tier1
    tier2 = tier2
    tierKey1 = tierKey1
    tierKey2 = tierKey2
    Txns = {txn}
    Keys = {txn, tierKey1, tierKey2}
    PackOf <- MCPackOf
    Buys = {buy1, buy2, buy3}
    Percents = {20, 250}
    Tiers = {tier1, tier2}
    Reward <- MCReward
    XPRequired <- MCXPRequired
    MaxXP = 2
    Claims = {claim1, claim2, claim3}
    TierKey <- MCTierKey
    Nobody = Nobody
    Starts <- MCStarts
INVARIANTS
    GameTypeOK
    VerificationsAreSpentOnce
    MergesFollowThePhone
    SessionsAreRevocable
    ErasureLeavesNothing
    DecisionsAreAudited
    BlockingEndsFriendship
    ReferralsPayOnce
    ControlIsServedFresh
    ReadMeansMarked
    RewardsArePaidOnce
    SeasonScoresAreKept
    AlertsFollowTension
    ClientsAreServed
    TribesKeepTheirMembers
    StoreGrantsOnce
CHECK_DEADLOCK FALSE
