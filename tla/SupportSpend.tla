---------------------------- MODULE SupportSpend ----------------------------
(***************************************************************************)
(* Spending credits on a city (backend/internal/support/spend.go) with the  *)
(* tables the spend transaction writes: the wallet (credits/wallet.go), the  *)
(* supports rows, tribe_province_scores, the support streak                  *)
(* (engagement/streak.go), conquest_log (conquest/log.go) and the            *)
(* attribution of supports to a capture (conquest/attribution.go).           *)
(*                                                                         *)
(* A request reads the user row before its transaction, then takes two row   *)
(* locks in this order: the city (admin_boundaries ... FOR UPDATE) and the   *)
(* account (credit_accounts ... FOR UPDATE).  Everything it writes becomes   *)
(* visible at COMMIT, so the writes are one action, CommitSupport; the       *)
(* interleaving of concurrent requests is in the reads and the lock steps    *)
(* before it.  A failing statement or a crash rolls back: Abort.             *)
(***************************************************************************)
EXTENDS Wallet, FiniteSetsExt

CONSTANTS
    Tribes,         \* tribes.id; numbers, since uuid order breaks ties
    Cities,         \* admin_boundaries.il_code
    Requests,       \* POST /v1/support calls; also supports.id
    NoTribe,        \* users.tribe_id IS NULL, and "no leader"
    NoRequest,      \* a request slot with nothing in flight
    InitialTribe,   \* the tribe each user had joined before the run
    Movable,        \* users who join or switch tribe during the run
    Moderated,      \* users whose status a moderator changes during the run
    Asks,           \* what requests ask for: user, city, credits_spent, and
                    \* the multiplier MultiplierFn answers (1, or 2 in a derby)
    Grants,         \* credit amounts granted
    GrantKeys,      \* idempotency keys of the grants
    Gaps,           \* clock advances between two time stamps
    DayLength       \* clock units in an Istanbul calendar day

ASSUME SpendAssumption ==
    /\ Tribes \subseteq Nat
    /\ NoTribe \notin Tribes
    /\ InitialTribe \in [Users -> Tribes \cup {NoTribe}]
    /\ Movable \subseteq Users
    /\ Moderated \subseteq Users
    /\ Asks \subseteq [user : Users, city : Cities, credits : Int, mult : Nat \ {0}]
    /\ Grants \subseteq Nat \ {0}
    /\ Gaps \subseteq Nat \ {0}
    /\ DayLength \in Nat \ {0}
    /\ Requests \cup GrantKeys \subseteq Keys
    /\ Requests \cap GrantKeys = {}

VARIABLES
    tribeOf,    \* users.tribe_id
    status,     \* users.status
    scores,     \* tribe_province_scores.effective_support_sum
    supports,   \* supports rows by id
    log,        \* conquest_log rows of each city, oldest first
    streak,     \* user_support_streaks
    clock,      \* last time stamp handed out
    pc,         \* progress of each request
    req         \* the local variables of a request in flight

userVars == <<tribeOf, status>>
tableVars == <<scores, supports, log, streak>>
requestVars == <<clock, pc, req>>
vars == <<walletVars, userVars, tableVars, requestVars>>

Statuses == {"active", "banned", "shadow_banned"}
Refused == {"rejected", "inert", "insufficient", "failed"}
InTx == {"cityLocked", "accountLocked"}
Phases == {"new", "loaded", "ok"} \cup InTx \cup Refused

RequestRow == [user : Users, city : Cities, credits : Nat \ {0}, mult : Nat \ {0},
               tribe : Tribes, shadow : BOOLEAN, now : Nat,
               prev : Tribes \cup {NoTribe}, next : Nat]
SupportRow == [user : Users, city : Cities, tribe : Tribes, credits : Nat \ {0},
               effective : Nat \ {0}, at : Nat, capture : Nat]
LogRow == [prev : Tribes \cup {NoTribe}, new : Tribes, at : Nat, causing : Requests]
StreakRow == [current : Nat, longest : Nat, last : Nat]

TypeOK ==
    /\ WalletTypeOK
    /\ tribeOf \in [Users -> Tribes \cup {NoTribe}]
    /\ status \in [Users -> Statuses]
    /\ scores \in [Tribes -> [Cities -> Nat]]
    /\ DOMAIN supports \subseteq Requests
    /\ supports \in [DOMAIN supports -> SupportRow]
    /\ log \in [Cities -> Seq(LogRow)]
    /\ streak \in [Users -> StreakRow]
    /\ clock \in Nat
    /\ pc \in [Requests -> Phases]
    /\ req \in [Requests -> RequestRow \cup {NoRequest}]
    /\ \A r \in Requests : pc[r] \in InTx \cup {"loaded"} => req[r] \in RequestRow

Init ==
    /\ WalletInit
    /\ tribeOf = InitialTribe
    /\ status = [u \in Users |-> "active"]
    /\ scores = [t \in Tribes |-> [c \in Cities |-> 0]]
    /\ supports = <<>>
    /\ log = [c \in Cities |-> <<>>]
    /\ streak = [u \in Users |-> [current |-> 0, longest |-> 0, last |-> 0]]
    /\ clock = 0
    /\ pc = [r \in Requests |-> "new"]
    /\ req = [r \in Requests |-> NoRequest]

-----------------------------------------------------------------------------
(* loadProvinceLeader: highest positive sum, lowest tribe id on a tie.       *)
Leads(sc, c, t) ==
    /\ sc[t][c] > 0
    /\ \A o \in Tribes :
          sc[o][c] < sc[t][c] \/ (sc[o][c] = sc[t][c] /\ t <= o)

Leader(sc, c) ==
    IF \E t \in Tribes : Leads(sc, c, t)
    THEN CHOOSE t \in Tribes : Leads(sc, c, t)
    ELSE NoTribe

LeaderChanged(prev, next) == next # NoTribe /\ next # prev

Day(t) == (t \div DayLength) + 1

(* Mutant: a second support on the same day counts as another day.           *)
NextStreak_SameDayCounts(row, today) ==
    [current |-> row.current + 1, last |-> today, longest |-> row.longest + 1]

(* NextStreak on Istanbul calendar days; last = 0 is a missing row.          *)
NextStreak(row, today) ==
    LET current == IF row.last = today THEN row.current
                   ELSE IF row.last # 0 /\ row.last = today - 1
                        THEN row.current + 1 ELSE 1
    IN [current |-> current, last |-> today,
        longest |-> IF current > row.longest THEN current ELSE row.longest]

(* Mutant: all untagged supports of the winner, whenever they were made.     *)
InCampaign_NoWindow(row, c, t, now) ==
    row.city = c /\ row.tribe = t /\ row.capture = 0

(* Mutant: lifetime supports, those of earlier captures included.            *)
InCampaign_Lifetime(row, c, t, now) == row.city = c /\ row.tribe = t

(* AttributeSupportsOnTx: the winner's untagged supports on the city made    *)
(* after it last lost the city, up to the flipping one.                      *)
InCampaign(row, c, t, now) ==
    /\ row.city = c
    /\ row.tribe = t
    /\ row.capture = 0
    /\ row.at <= now
    /\ \A i \in DOMAIN log[c] : log[c][i].prev = t => row.at > log[c][i].at

(* Mutant: the stored score misses the derby multiplier.                     *)
Scored_NoMultiplier(q) == [scores EXCEPT ![q.tribe][q.city] = @ + q.credits]

(* The score upsert: effective_support_sum + credits * multiplier.           *)
Scored(q) == [scores EXCEPT ![q.tribe][q.city] = @ + q.credits * q.mult]

-----------------------------------------------------------------------------
(* Join (first tribe) and Switch (after a cooldown, whose length is not      *)
(* modelled: any gap between two switches may have passed).                  *)
ChangeTribe(u, t) ==
    /\ tribeOf[u] # t
    /\ tribeOf' = [tribeOf EXCEPT ![u] = t]
    /\ UNCHANGED <<walletVars, status, tableVars, requestVars>>

(* Ban, ShadowBan, Unban.                                                    *)
SetStatus(u, s) ==
    /\ status[u] # s
    /\ status' = [status EXCEPT ![u] = s]
    /\ UNCHANGED <<walletVars, tribeOf, tableVars, requestVars>>

(* Mutant: the account is read without FOR UPDATE.                           *)
AccountFree_NoRowLock(u) == TRUE

(* Mutant: a second connection needs a row its own transaction holds.        *)
AccountFree_HeldByOwnTx(u) ==
    \A r \in Requests : pc[r] \in InTx => req[r].user # u

AccountFree(u) == \A r \in Requests : pc[r] = "accountLocked" => req[r].user # u

(* Mutant: the city row is not locked.                                       *)
CityFree_NoRowLock(c) == TRUE

CityFree(c) == \A r \in Requests : pc[r] \in InTx => req[r].city # c

(* GrantCredits in a transaction of its own: it waits for the account row.   *)
Grant(u, n, key) ==
    /\ AccountFree(u)
    /\ ApplyOnTx(u, n, "purchase", key)
    /\ UNCHANGED <<userVars, tableVars, requestVars>>

-----------------------------------------------------------------------------
(* A request ends: its locals go out of scope and its locks are released.    *)
Finish(r, phase) ==
    /\ pc' = [pc EXCEPT ![r] = phase]
    /\ req' = [req EXCEPT ![r] = NoRequest]

(* RequireSession refuses a banned user; Apply checks the amount, then apply *)
(* reads tribe and status in one query and asks the multiplier resolver.  A   *)
(* ban between the two reads has the effect of a ban after both: apply tests  *)
(* for shadow_banned only.                                                   *)
LoadUser(r, a) ==
    /\ pc[r] = "new"
    /\ IF status[a.user] = "banned" \/ a.credits <= 0 \/ tribeOf[a.user] = NoTribe
       THEN Finish(r, "rejected")
       ELSE /\ pc' = [pc EXCEPT ![r] = "loaded"]
            /\ req' = [req EXCEPT ![r] =
                  [user |-> a.user, city |-> a.city, credits |-> a.credits,
                   mult |-> a.mult, tribe |-> tribeOf[a.user],
                   shadow |-> status[a.user] = "shadow_banned",
                   now |-> 0, prev |-> NoTribe, next |-> 0]]
    /\ UNCHANGED <<walletVars, userVars, tableVars, clock>>

(* A shadow-banned user gets a success-shaped answer and nothing is written. *)
AnswerInert(r) ==
    /\ pc[r] = "loaded"
    /\ req[r].shadow
    /\ Finish(r, "inert")
    /\ UNCHANGED <<walletVars, userVars, tableVars, clock>>

(* Begin the transaction, lock the city, stamp the time, read the leader.    *)
LockCity(r) ==
    /\ pc[r] = "loaded"
    /\ ~req[r].shadow
    /\ CityFree(req[r].city)
    /\ \E gap \in Gaps : clock' = clock + gap
    /\ req' = [req EXCEPT ![r].now = clock', ![r].prev = Leader(scores, req[r].city)]
    /\ pc' = [pc EXCEPT ![r] = "cityLocked"]
    /\ UNCHANGED <<walletVars, userVars, tableVars>>

(* SpendCreditsOnTx up to the balance check; too few credits rolls back.     *)
LockAccount(r) ==
    /\ pc[r] = "cityLocked"
    /\ AccountFree(req[r].user)
    /\ IF Outcome(req[r].user, -req[r].credits, "support_spend", r) = "applied"
       THEN /\ pc' = [pc EXCEPT ![r] = "accountLocked"]
            /\ req' = [req EXCEPT ![r].next = balance[req[r].user] - req[r].credits]
       ELSE Finish(r, "insufficient")
    /\ UNCHANGED <<walletVars, userVars, tableVars, clock>>

(* Mutant: the debit commits in a transaction of its own (SpendCredits in     *)
(* place of SpendCreditsOnTx).                                               *)
Abort_DebitStays(r) ==
    /\ pc[r] \in InTx
    /\ Finish(r, "failed")
    /\ IF pc[r] = "accountLocked"
       THEN Post(req[r].user, -req[r].credits, req[r].next, "support_spend", r)
       ELSE UNCHANGED walletVars
    /\ UNCHANGED <<userVars, tableVars, clock>>

(* The rest of the transaction and COMMIT.                                   *)
CommitSupport(r) ==
    LET q == req[r]
        leader == Leader(Scored(q), q.city)
        flipped == LeaderChanged(q.prev, leader)
        entry == [prev |-> q.prev, new |-> leader, at |-> q.now, causing |-> r]
        row == [user |-> q.user, city |-> q.city, tribe |-> q.tribe,
                credits |-> q.credits, effective |-> q.credits * q.mult, at |-> q.now,
                capture |-> 0]
        capture == Len(log[q.city]) + 1
        Tagged(s) == IF flipped /\ InCampaign(s, q.city, leader, q.now)
                     THEN [s EXCEPT !.capture = capture] ELSE s
    IN
    /\ pc[r] = "accountLocked"
    /\ Post(q.user, -q.credits, q.next, "support_spend", r)
    /\ scores' = Scored(q)
    /\ streak' = [streak EXCEPT ![q.user] = NextStreak(@, Day(q.now))]
    /\ log' = IF flipped THEN [log EXCEPT ![q.city] = Append(@, entry)] ELSE log
    /\ supports' = [s \in DOMAIN supports \cup {r} |->
                       Tagged(IF s = r THEN row ELSE supports[s])]
    /\ Finish(r, "ok")
    /\ UNCHANGED <<userVars, clock>>

(* A statement fails, the client goes away or the process dies: rollback.    *)
Abort(r) ==
    /\ pc[r] \in InTx
    /\ Finish(r, "failed")
    /\ UNCHANGED <<walletVars, userVars, tableVars, clock>>

Progress(r) == AnswerInert(r) \/ LockCity(r) \/ LockAccount(r) \/ CommitSupport(r)

Next ==
    \/ \E u \in Movable, t \in Tribes : ChangeTribe(u, t)
    \/ \E u \in Moderated, s \in Statuses : SetStatus(u, s)
    \/ \E u \in Users, n \in Grants, key \in GrantKeys : Grant(u, n, key)
    \/ \E r \in Requests, a \in Asks : LoadUser(r, a)
    \/ \E r \in Requests : Progress(r)
    \/ \E r \in Requests : Abort(r)

Spec == Init /\ [][Next]_vars

-----------------------------------------------------------------------------
(* The contest the tables show: the holder of a city is the winner of its    *)
(* last capture.                                                             *)
Holder == [c \in Cities |-> IF log[c] = <<>> THEN NoTribe ELSE log[c][Len(log[c])].new]

Contest == INSTANCE CityContest WITH holder <- Holder

(* Every behaviour of the spend code is one of the lock-free contest: a       *)
(* committed support debits, scores and moves the city in one instant.       *)
ImplementsContest == Contest!ContestSpec

(* Safety                                                                  *)

(* A request that answered 200 wrote its supports row and exactly one ledger *)
(* row, for the same user and amount; any other request wrote neither (one   *)
(* transaction: SpendCreditsOnTx, "Callers that need atomic multi-table       *)
(* writes (e.g. support spend) must use this").                              *)
SpendIsAllOrNothing ==
    \A r \in Requests :
        LET paid == {u \in Users : \E row \in RowsOf(u) : row.key = r}
        IN IF pc[r] = "ok"
           THEN /\ r \in DOMAIN supports
                /\ paid = {supports[r].user}
                /\ SameMovement(supports[r].user, -supports[r].credits,
                                "support_spend", r)
           ELSE r \notin DOMAIN supports /\ paid = {}

(* tribe_province_scores is the sum of the committed effective supports:     *)
(* concurrent upserts lose nothing and count nothing twice.                  *)
ScoresMatchSupports ==
    \A t \in Tribes, c \in Cities :
        scores[t][c] = MapThenSumSet(LAMBDA s : supports[s].effective,
            {s \in DOMAIN supports : supports[s].tribe = t /\ supports[s].city = c})

(* conquest_log is the history of the leader of each city: it ends with the  *)
(* tribe that leads now, each row starts where the one before ended, and     *)
(* occurred_at grows ("a flip that is not logged is a data-integrity bug").  *)
LogExplainsLeader ==
    \A c \in Cities :
        /\ Leader(scores, c) =
               IF log[c] = <<>> THEN NoTribe ELSE log[c][Len(log[c])].new
        /\ \A i \in DOMAIN log[c] :
              /\ log[c][i].prev = IF i = 1 THEN NoTribe ELSE log[c][i-1].new
              /\ log[c][i].new # log[c][i].prev
              /\ i > 1 => log[c][i-1].at < log[c][i].at

(* A support made by the tribe that held the city is never attributed to a   *)
(* capture; one made by a challenger belongs to that tribe's first capture   *)
(* from then on, and to no other (attribution.go: "a recapture only includes *)
(* spends since the opponent took the city").                                *)
SupportsCountForFirstCapture ==
    \A s \in DOMAIN supports :
        LET row == supports[s]
            rows == log[row.city]
            held == \E i \in DOMAIN rows :
                        /\ rows[i].new = row.tribe
                        /\ rows[i].at < row.at
                        /\ i = Len(rows) \/ rows[i+1].at >= row.at
            captures == {i \in DOMAIN rows : rows[i].new = row.tribe /\ rows[i].at >= row.at}
        IN IF held \/ captures = {} THEN row.capture = 0
           ELSE /\ row.capture \in captures
                /\ \A i \in captures : row.capture <= i

(* The causing support of a capture is one of its attributed supports, made  *)
(* at the moment of the capture.                                             *)
CapturesHaveTheirCause ==
    \A c \in Cities : \A i \in DOMAIN log[c] :
        LET s == log[c][i].causing
        IN /\ s \in DOMAIN supports
           /\ supports[s].city = c
           /\ supports[s].capture = i
           /\ supports[s].at = log[c][i].at

(* A streak of n days ending on day d was earned: the user supported on each *)
(* of the days d-n+1 .. d.                                                   *)
StreakIsEarned ==
    \A u \in Users :
        /\ streak[u].current <= streak[u].longest
        /\ \A d \in streak[u].last - streak[u].current + 1 .. streak[u].last :
              \E s \in DOMAIN supports :
                  supports[s].user = u /\ Day(supports[s].at) = d

(* A request that has loaded its user can take its next step.                *)
MayGoOn(r) ==
    \/ pc[r] = "loaded" /\ (req[r].shadow \/ CityFree(req[r].city))
    \/ pc[r] = "cityLocked" /\ AccountFree(req[r].user)
    \/ pc[r] = "accountLocked"

(* o holds the row r waits for.                                              *)
Blocks(o, r) ==
    \/ pc[r] = "loaded" /\ pc[o] \in InTx /\ req[o].city = req[r].city
    \/ pc[r] = "cityLocked" /\ pc[o] = "accountLocked" /\ req[o].user = req[r].user

(* The two row locks are exclusive and always taken city first: a request     *)
(* that cannot go on waits for one transaction, and that one can go on, or     *)
(* waits for one that can.                                                   *)
LocksNeverDeadlock ==
    \A r \in Requests : pc[r] \in InTx \cup {"loaded"} /\ ~MayGoOn(r) =>
        \E o \in Requests :
            /\ \A p \in Requests : Blocks(p, r) <=> p = o
            /\ MayGoOn(o) \/ \E p \in Requests : Blocks(p, o) /\ MayGoOn(p)

(* Supporting on consecutive Istanbul days counts as a streak                 *)
(* (prompts/implementation-roadmap-and-prompts.md:305: "same day no change;   *)
(* yesterday +1; else reset to 1"): a user whose latest support day follows   *)
(* another one of its support days has a streak of 2 at least, ending there.  *)
ConsecutiveDaysMakeAStreak ==
    \A u \in Users :
        LET days == {Day(supports[s].at) : s \in {x \in DOMAIN supports : supports[x].user = u}}
        IN \A d \in days :
              (d - 1 \in days /\ \A e \in days : e <= d)
                  => streak[u].last = d /\ streak[u].current >= 2
=============================================================================
