-------------------------------- MODULE Store --------------------------------
(***************************************************************************)
(* What the game sells and rewards with credits: in-app purchases, the bonus     *)
(* promotion and the battle pass (backend/internal/monetization: iap.go,       *)
(* promo.go, battlepass.go, invoicing.go).                                    *)
(*                                                                         *)
(* A purchase is priced, with the promotion of that moment, before its          *)
(* transaction; the transaction inserts iap_purchases, unique by the store's    *)
(* transaction, and posts to the wallet under that transaction as key.  A claim  *)
(* reads which tiers are due and then takes them in one transaction.            *)
(*                                                                         *)
(* A transaction that meets another's uncommitted row waits for it, so each      *)
(* transaction is one action.                                                 *)
(***************************************************************************)
EXTENDS Wallet, FiniteSets

CONSTANTS
    Txns,           \* provider_transaction_id of purchases the store has verified
    PackOf,         \* PackOf[x]: credits of the pack
    Buys,           \* POST /v1/iap/verify requests
    Percents,       \* bonus_percent of the promotions an admin tries
    Tiers,          \* tiers of the active battle pass season
    Reward,         \* Reward[t]: credit_reward, 0 for none; every tier has a cosmetic
    XPRequired,     \* XPRequired[t]
    MaxXP,          \* bound on total_xp
    Claims,         \* POST battle-pass claims
    TierKey,        \* TierKey[t]: "battle_pass:<season>:<tier>"
    Nobody          \* no user, no request

PromoMinPercent == 1
PromoMaxPercent == 200

(* Mutant: no upper bound.                                                     *)
ValidPromoPercent_NoMax(percent) == percent >= PromoMinPercent

ValidPromoPercent(percent) == percent \in PromoMinPercent..PromoMaxPercent

ApplyBonus(base, percent) == base + (base * percent) \div 100

(* Assumed by the modules that use this one.  One tier of the season has a        *)
(* credit reward (migrations/0022_monetization.up.sql).                        *)
StoreAssumption ==
    /\ Txns \subseteq Keys /\ PackOf \in [Txns -> Nat \ {0}]
    /\ Reward \in [Tiers -> Nat]
    /\ \A t, s \in Tiers : Reward[t] > 0 /\ Reward[s] > 0 => t = s
    /\ XPRequired \in [Tiers -> Nat] /\ MaxXP \in Nat
    /\ TierKey \in [Tiers -> Keys \ Txns]
    /\ Nobody \notin [user : Users, credits : Nat]

VARIABLES
    iap,        \* iap_purchases by transaction: user and credits_granted
    invoices,   \* transactions with an invoice
    buy,        \* buy[b]: step, user, transaction and the credits it was priced at
    promo,      \* bonus_percent of the active promotion, 0 without one
    points,     \* points[u]: user_xp.total_xp
    enrolled,   \* users in user_battle_pass
    claims,     \* user_battle_pass_claims
    cosmetics,  \* user_cosmetics
    claim,      \* claim[c]: step, user and the tiers it found due
    denied      \* tier rewards a claim was refused over: <<user, tier>> (history)

buyVars == <<iap, invoices, buy, promo>>
passVars == <<points, enrolled, claims, cosmetics, claim, denied>>
storeVars == <<walletVars, buyVars, passVars>>

BuySteps == {"new", "priced", "granted", "rejected"}

StoreTypeOK ==
    /\ WalletTypeOK
    /\ iap \in [Txns -> [user : Users, credits : Nat] \cup {Nobody}]
    /\ invoices \subseteq Txns
    /\ buy \in [Buys -> [at : BuySteps, user : Users, txn : Txns, credits : Nat] \cup {Nobody}]
    /\ promo \in 0..PromoMaxPercent
    /\ points \in [Users -> 0..MaxXP] /\ enrolled \subseteq Users
    /\ claims \subseteq Users \X Tiers /\ cosmetics \subseteq Users \X Tiers
    /\ claim \in [Claims -> [at : {"read", "done", "failed"}, user : Users,
                             due : SUBSET Tiers] \cup {Nobody}]
    /\ denied \subseteq Users \X Tiers

StoreInit ==
    /\ WalletInit
    /\ iap = [x \in Txns |-> Nobody] /\ invoices = {}
    /\ buy = [b \in Buys |-> Nobody] /\ promo = 0
    /\ points = [u \in Users |-> 0] /\ enrolled = {} /\ claims = {} /\ cosmetics = {}
    /\ claim = [c \in Claims |-> Nobody] /\ denied = {}

-----------------------------------------------------------------------------
(* VerifyAndGrant up to the transaction: the pack, and the promotion of now.     *)
VerifyAndGrant(b, u, x) ==
    /\ buy[b] = Nobody
    /\ buy' = [buy EXCEPT ![b] = [at |-> "priced", user |-> u, txn |-> x,
                                  credits |-> ApplyBonus(PackOf[x], promo)]]
    /\ UNCHANGED <<walletVars, iap, invoices, promo, passVars>>

BuyEnds(b, step) == buy' = [buy EXCEPT ![b].at = step]

(* Mutant: a purchase that is there is priced again.                            *)
GrantVerified_Repriced(b) ==
    LET x == buy[b].txn
        u == buy[b].user
        amount == buy[b].credits
    IN /\ buy[b] # Nobody /\ buy[b].at = "priced"
       /\ IF \/ iap[x] # Nobody /\ iap[x].user # u
             \/ Outcome(u, amount, "purchase", x) \notin {"applied", "replayed"}
          THEN BuyEnds(b, "rejected") /\ UNCHANGED <<walletVars, iap, invoices>>
          ELSE /\ ApplyOnTx(u, amount, "purchase", x)
               /\ iap' = [iap EXCEPT ![x] = [user |-> u, credits |-> amount]]
               /\ invoices' = invoices \cup {x}
               /\ BuyEnds(b, "granted")
       /\ UNCHANGED <<promo, passVars>>

(* grantVerified's transaction: a new purchase is inserted, granted and invoiced; *)
(* one that is there belongs to its user, and is replayed at its old price.      *)
GrantVerified(b) ==
    LET x == buy[b].txn
        u == buy[b].user
        amount == IF iap[x] = Nobody THEN buy[b].credits ELSE iap[x].credits
    IN /\ buy[b] # Nobody /\ buy[b].at = "priced"
       /\ IF iap[x] # Nobody /\ iap[x].user # u
          THEN BuyEnds(b, "rejected") /\ UNCHANGED <<walletVars, iap, invoices>>
          ELSE IF Outcome(u, amount, "purchase", x) \notin {"applied", "replayed"}
          THEN BuyEnds(b, "rejected") /\ UNCHANGED <<walletVars, iap, invoices>>
          ELSE /\ ApplyOnTx(u, amount, "purchase", x)
               /\ iap' = [iap EXCEPT ![x] = [user |-> u, credits |-> amount]]
               /\ invoices' = IF iap[x] = Nobody THEN invoices \cup {x} ELSE invoices
               /\ BuyEnds(b, "granted")
       /\ UNCHANGED <<promo, passVars>>

(* Activate replaces the promotion there is; Deactivate needs one.              *)
Activate(percent) ==
    /\ ValidPromoPercent(percent) /\ promo' = percent
    /\ UNCHANGED <<walletVars, iap, invoices, buy, passVars>>
Deactivate ==
    /\ promo # 0 /\ promo' = 0
    /\ UNCHANGED <<walletVars, iap, invoices, buy, passVars>>

EarnXP(u) ==
    /\ points[u] < MaxXP /\ points' = [points EXCEPT ![u] = @ + 1]
    /\ UNCHANGED <<walletVars, buyVars, enrolled, claims, cosmetics, claim, denied>>

-----------------------------------------------------------------------------
Eligible(u) == {t \in Tiers : points[u] >= XPRequired[t]}
Unclaimed(u) == {t \in Tiers : <<u, t>> \notin claims}

(* Claim, Status: enrol, and list the tiers due.                               *)
ReadStatus(c, u) ==
    /\ claim[c] = Nobody
    /\ enrolled' = enrolled \cup {u}
    /\ claim' = [claim EXCEPT ![c] = [at |-> IF Eligible(u) \cap Unclaimed(u) = {}
                                             THEN "done" ELSE "read",
                                      user |-> u, due |-> Eligible(u) \cap Unclaimed(u)]]
    /\ UNCHANGED <<walletVars, buyVars, points, claims, cosmetics, denied>>

ClaimEnds(c, step) == claim' = [claim EXCEPT ![c].at = step]

(* The key of a tier's reward in the ledger names the tier only.                *)
Paying(u, tiers) == {t \in tiers : Reward[t] > 0}
Refused(u, tiers) ==
    {t \in Paying(u, tiers) : Outcome(u, Reward[t], "admin_adjust", TierKey[t]) = "conflict"}

(* Claim's transaction: rows other claims have inserted meanwhile are skipped, a   *)
(* credit reward is posted, and a key conflict undoes the whole claim.             *)
ClaimTiers(c) ==
    LET u == claim[c].user
        taken == claim[c].due \cap Unclaimed(u)
    IN /\ claim[c] # Nobody /\ claim[c].at = "read"
       /\ IF Refused(u, taken) # {}
          THEN /\ ClaimEnds(c, "failed")
               /\ denied' = denied \cup ({u} \X Refused(u, taken))
               /\ UNCHANGED <<walletVars, claims, cosmetics>>
          ELSE /\ IF Paying(u, taken) = {} THEN UNCHANGED walletVars
                  ELSE \E t \in Paying(u, taken) :
                           ApplyOnTx(u, Reward[t], "admin_adjust", TierKey[t])
               /\ claims' = claims \cup ({u} \X taken)
               /\ cosmetics' = cosmetics \cup ({u} \X taken)
               /\ ClaimEnds(c, "done")
               /\ UNCHANGED denied
       /\ UNCHANGED <<buyVars, points, enrolled>>

BuyNext ==
    \/ \E b \in Buys : GrantVerified(b) \/ \E u \in Users, x \in Txns : VerifyAndGrant(b, u, x)
    \/ \E percent \in Percents : Activate(percent)
    \/ Deactivate
PassNext ==
    \/ \E u \in Users : EarnXP(u)
    \/ \E c \in Claims : ClaimTiers(c) \/ \E u \in Users : ReadStatus(c, u)
StoreNext == BuyNext \/ PassNext

StoreSpec == StoreInit /\ [][StoreNext]_storeVars

-----------------------------------------------------------------------------
(* A purchase the store has verified once is granted once, to one user, at the     *)
(* price it was inserted with, and has one invoice, however often and under        *)
(* whatever promotion it is sent again; another user's attempt is rejected.        *)
(* A tier pays its claimant once (iap.go: "Duplicate provider_transaction_id       *)
(* grants exactly once").                                                     *)
StoreGrantsOnce ==
    /\ BalanceMatchesLedger /\ KeysMoveCreditsOnce
    /\ \A x \in Txns :
          /\ iap[x] = Nobody => ~KeyUsed(x) /\ x \notin invoices
          /\ iap[x] # Nobody =>
                /\ x \in invoices
                /\ SameMovement(iap[x].user, iap[x].credits, "purchase", x)
    /\ \A b \in Buys : buy[b] # Nobody =>
          /\ buy[b].at = "granted" => iap[buy[b].txn].user = buy[b].user
          /\ buy[b].at = "rejected" => iap[buy[b].txn].user # buy[b].user
    /\ cosmetics = claims
    /\ \A u \in Users, t \in Tiers :
          Reward[t] > 0 =>
             (<<u, t>> \in claims <=> \E row \in RowsOf(u) : row.key = TierKey[t])

(* No claim of a user who has earned a tier is refused (battlepass.go: "Claim      *)
(* unlocks all eligible unclaimed tiers for the active season").                *)
ClaimsUnlockEligibleTiers == denied = {}
=============================================================================
