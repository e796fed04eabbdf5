----------------------------- MODULE StoreProofs -----------------------------
(***************************************************************************)
(* The store pays once and keeps its types, for any users, purchases, promotions   *)
(* and claims.                                                               *)
(***************************************************************************)
EXTENDS Store, WalletProofs

(* Rows of the tables the transactions go by.                                  *)
BuyRow(row) ==
    /\ row = [at |-> row.at, user |-> row.user, txn |-> row.txn, credits |-> row.credits]
    /\ row.user \in Users /\ row.txn \in Txns /\ row.credits \in Nat \ {0}

ClaimRow(row) ==
    /\ row = [at |-> row.at, user |-> row.user, due |-> row.due]
    /\ row.user \in Users /\ row.due \subseteq Tiers

StoreShape ==
    /\ iap \in [Txns -> [user : Users, credits : Nat \ {0}] \cup {Nobody}]
    /\ buy = [b \in Buys |-> buy[b]]
    /\ \A b \in Buys : buy[b] # Nobody => BuyRow(buy[b])
    /\ claim = [c \in Claims |-> claim[c]]
    /\ \A c \in Claims : claim[c] # Nobody => ClaimRow(claim[c])
    /\ promo \in Nat

(* A purchase has its row in the ledger and its invoice, or neither.             *)
Granted(x) ==
    /\ iap[x] = Nobody => ~KeyUsed(x) /\ x \notin invoices
    /\ iap[x] # Nobody =>
          x \in invoices /\ SameMovement(iap[x].user, iap[x].credits, "purchase", x)

(* An answered request was answered for the one user of the purchase.             *)
Answered(b) ==
    buy[b] # Nobody =>
       /\ buy[b].at \in {"granted", "rejected"} => iap[buy[b].txn] # Nobody
       /\ buy[b].at = "granted" => iap[buy[b].txn].user = buy[b].user
       /\ buy[b].at = "rejected" => iap[buy[b].txn].user # buy[b].user

(* A tier with a reward is claimed by the users whom the ledger shows it paid to.  *)
TierPaid(u, t) ==
    Reward[t] > 0 => (<<u, t>> \in claims <=> \E row \in RowsOf(u) : row.key = TierKey[t])

StoreInv ==
    /\ WalletInv /\ StoreShape
    /\ \A x \in Txns : Granted(x)
    /\ \A b \in Buys : Answered(b)
    /\ cosmetics = claims
    /\ \A u \in Users, t \in Tiers : TierPaid(u, t)

LEMMA StoreStarts == StoreInit => StoreInv
  <1> SUFFICES ASSUME StoreInit PROVE StoreInv
    OBVIOUS
  <1>1. WalletInv
    BY WalletInitInv DEF StoreInit
  <1>2. StoreShape
    BY DEF StoreInit, StoreShape
  <1>3. ASSUME NEW u \in Users PROVE RowsOf(u) = {}
    <2>1. ledger[u] = <<>> /\ DOMAIN ledger[u] = {}
      BY DEF StoreInit, WalletInit
    <2> QED BY <2>1 DEF RowsOf
  <1>4. \A x \in Txns : Granted(x)
    BY <1>3 DEF StoreInit, Granted, KeyUsed
  <1>5. \A b \in Buys : Answered(b)
    BY DEF StoreInit, Answered
  <1>6. cosmetics = claims /\ \A u \in Users, t \in Tiers : TierPaid(u, t)
    BY <1>3 DEF StoreInit, TierPaid
  <1> QED BY <1>1, <1>2, <1>4, <1>5, <1>6 DEF StoreInv

LEMMA StoreInvGrants == StoreInv => StoreGrantsOnce
  BY DEF StoreInv, StoreGrantsOnce, WalletInv, Granted, Answered, TierPaid

-----------------------------------------------------------------------------
(* Steps that leave the wallet and the purchases as they are.                     *)
LEMMA QuietStep ==
    ASSUME StoreInv, UNCHANGED <<walletVars, iap, invoices, claims, cosmetics>>, StoreShape',
           \A b \in Buys : Answered(b)'
    PROVE  StoreInv'
  <1>1. WalletInv'
    BY DEF StoreInv, WalletInv, walletVars, WalletTypeOK, BalanceMatchesLedger, KeysMoveCreditsOnce
  <1>2. \A x \in Txns : Granted(x)'
    BY DEF StoreInv, Granted, walletVars, KeyUsed, RowsOf, SameMovement
  <1>3. \A u \in Users, t \in Tiers : TierPaid(u, t)'
    BY DEF StoreInv, TierPaid, walletVars, RowsOf
  <1> QED BY <1>1, <1>2, <1>3 DEF StoreInv

LEMMA BonusIsPositive ==
    ASSUME NEW base \in Nat \ {0}, NEW percent \in Nat PROVE ApplyBonus(base, percent) \in Nat \ {0}
  <1>1. PICK m \in Nat : m = base * percent
    OBVIOUS
  <1>2. m \div 100 \in Nat
    OBVIOUS
  <1> QED BY <1>1, <1>2 DEF ApplyBonus

(* Pricing: a request that has no answer yet.                                   *)
LEMMA PricingKeepsStore ==
    ASSUME StoreAssumption, StoreInv, NEW b \in Buys, NEW u \in Users, NEW x \in Txns,
           VerifyAndGrant(b, u, x)
    PROVE  StoreInv'
  <1> PICK credits \in Nat \ {0} : credits = ApplyBonus(PackOf[x], promo)
    BY BonusIsPositive DEF StoreAssumption, StoreInv, StoreShape
  <1> PICK row : row = [at |-> "priced", user |-> u, txn |-> x, credits |-> credits]
    OBVIOUS
  <1>1. buy' = [buy EXCEPT ![b] = row]
    BY DEF VerifyAndGrant
  <1>2. UNCHANGED <<walletVars, iap, invoices, claims, cosmetics, claim, promo>>
    BY DEF VerifyAndGrant, passVars
  <1>3. \A c \in Buys : buy'[c] = IF c = b THEN row ELSE buy[c]
    BY <1>1 DEF StoreInv, StoreShape
  <1>4. BuyRow(row)
    BY DEF BuyRow
  <1>5. StoreShape'
    BY <1>1, <1>2, <1>3, <1>4 DEF StoreInv, StoreShape
  <1>6. \A c \in Buys : Answered(c)'
    BY <1>2, <1>3 DEF StoreInv, Answered
  <1> QED BY <1>2, <1>5, <1>6, QuietStep

(* A request's answer.                                                        *)
EndsAt(b, step) ==
    /\ \A c \in Buys \ {b} : buy'[c] = buy[c]
    /\ BuyRow(buy'[b]) /\ buy'[b].at = step
    /\ buy'[b].user = buy[b].user /\ buy'[b].txn = buy[b].txn
    /\ buy' = [c \in Buys |-> buy'[c]]

LEMMA BuyEndsAt ==
    ASSUME StoreShape, NEW b \in Buys, buy[b] # Nobody, NEW step, BuyEnds(b, step)
    PROVE  EndsAt(b, step)
  <1>1. PICK row : row = buy[b] /\ BuyRow(row)
    BY DEF StoreShape
  <1>2. PICK next : next = [at |-> step, user |-> row.user, txn |-> row.txn,
                            credits |-> row.credits]
    OBVIOUS
  <1>3. [row EXCEPT !.at = step] = next /\ BuyRow(next) /\ next.at = step
        /\ next.user = row.user /\ next.txn = row.txn
    BY <1>1, <1>2 DEF BuyRow
  <1>4. buy' = [buy EXCEPT ![b] = next]
    BY <1>1, <1>3 DEF BuyEnds
  <1> QED BY <1>1, <1>3, <1>4 DEF EndsAt, StoreShape

LEMMA RejectKeepsStore ==
    ASSUME StoreInv, NEW b \in Buys, buy[b] # Nobody, EndsAt(b, "rejected"),
           iap[buy[b].txn] # Nobody, iap[buy[b].txn].user # buy[b].user,
           UNCHANGED <<walletVars, iap, invoices, claims, cosmetics, claim, promo>>
    PROVE  StoreInv'
  <1>1. StoreShape'
    BY DEF StoreInv, StoreShape, EndsAt
  <1>2. \A c \in Buys : Answered(c)'
    BY DEF StoreInv, Answered, EndsAt
  <1> QED BY <1>1, <1>2, QuietStep

(* A movement under one key leaves the rows of every other key as they are.       *)
LEMMA OtherKeys ==
    ASSUME StoreInv, NEW u \in Users, NEW delta \in Int, NEW reason \in Reasons, NEW key \in Keys,
           ApplyOnTx(u, delta, reason, key)
    PROVE  /\ WalletInv'
           /\ \A other \in Keys \ {key} : KeyUsed(other)' <=> KeyUsed(other)
           /\ \A v \in Users, other \in Keys : other # key \/ v # u =>
                 ((\E row \in RowsOf(v)' : row.key = other) <=> \E row \in RowsOf(v) : row.key = other)
           /\ \A v \in Users : \A d, r, other : SameMovement(v, d, r, other) => SameMovement(v, d, r, other)'
  <1>1. WalletInv /\ WalletTypeOK
    BY DEF StoreInv, WalletInv
  <1>2. \A v \in Users : RowsOf(v) \subseteq RowsOf(v)'
    BY <1>1, ApplyOnlyAdds
  <1>3. \A v \in Users : \A row \in RowsOf(v)' : row \in RowsOf(v) \/ (v = u /\ row.key = key)
    BY <1>1, ApplyAddsOne
  <1>4. WalletInv'
    BY <1>1, ApplyKeepsWallet
  <1>5. \A other \in Keys \ {key} : KeyUsed(other)' <=> KeyUsed(other)
    BY <1>2, <1>3 DEF KeyUsed
  <1>6. \A v \in Users, other \in Keys : other # key \/ v # u =>
           ((\E row \in RowsOf(v)' : row.key = other) <=> \E row \in RowsOf(v) : row.key = other)
    BY <1>2, <1>3
  <1>7. \A v \in Users : \A d, r, other : SameMovement(v, d, r, other) => SameMovement(v, d, r, other)'
    BY <1>2 DEF SameMovement
  <1> QED BY <1>4, <1>5, <1>6, <1>7
(* The purchase of a request is granted, or was granted already: the ledger has it *)
(* and so has iap_purchases, at the price it was first inserted with.             *)
LEMMA GrantKeepsStore ==
    ASSUME StoreAssumption, StoreInv, NEW b \in Buys, buy[b] # Nobody, EndsAt(b, "granted"),
           NEW u \in Users, u = buy[b].user, NEW x \in Txns, x = buy[b].txn,
           NEW amount \in Nat \ {0},
           iap[x] # Nobody => iap[x].user = u /\ amount = iap[x].credits,
           ApplyOnTx(u, amount, "purchase", x),
           iap' = [iap EXCEPT ![x] = [user |-> u, credits |-> amount]],
           invoices' = IF iap[x] = Nobody THEN invoices \cup {x} ELSE invoices,
           UNCHANGED <<claims, cosmetics, claim, promo>>
    PROVE  StoreInv'
  <1> PICK row : row = [user |-> u, credits |-> amount]
    OBVIOUS
  <1>1. x \in Keys /\ amount \in Int /\ "purchase" \in Reasons /\ row # Nobody
        /\ row.user = u /\ row.credits = amount
    BY DEF StoreAssumption, Reasons
  <1>2. /\ WalletInv'
        /\ \A other \in Keys \ {x} : KeyUsed(other)' <=> KeyUsed(other)
        /\ \A v \in Users, other \in Keys : other # x =>
              ((\E r \in RowsOf(v)' : r.key = other) <=> \E r \in RowsOf(v) : r.key = other)
        /\ \A v \in Users : \A d, r, other : SameMovement(v, d, r, other) => SameMovement(v, d, r, other)'
    BY <1>1, OtherKeys
  <1>3. \A y \in Txns : iap'[y] = IF y = x THEN row ELSE iap[y]
    BY DEF StoreInv, StoreShape
  <1>4. iap[x] # Nobody => iap[x] = row
    BY DEF StoreInv, StoreShape
  <1>5. StoreShape'
    <2>1. iap' \in [Txns -> [user : Users, credits : Nat \ {0}] \cup {Nobody}]
      BY DEF StoreInv, StoreShape
    <2> QED BY <2>1 DEF StoreInv, StoreShape, EndsAt
  <1>6. SameMovement(u, amount, "purchase", x)'
    <2>1. CASE iap[x] # Nobody
      <3>1. SameMovement(u, amount, "purchase", x)
        BY <2>1 DEF StoreInv, Granted
      <3> QED BY <1>2, <3>1
    <2>2. CASE iap[x] = Nobody
      <3>1. ~KeyUsed(x)
        BY <2>2 DEF StoreInv, Granted
      <3>2. Outcome(u, amount, "purchase", x) = "applied" /\ WalletTypeOK
        <4>1. balance[u] \in Nat
          BY DEF StoreInv, WalletInv, WalletTypeOK
        <4> QED BY <3>1, <4>1 DEF Outcome, StoreInv, WalletInv
      <3> QED BY <1>1, <3>2, ApplyAddsOne
    <2> QED BY <2>1, <2>2
  <1>7. ASSUME NEW y \in Txns PROVE Granted(y)'
    <2>1. Granted(y) /\ y \in Keys
      BY DEF StoreInv, StoreAssumption
    <2>2. CASE y = x
      BY <1>1, <1>3, <1>6, <2>1, <2>2 DEF Granted
    <2>3. CASE y # x
      <3>1. iap'[y] = iap[y] /\ (KeyUsed(y)' <=> KeyUsed(y)) /\ (y \in invoices' <=> y \in invoices)
        BY <1>2, <1>3, <2>1, <2>3
      <3>2. iap[y] # Nobody => iap[y].user \in Users
        BY DEF StoreInv, StoreShape
      <3> QED BY <1>2, <2>1, <3>1, <3>2 DEF Granted
    <2> QED BY <2>2, <2>3
  <1>8. ASSUME NEW c \in Buys PROVE Answered(c)'
    <2>1. Answered(c) /\ (buy[c] # Nobody => buy[c].txn \in Txns)
      BY DEF StoreInv, StoreShape, BuyRow
    <2>2. CASE c = b
      BY <1>1, <1>3, <2>2 DEF Answered, EndsAt
    <2>3. CASE c # b
      <3>1. buy'[c] = buy[c]
        BY <2>3 DEF EndsAt
      <3>2. \A y \in Txns : iap[y] # Nobody => iap'[y] = iap[y]
        BY <1>3, <1>4
      <3> QED BY <2>1, <3>1, <3>2 DEF Answered
    <2> QED BY <2>2, <2>3
  <1>9. ASSUME NEW v \in Users, NEW t \in Tiers PROVE TierPaid(v, t)'
    <2>1. TierKey[t] \in Keys /\ TierKey[t] # x /\ TierPaid(v, t)
      BY DEF StoreAssumption, StoreInv
    <2> QED BY <1>2, <2>1 DEF TierPaid
  <1> QED BY <1>2, <1>5, <1>7, <1>8, <1>9 DEF StoreInv

LEMMA GrantVerifiedKeepsStore ==
    ASSUME StoreAssumption, StoreInv, NEW b \in Buys, GrantVerified(b) PROVE StoreInv'
  <1>1. buy[b] # Nobody /\ BuyRow(buy[b]) /\ StoreShape
    BY DEF GrantVerified, StoreInv, StoreShape
  <1> PICK u \in Users, x \in Txns : u = buy[b].user /\ x = buy[b].txn
    BY <1>1 DEF BuyRow
  <1> PICK amount \in Nat \ {0} : amount = IF iap[x] = Nobody THEN buy[b].credits ELSE iap[x].credits
    BY <1>1 DEF BuyRow, StoreShape
  <1>2. UNCHANGED <<promo, claims, cosmetics, claim>>
    BY DEF GrantVerified, passVars
  <1>3. CASE iap[x] # Nobody /\ iap[x].user # u
    <2>1. BuyEnds(b, "rejected") /\ UNCHANGED <<walletVars, iap, invoices>>
      BY <1>3 DEF GrantVerified
    <2> QED BY <1>1, <1>2, <1>3, <2>1, BuyEndsAt, RejectKeepsStore
  <1>4. CASE ~(iap[x] # Nobody /\ iap[x].user # u)
    <2>1. Outcome(u, amount, "purchase", x) \in {"applied", "replayed"}
      <3>1. balance[u] \in Nat
        BY DEF StoreInv, WalletInv, WalletTypeOK
      <3>2. CASE iap[x] = Nobody
        <4>1. ~KeyUsed(x)
          BY <3>2 DEF StoreInv, Granted
        <4> QED BY <3>1, <4>1 DEF Outcome
      <3>3. CASE iap[x] # Nobody
        <4>1. SameMovement(u, amount, "purchase", x)
          BY <1>4, <3>3 DEF StoreInv, Granted
        <4> QED BY <3>1, <4>1 DEF Outcome
      <3> QED BY <3>2, <3>3
    <2>2. /\ ApplyOnTx(u, amount, "purchase", x) /\ BuyEnds(b, "granted")
          /\ iap' = [iap EXCEPT ![x] = [user |-> u, credits |-> amount]]
          /\ invoices' = IF iap[x] = Nobody THEN invoices \cup {x} ELSE invoices
      BY <1>4, <2>1 DEF GrantVerified
    <2>3. EndsAt(b, "granted")
      BY <1>1, <2>2, BuyEndsAt
    <2>4. iap[x] # Nobody => iap[x].user = u /\ amount = iap[x].credits
      BY <1>4
    <2> QED BY <1>1, <1>2, <2>2, <2>3, <2>4, GrantKeepsStore
  <1> QED BY <1>3, <1>4

(* Promotions and experience.                                                 *)
LEMMA OtherwiseKeepsStore ==
    ASSUME StoreInv, UNCHANGED <<walletVars, iap, invoices, claims, cosmetics, buy>>,
           claim' = claim, promo' \in Nat
    PROVE  StoreInv'
  <1>1. StoreShape'
    BY DEF StoreInv, StoreShape
  <1>2. \A b \in Buys : Answered(b)'
    BY DEF StoreInv, Answered
  <1> QED BY <1>1, <1>2, QuietStep

(* A claim moves on without a payment.                                         *)
LEMMA ClaimKeepsStore ==
    ASSUME StoreInv, UNCHANGED <<walletVars, iap, invoices, claims, cosmetics, buy, promo>>,
           NEW c \in Claims, NEW row, ClaimRow(row), claim' = [claim EXCEPT ![c] = row]
    PROVE  StoreInv'
  <1>1. StoreShape'
    BY DEF StoreInv, StoreShape
  <1>2. \A b \in Buys : Answered(b)'
    BY DEF StoreInv, Answered
  <1> QED BY <1>1, <1>2, QuietStep

LEMMA ReadStatusKeepsStore ==
    ASSUME StoreInv, NEW c \in Claims, NEW u \in Users, ReadStatus(c, u) PROVE StoreInv'
  <1> PICK due : due = Eligible(u) \cap Unclaimed(u)
    OBVIOUS
  <1> PICK at : at = IF due = {} THEN "done" ELSE "read"
    OBVIOUS
  <1> PICK row : row = [at |-> at, user |-> u, due |-> due]
    OBVIOUS
  <1>1. ClaimRow(row)
    BY DEF ClaimRow, Eligible
  <1>2. claim' = [claim EXCEPT ![c] = row]
    BY DEF ReadStatus
  <1>3. UNCHANGED <<walletVars, iap, invoices, claims, cosmetics, buy, promo>>
    BY DEF ReadStatus, buyVars
  <1> QED BY <1>1, <1>2, <1>3, ClaimKeepsStore

LEMMA ClaimEndsAt ==
    ASSUME StoreShape, NEW c \in Claims, claim[c] # Nobody, NEW step, ClaimEnds(c, step)
    PROVE  \E row : ClaimRow(row) /\ row.at = step /\ claim' = [claim EXCEPT ![c] = row]
  <1>1. PICK old : old = claim[c] /\ ClaimRow(old)
    BY DEF StoreShape
  <1>2. PICK row : row = [at |-> step, user |-> old.user, due |-> old.due]
    OBVIOUS
  <1>3. [old EXCEPT !.at = step] = row /\ ClaimRow(row) /\ row.at = step
    BY <1>1, <1>2 DEF ClaimRow
  <1>4. claim' = [claim EXCEPT ![c] = row]
    BY <1>1, <1>3 DEF ClaimEnds
  <1> QED BY <1>3, <1>4

(* A claim takes the tiers that are still unclaimed, and is paid for the one that   *)
(* has a reward if it is among them.                                           *)
LEMMA PaidClaimKeepsStore ==
    ASSUME StoreAssumption, StoreInv, NEW c \in Claims, NEW row, ClaimRow(row),
           claim' = [claim EXCEPT ![c] = row], NEW u \in Users, NEW taken \in SUBSET Tiers,
           taken \subseteq Unclaimed(u), Refused(u, taken) = {},
           IF Paying(u, taken) = {} THEN UNCHANGED walletVars
           ELSE \E t \in Paying(u, taken) : ApplyOnTx(u, Reward[t], "admin_adjust", TierKey[t]),
           claims' = claims \cup ({u} \X taken), cosmetics' = cosmetics \cup ({u} \X taken),
           UNCHANGED <<iap, invoices, buy, promo>>
    PROVE  StoreInv'
  <1>1. StoreShape'
    BY DEF StoreInv, StoreShape
  <1>2. \A b \in Buys : Answered(b)'
    BY DEF StoreInv, Answered
  <1>3. cosmetics' = claims'
    BY DEF StoreInv
  <1>4. ASSUME NEW v \in Users, NEW t \in Tiers
        PROVE  <<v, t>> \in claims' <=> <<v, t>> \in claims \/ (v = u /\ t \in taken)
    OBVIOUS
  <1>5. CASE Paying(u, taken) = {}
    <2>1. UNCHANGED walletVars
      BY <1>5
    <2>2. WalletInv'
      BY <2>1 DEF StoreInv, WalletInv, walletVars, WalletTypeOK, BalanceMatchesLedger,
                  KeysMoveCreditsOnce
    <2>3. \A x \in Txns : Granted(x)'
      BY <2>1 DEF StoreInv, Granted, walletVars, KeyUsed, RowsOf, SameMovement
    <2>4. ASSUME NEW v \in Users, NEW t \in Tiers PROVE TierPaid(v, t)'
      BY <1>4, <1>5, <2>1 DEF StoreInv, TierPaid, Paying, walletVars, RowsOf
    <2> QED BY <1>1, <1>2, <1>3, <2>2, <2>3, <2>4 DEF StoreInv
  <1>6. CASE Paying(u, taken) # {}
    <2>1. PICK t0 \in Paying(u, taken) : ApplyOnTx(u, Reward[t0], "admin_adjust", TierKey[t0])
      BY <1>6
    <2> PICK delta \in Nat \ {0}, key \in Keys : delta = Reward[t0] /\ key = TierKey[t0]
      BY DEF Paying, StoreAssumption
    <2>2. /\ ApplyOnTx(u, delta, "admin_adjust", key) /\ delta \in Int /\ "admin_adjust" \in Reasons
          /\ key \notin Txns /\ t0 \in taken /\ t0 \in Tiers
      BY <2>1 DEF StoreAssumption, Reasons, Paying
    <2>3. /\ WalletInv'
          /\ \A other \in Keys \ {key} : KeyUsed(other)' <=> KeyUsed(other)
          /\ \A v \in Users, other \in Keys : other # key \/ v # u =>
                ((\E r \in RowsOf(v)' : r.key = other) <=> \E r \in RowsOf(v) : r.key = other)
          /\ \A v \in Users : \A d, r, other :
                SameMovement(v, d, r, other) => SameMovement(v, d, r, other)'
      BY <2>2, OtherKeys
    <2>4. ASSUME NEW x \in Txns PROVE Granted(x)'
      <3>1. x \in Keys /\ x # key /\ Granted(x)
        BY <2>2 DEF StoreAssumption, StoreInv
      <3>2. iap[x] # Nobody => iap[x].user \in Users
        BY DEF StoreInv, StoreShape
      <3> QED BY <2>3, <3>1, <3>2 DEF Granted
    <2>5. SameMovement(u, delta, "admin_adjust", key)'
      <3>1. balance[u] \in Nat /\ WalletTypeOK
        BY DEF StoreInv, WalletInv, WalletTypeOK
      <3>2. Outcome(u, delta, "admin_adjust", key) # "conflict"
        BY <2>1 DEF Refused
      <3>3. CASE KeyUsed(key)
        <4>1. SameMovement(u, delta, "admin_adjust", key)
          BY <3>1, <3>2, <3>3 DEF Outcome
        <4> QED BY <2>3, <4>1
      <3>4. CASE ~KeyUsed(key)
        <4>1. Outcome(u, delta, "admin_adjust", key) = "applied"
          BY <3>1, <3>4 DEF Outcome
        <4> QED BY <2>2, <3>1, <4>1, ApplyAddsOne
      <3> QED BY <3>3, <3>4
    <2>6. \E r \in RowsOf(u)' : r.key = key
      BY <2>5 DEF SameMovement
    <2>7. ASSUME NEW v \in Users, NEW t \in Tiers PROVE TierPaid(v, t)'
      <3> SUFFICES ASSUME Reward[t] > 0 PROVE TierPaid(v, t)'
        BY DEF TierPaid
      <3>1. t = t0 /\ TierKey[t] = key
        BY <2>2 DEF StoreAssumption, Paying
      <3>2. CASE v = u
        BY <1>4, <2>2, <2>6, <3>1, <3>2 DEF TierPaid
      <3>3. CASE v # u
        BY <1>4, <2>3, <3>1, <3>3 DEF TierPaid, StoreInv
      <3> QED BY <3>2, <3>3
    <2> QED BY <1>1, <1>2, <1>3, <2>3, <2>4, <2>7 DEF StoreInv
  <1> QED BY <1>5, <1>6

LEMMA ClaimTiersKeepsStore ==
    ASSUME StoreAssumption, StoreInv, NEW c \in Claims, ClaimTiers(c) PROVE StoreInv'
  <1>1. claim[c] # Nobody /\ StoreShape
    BY DEF ClaimTiers, StoreInv
  <1> PICK u \in Users, due \in SUBSET Tiers : u = claim[c].user /\ due = claim[c].due
    BY <1>1 DEF StoreShape, ClaimRow
  <1> PICK taken \in SUBSET Tiers : taken = due \cap Unclaimed(u)
    OBVIOUS
  <1>2. UNCHANGED <<iap, invoices, buy, promo>> /\ taken \subseteq Unclaimed(u)
    BY DEF ClaimTiers, buyVars
  <1>3. CASE Refused(u, taken) # {}
    <2>1. ClaimEnds(c, "failed") /\ UNCHANGED <<walletVars, claims, cosmetics>>
      BY <1>3 DEF ClaimTiers
    <2>2. PICK row : ClaimRow(row) /\ claim' = [claim EXCEPT ![c] = row]
      BY <1>1, <2>1, ClaimEndsAt
    <2> QED BY <1>2, <2>1, <2>2, ClaimKeepsStore
  <1>4. CASE Refused(u, taken) = {}
    <2>1. /\ IF Paying(u, taken) = {} THEN UNCHANGED walletVars
             ELSE \E t \in Paying(u, taken) : ApplyOnTx(u, Reward[t], "admin_adjust", TierKey[t])
          /\ claims' = claims \cup ({u} \X taken) /\ cosmetics' = cosmetics \cup ({u} \X taken)
          /\ ClaimEnds(c, "done")
      BY <1>4 DEF ClaimTiers
    <2>2. PICK row : ClaimRow(row) /\ claim' = [claim EXCEPT ![c] = row]
      BY <1>1, <2>1, ClaimEndsAt
    <2> QED BY <1>2, <1>4, <2>1, <2>2, PaidClaimKeepsStore
  <1> QED BY <1>3, <1>4

LEMMA StoreStep ==
    ASSUME StoreAssumption, StoreInv, StoreNext \/ UNCHANGED storeVars PROVE StoreInv'
  <1>1. ASSUME NEW b \in Buys, NEW u \in Users, NEW x \in Txns, VerifyAndGrant(b, u, x) PROVE StoreInv'
    BY <1>1, PricingKeepsStore
  <1>2. ASSUME NEW b \in Buys, GrantVerified(b) PROVE StoreInv'
    BY <1>2, GrantVerifiedKeepsStore
  <1>3. ASSUME NEW percent, Activate(percent) PROVE StoreInv'
    BY <1>3, OtherwiseKeepsStore
       DEF Activate, ValidPromoPercent, PromoMinPercent, PromoMaxPercent, passVars
  <1>4. ASSUME Deactivate PROVE StoreInv'
    BY <1>4, OtherwiseKeepsStore DEF Deactivate, passVars
  <1>5. promo \in Nat
    BY DEF StoreInv, StoreShape
  <1>6. ASSUME NEW u \in Users, EarnXP(u) PROVE StoreInv'
    BY <1>5, <1>6, OtherwiseKeepsStore DEF EarnXP, buyVars
  <1>7. CASE UNCHANGED storeVars
    BY <1>5, <1>7, OtherwiseKeepsStore DEF storeVars, buyVars, passVars
  <1> QED BY <1>1, <1>2, <1>3, <1>4, <1>6, <1>7, ReadStatusKeepsStore, ClaimTiersKeepsStore
          DEF StoreNext, BuyNext, PassNext

-----------------------------------------------------------------------------
(* The types of the tables.  StoreInv has the rows of the purchases and claims; the  *)
(* rest is their steps, the promotion within its bound and the sets of users and    *)
(* tiers.                                                                    *)
StepsTyped ==
    /\ \A b \in Buys : buy[b] # Nobody => buy[b].at \in BuySteps
    /\ \A c \in Claims : claim[c] # Nobody => claim[c].at \in {"read", "done", "failed"}
SalesTyped == invoices \subseteq Txns /\ promo \in 0..PromoMaxPercent
PassTyped ==
    /\ points \in [Users -> 0..MaxXP] /\ enrolled \subseteq Users
    /\ claims \subseteq Users \X Tiers /\ cosmetics \subseteq Users \X Tiers
    /\ denied \subseteq Users \X Tiers
StoreTyped == StepsTyped /\ SalesTyped /\ PassTyped

(* The rows and the rest make up the type invariant.                                *)
LEMMA StoreTypesAre == ASSUME StoreInv, StoreTyped PROVE StoreTypeOK
  <1>1. ASSUME NEW b \in Buys, buy[b] # Nobody
        PROVE  buy[b] \in [at : BuySteps, user : Users, txn : Txns, credits : Nat]
    <2> PICK row : row = buy[b]
      OBVIOUS
    <2>1. BuyRow(row) /\ row.at \in BuySteps
      BY <1>1 DEF StoreInv, StoreShape, StoreTyped, StepsTyped
    <2> QED BY <2>1 DEF BuyRow
  <1>2. ASSUME NEW c \in Claims, claim[c] # Nobody
        PROVE  claim[c] \in [at : {"read", "done", "failed"}, user : Users, due : SUBSET Tiers]
    <2> PICK row : row = claim[c]
      OBVIOUS
    <2>1. ClaimRow(row) /\ row.at \in {"read", "done", "failed"}
      BY <1>2 DEF StoreInv, StoreShape, StoreTyped, StepsTyped
    <2> QED BY <2>1 DEF ClaimRow
  <1>3. buy = [b \in Buys |-> buy[b]] /\ claim = [c \in Claims |-> claim[c]]
    BY DEF StoreInv, StoreShape
  <1>4. buy \in [Buys -> [at : BuySteps, user : Users, txn : Txns, credits : Nat] \cup {Nobody}]
    BY <1>1, <1>3
  <1>5. claim \in [Claims -> [at : {"read", "done", "failed"}, user : Users,
                              due : SUBSET Tiers] \cup {Nobody}]
    BY <1>2, <1>3
  <1>6. iap \in [Txns -> [user : Users, credits : Nat] \cup {Nobody}] /\ WalletTypeOK
    BY DEF StoreInv, StoreShape, WalletInv
  <1> QED BY <1>4, <1>5, <1>6 DEF StoreTypeOK, StoreTyped, SalesTyped, PassTyped

LEMMA StoreTypesStart == ASSUME StoreAssumption, StoreInit PROVE StoreTyped
  <1>1. 0 \in 0..MaxXP /\ 0 \in 0..PromoMaxPercent
    BY DEF StoreAssumption, PromoMaxPercent
  <1>2. StepsTyped
    BY DEF StoreInit, StepsTyped
  <1>3. points \in [Users -> 0..MaxXP]
    BY <1>1 DEF StoreInit
  <1> QED BY <1>1, <1>2, <1>3 DEF StoreInit, StoreTyped, SalesTyped, PassTyped

(* Purchases and promotions.                                                   *)
LEMMA BuysKeepTypes == ASSUME StoreInv, StoreTyped, BuyNext PROVE StoreTyped'
  <1>1. StepsTyped /\ SalesTyped /\ PassTyped /\ StoreShape
    BY DEF StoreTyped, StoreInv
  <1>2. UNCHANGED passVars => PassTyped'
    BY <1>1 DEF passVars, PassTyped
  <1>3. ASSUME UNCHANGED claim, NEW b \in Buys, NEW row, row.at \in BuySteps,
               buy' = [buy EXCEPT ![b] = row]
        PROVE  StepsTyped'
    BY <1>1, <1>3 DEF StepsTyped, StoreShape
  <1>4. ASSUME NEW b \in Buys, NEW u \in Users, NEW x \in Txns, VerifyAndGrant(b, u, x)
        PROVE  StoreTyped'
    <2> PICK row : row = [at |-> "priced", user |-> u, txn |-> x,
                          credits |-> ApplyBonus(PackOf[x], promo)]
      OBVIOUS
    <2>1. row.at \in BuySteps /\ buy' = [buy EXCEPT ![b] = row]
      BY <1>4 DEF VerifyAndGrant, BuySteps
    <2>2. UNCHANGED <<invoices, promo, passVars>>
      BY <1>4 DEF VerifyAndGrant
    <2>3. StepsTyped'
      BY <1>3, <2>1, <2>2 DEF passVars
    <2> QED BY <1>1, <1>2, <2>2, <2>3 DEF StoreTyped, SalesTyped
  <1>5. ASSUME NEW b \in Buys, GrantVerified(b) PROVE StoreTyped'
    <2>1. buy[b] # Nobody /\ BuyRow(buy[b])
      BY <1>1, <1>5 DEF GrantVerified, StoreShape
    <2>2. BuyEnds(b, "granted") \/ BuyEnds(b, "rejected")
      BY <1>5 DEF GrantVerified
    <2>3. EndsAt(b, "granted") \/ EndsAt(b, "rejected")
      BY <1>1, <2>1, <2>2, BuyEndsAt
    <2>4. invoices' = invoices \/ invoices' = invoices \cup {buy[b].txn}
      BY <1>5 DEF GrantVerified
    <2>5. UNCHANGED <<promo, passVars>>
      BY <1>5 DEF GrantVerified
    <2>6. StepsTyped'
      BY <1>1, <2>3, <2>5 DEF StepsTyped, EndsAt, passVars, BuySteps
    <2>7. SalesTyped'
      BY <1>1, <2>1, <2>4, <2>5 DEF SalesTyped, BuyRow
    <2> QED BY <1>2, <2>5, <2>6, <2>7 DEF StoreTyped
  <1>6. ASSUME promo' \in 0..PromoMaxPercent, UNCHANGED <<invoices, buy, passVars>>
        PROVE  StoreTyped'
    <2>1. StepsTyped'
      BY <1>1, <1>6 DEF StepsTyped, passVars
    <2> QED BY <1>1, <1>2, <1>6, <2>1 DEF StoreTyped, SalesTyped
  <1>7. ASSUME NEW percent, Activate(percent) PROVE StoreTyped'
    BY <1>6, <1>7 DEF Activate, ValidPromoPercent, PromoMinPercent, PromoMaxPercent
  <1>8. CASE Deactivate
    BY <1>6, <1>8 DEF Deactivate, PromoMaxPercent
  <1> QED BY <1>4, <1>5, <1>7, <1>8 DEF BuyNext

(* Experience and claims: a claim takes, or is refused, tiers of the season.         *)
LEMMA PassesKeepTypes ==
    ASSUME StoreAssumption, StoreInv, StoreTyped, PassNext PROVE StoreTyped'
  <1>1. StepsTyped /\ SalesTyped /\ PassTyped /\ StoreShape
    BY DEF StoreTyped, StoreInv
  <1>2. UNCHANGED buyVars => SalesTyped'
    BY <1>1 DEF buyVars, SalesTyped
  <1>3. ASSUME UNCHANGED buyVars, NEW c \in Claims, NEW row, row.at \in {"read", "done", "failed"},
               claim' = [claim EXCEPT ![c] = row]
        PROVE  StepsTyped'
    BY <1>1, <1>3 DEF StepsTyped, StoreShape, buyVars
  <1>4. ASSUME NEW u \in Users, EarnXP(u) PROVE StoreTyped'
    <2> PICK n : n = points[u] + 1
      OBVIOUS
    <2>1. n \in 0..MaxXP
      BY <1>1, <1>4 DEF EarnXP, PassTyped, StoreAssumption
    <2>2. points' = [points EXCEPT ![u] = n] /\ UNCHANGED <<enrolled, claims, cosmetics, denied>>
      BY <1>4 DEF EarnXP
    <2>3. PassTyped'
      BY <1>1, <2>1, <2>2 DEF PassTyped
    <2>4. UNCHANGED buyVars /\ UNCHANGED claim
      BY <1>4 DEF EarnXP
    <2>5. StepsTyped'
      BY <1>1, <2>4 DEF StepsTyped, buyVars
    <2> QED BY <1>2, <2>3, <2>4, <2>5 DEF StoreTyped
  <1>5. ASSUME NEW c \in Claims, NEW u \in Users, ReadStatus(c, u) PROVE StoreTyped'
    <2> PICK due : due = Eligible(u) \cap Unclaimed(u)
      OBVIOUS
    <2> PICK at \in {"read", "done"} : at = IF due = {} THEN "done" ELSE "read"
      OBVIOUS
    <2> PICK row : row = [at |-> at, user |-> u, due |-> due]
      OBVIOUS
    <2>1. row.at \in {"read", "done", "failed"} /\ claim' = [claim EXCEPT ![c] = row]
      BY <1>5 DEF ReadStatus
    <2>2. enrolled' = enrolled \cup {u} /\ UNCHANGED <<buyVars, points, claims, cosmetics, denied>>
      BY <1>5 DEF ReadStatus
    <2>3. PassTyped'
      BY <1>1, <2>2 DEF PassTyped
    <2>4. StepsTyped'
      BY <1>3, <2>1, <2>2
    <2> QED BY <1>2, <2>2, <2>3, <2>4 DEF StoreTyped
  <1>6. ASSUME NEW c \in Claims, ClaimTiers(c) PROVE StoreTyped'
    <2>1. ClaimRow(claim[c])
      BY <1>1, <1>6 DEF ClaimTiers, StoreShape
    <2>2. PassTyped'
      <3> PICK u \in Users : u = claim[c].user
        BY <2>1 DEF ClaimRow
      <3> PICK taken \in SUBSET Tiers : taken = claim[c].due \cap Unclaimed(u)
        BY <2>1 DEF ClaimRow
      <3>1. Refused(u, taken) \subseteq Tiers
        BY DEF Refused, Paying
      <3>2. /\ denied' \subseteq denied \cup ({u} \X Refused(u, taken))
            /\ claims' \subseteq claims \cup ({u} \X taken)
            /\ cosmetics' \subseteq cosmetics \cup ({u} \X taken)
            /\ UNCHANGED <<points, enrolled>>
        BY <1>6 DEF ClaimTiers
      <3> QED BY <1>1, <3>1, <3>2 DEF PassTyped
    <2>3. PICK step \in {"done", "failed"} : ClaimEnds(c, step)
      BY <1>6 DEF ClaimTiers
    <2>4. PICK row : /\ ClaimRow(row) /\ row.at = step /\ claim' = [claim EXCEPT ![c] = row]
      BY <1>1, <1>6, <2>3, ClaimEndsAt DEF ClaimTiers
    <2>5. UNCHANGED buyVars
      BY <1>6 DEF ClaimTiers
    <2>6. StepsTyped'
      BY <1>1, <2>4, <2>5 DEF StepsTyped, StoreShape, buyVars
    <2> QED BY <1>2, <2>2, <2>5, <2>6 DEF StoreTyped
  <1> QED BY <1>4, <1>5, <1>6 DEF PassNext

LEMMA StoreTypesStep ==
    ASSUME StoreAssumption, StoreInv, StoreTyped, StoreNext \/ UNCHANGED storeVars
    PROVE  StoreTyped'
  <1>1. CASE UNCHANGED storeVars
    <2>1. UNCHANGED <<buy, claim, invoices, promo, points, enrolled, claims, cosmetics, denied>>
      BY <1>1 DEF storeVars, buyVars, passVars
    <2> QED BY <2>1 DEF StoreTyped, StepsTyped, SalesTyped, PassTyped
  <1> QED BY <1>1, BuysKeepTypes, PassesKeepTypes DEF StoreNext
=============================================================================
