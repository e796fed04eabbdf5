---------------------------- MODULE WalletProofs ----------------------------
(***************************************************************************)
(* What one credit movement preserves, for every set of users and keys.     *)
(***************************************************************************)
EXTENDS Wallet, SequenceTheorems, TLAPS

WalletInv == WalletTypeOK /\ BalanceMatchesLedger /\ KeysMoveCreditsOnce

(* A new wallet is consistent.                                               *)
LEMMA WalletInitInv == WalletInit => WalletInv
  BY DEF WalletInit, WalletInv, WalletTypeOK, BalanceMatchesLedger,
         KeysMoveCreditsOnce

(* The effect of Post, row by row.                                           *)
Posted(u, delta, next, reason, key) ==
    /\ WalletTypeOK'
    /\ \A v \in Users \ {u} : ledger'[v] = ledger[v] /\ balance'[v] = balance[v]
    /\ balance'[u] = next
    /\ DOMAIN ledger[u] = 1..Len(ledger[u])
    /\ DOMAIN ledger'[u] = 1..Len(ledger[u]) + 1
    /\ Len(ledger[u]) \in Nat
    /\ Len(ledger'[u]) = Len(ledger[u]) + 1
    /\ \A i \in 1..Len(ledger[u]) : ledger'[u][i] = ledger[u][i]
    /\ ledger'[u][Len(ledger[u]) + 1] =
          [key |-> key, delta |-> delta, after |-> next, reason |-> reason]

(* A posted row is the last of its user's ledger; all others stay in place,  *)
(* and both tables keep their types.                                         *)
LEMMA PostRows ==
  ASSUME NEW u \in Users, NEW delta \in Int, NEW next \in Nat,
         NEW reason \in Reasons, NEW key \in Keys,
         WalletTypeOK, Post(u, delta, next, reason, key)
  PROVE  Posted(u, delta, next, reason, key)
  <1> DEFINE row == [key |-> key, delta |-> delta, after |-> next, reason |-> reason]
  <1>1. row \in Row
    BY DEF Row
  <1>2. ledger \in [Users -> Seq(Row)] /\ balance \in [Users -> Nat]
    BY DEF WalletTypeOK
  <1>3. /\ ledger' = [ledger EXCEPT ![u] = Append(ledger[u], row)]
        /\ balance' = [balance EXCEPT ![u] = next]
    BY DEF Post
  <1> HIDE DEF row
  <1>4. ledger[u] \in Seq(Row)
    BY <1>2
  <1>5. /\ Append(ledger[u], row) \in Seq(Row)
        /\ Len(Append(ledger[u], row)) = Len(ledger[u]) + 1
        /\ \A i \in 1..Len(ledger[u]) : Append(ledger[u], row)[i] = ledger[u][i]
        /\ Append(ledger[u], row)[Len(ledger[u]) + 1] = row
    BY <1>1, <1>4, AppendProperties
  <1>6. ledger'[u] = Append(ledger[u], row)
    BY <1>2, <1>3
  <1>7. /\ DOMAIN ledger[u] = 1..Len(ledger[u])
        /\ Len(ledger[u]) \in Nat
        /\ DOMAIN ledger'[u] = 1..Len(ledger[u]) + 1
    BY <1>4, <1>5, <1>6, LenProperties
  <1>8. WalletTypeOK'
    BY <1>2, <1>3, <1>5 DEF WalletTypeOK
  <1>9. \A v \in Users \ {u} : ledger'[v] = ledger[v] /\ balance'[v] = balance[v]
    BY <1>2, <1>3
  <1>10. balance'[u] = next
    BY <1>2, <1>3
  <1> QED BY <1>5, <1>6, <1>7, <1>8, <1>9, <1>10 DEF row, Posted

(* The balance still continues the ledger when next is the current balance   *)
(* plus delta: this is what the row lock is for.                             *)
LEMMA PostBalance ==
  ASSUME NEW u \in Users, NEW delta \in Int, NEW next \in Nat,
         NEW reason \in Reasons, NEW key \in Keys,
         WalletTypeOK, BalanceMatchesLedger, next = balance[u] + delta,
         Post(u, delta, next, reason, key)
  PROVE  BalanceMatchesLedger'
  <1> DEFINE n == Len(ledger[u])
  <1>0. Posted(u, delta, next, reason, key)
    BY PostRows
  <1>1. ASSUME NEW v \in Users, v # u
        PROVE  /\ \A i \in DOMAIN ledger'[v] :
                     ledger'[v][i].after =
                        (IF i = 1 THEN 0 ELSE ledger'[v][i-1].after) + ledger'[v][i].delta
               /\ balance'[v] =
                     IF ledger'[v] = <<>> THEN 0 ELSE ledger'[v][Len(ledger'[v])].after
    BY <1>1, <1>0 DEF Posted, BalanceMatchesLedger
  <1>2. ASSUME NEW i \in DOMAIN ledger'[u]
        PROVE  ledger'[u][i].after =
                  (IF i = 1 THEN 0 ELSE ledger'[u][i-1].after) + ledger'[u][i].delta
    <2>1. CASE i \in 1..n
      <3>1. /\ i \in DOMAIN ledger[u]
            /\ ledger'[u][i] = ledger[u][i]
            /\ i # 1 => ledger'[u][i-1] = ledger[u][i-1]
        <4>1. /\ n \in Nat /\ DOMAIN ledger[u] = 1..n
              /\ \A j \in 1..n : ledger'[u][j] = ledger[u][j]
          BY <1>0 DEF Posted
        <4>2. i \in 1..n /\ (i # 1 => i - 1 \in 1..n)
          BY <2>1, <4>1
        <4> QED BY <4>1, <4>2
      <3> QED BY <3>1 DEF BalanceMatchesLedger
    <2>2. CASE i = n + 1
      <3>1. balance[u] = IF n = 0 THEN 0 ELSE ledger[u][n].after
        BY DEF BalanceMatchesLedger, WalletTypeOK
      <3>2. n # 0 => ledger'[u][i-1] = ledger[u][n]
        <4>1. n \in Nat /\ \A j \in 1..n : ledger'[u][j] = ledger[u][j]
          BY <1>0 DEF Posted
        <4>2. i = n + 1
          BY <2>2
        <4> QED BY <4>1, <4>2
      <3>3. n = 0 <=> i = 1
        BY <2>2, <1>0 DEF Posted
      <3>4. ledger'[u][i].after = balance[u] + delta /\ ledger'[u][i].delta = delta
        BY <2>2, <1>0 DEF Posted
      <3> QED BY <3>1, <3>2, <3>3, <3>4
    <2> QED BY <2>1, <2>2, <1>0 DEF Posted
  <1>3. balance'[u] = IF ledger'[u] = <<>> THEN 0 ELSE ledger'[u][Len(ledger'[u])].after
    BY <1>0 DEF Posted
  <1> QED BY <1>1, <1>2, <1>3 DEF BalanceMatchesLedger

(* A fresh key stays the only one of its kind.                               *)
LEMMA PostKeys ==
  ASSUME NEW u \in Users, NEW delta \in Int, NEW next \in Nat,
         NEW reason \in Reasons, NEW key \in Keys,
         WalletTypeOK, KeysMoveCreditsOnce, ~KeyUsed(key),
         Post(u, delta, next, reason, key)
  PROVE  KeysMoveCreditsOnce'
  <1> DEFINE n == Len(ledger[u])
  <1>0. Posted(u, delta, next, reason, key)
    BY PostRows
  <1>1. \A v \in Users : \A i \in DOMAIN ledger[v] : ledger[v][i].key # key
    BY DEF KeyUsed, RowsOf
  <1>2. SUFFICES ASSUME NEW v \in Users, NEW w \in Users,
                        NEW i \in DOMAIN ledger'[v], NEW j \in DOMAIN ledger'[w],
                        ledger'[v][i].key = ledger'[w][j].key
                 PROVE  v = w /\ i = j
    BY DEF KeysMoveCreditsOnce
  <1>3. \A x \in Users : \A k \in DOMAIN ledger'[x] :
           \/ x = u /\ k = n + 1 /\ ledger'[x][k].key = key
           \/ k \in DOMAIN ledger[x] /\ ledger'[x][k] = ledger[x][k]
    BY <1>0 DEF Posted
  <1> QED BY <1>1, <1>2, <1>3 DEF KeysMoveCreditsOnce

(* Which keys are used after a posting.                                      *)
LEMMA PostKeyUsed ==
  ASSUME NEW u \in Users, NEW delta \in Int, NEW next \in Nat,
         NEW reason \in Reasons, NEW key \in Keys,
         WalletTypeOK, Post(u, delta, next, reason, key), NEW other
  PROVE  KeyUsed(other)' <=> KeyUsed(other) \/ other = key
  <1> DEFINE n == Len(ledger[u])
  <1>0. Posted(u, delta, next, reason, key)
    BY PostRows
  <1>1. \A x \in Users : \A k \in DOMAIN ledger'[x] :
           \/ x = u /\ k = n + 1 /\ ledger'[x][k].key = key
           \/ k \in DOMAIN ledger[x] /\ ledger'[x][k] = ledger[x][k]
    BY <1>0 DEF Posted
  <1>2. \A x \in Users : \A k \in DOMAIN ledger[x] :
           k \in DOMAIN ledger'[x] /\ ledger'[x][k] = ledger[x][k]
    <2> SUFFICES ASSUME NEW x \in Users, NEW k \in DOMAIN ledger[x]
                 PROVE  k \in DOMAIN ledger'[x] /\ ledger'[x][k] = ledger[x][k]
      OBVIOUS
    <2>1. CASE x = u
      <3>1. k \in 1..n /\ k \in 1..n + 1
        BY <2>1, <1>0 DEF Posted
      <3> QED BY <2>1, <3>1, <1>0 DEF Posted
    <2>2. CASE x # u
      BY <2>2, <1>0 DEF Posted
    <2> QED BY <2>1, <2>2
  <1>3. n + 1 \in DOMAIN ledger'[u] /\ ledger'[u][n + 1].key = key
    BY <1>0 DEF Posted
  <1> QED BY <1>1, <1>2, <1>3 DEF KeyUsed, RowsOf

(* A movement in a transaction of its own keeps the whole wallet invariant.  *)
LEMMA ApplyKeepsWallet ==
  ASSUME NEW u \in Users, NEW delta \in Int, NEW reason \in Reasons,
         NEW key \in Keys, WalletInv, ApplyOnTx(u, delta, reason, key)
  PROVE  WalletInv'
  <1>1. CASE Outcome(u, delta, reason, key) = "applied"
    <2>1. balance[u] + delta \in Nat /\ ~KeyUsed(key)
      BY <1>1 DEF Outcome, WalletInv, WalletTypeOK
    <2> PICK next \in Nat : next = balance[u] + delta
      BY <2>1
    <2>2. Post(u, delta, next, reason, key)
      BY <1>1 DEF ApplyOnTx
    <2> HIDE DEF Post
    <2>3. WalletTypeOK /\ BalanceMatchesLedger /\ KeysMoveCreditsOnce
      BY DEF WalletInv
    <2>4. WalletTypeOK'
      <3>1. Posted(u, delta, next, reason, key)
        BY <2>2, <2>3, PostRows
      <3> QED BY <3>1 DEF Posted
    <2>5. BalanceMatchesLedger' BY <2>1, <2>2, <2>3, PostBalance
    <2>6. KeysMoveCreditsOnce' BY <2>1, <2>2, <2>3, PostKeys
    <2> QED BY <2>4, <2>5, <2>6 DEF WalletInv
  <1>2. CASE Outcome(u, delta, reason, key) # "applied"
    BY <1>2 DEF ApplyOnTx, walletVars, WalletInv, WalletTypeOK, BalanceMatchesLedger,
                KeysMoveCreditsOnce
  <1> QED BY <1>1, <1>2

(* Ledger rows are never changed or removed: a posting only adds one.        *)
LEMMA PostOnlyAdds ==
  ASSUME NEW u \in Users, NEW delta \in Int, NEW next \in Nat,
         NEW reason \in Reasons, NEW key \in Keys,
         WalletTypeOK, Post(u, delta, next, reason, key)
  PROVE  \A v \in Users : RowsOf(v) \subseteq RowsOf(v)'
  <1>0. Posted(u, delta, next, reason, key)
    BY PostRows
  <1> SUFFICES ASSUME NEW v \in Users, NEW i \in DOMAIN ledger[v]
               PROVE  i \in DOMAIN ledger'[v] /\ ledger'[v][i] = ledger[v][i]
    BY DEF RowsOf
  <1>1. CASE v = u
    <2>1. i \in 1..Len(ledger[u]) /\ i \in 1..Len(ledger[u]) + 1
      BY <1>0, <1>1 DEF Posted
    <2> QED BY <1>0, <1>1, <2>1 DEF Posted
  <1>2. CASE v # u
    BY <1>0, <1>2 DEF Posted
  <1> QED BY <1>1, <1>2

(* So does a movement in a transaction of its own.                           *)
LEMMA ApplyOnlyAdds ==
  ASSUME NEW u \in Users, NEW delta \in Int, NEW reason \in Reasons,
         NEW key \in Keys, WalletTypeOK, ApplyOnTx(u, delta, reason, key)
  PROVE  \A v \in Users : RowsOf(v) \subseteq RowsOf(v)'
  <1>1. CASE Outcome(u, delta, reason, key) = "applied"
    <2> PICK next \in Nat : next = balance[u] + delta
      BY <1>1 DEF Outcome, WalletTypeOK
    <2>1. Post(u, delta, next, reason, key)
      BY <1>1 DEF ApplyOnTx
    <2> QED BY <2>1, PostOnlyAdds
  <1>2. CASE Outcome(u, delta, reason, key) # "applied"
    BY <1>2 DEF ApplyOnTx, walletVars, RowsOf
  <1> QED BY <1>1, <1>2

(* The only row a posting adds is its own.                                   *)
LEMMA PostAddsOne ==
  ASSUME NEW u \in Users, NEW delta \in Int, NEW next \in Nat,
         NEW reason \in Reasons, NEW key \in Keys,
         WalletTypeOK, Post(u, delta, next, reason, key)
  PROVE  /\ SameMovement(u, delta, reason, key)'
         /\ \A v \in Users : \A row \in RowsOf(v)' :
               \/ row \in RowsOf(v)
               \/ v = u /\ row.key = key /\ row.delta = delta
  <1>1. Posted(u, delta, next, reason, key)
    BY PostRows
  <1>2. PICK n \in Nat : /\ n = Len(ledger[u]) /\ DOMAIN ledger[u] = 1..n
                         /\ DOMAIN ledger'[u] = 1..n + 1
                         /\ ledger'[u][n + 1] = [key |-> key, delta |-> delta,
                                                 after |-> next, reason |-> reason]
    BY <1>1 DEF Posted
  <1>3. SameMovement(u, delta, reason, key)'
    <2>1. n + 1 \in DOMAIN ledger'[u]
      BY <1>2
    <2> QED BY <1>2, <2>1 DEF SameMovement, RowsOf
  <1>4. ASSUME NEW v \in Users, NEW i \in DOMAIN ledger'[v]
        PROVE  \/ ledger'[v][i] \in RowsOf(v)
               \/ v = u /\ ledger'[v][i].key = key /\ ledger'[v][i].delta = delta
    <2>1. CASE v = u /\ i = n + 1
      BY <1>2, <2>1
    <2>2. CASE v = u /\ i # n + 1
      <3>1. i \in 1..n
        BY <1>2, <2>2
      <3> QED BY <1>1, <1>2, <2>2, <3>1 DEF Posted, RowsOf
    <2>3. CASE v # u
      BY <1>1, <2>3 DEF Posted, RowsOf
    <2> QED BY <2>1, <2>2, <2>3
  <1> QED BY <1>3, <1>4 DEF RowsOf

(* The same for a movement in a transaction of its own: a movement that was    *)
(* applied has its row, and any other adds none.                             *)
LEMMA ApplyAddsOne ==
  ASSUME NEW u \in Users, NEW delta \in Int, NEW reason \in Reasons,
         NEW key \in Keys, WalletTypeOK, ApplyOnTx(u, delta, reason, key)
  PROVE  /\ Outcome(u, delta, reason, key) = "applied" => SameMovement(u, delta, reason, key)'
         /\ \A v \in Users : \A row \in RowsOf(v)' :
               \/ row \in RowsOf(v)
               \/ v = u /\ row.key = key /\ row.delta = delta
  <1>1. CASE Outcome(u, delta, reason, key) = "applied"
    <2> PICK next \in Nat : next = balance[u] + delta
      BY <1>1 DEF Outcome, WalletTypeOK
    <2>1. Post(u, delta, next, reason, key)
      BY <1>1 DEF ApplyOnTx
    <2> QED BY <2>1, PostAddsOne
  <1>2. CASE Outcome(u, delta, reason, key) # "applied"
    BY <1>2 DEF ApplyOnTx, walletVars, RowsOf
  <1> QED BY <1>1, <1>2
=============================================================================
