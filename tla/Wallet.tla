------------------------------- MODULE Wallet -------------------------------
(***************************************************************************)
(* The credit wallet of the game back end (backend/internal/credits).       *)
(*                                                                         *)
(* credit_accounts holds one balance per user, credit_ledger one row per    *)
(* movement, with a unique idempotency_key.  A movement runs inside its     *)
(* caller's transaction with the account row locked (SELECT ... FOR         *)
(* UPDATE), so this module gives the movement as one action, ApplyOnTx, and  *)
(* the modules that EXTEND it decide when the row lock is free and what the  *)
(* caller does with the outcome.                                            *)
(*                                                                         *)
(* An account row that does not exist yet is indistinguishable from one     *)
(* with balance 0 (ensure account / GetBalance), so balance is total.       *)
(***************************************************************************)
EXTENDS Integers, Sequences

CONSTANTS
    Users,      \* users.id
    Keys        \* idempotency keys in use

VARIABLES
    balance,    \* balance[u] = credit_accounts.balance
    ledger      \* ledger[u]  = the credit_ledger rows of u, oldest first

walletVars == <<balance, ledger>>

Reasons == {"purchase", "stub_grant", "support_spend", "refund", "referral",
            "admin_adjust"}

Row == [key : Keys, delta : Int, after : Nat, reason : Reasons]

WalletTypeOK ==
    /\ balance \in [Users -> Nat]
    /\ ledger \in [Users -> Seq(Row)]

WalletInit ==
    /\ balance = [u \in Users |-> 0]
    /\ ledger = [u \in Users |-> <<>>]

RowsOf(u) == {ledger[u][i] : i \in DOMAIN ledger[u]}

KeyUsed(key) == \E u \in Users : \E row \in RowsOf(u) : row.key = key

(* loadLedgerByIdempotency plus the comparison of user, delta and reason.    *)
SameMovement(u, delta, reason, key) ==
    \E row \in RowsOf(u) :
        row.key = key /\ row.delta = delta /\ row.reason = reason

(* Mutant: no balance test.                                                  *)
Outcome_NoFundsTest(u, delta, reason, key) ==
    IF ~KeyUsed(key) THEN "applied"
    ELSE IF SameMovement(u, delta, reason, key) THEN "replayed" ELSE "conflict"

(* Mutant: the idempotency key is not looked up.                             *)
Outcome_NoKeyLookup(u, delta, reason, key) ==
    IF balance[u] + delta < 0 THEN "insufficient" ELSE "applied"

(* What applyOnTx returns.  The balance is tested before the key is looked   *)
(* up, so a replayed debit on an emptied account is "insufficient".          *)
Outcome(u, delta, reason, key) ==
    IF balance[u] + delta < 0 THEN "insufficient"
    ELSE IF ~KeyUsed(key) THEN "applied"
    ELSE IF SameMovement(u, delta, reason, key) THEN "replayed" ELSE "conflict"

(* Insert the ledger row and set the balance to next, the value computed     *)
(* when the account row was locked and read.                                 *)
Post(u, delta, next, reason, key) ==
    /\ balance' = [balance EXCEPT ![u] = next]
    /\ ledger' = [ledger EXCEPT ![u] = Append(@,
            [key |-> key, delta |-> delta, after |-> next, reason |-> reason])]

(* A movement in a transaction of its own: only the "applied" outcome writes, *)
(* every other one returns an error or the earlier row and changes nothing.  *)
ApplyOnTx(u, delta, reason, key) ==
    IF Outcome(u, delta, reason, key) = "applied"
    THEN Post(u, delta, balance[u] + delta, reason, key)
    ELSE UNCHANGED walletVars

-----------------------------------------------------------------------------
(* Every ledger row continues the one before it, starting from 0, and the    *)
(* account shows where the last row left it: balance = sum of the deltas     *)
(* (credits/ledger.go, wallet.go: "mutates credit_accounts and appends       *)
(* credit_ledger rows in one transaction").                                  *)
BalanceMatchesLedger ==
    \A u \in Users :
        /\ \A i \in DOMAIN ledger[u] :
               ledger[u][i].after =
                   (IF i = 1 THEN 0 ELSE ledger[u][i-1].after) + ledger[u][i].delta
        /\ balance[u] =
               IF ledger[u] = <<>> THEN 0 ELSE ledger[u][Len(ledger[u])].after

(* One idempotency key moves credits at most once, for one user.             *)
KeysMoveCreditsOnce ==
    \A u, v \in Users :
        \A i \in DOMAIN ledger[u], j \in DOMAIN ledger[v] :
            ledger[u][i].key = ledger[v][j].key => u = v /\ i = j
=============================================================================
