----------------------------- MODULE Moderation -----------------------------
(***************************************************************************)
(* Moderation (backend/internal/moderation, admin/moderation_api.go): account *)
(* status, the queue of reports, flags and appeals, and the audit log.        *)
(*                                                                         *)
(* A moderator's request is one transaction: it locks the row it decides on,   *)
(* reads it, and writes the row and an audit_log row together.  Appeals and   *)
(* spend-anomaly flags are filed in two statements: a test, then the INSERT.  *)
(***************************************************************************)
EXTENDS SignIn, Sequences

CONSTANTS
    Items,              \* rows of appeals, user_reports and flagged_users (bound)
    ItemKind, ItemUser, \* the table of each, and the user it is about
    Moderators,         \* moderators' requests (bound)
    Done                \* an answered request

ASSUME ModerationAssumption ==
    /\ Done # None
    /\ ItemKind \in [Items -> {"appeal", "report", "flag"}]
    /\ ItemUser \in [Items -> Users]
    /\ Items \cap Users = {}   \* rows of different tables

VARIABLES
    item,           \* status of each row; "tested" between test and INSERT
    twin,           \* flags whose test ran while another was being filed (history)
    decisions,      \* audit_log rows per queue row
    statusLog,      \* audit_log rows of status changes: from, to
    decision        \* the open transaction of each moderator

moderationVars == <<item, twin, decisions, statusLog, decision>>

Verdicts == {"reviewed", "dismissed"}
SetStatuses == {"active", "banned", "shadow_banned"}

ModerationTypeOK ==
    /\ item \in [Items -> {"none", "tested", "pending", "refused"} \cup Verdicts]
    /\ twin \subseteq Items
    /\ decisions \in [Items -> Nat]
    /\ statusLog \in [Users -> Seq([from : UserStatuses, to : SetStatuses])]
    /\ decision \in [Moderators ->
           [on : Items, from : {"pending"}, to : Verdicts]
           \cup [on : Users, from : UserStatuses, to : SetStatuses]
           \cup {None, Done}]

ModerationInit ==
    /\ item = [i \in Items |-> "none"]
    /\ twin = {}
    /\ decisions = [i \in Items |-> 0]
    /\ statusLog = [u \in Users |-> <<>>]
    /\ decision = [m \in Moderators |-> None]

-----------------------------------------------------------------------------
Deciding(m) == decision[m] \notin {None, Done}

(* SELECT ... FOR UPDATE: no other transaction holds the row.                 *)
RowFree(row) == \A m \in Moderators : Deciding(m) => decision[m].on # row

PendingOf(u, kind) ==
    {i \in Items : ItemUser[i] = u /\ ItemKind[i] = kind /\ item[i] = "pending"}

File(i, status) ==
    /\ item' = [item EXCEPT ![i] = status]
    /\ UNCHANGED <<decisions, statusLog, decision>>

(* eligible: banned, shadow-banned or with a pending flag.                    *)
Eligible(u) ==
    \/ user[u].status \in {"banned", "shadow_banned"}
    \/ PendingOf(u, "flag") # {}

(* POST /v1/appeals takes banned sessions too.                                *)
TestAppeal(i) ==
    /\ ItemKind[i] = "appeal" /\ item[i] = "none"
    /\ \E c \in Calls : session[c] # None /\ session[c].user = ItemUser[i]
    /\ Eligible(ItemUser[i])
    /\ File(i, "tested")
    /\ UNCHANGED twin

(* appeals_one_pending_per_user refuses a second one.                         *)
FileAppeal(i) ==
    /\ ItemKind[i] = "appeal" /\ item[i] = "tested"
    /\ File(i, IF PendingOf(ItemUser[i], "appeal") = {} THEN "pending" ELSE "refused")
    /\ UNCHANGED twin

FileReport(i) ==
    /\ ItemKind[i] = "report" /\ item[i] = "none"
    /\ \E u \in Users \ {ItemUser[i]} : RequireSession(u)
    /\ Exists(ItemUser[i])
    /\ File(i, "pending")
    /\ UNCHANGED twin

(* A burst of supports or grants: flag() tests for a pending flag ...         *)
TestAnomaly(i) ==
    /\ ItemKind[i] = "flag" /\ item[i] = "none"
    /\ Exists(ItemUser[i])
    /\ PendingOf(ItemUser[i], "flag") = {}
    /\ File(i, "tested")
    /\ twin' = twin \cup
           (IF \E k \in Items \ {i} : ItemKind[k] = "flag" /\ ItemUser[k] = ItemUser[i]
                                      /\ item[k] = "tested"
            THEN {i} ELSE {})

(* ... and inserts one, whatever has been inserted since.                     *)
InsertFlag(i) ==
    /\ ItemKind[i] = "flag" /\ item[i] = "tested"
    /\ File(i, "pending")
    /\ UNCHANGED twin

(* Only a pending row is resolved; any other answers 404 or 409.              *)
LockItem(m, i, kind, to) ==
    /\ decision[m] = None
    /\ ItemKind[i] = kind
    /\ RowFree(i)
    /\ item[i] = "pending"
    /\ decision' = [decision EXCEPT ![m] = [on |-> i, from |-> "pending", to |-> to]]
    /\ UNCHANGED <<item, twin, decisions, statusLog>>

ResolveAppeal(m, i, to) == LockItem(m, i, "appeal", to) /\ UNCHANGED signInVars
ResolveReport(m, i, to) == LockItem(m, i, "report", to) /\ UNCHANGED signInVars
ResolveFlag(m, i, to) == LockItem(m, i, "flag", to) /\ UNCHANGED signInVars

(* Mutant: the row is read without FOR UPDATE.                                *)
SetStatus_Unlocked(m, u, to) ==
    /\ decision[m] = None
    /\ Exists(u)
    /\ decision' = [decision EXCEPT ![m] =
           [on |-> u, from |-> user[u].status, to |-> to]]
    /\ UNCHANGED <<item, twin, decisions, statusLog, signInVars>>

(* Ban, ShadowBan and Unban accept a row in any status, 'erased' included.    *)
SetStatus(m, u, to) ==
    /\ decision[m] = None
    /\ Exists(u)
    /\ RowFree(u)
    /\ decision' = [decision EXCEPT ![m] =
           [on |-> u, from |-> user[u].status, to |-> to]]
    /\ UNCHANGED <<item, twin, decisions, statusLog, signInVars>>

(* COMMIT: the row and its audit row, or neither.                             *)
CommitItem(m) ==
    /\ Deciding(m)
    /\ decision[m].on \in Items
    /\ item' = [item EXCEPT ![decision[m].on] = decision[m].to]
    /\ decisions' = [decisions EXCEPT ![decision[m].on] = @ + 1]
    /\ decision' = [decision EXCEPT ![m] = Done]
    /\ UNCHANGED <<twin, statusLog, signInVars>>

CommitStatus(m) ==
    LET u == decision[m].on
    IN  /\ Deciding(m)
        /\ u \in Users
        /\ user' = [user EXCEPT ![u].status = decision[m].to]
        /\ statusLog' = [statusLog EXCEPT ![u] =
               Append(@, [from |-> decision[m].from, to |-> decision[m].to])]
        /\ decision' = [decision EXCEPT ![m] = Done]
        /\ UNCHANGED <<item, twin, decisions, firstPhone, link, mergedBy, otpVars,
                       sessionVars, mergeToken, call>>

RollBack(m) ==
    /\ Deciding(m)
    /\ decision' = [decision EXCEPT ![m] = Done]
    /\ UNCHANGED <<item, twin, decisions, statusLog, signInVars>>

(* The erasure cascade deletes the user's rows of the queue, audit_log stays.  *)
DeleteItemsOf(u) ==
    /\ \A i \in Items : ItemUser[i] = u => RowFree(i)
    /\ item' = [i \in Items |-> IF ItemUser[i] = u /\ item[i] \notin {"none", "tested"}
                                THEN "refused" ELSE item[i]]
    /\ decisions' = [i \in Items |-> IF ItemUser[i] = u THEN 0 ELSE decisions[i]]
    /\ UNCHANGED <<twin, statusLog, decision>>

QueueNext ==
    \/ \E i \in Items : /\ \/ TestAppeal(i) \/ FileAppeal(i) \/ FileReport(i)
                           \/ TestAnomaly(i) \/ InsertFlag(i)
                        /\ UNCHANGED signInVars
    \/ \E m \in Moderators :
         \/ \E i \in Items, to \in Verdicts :
                ResolveAppeal(m, i, to) \/ ResolveReport(m, i, to) \/ ResolveFlag(m, i, to)
         \/ CommitItem(m)

StatusNext ==
    \E m \in Moderators :
        \/ \E u \in Users, to \in SetStatuses : SetStatus(m, u, to)
        \/ CommitStatus(m) \/ RollBack(m)

-----------------------------------------------------------------------------
(* The audit rows of a user are a chain of status changes that ends at         *)
(* users.status; only an erasure, which is recorded in its job, may come in    *)
(* between (actions.go: "records audit_log in the same TX").                  *)
AuditExplainsStatus ==
    \A u \in Users : Exists(u) =>
        LET log == statusLog[u]
            before(k) == IF k = 1 THEN "active" ELSE log[k-1].to
        IN  /\ \A k \in DOMAIN log : log[k].from \in {before(k), "erased"}
            /\ user[u].status \in {before(Len(log) + 1), "erased"}

(* A report, flag or appeal is resolved by one moderator and audited once,     *)
(* though several decide on it at the same time; a user has one pending appeal, *)
(* and one pending anomaly flag unless two bursts were tested at the same time  *)
(* (spend_anomaly.go: "Avoid duplicate pending spend_anomaly rows").           *)
QueueIsDecidedOnce ==
    /\ \A i \in Items : decisions[i] = IF item[i] \in Verdicts THEN 1 ELSE 0
    /\ \A u \in Users : /\ Cardinality(PendingOf(u, "appeal")) <= 1
                        /\ Cardinality(PendingOf(u, "flag") \ twin) <= 1

(* Moderators' decisions, each made once and each explained by the audit log.  *)
DecisionsAreAudited == AuditExplainsStatus /\ QueueIsDecidedOnce
=============================================================================
