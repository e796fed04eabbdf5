--------------------------- MODULE ConquestInbox ---------------------------
(***************************************************************************)
(* The conquest log as a user reads it (backend/internal/conquest/log.go,     *)
(* handlers.go): newest first, with one cursor, users.last_read_conquest_log_id.*)
(*                                                                         *)
(* Rows are named by their place in the order (occurred_at, id).  The flips    *)
(* of one city commit in that order, under the lock of the city; those of two   *)
(* cities need not, since the stamp is taken before the commit.               *)
(***************************************************************************)
EXTENDS Naturals, Sequences, FiniteSets

CONSTANTS
    MaxRow,         \* rows 1..MaxRow may be written
    CityOfRow,      \* CityOfRow[n]: the city of the n-th row by stamp
    Page,           \* rows a listing shows (limit, after clampListBounds)
    MarkAlls        \* POST /mark-read requests with all=true

ASSUME InboxAssumption ==
    /\ MaxRow \in Nat /\ Page \in Nat \ {0}
    /\ DOMAIN CityOfRow = 1..MaxRow

VARIABLES
    log,        \* conquest_log, in commit order
    cursor,     \* last_read_conquest_log_id, 0 when NULL
    listed,     \* rows some listing has shown
    newest,     \* newest[m]: the newest row in the snapshot of a running mark-all
    dismissed,  \* rows that were in the log when a cursor reached them (history)
    overwritten \* a mark-all has written over a later mark (history)

inboxVars == <<log, cursor, listed, newest, dismissed, overwritten>>

Rows == 1..MaxRow
Idle == MaxRow + 1
LogRows == {log[i] : i \in DOMAIN log}
Newest(rows) == IF rows = {} THEN 0 ELSE CHOOSE n \in rows : \A m \in rows : m <= n

InboxTypeOK ==
    /\ log \in Seq(Rows) /\ cursor \in 0..MaxRow /\ listed \subseteq LogRows
    /\ newest \in [MarkAlls -> 0..Idle]
    /\ dismissed \subseteq LogRows /\ overwritten \in BOOLEAN

InboxInit ==
    /\ log = <<>> /\ cursor = 0 /\ listed = {} /\ dismissed = {} /\ overwritten = FALSE
    /\ newest = [m \in MarkAlls |-> Idle]

-----------------------------------------------------------------------------
(* InsertOnTx, committed by the flip's transaction.                           *)
InsertOnTx(n) ==
    /\ n \notin LogRows
    /\ \A m \in LogRows : CityOfRow[m] = CityOfRow[n] => m < n
    /\ log' = Append(log, n)
    /\ UNCHANGED <<cursor, listed, newest, dismissed, overwritten>>

(* GET /v1/conquest-log: the newest Page rows behind an offset.               *)
List(offset) ==
    /\ listed' = listed \cup
           {n \in LogRows : Cardinality({m \in LogRows : m > n}) \in offset..(offset + Page - 1)}
    /\ UNCHANGED <<log, cursor, newest, dismissed, overwritten>>

SetCursor(n) ==
    /\ cursor' = n
    /\ dismissed' = dismissed \cup {m \in LogRows : m <= n}

(* MarkRead(all): one statement, which reads the newest row of its snapshot ... *)
MarkAllRead(m) ==
    /\ newest[m] = Idle
    /\ Newest(LogRows) # cursor
    /\ newest' = [newest EXCEPT ![m] = Newest(LogRows)]
    /\ UNCHANGED <<log, cursor, listed, dismissed, overwritten>>

(* ... and sets the cursor when it is another row than the cursor is then.     *)
WriteMarkAll(m) ==
    /\ newest[m] # Idle
    /\ newest' = [newest EXCEPT ![m] = Idle]
    /\ IF newest[m] # cursor
       THEN SetCursor(newest[m]) /\ overwritten' = (overwritten \/ newest[m] < cursor)
       ELSE UNCHANGED <<cursor, dismissed, overwritten>>
    /\ UNCHANGED <<log, listed>>

(* Mutant: the cursor is set to the row, wherever it is.                       *)
MarkUpTo_AnyRow(n) ==
    /\ n \in listed
    /\ SetCursor(n)
    /\ UNCHANGED <<log, listed, newest, overwritten>>

(* MarkRead(up_to_id): only forwards.                                          *)
MarkUpTo(n) ==
    /\ n \in listed
    /\ n > cursor
    /\ SetCursor(n)
    /\ UNCHANGED <<log, listed, newest, overwritten>>

InboxNext ==
    \/ \E n \in Rows : InsertOnTx(n) \/ MarkUpTo(n)
    \/ \E offset \in 0..MaxRow : List(offset)
    \/ \E m \in MarkAlls : MarkAllRead(m) \/ WriteMarkAll(m)

-----------------------------------------------------------------------------
UnreadRows == {n \in LogRows : n > cursor}

(* A row that counts as read was there when the user marked, or it came behind  *)
(* a later-stamped row of another city; and a row once marked does not become    *)
(* unread again ("It never moves the marker backwards", log.go), except when a   *)
(* mark-all overlaps another mark.                                            *)
ReadMeansMarked ==
    /\ \A i \in DOMAIN log :
           log[i] \notin UnreadRows \cup dismissed =>
               \E j \in 1..(i - 1) : log[j] > log[i] /\ CityOfRow[log[j]] # CityOfRow[log[i]]
    /\ ~overwritten => dismissed \cap UnreadRows = {}
=============================================================================
