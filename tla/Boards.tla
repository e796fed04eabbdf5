------------------------------- MODULE Boards -------------------------------
(***************************************************************************)
(* Leaderboards in Redis and their season archive in Postgres                 *)
(* (backend/internal/leaderboard, season, cmd/worker-season).                 *)
(*                                                                         *)
(* A support's request adds to one sorted set after the other.  The season      *)
(* worker dumps every set into season_archive, ON CONFLICT DO NOTHING, and then *)
(* deletes them all; it may be run again after a failure.  The tribe-rank board *)
(* is filled from Postgres once, by the first reader who finds it empty.       *)
(*                                                                         *)
(* A board is kept as how often it counts each support.                        *)
(***************************************************************************)
EXTENDS Pipeline

CONSTANTS
    Keys_,          \* lb:*:supporters keys, in the order of OnSupportApplied
    RankKey,        \* TribeRankKey
    NoArchive,      \* no season_archive row
    MaxRuns         \* bound on runs of the season worker

ASSUME BoardsAssumption ==
    /\ Len(Keys_) \in Nat \ {0} /\ DOMAIN Keys_ = 1..Len(Keys_)
    /\ \A i, j \in DOMAIN Keys_ : Keys_[i] = Keys_[j] => i = j
    /\ \E i \in DOMAIN Keys_ : Keys_[i] = RankKey
    /\ NoArchive \notin [Supports -> Nat]
    /\ MaxRuns \in Nat

VARIABLES
    board,      \* board[k][s]: how often key k counts support s
    posted,     \* posted[s]: the number of keys the request is through with
    archive,    \* season_archive, by redis_key
    archiver,   \* the season worker: what it does next, and its scan
    runs,
    seed,       \* a reader filling the tribe-rank board: step and sums to add
    booted,     \* lb:tribe_rank:bootstrapped
    late,       \* <<key, support>> counted after the key was dumped (history)
    missed      \* <<key, support>> whose increment failed (history)

boardVars == <<board, posted, archive, archiver, runs, seed, booted, late, missed>>

BoardKeys == {Keys_[i] : i \in DOMAIN Keys_}
Count == [Supports -> 0..2]
Zero == [s \in Supports |-> 0]
NoJob == [step |-> "idle", todo |-> {}, done |-> {}, dump |-> Zero, key |-> RankKey]
NoSeed == [step |-> "idle", sums |-> {}]

BoardsTypeOK ==
    /\ board \in [BoardKeys -> Count]
    /\ posted \in [Supports -> 0..Len(Keys_)]
    /\ archive \in [BoardKeys -> Count \cup {NoArchive}]
    /\ archiver \in [step : {"idle", "dump", "insert", "delete"}, todo : SUBSET BoardKeys,
                done : SUBSET BoardKeys, dump : Count, key : BoardKeys]
    /\ runs \in 0..MaxRuns
    /\ seed \in [step : {"idle", "claim", "sum", "add"}, sums : SUBSET Supports]
    /\ booted \in BOOLEAN
    /\ late \subseteq BoardKeys \X Supports /\ missed \subseteq BoardKeys \X Supports

BoardsInit ==
    /\ board = [k \in BoardKeys |-> Zero]
    /\ posted = [s \in Supports |-> 0]
    /\ archive = [k \in BoardKeys |-> NoArchive]
    /\ archiver = NoJob /\ runs = 0 /\ seed = NoSeed /\ booted = FALSE
    /\ late = {} /\ missed = {}

-----------------------------------------------------------------------------
archiveVars == <<archive, archiver, runs>>
seedVars == <<seed, booted>>

NextKey(s) == Keys_[posted[s] + 1]
Dumped(k) == archive[k] # NoArchive \/ (archiver.step = "insert" /\ archiver.key = k)

PostNext(s) ==
    /\ stage[s] = "boards" /\ posted[s] < Len(Keys_)
    /\ posted' = [posted EXCEPT ![s] = @ + 1]
    /\ IF posted[s] + 1 = Len(Keys_) THEN Pass(s, "boards") ELSE UNCHANGED pipelineVars

(* ZINCRBY of the next key ...                                                *)
Incr(s) ==
    /\ PostNext(s)
    /\ board' = [board EXCEPT ![NextKey(s)][s] = @ + 1]
    /\ late' = IF Dumped(NextKey(s)) THEN late \cup {<<NextKey(s), s>>} ELSE late
    /\ UNCHANGED <<archiveVars, seedVars, missed>>

(* ... or its failure, which is logged.                                       *)
FailIncr(s) ==
    /\ PostNext(s)
    /\ missed' = missed \cup {<<NextKey(s), s>>}
    /\ Cardinality(missed) < MaxFaults
    /\ UNCHANGED <<board, archiveVars, seedVars, late>>

Present == {k \in BoardKeys : board[k] # Zero}

(* worker-season: SCAN of the keys ...                                         *)
StartArchive ==
    /\ archiver.step = "idle" /\ runs < MaxRuns
    /\ runs' = runs + 1
    /\ archiver' = [NoJob EXCEPT !.step = "dump", !.todo = Present]
    /\ UNCHANGED <<board, posted, archive, seedVars, late, missed>>

(* ... a dump of each ...                                                      *)
DumpKey ==
    /\ archiver.step = "dump"
    /\ \E k \in archiver.todo :
          archiver' = [archiver EXCEPT !.step = "insert", !.key = k, !.dump = board[k]]
    /\ UNCHANGED <<board, posted, archive, runs, seedVars, late, missed>>

AfterInsert == IF archiver.todo = {archiver.key} THEN "delete" ELSE "dump"

(* Mutant: ON CONFLICT DO UPDATE.                                              *)
InsertArchive_Overwrites ==
    /\ archiver.step = "insert"
    /\ archive' = [archive EXCEPT ![archiver.key] = archiver.dump]
    /\ archiver' = [archiver EXCEPT !.step = AfterInsert, !.todo = @ \ {archiver.key},
                                    !.done = @ \cup {archiver.key}]
    /\ UNCHANGED <<board, posted, runs, seedVars, late, missed>>

(* ... its row, unless the season has one for the key, and at last ...           *)
InsertArchive ==
    /\ archiver.step = "insert"
    /\ archive' = [archive EXCEPT ![archiver.key] = IF @ = NoArchive THEN archiver.dump ELSE @]
    /\ archiver' = [archiver EXCEPT !.step = AfterInsert, !.todo = @ \ {archiver.key},
                                    !.done = @ \cup {archiver.key}]
    /\ UNCHANGED <<board, posted, runs, seedVars, late, missed>>

(* ... one DEL of all the keys archived.                                       *)
DeleteKeys ==
    /\ archiver.step = "delete"
    /\ board' = [k \in BoardKeys |-> IF k \in archiver.done THEN Zero ELSE board[k]]
    /\ archiver' = NoJob
    /\ UNCHANGED <<posted, archive, runs, seedVars, late, missed>>

(* A statement fails or the worker stops; nothing it has done is undone.        *)
StopArchive ==
    /\ archiver.step # "idle"
    /\ archiver' = NoJob
    /\ UNCHANGED <<board, posted, archive, runs, seedVars, late, missed>>

Seed(from, to) == seed.step = from /\ seed' = [seed EXCEPT !.step = to]

(* GET tribe-rank finds no board (ZCARD = 0) ...                               *)
FindEmpty ==
    /\ board[RankKey] = Zero
    /\ Seed("idle", "claim")
    /\ UNCHANGED <<board, posted, archiveVars, booted, late, missed>>

(* ... takes the boot key, which has no TTL ...                                 *)
TakeBoot ==
    /\ Seed("claim", IF booted THEN "idle" ELSE "sum")
    /\ booted' = TRUE
    /\ UNCHANGED <<board, posted, archiveVars, late, missed>>

(* ... reads the sums of tribe_province_scores, of the primary or of a replica ...  *)
ReadSums ==
    /\ seed.step = "sum"
    /\ \E n \in 0..Len(commits) : seed' = [step |-> "add", sums |-> Replayed(n)]
    /\ UNCHANGED <<board, posted, archiveVars, booted, late, missed>>

(* ... and adds them, tribe by tribe ...                                        *)
AddSums ==
    \E tribe \in {SideOf[s] : s \in seed.sums} :
        LET sums == {s \in seed.sums : SideOf[s] = tribe}
        IN /\ seed.step = "add"
           /\ board' = [board EXCEPT ![RankKey] =
                           [s \in Supports |-> IF s \in sums THEN @[s] + 1 ELSE @[s]]]
           /\ seed' = [seed EXCEPT !.sums = @ \ sums]
           /\ UNCHANGED <<posted, archiveVars, booted, late, missed>>

(* ... until all are added, or a query or an increment fails; the boot key stays.  *)
EndSeed ==
    /\ seed.step # "idle" /\ seed' = NoSeed
    /\ UNCHANGED <<board, posted, archiveVars, booted, late, missed>>

PostBoards == \E s \in Supports : Incr(s) \/ FailIncr(s)
ArchiveNext ==
    /\ StartArchive \/ DumpKey \/ InsertArchive \/ DeleteKeys \/ StopArchive
    /\ UNCHANGED pipelineVars
RankNext ==
    /\ FindEmpty \/ TakeBoot \/ ReadSums \/ AddSums \/ EndSeed
    /\ UNCHANGED pipelineVars

BoardsNext == PostBoards \/ ArchiveNext \/ RankNext

-----------------------------------------------------------------------------
Through(s, k) == \E i \in 1..posted[s] : Keys_[i] = k
Archived(k, s) == IF archive[k] = NoArchive THEN 0 ELSE archive[k][s]

(* What a request has added to a board is on it or in the archive of the season,  *)
(* across failures and repeated runs of the worker, unless the key had been      *)
(* dumped before; and no board counts a support twice, except the tribe rank,     *)
(* whose seed counts once what its reader saw, on the primary or on a replica       *)
(* (archive.go Run: the archive comes before the DEL).                         *)
SeasonScoresAreKept ==
    \A k \in BoardKeys, s \in Supports :
        /\ Through(s, k) /\ <<k, s>> \notin late \cup missed =>
               board[k][s] + Archived(k, s) > 0
        /\ k = RankKey => booted \/ board[k][s] <= 1
        /\ k # RankKey => board[k][s] <= 1 /\ Archived(k, s) <= 1
=============================================================================
