---------------------------- MODULE ControlCache ----------------------------
(***************************************************************************)
(* The two Redis snapshots the map is served from: the control of a city       *)
(* (support/cache.go) and the momentum of the cities (conquest/momentum.go).   *)
(*                                                                         *)
(* A reader that misses loads from the read pool, a replica when one is         *)
(* configured, and stores what it has seen.  For the control snapshot a SETNX   *)
(* lock keeps other readers waiting; the lock has a TTL and no owner, and a     *)
(* reader that waits in vain loads without it.  A support deletes the control   *)
(* snapshot of its city after its commit, a flip the momentum snapshot too.     *)
(***************************************************************************)
EXTENDS Pipeline

CONSTANTS
    Readers,        \* GET requests for the city
    Nil,            \* no snapshot, no load
    MaxExpiries     \* bound on expiries of the lock and of snapshots

ASSUME CacheAssumption == IsFiniteSet(Readers) /\ MaxExpiries \in Nat

Caches == {"control", "momentum"}

VARIABLES
    snapshot,   \* snapshot[c]: the supports it shows, those invalidated while its reader
                \* had it in hand and those a replica lagged behind (history)
    reader,     \* reader[r]: where Get or Stats is
    loaded,     \* loaded[r]: what a reader has loaded and not stored yet
    lock,       \* province control lock
    expiries    \* [lock, snapshot]: how often each has expired

cacheVars == <<snapshot, reader, loaded, lock, expiries>>

Snapshots == [saw : SUBSET Supports, missed : SUBSET Supports, lagged : SUBSET Supports]
ReaderSteps == {"idle", "miss", "wait", "retry", "load", "store", "unlock", "load_unlocked",
                "load_momentum", "store_momentum"}

CacheTypeOK ==
    /\ snapshot \in [Caches -> Snapshots \cup {Nil}]
    /\ reader \in [Readers -> ReaderSteps]
    /\ loaded \in [Readers -> Snapshots \cup {Nil}]
    /\ lock \in BOOLEAN
    /\ expiries \in [{"lock", "snapshot"} -> 0..MaxExpiries]

CacheInit ==
    /\ snapshot = [c \in Caches |-> Nil]
    /\ reader = [r \in Readers |-> "idle"] /\ loaded = [r \in Readers |-> Nil]
    /\ lock = FALSE /\ expiries = [e \in {"lock", "snapshot"} |-> 0]

-----------------------------------------------------------------------------
Shown(c) == IF c = "control" THEN Committed ELSE Committed \cap flips
StoreStep(c) == IF c = "control" THEN "store" ELSE "store_momentum"
GoOn(r, from, to) == reader[r] = from /\ reader' = [reader EXCEPT ![r] = to]

(* Get: a hit changes nothing; a miss goes on to the lock.                    *)
Get(r) ==
    /\ snapshot["control"] = Nil
    /\ GoOn(r, "idle", "miss")
    /\ UNCHANGED <<snapshot, loaded, lock, expiries>>

(* SETNX of the lock key.                                                     *)
Acquire(r) ==
    /\ ~lock
    /\ GoOn(r, "miss", "load") \/ GoOn(r, "retry", "load")
    /\ lock' = TRUE
    /\ UNCHANGED <<snapshot, loaded, expiries>>

(* The lock is held: poll for the snapshot until it appears or the wait ends,  *)
(* then try the lock once more, else load without it ...                       *)
Wait(r) ==
    /\ \/ lock /\ GoOn(r, "miss", "wait")
       \/ snapshot["control"] # Nil /\ GoOn(r, "wait", "idle")
       \/ GoOn(r, "wait", "retry")
       \/ lock /\ GoOn(r, "retry", "load_unlocked")
    /\ UNCHANGED <<snapshot, loaded, lock, expiries>>

(* ... an answer to this one request: nothing is stored.                       *)
LoadUnlocked(r) ==
    /\ GoOn(r, "load_unlocked", "idle")
    /\ UNCHANGED <<snapshot, loaded, lock, expiries>>

(* Stats fills its snapshot without a lock, on a miss or when the GET fails.     *)
Stats(r) ==
    /\ GoOn(r, "idle", "load_momentum")
    /\ UNCHANGED <<snapshot, loaded, lock, expiries>>

(* What the read pool shows of c when n commits are replayed there.             *)
ReadAfter(n, c) ==
    LET saw == Shown(c) \cap Replayed(n)
    IN [saw |-> saw, missed |-> {}, lagged |-> {s \in Shown(c) \ saw : Made(s, c)}]

(* loadAndBuild, loadStats.                                                   *)
Load(r, c) ==
    /\ \/ c = "control" /\ GoOn(r, "load", "store")
       \/ c = "momentum" /\ GoOn(r, "load_momentum", "store_momentum")
    /\ \E n \in 0..Len(commits) : loaded' = [loaded EXCEPT ![r] = ReadAfter(n, c)]
    /\ UNCHANGED <<snapshot, lock, expiries>>

AfterStore(c) == IF c = "control" THEN "unlock" ELSE "idle"

(* setCached ...                                                              *)
StoreSnapshot(r, c) ==
    /\ GoOn(r, StoreStep(c), AfterStore(c))
    /\ snapshot' = [snapshot EXCEPT ![c] = loaded[r]]
    /\ loaded' = [loaded EXCEPT ![r] = Nil]
    /\ UNCHANGED <<lock, expiries>>

(* ... or its failure.                                                        *)
FailStore(r, c) ==
    /\ GoOn(r, StoreStep(c), AfterStore(c))
    /\ loaded' = [loaded EXCEPT ![r] = Nil]
    /\ UNCHANGED <<snapshot, lock, expiries>>

(* Redis or Postgres fails, or the client is gone; the holder of the lock       *)
(* releases it all the same.                                                  *)
FailRead(r) ==
    /\ \/ \E step \in {"miss", "wait", "retry", "load_unlocked"} : GoOn(r, step, "idle")
       \/ GoOn(r, "load", "unlock")
    /\ UNCHANGED <<snapshot, loaded, lock, expiries>>

FailStats(r) ==
    /\ GoOn(r, "load_momentum", "idle")
    /\ UNCHANGED <<snapshot, loaded, lock, expiries>>

(* The deferred DEL of the lock key, whoever holds it by now; it fails when the  *)
(* request's context is cancelled.                                             *)
Unlock(r) ==
    /\ GoOn(r, "unlock", "idle")
    /\ lock' \in {FALSE, lock}
    /\ UNCHANGED <<snapshot, loaded, expiries>>

LockExpires ==
    /\ lock /\ lock' = FALSE
    /\ expiries["lock"] < MaxExpiries
    /\ expiries' = [expiries EXCEPT !["lock"] = @ + 1]
    /\ UNCHANGED <<snapshot, reader, loaded>>

SnapshotExpires(c) ==
    /\ snapshot[c] # Nil /\ snapshot' = [snapshot EXCEPT ![c] = Nil]
    /\ expiries["snapshot"] < MaxExpiries
    /\ expiries' = [expiries EXCEPT !["snapshot"] = @ + 1]
    /\ UNCHANGED <<reader, loaded, lock>>

(* What has been loaded for c and not stored yet does not show s, and now      *)
(* nothing will delete it on behalf of s.                                     *)
Overtaken(s, c) ==
    [r \in Readers |->
        IF loaded[r] # Nil /\ reader[r] = StoreStep(c) /\ s \notin loaded[r].saw
        THEN [loaded[r] EXCEPT !.missed = @ \cup {s}] ELSE loaded[r]]

(* Mutant: a snapshot that is there is kept until its TTL.                     *)
Invalidate_Kept(s, c) ==
    /\ Pass(s, c)
    /\ loaded' = Overtaken(s, c)
    /\ UNCHANGED <<snapshot, reader, lock, expiries>>

(* Cache.Invalidate after the commit, Momentum.Invalidate after a flip.        *)
Invalidate(s, c) ==
    /\ Pass(s, c)
    /\ snapshot' = [snapshot EXCEPT ![c] = Nil]
    /\ loaded' = Overtaken(s, c)
    /\ UNCHANGED <<reader, lock, expiries>>

Fill(r, c) == Load(r, c) \/ StoreSnapshot(r, c) \/ FailStore(r, c)

ControlReads ==
    \/ \E r \in Readers : \/ Get(r) \/ Acquire(r) \/ Wait(r) \/ LoadUnlocked(r) \/ FailRead(r)
                          \/ Fill(r, "control") \/ Unlock(r)
    \/ LockExpires \/ SnapshotExpires("control")

MomentumReads ==
    \/ \E r \in Readers : Stats(r) \/ FailStats(r) \/ Fill(r, "momentum")
    \/ SnapshotExpires("momentum")

ReadNext == ControlReads \/ MomentumReads

InvalidateNext == \E s \in Supports, c \in Caches : Invalidate(s, c)

-----------------------------------------------------------------------------
(* A snapshot lacks a committed support only while that support's invalidation   *)
(* is still to come or was skipped; when its reader had loaded before that         *)
(* invalidation and stored afterwards; or when it was loaded after it, from a       *)
(* replica that had not replayed the support (Cache.Invalidate,                    *)
(* Momentum.Invalidate).                                                      *)
SnapshotsAreFresh ==
    \A c \in Caches : snapshot[c] # Nil =>
        \A s \in Shown(c) \ snapshot[c].saw :
            s \in snapshot[c].missed \cup snapshot[c].lagged \/ ~Made(s, c)

(* The lock lets one reader at a time load what it will store; each expiry adds    *)
(* at most one, even though a late reader deletes the lock of the next.  Readers    *)
(* that have waited in vain load besides, as many as there are, and store nothing. *)
FillsAreLimited ==
    Cardinality({r \in Readers : reader[r] \in {"load", "store"}}) <= 1 + expiries["lock"]

(* The snapshots the map is served from are fresh but for a late store and a        *)
(* lagging replica, and they are filled by one reader at a time (cache.go Get,     *)
(* momentum.go Stats).                                                        *)
ControlIsServedFresh == SnapshotsAreFresh /\ FillsAreLimited
=============================================================================
