------------------------------- MODULE Derby -------------------------------
(***************************************************************************)
(* Derbies (backend/internal/derby): two tribes, one city and a window of    *)
(* time in which the supports of both count double.                          *)
(*                                                                         *)
(* Every API instance runs the scheduler (ProcessDue), an administrator may  *)
(* force a resolution, and every support asks the resolver for its           *)
(* multiplier.  The derbies row is in PostgreSQL; the score counters and the *)
(* cache of the active derby of a city are in Redis, written in steps of      *)
(* their own.  A worker (an instance or an administrator's request) handles   *)
(* one derby at a time and may stop, or lose a Redis write, at any step.      *)
(***************************************************************************)
EXTENDS Naturals, FiniteSets

CONSTANTS
    Derbies,        \* derbies.id
    Cities,         \* derbies.il_code
    Tribes,
    City, Host, Guest, StartsAt, EndsAt,    \* columns of each derby
    Instances,      \* API instances, each with a scheduler
    Admins,         \* force-resolve requests (bound)
    Supports,       \* support requests (bound)
    SupportCity, SupportTribe,              \* what each support is for
    NoDerby,        \* no derby: a missing row or cache entry
    Idle,           \* a worker with nothing to do
    RedisMayFail,   \* whether Redis calls fail in this instance of the model
    MaxTime,        \* bound on the clock
    MaxStops        \* bound on workers that stop within a task

ASSUME DerbyAssumption ==
    /\ City \in [Derbies -> Cities]
    /\ Host \in [Derbies -> Tribes] /\ Guest \in [Derbies -> Tribes]
    /\ \A d \in Derbies : Host[d] # Guest[d]
    /\ StartsAt \in [Derbies -> Nat] /\ EndsAt \in [Derbies -> Nat]
    /\ \A d \in Derbies : StartsAt[d] < EndsAt[d] /\ EndsAt[d] <= MaxTime
    /\ SupportCity \in [Supports -> Cities] /\ SupportTribe \in [Supports -> Tribes]
    /\ NoDerby \notin Derbies
    /\ Instances \cap Admins = {}
    /\ RedisMayFail \in BOOLEAN
    /\ MaxTime \in Nat /\ MaxStops \in Nat

VARIABLES
    status,     \* derbies.status, "none" before the row exists
    total,      \* host_effective_total and guest_effective_total
    counter,    \* Redis derby_score:{id}:{side}
    cached,     \* Redis active_derby_by_il:{city}
    announced,  \* derby_resolved messages published
    opened,     \* derbies that have been active (a history variable)
    timely,     \* supports whose increment came in time (a history variable)
    now,
    work,       \* what each worker is doing
    spend,      \* progress of each support, and the derby it was resolved to
    stops

derbyVars == <<status, total, announced, opened, timely>>
redisVars == <<counter, cached>>
vars == <<derbyVars, redisVars, now, work, spend, stops>>

Workers == Instances \cup Admins
Sides == {"host", "guest"}
Points == [Sides -> Nat]
NoPoints == [side \in Sides |-> 0]
Task == [derby : Derbies, step : {"init", "warm", "read", "write", "drop"},
         overdue : BOOLEAN, points : Points]
Spend == [step : {"new", "load", "fill", "priced", "committed", "done", "failed"},
          derby : Derbies \cup {NoDerby}]

TypeOK ==
    /\ status \in [Derbies -> {"none", "scheduled", "active", "resolved"}]
    /\ total \in [Derbies -> Points]
    /\ counter \in [Derbies -> Points]
    /\ cached \in [Cities -> Derbies \cup {NoDerby}]
    /\ announced \in [Derbies -> Nat]
    /\ opened \subseteq Derbies
    /\ timely \subseteq Supports
    /\ now \in 0..MaxTime
    /\ work \in [Workers -> Task \cup {Idle}]
    /\ spend \in [Supports -> Spend]
    /\ stops \in 0..MaxStops

Init ==
    /\ status = [d \in Derbies |-> "none"]
    /\ total = [d \in Derbies |-> NoPoints]
    /\ counter = [d \in Derbies |-> NoPoints]
    /\ cached = [c \in Cities |-> NoDerby]
    /\ announced = [d \in Derbies |-> 0]
    /\ opened = {}
    /\ timely = {}
    /\ now = 0
    /\ work = [w \in Workers |-> Idle]
    /\ spend = [s \in Supports |-> [step |-> "new", derby |-> NoDerby]]
    /\ stops = 0

-----------------------------------------------------------------------------
At(w, step) == work[w] # Idle /\ work[w].step = step

Begin(w, d, step, overdue) ==
    /\ work[w] = Idle
    /\ work' = [work EXCEPT ![w] =
          [derby |-> d, step |-> step, overdue |-> overdue, points |-> NoPoints]]

GoTo(w, step) == work' = [work EXCEPT ![w].step = step]

End(w) == work' = [work EXCEPT ![w] = Idle]

(* A lost task is taken up again by nobody but the next scheduler pass.       *)
Stop(w) ==
    /\ work[w] # Idle
    /\ stops < MaxStops
    /\ stops' = stops + 1
    /\ End(w)
    /\ UNCHANGED <<derbyVars, redisVars, now, spend>>

(* Mutant: creating a derby warms the by-il cache.                            *)
Create_WarmsCache(d) ==
    /\ status[d] = "none"
    /\ status' = [status EXCEPT ![d] = "scheduled"]
    /\ cached' = [cached EXCEPT ![City[d]] = d]
    /\ UNCHANGED <<total, announced, opened, timely, counter, now, work, spend, stops>>

Create(d) ==
    /\ status[d] = "none"
    /\ status' = [status EXCEPT ![d] = "scheduled"]
    /\ UNCHANGED <<total, announced, opened, timely, redisVars, now, work, spend, stops>>

-----------------------------------------------------------------------------
(* Activation                                                               *)

(* Mutant: a derby whose end has passed is not activated any more.           *)
StartActivate_SkipsOverdue(w, d) ==
    /\ status[d] = "scheduled"
    /\ StartsAt[d] <= now /\ now < EndsAt[d]
    /\ \E overdue \in {FALSE, EndsAt[d] <= now} : Begin(w, d, "init", overdue)
    /\ status' = [status EXCEPT ![d] = "active"]
    /\ opened' = opened \cup {d}
    /\ UNCHANGED <<total, announced, timely, redisVars, now, spend, stops>>

(* Mutant: TransitionToActive has no condition on the status.                 *)
StartActivate_Again(w, d) ==
    /\ status[d] \in {"scheduled", "active"}
    /\ StartsAt[d] <= now
    /\ \E overdue \in {FALSE, EndsAt[d] <= now} : Begin(w, d, "init", overdue)
    /\ status' = [status EXCEPT ![d] = "active"]
    /\ opened' = opened \cup {d}
    /\ UNCHANGED <<total, announced, timely, redisVars, now, spend, stops>>

(* A derby that is due (ListDueToActivate), and TransitionToActive: a derby   *)
(* another instance has activated since is skipped.  The pass compares with   *)
(* the time at which it began, so it may take an overdue derby for current.   *)
StartActivate(w, d) ==
    /\ status[d] = "scheduled"
    /\ StartsAt[d] <= now
    /\ \E overdue \in {FALSE, EndsAt[d] <= now} : Begin(w, d, "init", overdue)
    /\ status' = [status EXCEPT ![d] = "active"]
    /\ opened' = opened \cup {d}
    /\ UNCHANGED <<total, announced, timely, redisVars, now, spend, stops>>

(* A failed Redis write is logged, and the worker goes on: here, in WarmCache *)
(* and in DropCache.                                                         *)
InitScores(w) ==
    /\ At(w, "init")
    /\ GoTo(w, "warm")
    /\ \/ counter' = [counter EXCEPT ![work[w].derby] = NoPoints]
       \/ RedisMayFail /\ UNCHANGED counter
    /\ UNCHANGED <<derbyVars, cached, now, spend, stops>>

(* After the cache, an overdue derby is resolved in the same pass.            *)
AfterWarm(w) ==
    IF work[w].overdue THEN work' = [work EXCEPT ![w].step = "read", ![w].overdue = FALSE]
    ELSE End(w)

WarmCache(w) ==
    /\ At(w, "warm")
    /\ AfterWarm(w)
    /\ \/ cached' = [cached EXCEPT ![City[work[w].derby]] = work[w].derby]
       \/ RedisMayFail /\ UNCHANGED cached
    /\ UNCHANGED <<derbyVars, counter, now, spend, stops>>

-----------------------------------------------------------------------------
(* Resolution                                                               *)

StartResolve(w, d) ==
    /\ status[d] = "active"
    /\ EndsAt[d] <= now
    /\ Begin(w, d, "read", FALSE)
    /\ UNCHANGED <<derbyVars, redisVars, now, spend, stops>>

ForceResolve(w, d) ==
    /\ status[d] \in {"scheduled", "active"}
    /\ Begin(w, d, "read", FALSE)
    /\ UNCHANGED <<derbyVars, redisVars, now, spend, stops>>

(* Mutant: one of the two counters is read.                                  *)
GetScores_HostOnly(w) ==
    LET points == [side \in {"host"} |-> counter[work[w].derby][side]]
    IN
    /\ At(w, "read")
    /\ work' = [work EXCEPT ![w].step = "write", ![w].points = points]
    /\ UNCHANGED <<derbyVars, redisVars, now, spend, stops>>

GetScores(w) ==
    /\ At(w, "read")
    /\ work' = [work EXCEPT ![w].step = "write", ![w].points = counter[work[w].derby]]
    /\ UNCHANGED <<derbyVars, redisVars, now, spend, stops>>

(* Mutant: the UPDATE has no condition on the status.                        *)
Resolve_NoStatusTest(w) ==
    LET d == work[w].derby
    IN
    /\ At(w, "write")
    /\ status' = [status EXCEPT ![d] = "resolved"]
    /\ total' = [total EXCEPT ![d] = work[w].points]
    /\ work' = [work EXCEPT ![w].step = "drop", ![w].points = NoPoints]
    /\ UNCHANGED <<announced, opened, timely, redisVars, now, spend, stops>>

(* Store.Resolve: of several resolutions the first one to write wins, with    *)
(* the totals it has read.                                                   *)
Resolve(w) ==
    LET d == work[w].derby
    IN
    /\ At(w, "write")
    /\ IF status[d] \in {"scheduled", "active"}
       THEN /\ status' = [status EXCEPT ![d] = "resolved"]
            /\ total' = [total EXCEPT ![d] = work[w].points]
            /\ work' = [work EXCEPT ![w].step = "drop", ![w].points = NoPoints]
       ELSE End(w) /\ UNCHANGED <<status, total>>
    /\ UNCHANGED <<announced, opened, timely, redisVars, now, spend, stops>>

(* InvalidateActiveByIl deletes by city, and the result is published.         *)
DropCache(w) ==
    /\ At(w, "drop")
    /\ End(w)
    /\ \/ cached' = [cached EXCEPT ![City[work[w].derby]] = NoDerby]
       \/ RedisMayFail /\ UNCHANGED cached
    /\ announced' = [announced EXCEPT ![work[w].derby] = @ + 1]
    /\ UNCHANGED <<status, total, opened, timely, counter, now, spend, stops>>

-----------------------------------------------------------------------------
(* A support and the derby                                                  *)

SpendAt(s, step) == spend[s].step = step

SpendTo(s, step, d) == spend' = [spend EXCEPT ![s] = [step |-> step, derby |-> d]]

(* The multiplier is 2 for the two tribes of the derby found, 1 otherwise.    *)
Plays(s, d) == d # NoDerby /\ SupportTribe[s] \in {Host[d], Guest[d]}

Priced(s, d) == SpendTo(s, "priced", IF Plays(s, d) THEN d ELSE NoDerby)

SideOf(s, d) == IF SupportTribe[s] = Host[d] THEN "host" ELSE "guest"

ActiveIn(c) == {d \in Derbies : status[d] = "active" /\ City[d] = c}

(* A missing entry, or a failed read, goes on to the database.               *)
LookUpCache(s) ==
    /\ SpendAt(s, "new")
    /\ \/ /\ cached[SupportCity[s]] = NoDerby \/ RedisMayFail
          /\ SpendTo(s, "load", NoDerby)
       \/ cached[SupportCity[s]] # NoDerby /\ Priced(s, cached[SupportCity[s]])
    /\ UNCHANGED <<derbyVars, redisVars, now, work, stops>>

(* GetActiveByIl: of several active derbies of a city, the latest to start.   *)
(* Without one, or after an error, the multiplier is 1.                      *)
LoadDerby(s) ==
    LET active == ActiveIn(SupportCity[s])
    IN
    /\ SpendAt(s, "load")
    /\ \/ Priced(s, NoDerby)
       \/ \E d \in active :
              /\ \A e \in active : StartsAt[e] <= StartsAt[d]
              /\ SpendTo(s, "fill", d)
    /\ UNCHANGED <<derbyVars, redisVars, now, work, stops>>

(* The error of the write is discarded.                                      *)
FillCache(s) ==
    /\ SpendAt(s, "fill")
    /\ Priced(s, spend[s].derby)
    /\ \/ cached' = [cached EXCEPT ![SupportCity[s]] = spend[s].derby]
       \/ RedisMayFail /\ UNCHANGED cached
    /\ UNCHANGED <<derbyVars, counter, now, work, stops>>

(* The spend transaction commits: supports.derby_id and multiplier are set.   *)
CommitSpend(s) ==
    /\ SpendAt(s, "priced")
    /\ SpendTo(s, "committed", spend[s].derby)
    /\ UNCHANGED <<derbyVars, redisVars, now, work, stops>>

(* No worker is about to reset the counters of the derby, none has read them     *)
(* without having written the totals, and the derby is not resolved.           *)
Open(d) ==
    /\ d # NoDerby /\ status[d] # "resolved"
    /\ \A w \in Workers : work[w] # Idle /\ work[w].derby = d
                             => work[w].step \notin {"init", "write"}

(* Mutant: the increment is repeated when its answer is late.                 *)
IncrScore_Retries(s) ==
    LET d == spend[s].derby
    IN
    /\ SpendAt(s, "committed")
    /\ IF d = NoDerby \/ counter[d][SideOf(s, d)] > 4 THEN UNCHANGED counter
       ELSE counter' = [counter EXCEPT ![d][SideOf(s, d)] = @ + 2]
    /\ \/ SpendTo(s, "done", d)
       \/ UNCHANGED spend
    /\ UNCHANGED <<derbyVars, cached, now, work, stops>>

(* After the commit, best effort: 1 credit counts 2.                          *)
IncrScore(s) ==
    LET d == spend[s].derby
    IN
    /\ SpendAt(s, "committed")
    /\ IF d = NoDerby THEN UNCHANGED counter
       ELSE counter' = [counter EXCEPT ![d][SideOf(s, d)] = @ + 2]
    /\ SpendTo(s, "done", d)
    /\ timely' = IF Open(d) THEN timely \cup {s} ELSE timely
    /\ UNCHANGED <<status, total, announced, opened, cached, now, work, stops>>

(* The request ends early: refused or rolled back before the commit, or       *)
(* without its increment after it.                                           *)
BreakOff(s) ==
    /\ \/ spend[s].step \in {"load", "fill", "priced"} /\ SpendTo(s, "failed", NoDerby)
       \/ SpendAt(s, "committed") /\ SpendTo(s, "done", spend[s].derby)
    /\ UNCHANGED <<derbyVars, redisVars, now, work, stops>>

-----------------------------------------------------------------------------
Tick ==
    /\ now < MaxTime
    /\ now' = now + 1
    /\ UNCHANGED <<derbyVars, redisVars, work, spend, stops>>

Work(w) ==
    InitScores(w) \/ WarmCache(w) \/ GetScores(w) \/ Resolve(w) \/ DropCache(w)

Schedule(d) == \E w \in Instances : StartActivate(w, d) \/ StartResolve(w, d)

Support(s) ==
    LookUpCache(s) \/ LoadDerby(s) \/ FillCache(s) \/ CommitSpend(s) \/ IncrScore(s)

Next ==
    \/ Tick
    \/ \E d \in Derbies : Create(d)
    \/ \E d \in Derbies : Schedule(d)
    \/ \E w \in Admins, d \in Derbies : ForceResolve(w, d)
    \/ \E w \in Workers : Work(w)
    \/ \E w \in Workers : Stop(w)
    \/ \E s \in Supports : Support(s)
    \/ \E s \in Supports : BreakOff(s)

(* Time passes, some instance's ticker fires again and again, and a pass goes *)
(* on until it ends or stops.                                                *)
Fairness ==
    /\ WF_vars(Tick)
    /\ \A d \in Derbies : WF_vars(Schedule(d))
    /\ \A w \in Instances : WF_vars(Work(w))

Spec == Init /\ [][Next]_vars
FairSpec == Spec /\ Fairness

-----------------------------------------------------------------------------
Counted(d, side) ==
    {s \in Supports : spend[s].step \in {"committed", "done"} /\ spend[s].derby = d
                         /\ SideOf(s, d) = side}

(* However many instances and administrators resolve a derby at the same      *)
(* time, one of them does: its totals never change again, the derby never      *)
(* opens again and the result is published once at most.                     *)
ResolvedIsFinal ==
    [][\A d \in Derbies :
          status[d] = "resolved"
              => /\ status'[d] = "resolved"
                 /\ total'[d] = total[d]
                 /\ announced'[d] <= 1]_vars

(* No derby total, live or persisted, exceeds the doubled supports that were   *)
(* committed for its side: an aborted support leaves no points and none is     *)
(* counted twice, whatever the order of commits, increments and resets.        *)
TotalsAreBacked ==
    \A d \in Derbies, side \in Sides :
        LET backed == 2 * Cardinality(Counted(d, side))
        IN counter[d][side] <= backed /\ total[d][side] <= backed

(* Only a derby that has been opened by the scheduler doubles supports: one    *)
(* that is scheduled, or was force-resolved before it began, never does.      *)
OnlyOpenedDerbiesDouble ==
    /\ \A s \in Supports : spend[s].derby # NoDerby => spend[s].derby \in opened
    /\ \A d \in Derbies : status[d] = "active" => d \in opened

InTime(d, side) == {s \in timely : spend[s].derby = d /\ SideOf(s, d) = side}

(* The points of a support that were incremented are lost only by a race: when  *)
(* the worker that activates the derby has still to reset its counters, when a   *)
(* resolution has read them and not written the totals, or when the derby is    *)
(* resolved.  All others are in the counter until the resolution and in the       *)
(* persisted total from then on, whoever else activates, resolves or stops.      *)
TimelyPointsCount ==
    \A d \in Derbies, side \in Sides :
        2 * Cardinality(InTime(d, side))
            <= IF status[d] = "resolved" THEN total[d][side] ELSE counter[d][side]

(* Supports are doubled by an opened derby alone, every point of a derby total   *)
(* is one of a committed support, and every point that came in time is in it.   *)
DerbyPointsAreEarned == OnlyOpenedDerbiesDouble /\ TotalsAreBacked /\ TimelyPointsCount

(* Every scheduled derby is resolved in the end, also when no instance ran     *)
(* between its start and its end, or one stopped between the two             *)
(* ("Always goes through active even if ends_at already passed").             *)
DerbiesEnd == \A d \in Derbies : (status[d] = "scheduled") ~> (status[d] = "resolved")

(* "ResolveSupportMultiplier returns 2.0 when: an active derby exists for      *)
(* il_code [...] Otherwise 1.0"; "Cache active derby-by-il lookups; invalidate *)
(* on derby state transitions"                                               *)
(* (prompts/implementation-roadmap-and-prompts.md:352 and 355): once no worker *)
(* is at work and no support is filling the cache, the cache of a city shows   *)
(* an active derby.                                                          *)
CacheShowsActiveDerby ==
    (/\ \A w \in Workers : work[w] = Idle
     /\ \A s \in Supports : spend[s].step # "fill")
        => \A c \in Cities : cached[c] # NoDerby => status[cached[c]] = "active"
=============================================================================
