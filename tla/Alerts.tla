------------------------------- MODULE Alerts -------------------------------
(***************************************************************************)
(* Alerts to the tribe that holds a city: rising tension (conquest/threats.go), *)
(* a lead under threat (engagement/rival_alerts.go), the queue and the push      *)
(* worker behind them (notifications/push.go, inbox.go).                       *)
(*                                                                         *)
(* After its commit a support's request loads the scores, subtracts its own      *)
(* support to get the scores before it, and announces each level the tension     *)
(* has crossed in between, once per cooldown (SETNX).  A flip clears the         *)
(* cooldowns of the tension levels instead.                                    *)
(*                                                                         *)
(* One member of each tribe stands for all of them.                            *)
(***************************************************************************)
EXTENDS Pipeline

CONSTANTS
    TensionLevels,  \* levels of rising tension
    LeadLevel,      \* the lead-threatened alert, announced in stage "lead"
    Percent,        \* Percent[l]: the tension, or the gap, in percent of the leader
    PushWorkers,    \* goroutines draining notif_queue
    Devices_,       \* device push tokens
    MemberOf,       \* MemberOf[t]: the member of tribe t
    Free            \* nothing in hand

ASSUME AlertsAssumption ==
    /\ LeadLevel \notin TensionLevels
    /\ Percent \in [TensionLevels \cup {LeadLevel} -> 1..100]
    /\ DOMAIN MemberOf = {1, 2}
    /\ Free \notin (TensionLevels \cup {LeadLevel}) \X {1, 2}

VARIABLES
    cooldown,   \* Redis keys of announced alerts
    due,        \* due[s]: crossed levels the request still has to announce, and to whom
    won,        \* won[s]: the level whose cooldown it has just taken
    inbox,      \* user_notifications
    queue,      \* notif_queue, oldest first
    inHand,     \* inHand[w]: popped payload and the worker's step
    pushed,     \* pushed[n]: pushes sent of alert n (history)
    limited,    \* alerts whose push rate-limit key is set
    owner,      \* owner[d]: device_push_tokens
    expired,    \* expired cooldowns and rate limits, at most MaxFaults of each
    cleared     \* flips that have cleared the cooldowns (history)

alertVars == <<cooldown, due, won, inbox, queue, inHand, pushed, limited, owner, expired, cleared>>

Levels == TensionLevels \cup {LeadLevel}
Notices == Levels \X Tribes     \* a level, and the tribe whose member is told
AlertStages == {"threats", "lead"}
Owners == {MemberOf[t] : t \in Tribes}

(* The tension keys are the city's, the lead keys the member's.                *)
CooldownKey(l, t) == IF l = LeadLevel THEN <<l, t>> ELSE <<l, 0>>

AlertsTypeOK ==
    /\ cooldown \subseteq {CooldownKey(n[1], n[2]) : n \in Notices}
    /\ due \in [Supports -> SUBSET Notices] /\ won \in [Supports -> Notices \cup {Free}]
    /\ inbox \subseteq [notice : Notices, by : Supports, read : BOOLEAN]
    /\ queue \in Seq(Notices)
    /\ inHand \in [PushWorkers -> [notice : Notices, step : {"limit", "send"}] \cup {Free}]
    /\ pushed \in [Notices -> Nat] /\ limited \subseteq Notices
    /\ owner \in [Devices_ -> Owners \cup {Free}]
    /\ expired \in [{"cooldown", "limit"} -> 0..MaxFaults]
    /\ cleared \subseteq Supports

AlertsInit ==
    /\ cooldown = {} /\ limited = {} /\ inbox = {} /\ queue = <<>> /\ cleared = {}
    /\ due = [s \in Supports |-> {}] /\ won = [s \in Supports |-> Free]
    /\ inHand = [w \in PushWorkers |-> Free]
    /\ pushed = [n \in Notices |-> 0] /\ expired = [k \in {"cooldown", "limit"} |-> 0]
    /\ owner = [d \in Devices_ |-> Free]

-----------------------------------------------------------------------------
pushVars == <<inHand, pushed, limited, owner>>

First2(scores) == IF scores[1] >= scores[2] THEN scores[1] ELSE scores[2]
Second2(scores) == IF scores[1] >= scores[2] THEN scores[2] ELSE scores[1]

(* ContestTension reaches a percentage; GapRatio is within one.                 *)
TensionReaches(scores, pct) == Second2(scores) > 0 /\ Second2(scores) * 100 >= pct * First2(scores)
GapWithin(scores, pct) ==
    /\ First2(scores) > Second2(scores)
    /\ (First2(scores) - Second2(scores)) * 100 <= pct * First2(scores)

(* TensionLevelCrossings under one leader; LeadThreatenedCrossing.               *)
TensionCrossed(pre, post) ==
    {l \in TensionLevels : Leader(pre) = Leader(post)
        /\ ~TensionReaches(pre, Percent[l]) /\ TensionReaches(post, Percent[l])}
LeadCrossed(pre, post) ==
    {l \in {LeadLevel} : Second2(pre) > 0 /\ Second2(post) > 0
        /\ First2(pre) > Second2(pre) /\ ~GapWithin(pre, Percent[l]) /\ GapWithin(post, Percent[l])}

(* reconstructPreScores: the support's own worth taken off the scores loaded now. *)
PreScores(s) ==
    [Scores EXCEPT ![SideOf[s]] = IF @ > Worth[s] THEN @ - Worth[s] ELSE 0]
Crossed(s, call) ==
    {<<l, Leader(Scores)>> : l \in IF call = "lead" THEN LeadCrossed(PreScores(s), Scores)
                                    ELSE TensionCrossed(PreScores(s), Scores)}

(* What the request has still to do in this call; a call that failed left it.     *)
Todo(s, call) == {n \in due[s] : (n[1] = LeadLevel) = (call = "lead")}

(* DetectAndEnqueue of either alert: load the scores, find what is crossed.      *)
Detect(s, call) ==
    /\ stage[s] = call /\ Todo(s, call) = {}
    /\ call = "lead" \/ s \notin flips
    /\ due' = [due EXCEPT ![s] = Crossed(s, call)]
    /\ won' = [won EXCEPT ![s] = Free]
    /\ IF Crossed(s, call) = {} THEN Pass(s, call) ELSE UNCHANGED pipelineVars
    /\ UNCHANGED <<cooldown, inbox, queue, pushVars, expired, cleared>>

Settle(s, call, notices) ==
    /\ due' = [due EXCEPT ![s] = notices]
    /\ IF notices = {} THEN Pass(s, call) ELSE UNCHANGED pipelineVars

(* Mutant: SET instead of SETNX.                                               *)
TryCooldown_NoNx(s, call) ==
    /\ stage[s] = call /\ won[s] = Free
    /\ \E n \in Todo(s, call) :
          /\ won' = [won EXCEPT ![s] = n]
          /\ cooldown' = cooldown \cup {CooldownKey(n[1], n[2])}
    /\ UNCHANGED <<pipelineVars, due, inbox, queue, pushVars, expired, cleared>>

(* tryCooldown, tryRateLimit: SETNX; who finds the key set passes the level over. *)
TryCooldown(s, call) ==
    /\ stage[s] = call /\ won[s] = Free
    /\ \E n \in Todo(s, call) :
          IF CooldownKey(n[1], n[2]) \in cooldown
          THEN Settle(s, call, due[s] \ {n}) /\ UNCHANGED <<won, cooldown>>
          ELSE /\ won' = [won EXCEPT ![s] = n]
               /\ cooldown' = cooldown \cup {CooldownKey(n[1], n[2])}
               /\ UNCHANGED <<pipelineVars, due>>
    /\ UNCHANGED <<inbox, queue, pushVars, expired, cleared>>

(* EnqueueNotif and the inbox row.                                             *)
Enqueue(s, call) ==
    /\ stage[s] = call /\ won[s] \in Todo(s, call)
    /\ queue' = Append(queue, won[s])
    /\ inbox' = inbox \cup {[notice |-> won[s], by |-> s, read |-> FALSE]}
    /\ won' = [won EXCEPT ![s] = Free]
    /\ Settle(s, call, due[s] \ {won[s]})
    /\ UNCHANGED <<cooldown, pushVars, expired, cleared>>

(* ClearCooldown: DEL of the keys of the tension levels.                         *)
ClearCooldown(s) ==
    /\ s \in flips /\ Pass(s, "threats")
    /\ cooldown' = {k \in cooldown : k[1] = LeadLevel}
    /\ cleared' = cleared \cup {s}
    /\ UNCHANGED <<due, won, inbox, queue, pushVars, expired>>

CountExpiry(k) == expired[k] < MaxFaults /\ expired' = [expired EXCEPT ![k] = @ + 1]
Expire ==
    /\ \/ /\ \E k \in cooldown : cooldown' = cooldown \ {k}
          /\ CountExpiry("cooldown") /\ UNCHANGED limited
       \/ /\ \E n \in limited : limited' = limited \ {n}
          /\ CountExpiry("limit") /\ UNCHANGED cooldown
    /\ UNCHANGED <<due, won, inbox, queue, inHand, pushed, owner, cleared>>

(* BRPOP: the payload is gone from the queue.                                   *)
Pop(w) ==
    /\ inHand[w] = Free /\ queue # <<>>
    /\ inHand' = [inHand EXCEPT ![w] = [notice |-> Head(queue), step |-> "limit"]]
    /\ queue' = Tail(queue)
    /\ UNCHANGED <<cooldown, due, won, inbox, pushed, limited, owner, expired, cleared>>

Drop(w) == inHand' = [inHand EXCEPT ![w] = Free]

(* tryPushRateLimit, before the tokens are read.                                *)
TryPushRateLimit(w) ==
    /\ inHand[w] # Free /\ inHand[w].step = "limit"
    /\ IF inHand[w].notice \in limited THEN Drop(w)
       ELSE inHand' = [inHand EXCEPT ![w].step = "send"]
    /\ limited' = limited \cup {inHand[w].notice}
    /\ UNCHANGED <<cooldown, due, won, inbox, queue, pushed, owner, expired, cleared>>

(* ListByUser and Send to every token; without a token nothing is sent.          *)
Send(w) ==
    /\ inHand[w] # Free /\ inHand[w].step = "send"
    /\ Drop(w)
    /\ pushed' = IF \E d \in Devices_ : owner[d] = MemberOf[inHand[w].notice[2]]
                 THEN [pushed EXCEPT ![inHand[w].notice] = @ + 1] ELSE pushed
    /\ UNCHANGED <<cooldown, due, won, inbox, queue, limited, owner, expired, cleared>>

(* The worker stops, or an error ends HandlePayload.                            *)
LosePayload(w) ==
    /\ inHand[w] # Free
    /\ Drop(w)
    /\ UNCHANGED <<cooldown, due, won, inbox, queue, pushed, limited, owner, expired, cleared>>

(* Upsert of a token takes it from its former user; Delete is for one's own.      *)
SetToken(d, u) ==
    /\ owner' = [owner EXCEPT ![d] = IF @ = u THEN Free ELSE u]
    /\ UNCHANGED <<cooldown, due, won, inbox, queue, inHand, pushed, limited, expired, cleared>>

(* MarkRead, by ids or all.                                                    *)
MarkRead(rows) ==
    /\ rows # {} /\ rows \subseteq {n \in inbox : ~n.read}
    /\ inbox' = (inbox \ rows) \cup {[n EXCEPT !.read = TRUE] : n \in rows}
    /\ UNCHANGED <<cooldown, due, won, queue, pushVars, expired, cleared>>

DetectNext ==
    \E s \in Supports :
        \/ ClearCooldown(s)
        \/ \E call \in AlertStages : Detect(s, call) \/ TryCooldown(s, call) \/ Enqueue(s, call)
PushNext ==
    /\ \/ \E w \in PushWorkers : Pop(w) \/ TryPushRateLimit(w) \/ Send(w) \/ LosePayload(w)
       \/ Expire
       \/ \E d \in Devices_, u \in Owners : SetToken(d, u)
       \/ \E n \in inbox : MarkRead({n})
       \/ MarkRead({n \in inbox : ~n.read})
    /\ UNCHANGED pipelineVars

-----------------------------------------------------------------------------
Announced(n) == {row \in inbox : row.notice = n}
AnnouncedLevel(l) == {row \in inbox : row.notice[1] = l}

(* A level is announced once per cooldown, and pushed once per push window,       *)
(* whatever requests and workers overlap (threats.go: "City-level Redis SETNX    *)
(* prevents duplicate alerts while tension hovers").                          *)
AlertsAreLimited ==
    /\ \A l \in TensionLevels :
           Cardinality(AnnouncedLevel(l)) <= 1 + expired["cooldown"] + Cardinality(cleared)
    /\ \A t \in Tribes : Cardinality(Announced(<<LeadLevel, t>>)) <= 1 + expired["cooldown"]
    /\ \A n \in Notices : pushed[n] <= 1 + expired["limit"]

(* When no requests overlapped and no call failed, every crossing has been         *)
(* announced since the holder took the city; requests that overlap see each       *)
(* other's supports and may all miss the crossing.                            *)
CrossingsAreAnnounced ==
    "threats" \in effects /\ overlapping = {} /\ skipped = {}
        /\ (\A s \in Committed : Passed(s, "threats"))
    => \A i \in DOMAIN commits : \A l \in TensionCrossed(ScoresAfter(i - 1), ScoresAfter(i)) :
           \E j \in 1..i : /\ \A k \in (j + 1)..i : ~Flipped(k)
                           /\ \E row \in AnnouncedLevel(l) : row.by = commits[j].by

(* The alerts of a city: neither repeated nor forgotten.                         *)
AlertsFollowTension == AlertsAreLimited /\ CrossingsAreAnnounced
=============================================================================
