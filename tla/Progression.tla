---------------------------- MODULE Progression ----------------------------
(***************************************************************************)
(* XP, quests and achievements (backend/internal/progression, share).          *)
(*                                                                         *)
(* A support's request awards XP, then runs one transaction per quest: the     *)
(* progress row is locked, or inserted when there is none, advanced and         *)
(* committed; a completed quest is paid after the commit.  The first-support    *)
(* achievement counts the user's supports and inserts when there is one.       *)
(*                                                                         *)
(* One quest counts supports, one follows the streak; the templates of a kind   *)
(* are handled one after the other in the same way.                           *)
(***************************************************************************)
EXTENDS Pipeline

CONSTANTS
    StreakOf,       \* StreakOf[s]: the streak the support leaves
    Advancing,      \* supports that made the streak longer
    Target,         \* Target[q]: criteria.target
    Thresholds,     \* DefaultStreakThresholds
    Earlier,        \* Earlier[u]: supports before these, in the period of the quests
    NoRow           \* no user_quest_progress row

QuestStages == {"xp", "streak"}     \* the count quest and the streak quest, by stage
Sources == {"support_applied", "streak_updated"} \cup QuestStages

ASSUME ProgressionAssumption ==
    /\ StreakOf \in [Supports -> Nat \ {0}] /\ Advancing \subseteq Supports
    /\ Target \in [QuestStages -> Nat \ {0}] /\ Thresholds \subseteq Nat
    /\ Earlier \in [Players -> {0, 1}] /\ \A q \in QuestStages : Target[q] > 1
    /\ NoRow \notin [progress : Nat, completed : BOOLEAN]

VARIABLES
    xp,         \* xp[u][source]: awards so far; total_xp is their weighted sum
    quest,      \* quest[u][q]: the progress row
    place,      \* place[s]: the step within the stage, and what its transaction has read
    collided,   \* supports whose insert of the progress row failed (history)
    firsts,     \* first_support achievements, by the support that earned them
    badges      \* badges[u]: streak_n achievements

progressVars == <<xp, quest, place, collided, firsts, badges>>

Fresh == [call |-> "done", step |-> "start", read |-> 0, new |-> FALSE]
Steps == {"start", "select", "insert", "open", "reward", "create"}

(* A row is completed once its progress has reached the target, and not before.  *)
ProgressTypeOK ==
    /\ xp \in [Players -> [Sources -> Nat]]
    /\ quest \in [Players -> [QuestStages ->
           [progress : Nat, completed : BOOLEAN] \cup {NoRow}]]
    /\ \A u \in Players, q \in QuestStages :
           quest[u][q] # NoRow => (quest[u][q].completed <=> quest[u][q].progress >= Target[q])
    /\ place \in [Supports -> [call : Calls_ \cup {"done"}, step : Steps,
                               read : Nat, new : BOOLEAN]]
    /\ collided \subseteq Supports /\ firsts \subseteq Supports
    /\ badges \in [Players -> SUBSET Thresholds]

ProgressInit ==
    /\ xp = [u \in Players |-> [source \in Sources |-> 0]]
    /\ quest = [u \in Players |-> [q \in QuestStages |->
                  IF Earlier[u] = 0 THEN NoRow ELSE [progress |-> 1, completed |-> FALSE]]]
    /\ place = [s \in Supports |-> Fresh]
    /\ collided = {} /\ firsts = {} /\ badges = [u \in Players |-> {}]

-----------------------------------------------------------------------------
(* A support that has left a stage, in whatever way, starts the next afresh.   *)
StepOf(s) == IF place[s].call = stage[s] THEN place[s].step ELSE "start"
Stay(s, step, read, new) ==
    /\ place' = [place EXCEPT ![s] = [call |-> stage[s], step |-> step, read |-> read, new |-> new]]
    /\ UNCHANGED pipelineVars
Leave(s) == Pass(s, stage[s]) /\ place' = [place EXCEPT ![s] = Fresh]

Award(s, source) == xp' = [xp EXCEPT ![Supporter[s]][source] = @ + 1]
RowOf(s) == quest[Supporter[s]][stage[s]]

(* Another transaction works on the same row.                                 *)
Contended(s) ==
    \E t \in Supports \ {s} :
        Supporter[t] = Supporter[s] /\ stage[t] = stage[s] /\ StepOf(t) = "open"

(* AwardXP of the support, or of a longer streak; an error is only logged.     *)
AwardXP(s) ==
    /\ stage[s] \in QuestStages /\ StepOf(s) = "start"
    /\ \/ stage[s] = "xp" /\ Award(s, "support_applied")
       \/ stage[s] = "streak" /\ s \in Advancing /\ Award(s, "streak_updated")
       \/ stage[s] = "streak" /\ s \notin Advancing /\ UNCHANGED xp
    /\ Stay(s, "select", 0, FALSE)
    /\ UNCHANGED <<quest, collided, firsts, badges>>

(* Mutant: the row is read without FOR UPDATE.                                 *)
SelectQuest_Unlocked(s) ==
    /\ stage[s] \in QuestStages /\ StepOf(s) = "select"
    /\ IF RowOf(s) = NoRow THEN Stay(s, "insert", 0, FALSE)
       ELSE IF RowOf(s).completed THEN Leave(s)
       ELSE Stay(s, "open", RowOf(s).progress, FALSE)
    /\ UNCHANGED <<xp, quest, collided, firsts, badges>>

(* SELECT ... FOR UPDATE; a row another transaction has not committed is none.  *)
SelectQuest(s) ==
    /\ stage[s] \in QuestStages /\ StepOf(s) = "select"
    /\ RowOf(s) # NoRow => ~Contended(s)
    /\ IF RowOf(s) = NoRow THEN Stay(s, "insert", 0, FALSE)
       ELSE IF RowOf(s).completed THEN Leave(s)
       ELSE Stay(s, "open", RowOf(s).progress, FALSE)
    /\ UNCHANGED <<xp, quest, collided, firsts, badges>>

(* INSERT waits for another insert of the row, and fails when that commits:    *)
(* the event is lost.                                                        *)
InsertQuest(s) ==
    /\ StepOf(s) = "insert"
    /\ ~Contended(s)
    /\ IF RowOf(s) = NoRow
       THEN Stay(s, "open", 0, TRUE) /\ UNCHANGED collided
       ELSE Leave(s) /\ collided' = collided \cup {s}
    /\ UNCHANGED <<xp, quest, firsts, badges>>

(* ApplyEvent: one more support, or the streak when it is longer.              *)
ApplyEvent(s, progress) ==
    IF stage[s] = "xp" THEN progress + 1
    ELSE IF StreakOf[s] > progress THEN StreakOf[s] ELSE progress

(* UPDATE and commit; the reward comes afterwards, on another connection.      *)
CommitQuest(s) ==
    /\ StepOf(s) = "open"
    /\ LET next == ApplyEvent(s, place[s].read)
           complete == next >= Target[stage[s]]
       IN /\ quest' = [quest EXCEPT ![Supporter[s]][stage[s]] =
                          [progress |-> next, completed |-> complete]]
          /\ IF complete THEN Stay(s, "reward", 0, FALSE) ELSE Leave(s)
    /\ UNCHANGED <<xp, collided, firsts, badges>>

RewardQuest(s) ==
    /\ StepOf(s) = "reward"
    /\ Award(s, stage[s])
    /\ Leave(s)
    /\ UNCHANGED <<quest, collided, firsts, badges>>

(* MaybeFirstSupport: COUNT of the user's supports ...                       *)
CountSupports(s) ==
    /\ stage[s] = "first" /\ StepOf(s) = "start"
    /\ IF Earlier[Supporter[s]] > 0 \/ \E t \in Committed \ {s} : Supporter[t] = Supporter[s]
       THEN Leave(s) ELSE Stay(s, "create", 0, FALSE)
    /\ UNCHANGED <<xp, quest, collided, firsts, badges>>

(* ... and CreateIfAbsent when it is the only one.                             *)
CreateFirst(s) ==
    /\ StepOf(s) = "create"
    /\ firsts' = firsts \cup {s}
    /\ Leave(s)
    /\ UNCHANGED <<xp, quest, collided, badges>>

MintStreak(s) ==
    /\ stage[s] = "streaks"
    /\ badges' = [badges EXCEPT ![Supporter[s]] = @ \cup ({StreakOf[s]} \cap Thresholds)]
    /\ Leave(s)
    /\ UNCHANGED <<xp, quest, collided, firsts>>

ProgressNext ==
    \E s \in Supports :
        \/ AwardXP(s) \/ SelectQuest(s) \/ InsertQuest(s) \/ CommitQuest(s)
        \/ RewardQuest(s) \/ CountSupports(s) \/ CreateFirst(s) \/ MintStreak(s)

-----------------------------------------------------------------------------
SupportsOf(u) == {s \in Supports : Supporter[s] = u}

(* A completed quest is paid once, and unpaid only while its request still has  *)
(* to pay or was broken off; every event counts that neither failed nor lost     *)
(* the insert of the row to an overlapping request (engine.go applyOneQuest).   *)
QuestsPayOnce ==
    \A u \in Players, q \in QuestStages :
        /\ xp[u][q] <= 1
        /\ quest[u][q] # NoRow =>
              /\ quest[u][q].completed /\ xp[u][q] = 0 =>
                    \E s \in SupportsOf(u) :
                        <<s, q>> \in skipped \/ (stage[s] = q /\ StepOf(s) = "reward")
              /\ q = "xp" /\ ~quest[u][q].completed =>
                    quest[u][q].progress >=
                        Earlier[u] + Cardinality({s \in SupportsOf(u) \ collided : Made(s, q)})
CollisionsAreRaces == collided \subseteq overlapping

(* A user gets one first_support achievement at most, and gets it unless a       *)
(* request overlapped or broke off (achievements.go MaybeFirstSupport).         *)
FirstSupportIsMarked ==
    \A u \in Players :
        /\ Cardinality(firsts \cap SupportsOf(u)) <= 1
        /\ "first" \in effects /\ Earlier[u] = 0 /\ SupportsOf(u) \cap overlapping = {}
             /\ (\E s \in SupportsOf(u) : s \in Committed)
             /\ (\A s \in SupportsOf(u) \cap Committed : Made(s, "first"))
           => firsts \cap SupportsOf(u) # {}

(* Rewards: quests and achievements together.                                  *)
RewardsArePaidOnce == QuestsPayOnce /\ CollisionsAreRaces /\ FirstSupportIsMarked
=============================================================================
