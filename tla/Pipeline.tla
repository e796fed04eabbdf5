------------------------------ MODULE Pipeline ------------------------------
(***************************************************************************)
(* What a support does after its commit (backend/internal/support/spend.go,   *)
(* Service.apply from tx.Commit to the answer).                              *)
(*                                                                         *)
(* The request runs a fixed list of best-effort calls, one after the other,   *)
(* and ignores their errors: a call that fails is skipped, and when the       *)
(* client or the process goes away all that are left are.  Nothing repeats     *)
(* them.  The modules that EXTEND this one say what the calls do; a call that  *)
(* no acting module follows is passed over.                                  *)
(***************************************************************************)
EXTENDS Naturals, Sequences, FiniteSets

CONSTANTS
    Players,        \* users who support
    Supports,       \* supports, each with its request
    Supporter,      \* Supporter[s]: the user of a support
    SideOf,         \* SideOf[s]: the tribe it is for, 1 or 2 in the order of the ids
    Worth,          \* Worth[s]: its effective support
    Held,           \* Held[t]: what the tribes have in the city at the start
    MaxFaults       \* bound on failing calls and requests that break off

ASSUME PipelineAssumption ==
    /\ Supporter \in [Supports -> Players]
    /\ SideOf \in [Supports -> {1, 2}] /\ Worth \in [Supports -> Nat \ {0}]
    /\ Held \in [{1, 2} -> Nat]
    /\ MaxFaults \in Nat

VARIABLES
    stage,      \* the next call of each support's request
    commits,    \* the supports in commit order, with the scores they left
    overlapping,\* supports committed while another's request ran, and those (history)
    skipped,    \* <<support, call>>: calls that were not made (history)
    effects,    \* the calls that act in this behaviour
    asked,      \* the supports that are asked for in it
    faults

pipelineVars == <<stage, commits, overlapping, skipped, effects, asked, faults>>

Order == <<"control", "support_event", "flip_event", "feed", "momentum", "boards", "xp",
           "streak", "threats", "lead", "first", "streaks">>
FlipOnly == {"flip_event", "momentum"}
Calls_ == {Order[i] : i \in DOMAIN Order}

Tribes == {1, 2}

PipelineTypeOK ==
    /\ stage \in [Supports -> Calls_ \cup {"requested", "done"}]
    /\ commits \in Seq([by : Supports, left : [Tribes -> Nat]])
    /\ overlapping \subseteq Supports
    /\ skipped \subseteq Supports \X Calls_
    /\ effects \subseteq Calls_ /\ asked \subseteq Supports
    /\ faults \in 0..MaxFaults

PipelineInit(acting, supports) ==
    /\ effects = acting /\ asked = supports
    /\ stage = [s \in Supports |-> "requested"]
    /\ commits = <<>> /\ overlapping = {} /\ skipped = {} /\ faults = 0

-----------------------------------------------------------------------------
Committed == {s \in Supports : stage[s] # "requested"}
Ongoing == {s \in Committed : stage[s] # "done"}

(* What a query on pools.Read sees: a replica has replayed the first n commits,  *)
(* the primary all of them.                                                   *)
Replayed(n) == {s \in Committed : \E i \in 1..n : commits[i].by = s}

(* tribe_province_scores of the city after n commits, and who leads by them.    *)
ScoresAfter(n) == IF n = 0 THEN Held ELSE commits[n].left
Scores == ScoresAfter(Len(commits))
Leader(scores) ==
    IF scores[1] = 0 /\ scores[2] = 0 THEN 0 ELSE IF scores[1] >= scores[2] THEN 1 ELSE 2
Flipped(i) == Leader(ScoresAfter(i - 1)) # Leader(ScoresAfter(i))
flips == {commits[i].by : i \in {j \in DOMAIN commits : Flipped(j)}}

(* The calls a support makes, in order, and those behind a given one.         *)
Place(call) == CHOOSE i \in DOMAIN Order : Order[i] = call
CallsOf(flip) == {c \in effects : flip \/ c \notin FlipOnly}
Behind(s) == {c \in CallsOf(s \in flips) : Place(c) > Place(stage[s])}
First(calls) ==
    IF calls = {} THEN "done" ELSE CHOOSE c \in calls : \A d \in calls : Place(c) <= Place(d)

(* tx.Commit of the transaction SupportSpend describes.                        *)
CommitSupport(s) ==
    /\ s \in asked /\ stage[s] = "requested"
    /\ LET left == [Scores EXCEPT ![SideOf[s]] = @ + Worth[s]]
       IN /\ commits' = Append(commits, [by |-> s, left |-> left])
          /\ stage' = [stage EXCEPT ![s] = First(CallsOf(Leader(left) # Leader(Scores)))]
    /\ overlapping' = IF Ongoing = {} THEN overlapping ELSE overlapping \cup Ongoing \cup {s}
    /\ UNCHANGED <<skipped, effects, asked, faults>>

(* The call of this stage returns; on to the next.                            *)
Pass(s, call) ==
    /\ stage[s] = call
    /\ stage' = [stage EXCEPT ![s] = First(Behind(s))]
    /\ UNCHANGED <<commits, overlapping, skipped, effects, asked, faults>>

(* The call of this stage fails: `_ = ...`.                                   *)
Skip(s) ==
    /\ s \in Ongoing
    /\ faults < MaxFaults /\ faults' = faults + 1
    /\ skipped' = skipped \cup {<<s, stage[s]>>}
    /\ stage' = [stage EXCEPT ![s] = First(Behind(s))]
    /\ UNCHANGED <<commits, overlapping, effects, asked>>

(* The process stops, or the client does and its context is cancelled.         *)
BreakOff(s) ==
    /\ s \in Ongoing
    /\ faults < MaxFaults /\ faults' = faults + 1
    /\ skipped' = skipped \cup ({s} \X ({stage[s]} \cup Behind(s)))
    /\ stage' = [stage EXCEPT ![s] = "done"]
    /\ UNCHANGED <<commits, overlapping, effects, asked>>

(* The call is behind s: made, or skipped.                                    *)
Passed(s, call) ==
    /\ s \in Committed
    /\ \/ stage[s] = "done"
       \/ Place(call) < Place(stage[s])
Made(s, call) == call \in effects /\ Passed(s, call) /\ <<s, call>> \notin skipped

RequestNext == \E s \in Supports : CommitSupport(s) \/ Skip(s) \/ BreakOff(s)
=============================================================================
