---------------------------- MODULE DerbyProofs ----------------------------
(***************************************************************************)
(* Theorems about Derby, for any derbies, cities, workers and supports, any  *)
(* bounds on the clock and on the stops, with Redis failing or not.           *)
(***************************************************************************)
EXTENDS Derby, FiniteSetTheorems, TLAPS

(* Whatever may double a support leads back to a derby that was opened: the   *)
(* row, the cache, the workers that will write the cache, the supports that    *)
(* will.                                                                     *)
OpenedFirst ==
    /\ \A d \in Derbies : status[d] = "active" => d \in opened
    /\ \A c \in Cities : cached[c] # NoDerby => cached[c] \in opened
    /\ \A s \in Supports : spend[s].derby # NoDerby => spend[s].derby \in opened
    /\ \A w \in Workers : At(w, "init") \/ At(w, "warm") => work[w].derby \in opened

(* One worker at most is to publish the result of a derby, it is the one whose *)
(* UPDATE went through, and it has not published yet.                        *)
Publishes(w, d) == At(w, "drop") /\ work[w].derby = d

PublishedOnce ==
    \A d \in Derbies :
        /\ announced[d] <= 1
        /\ status[d] # "resolved" => announced[d] = 0
        /\ \A w \in Workers : Publishes(w, d) => status[d] = "resolved" /\ announced[d] = 0
        /\ \A v, w \in Workers : Publishes(v, d) /\ Publishes(w, d) => v = w

(* The supports that have got as far as their increment, for one side.        *)
Done(d, side) ==
    {s \in Supports : spend[s].step = "done" /\ spend[s].derby = d /\ SideOf(s, d) = side}

Begun == {s \in Supports : spend[s].step # "new"}

(* Only so many supports have begun, and no number of points, on its way from  *)
(* the counter through a worker to the totals, exceeds what was incremented.   *)
Backed(n, d, side) == n <= 2 * Cardinality(Done(d, side))

PointsBacked ==
    /\ IsFiniteSet(Begun)
    /\ \A d \in Derbies, side \in Sides : Backed(counter[d][side], d, side)
    /\ \A d \in Derbies, side \in Sides : Backed(total[d][side], d, side)
    /\ \A w \in Workers : work[w] # Idle =>
          \A side \in Sides : Backed(work[w].points[side], work[w].derby, side)

(* The inductive invariant.                                                  *)
DInv == TypeOK /\ OpenedFirst /\ PublishedOnce /\ PointsBacked
-----------------------------------------------------------------------------
(* Workers                                                                  *)

(* A publication that is not under way cannot appear by a step of a worker     *)
(* that goes elsewhere.                                                      *)
LEMMA NoPublication ==
  ASSUME TypeOK, PublishedOnce, NEW w \in Workers, NEW x,
         work' = [work EXCEPT ![w] = x], x = Idle \/ x.step # "drop",
         announced' = announced,
         \A d \in Derbies : status[d] = "resolved" => status'[d] = "resolved"
  PROVE  PublishedOnce'
  <1>1. \A v \in Workers, d \in Derbies : Publishes(v, d)' => Publishes(v, d)
    BY DEF TypeOK, Publishes, At
  <1> QED BY <1>1 DEF PublishedOnce

(* Points that were incremented stay incremented: a worker touches no support. *)
LEMMA BackedStays ==
  ASSUME spend' = spend
  PROVE  /\ Begun' = Begun
         /\ \A n, d, side : Backed(n, d, side)' <=> Backed(n, d, side)
  BY DEF Backed, Begun, Done

(* A worker moves on to x.                                                   *)
LEMMA WorkerStep ==
  ASSUME DInv, NEW w \in Workers, NEW x,
         work' = [work EXCEPT ![w] = x], x \in Task \cup {Idle},
         UNCHANGED <<spend, now, timely>>,
         status' \in [Derbies -> {"none", "scheduled", "active", "resolved"}],
         total' \in [Derbies -> Points], counter' \in [Derbies -> Points],
         cached' \in [Cities -> Derbies \cup {NoDerby}],
         announced' \in [Derbies -> Nat], opened' \subseteq Derbies,
         stops' \in 0..MaxStops,
         opened \subseteq opened',
         \A d \in Derbies : status'[d] = "active" => d \in opened',
         \A c \in Cities : cached'[c] # NoDerby => cached'[c] \in opened',
         x # Idle /\ x.step \in {"init", "warm"} => x.derby \in opened',
         \A d \in Derbies, side \in Sides : Backed(counter'[d][side], d, side),
         \A d \in Derbies, side \in Sides : Backed(total'[d][side], d, side),
         x # Idle => \A side \in Sides : Backed(x.points[side], x.derby, side),
         PublishedOnce'
  PROVE  DInv'
  <1>1. work' \in [Workers -> Task \cup {Idle}] /\ work'[w] = x
        /\ \A v \in Workers : v # w => work'[v] = work[v]
    BY DEF DInv, TypeOK
  <1>2. TypeOK'
    BY <1>1 DEF DInv, TypeOK
  <1>3. OpenedFirst'
    <2>1. \A s \in Supports : spend'[s].derby # NoDerby => spend'[s].derby \in opened'
      BY DEF DInv, OpenedFirst
    <2>2. \A v \in Workers : At(v, "init")' \/ At(v, "warm")' => work'[v].derby \in opened'
      BY <1>1 DEF DInv, OpenedFirst, At
    <2> QED BY <2>1, <2>2 DEF OpenedFirst
  <1>4. PointsBacked'
    <2>1. /\ Begun' = Begun
          /\ \A n, d, side : Backed(n, d, side)' <=> Backed(n, d, side)
      BY BackedStays
    <2>2. IsFiniteSet(Begun)'
      BY <2>1 DEF DInv, PointsBacked
    <2>3. \A d \in Derbies, side \in Sides : Backed(counter[d][side], d, side)'
      BY DEF Backed, Done
    <2>4. \A d \in Derbies, side \in Sides : Backed(total[d][side], d, side)'
      BY DEF Backed, Done
    <2>5. ASSUME NEW v \in Workers, work'[v] # Idle, NEW side \in Sides
          PROVE  Backed(work[v].points[side], work[v].derby, side)'
      <3>1. Backed(work'[v].points[side], work'[v].derby, side)
        BY <1>1, <2>5 DEF DInv, PointsBacked
      <3> QED BY <3>1 DEF Backed, Done
    <2> QED BY <2>2, <2>3, <2>4, <2>5 DEF PointsBacked
  <1> QED BY <1>2, <1>3, <1>4 DEF DInv

(* The parts of the invariant a step may need.                               *)
LEMMA DInvParts ==
  ASSUME DInv
  PROVE  /\ TypeOK
         /\ status \in [Derbies -> {"none", "scheduled", "active", "resolved"}]
         /\ total \in [Derbies -> Points] /\ counter \in [Derbies -> Points]
         /\ cached \in [Cities -> Derbies \cup {NoDerby}]
         /\ announced \in [Derbies -> Nat] /\ opened \subseteq Derbies
         /\ timely \subseteq Supports /\ stops \in 0..MaxStops /\ work \in [Workers -> Task \cup {Idle}]
         /\ \A d \in Derbies : status[d] = "active" => d \in opened
         /\ \A c \in Cities : cached[c] # NoDerby => cached[c] \in opened
         /\ \A d \in Derbies, side \in Sides : Backed(counter[d][side], d, side)
         /\ \A d \in Derbies, side \in Sides : Backed(total[d][side], d, side)
         /\ PublishedOnce
  BY DEF DInv, TypeOK, OpenedFirst, PointsBacked

(* Zero points need no support.                                              *)
LEMMA NothingIsBacked ==
  ASSUME DInv, NEW d, NEW side
  PROVE  Backed(0, d, side) /\ Cardinality(Done(d, side)) \in Nat
  <1>1. Done(d, side) \subseteq Begun
    BY DEF Done, Begun
  <1>2. IsFiniteSet(Done(d, side))
    BY <1>1, FS_Subset DEF DInv, PointsBacked
  <1> QED BY <1>2, FS_CardinalityType DEF Backed

LEMMA NoPointsBacked ==
  ASSUME DInv, NEW d \in Derbies, NEW side \in Sides
  PROVE  NoPoints \in Points /\ Backed(NoPoints[side], d, side)
  BY NothingIsBacked DEF NoPoints, Points

(* The task of a worker that activates a derby.                               *)
LEMMA ActivateTask ==
  ASSUME NEW d \in Derbies, NEW w \in Workers, StartActivate(w, d)
  PROVE  \E x \in Task : /\ work' = [work EXCEPT ![w] = x]
                         /\ x.derby = d /\ x.step = "init" /\ x.points = NoPoints
  <1>1. PICK overdue \in BOOLEAN : Begin(w, d, "init", overdue)
    <2> DEFINE ended == EndsAt[d] <= now
    <2>1. ended \in BOOLEAN
      OBVIOUS
    <2>2. \E overdue \in {FALSE, ended} : Begin(w, d, "init", overdue)
      BY DEF StartActivate
    <2> HIDE DEF ended
    <2> QED BY <2>1, <2>2
  <1> DEFINE x == [derby |-> d, step |-> "init", overdue |-> overdue, points |-> NoPoints]
  <1>2. x \in Task /\ x.derby = d /\ x.step = "init" /\ x.points = NoPoints
    BY DEF Task, NoPoints, Points
  <1>3. work' = [work EXCEPT ![w] = x]
    BY <1>1 DEF Begin
  <1> HIDE DEF x
  <1> QED BY <1>2, <1>3

(* The task of a worker that begins a resolution.                             *)
LEMMA ResolveTask ==
  ASSUME NEW d \in Derbies, NEW w \in Workers, StartResolve(w, d) \/ ForceResolve(w, d)
  PROVE  \E x \in Task : /\ work' = [work EXCEPT ![w] = x]
                         /\ x.derby = d /\ x.step = "read" /\ x.points = NoPoints
  <1> DEFINE x == [derby |-> d, step |-> "read", overdue |-> FALSE, points |-> NoPoints]
  <1>1. x \in Task /\ x.derby = d /\ x.step = "read" /\ x.points = NoPoints
    BY DEF Task, NoPoints, Points
  <1>2. work' = [work EXCEPT ![w] = x]
    BY DEF StartResolve, ForceResolve, Begin
  <1> HIDE DEF x
  <1> QED BY <1>1, <1>2

(* The task of a busy worker.                                                *)
LEMMA BusyTask ==
  ASSUME DInv, NEW w \in Workers, work[w] # Idle
  PROVE  /\ work[w] \in Task /\ work[w].derby \in Derbies /\ work[w].points \in Points
         /\ \A side \in Sides : Backed(work[w].points[side], work[w].derby, side)
  BY DEF DInv, TypeOK, Task, PointsBacked

LEMMA CreateKeeps ==
  ASSUME DInv, NEW d \in Derbies, Create(d)
  PROVE  DInv'
  <1>1. /\ UNCHANGED <<total, announced, opened, timely, counter, cached, now, work, spend, stops>>
        /\ status' = [status EXCEPT ![d] = "scheduled"] /\ status[d] = "none"
    BY DEF Create, redisVars
  <1>2. TypeOK'
    BY <1>1 DEF DInv, TypeOK
  <1>3. OpenedFirst'
    BY <1>1 DEF DInv, TypeOK, OpenedFirst, At
  <1>4. PublishedOnce'
    <2>1. \A e \in Derbies : /\ status[e] = "resolved" => status'[e] = "resolved"
                             /\ status'[e] # "resolved" => status[e] # "resolved"
      BY <1>1 DEF DInv, TypeOK
    <2> QED BY <1>1, <2>1 DEF DInv, PublishedOnce, Publishes, At
  <1>5. PointsBacked'
    BY <1>1 DEF DInv, PointsBacked, Backed, Done, Begun
  <1> QED BY <1>2, <1>3, <1>4, <1>5 DEF DInv
-----------------------------------------------------------------------------
(* Activation and resolution                                                *)

LEMMA StartActivateKeeps ==
  ASSUME DInv, NEW w \in Workers, NEW d \in Derbies, StartActivate(w, d)
  PROVE  DInv'
  <1>1. PICK x \in Task : /\ work' = [work EXCEPT ![w] = x]
                          /\ x.derby = d /\ x.step = "init" /\ x.points = NoPoints
    BY ActivateTask
  <1>2. /\ UNCHANGED <<total, announced, timely, counter, cached, now, spend, stops>>
        /\ status[d] = "scheduled" /\ status' = [status EXCEPT ![d] = "active"]
        /\ opened' = opened \cup {d}
    BY DEF StartActivate, redisVars
  <1>3. /\ \A e \in Derbies : status'[e] = "active" => e \in opened'
        /\ \A e \in Derbies : status[e] = "resolved" => status'[e] = "resolved"
        /\ status' \in [Derbies -> {"none", "scheduled", "active", "resolved"}]
        /\ opened' \subseteq Derbies
    BY <1>2, DInvParts
  <1>4. PublishedOnce'
    BY <1>1, <1>2, <1>3, NoPublication DEF DInv
  <1>5. \A side \in Sides : Backed(x.points[side], x.derby, side)
    BY <1>1, NoPointsBacked
  <1> QED BY <1>1, <1>2, <1>3, <1>4, <1>5, DInvParts, WorkerStep

LEMMA StartResolveKeeps ==
  ASSUME DInv, NEW w \in Workers, NEW d \in Derbies,
         StartResolve(w, d) \/ ForceResolve(w, d)
  PROVE  DInv'
  <1>1. PICK x \in Task : /\ work' = [work EXCEPT ![w] = x]
                          /\ x.derby = d /\ x.step = "read" /\ x.points = NoPoints
    BY ResolveTask
  <1>2. UNCHANGED <<status, total, announced, opened, timely, counter, cached, now, spend, stops>>
    BY DEF StartResolve, ForceResolve, derbyVars, redisVars
  <1>3. PublishedOnce'
    BY <1>1, <1>2, NoPublication DEF DInv
  <1>4. \A side \in Sides : Backed(x.points[side], x.derby, side)
    BY <1>1, NoPointsBacked
  <1> QED BY <1>1, <1>2, <1>3, <1>4, DInvParts, WorkerStep

(* A worker that keeps its task and only changes the step or the points.      *)
LEMMA InitScoresKeeps ==
  ASSUME DInv, NEW w \in Workers, InitScores(w)
  PROVE  DInv'
  <1>1. work[w] # Idle /\ work[w].step = "init"
    BY DEF InitScores, At
  <1>2. PICK t \in Task, d \in Derbies : t = work[w] /\ d = t.derby
    BY <1>1, BusyTask
  <1> DEFINE new == [t EXCEPT !.step = "warm"]
  <1>3. PICK x \in Task : /\ x = new /\ x.derby = d /\ x.step = "warm"
                          /\ x.points = t.points
    <2>1. new \in Task /\ new.derby = t.derby /\ new.step = "warm" /\ new.points = t.points
      BY DEF Task
    <2> QED BY <1>2, <2>1
  <1>4. work' = [work EXCEPT ![w] = x]
    BY <1>2, <1>3 DEF InitScores, GoTo
  <1>5. /\ UNCHANGED <<status, total, announced, opened, timely, cached, now, spend, stops>>
        /\ counter' = [counter EXCEPT ![d] = NoPoints] \/ counter' = counter
    BY <1>2 DEF InitScores, derbyVars
  <1>6. /\ counter' \in [Derbies -> Points]
        /\ \A e \in Derbies, side \in Sides : Backed(counter'[e][side], e, side)
    <2>1. CASE counter' = counter
      BY <2>1, DInvParts
    <2>2. CASE counter' = [counter EXCEPT ![d] = NoPoints]
      <3>1. NoPoints \in Points
        BY DEF NoPoints, Points
      <3>2. \A e \in Derbies : counter'[e] = IF e = d THEN NoPoints ELSE counter[e]
        BY <2>2, DInvParts
      <3>3. \A e \in Derbies, side \in Sides : Backed(counter'[e][side], e, side)
        BY <3>2, DInvParts, NoPointsBacked
      <3> QED BY <2>2, <3>1, <3>3, DInvParts
    <2> QED BY <1>5, <2>1, <2>2
  <1>7. d \in opened'
    BY <1>1, <1>2, <1>5 DEF DInv, OpenedFirst, At
  <1>8. PublishedOnce'
    BY <1>3, <1>4, <1>5, NoPublication DEF DInv
  <1>9. \A side \in Sides : Backed(x.points[side], x.derby, side)
    BY <1>1, <1>2, <1>3, BusyTask
  <1> QED BY <1>3, <1>4, <1>5, <1>6, <1>7, <1>8, <1>9, DInvParts, WorkerStep

LEMMA WarmCacheKeeps ==
  ASSUME DInv, NEW w \in Workers, WarmCache(w)
  PROVE  DInv'
  <1>1. work[w] # Idle /\ work[w].step = "warm"
    BY DEF WarmCache, At
  <1>2. PICK t \in Task, d \in Derbies : t = work[w] /\ d = t.derby
    BY <1>1, BusyTask
  <1>3. d \in opened
    BY <1>1, <1>2 DEF DInv, OpenedFirst, At
  <1>4. /\ UNCHANGED <<status, total, announced, opened, timely, counter, now, spend, stops>>
        /\ cached' = [cached EXCEPT ![City[d]] = d] \/ cached' = cached
    BY <1>2 DEF WarmCache, derbyVars
  <1>5. /\ cached' \in [Cities -> Derbies \cup {NoDerby}]
        /\ \A c \in Cities : cached'[c] # NoDerby => cached'[c] \in opened'
    BY <1>3, <1>4, DInvParts
  <1>6. CASE t.overdue
    <2> DEFINE new == [t EXCEPT !.step = "read", !.overdue = FALSE]
    <2>1. PICK x \in Task : /\ x = new /\ x.derby = d /\ x.step = "read"
                            /\ x.points = t.points
      <3>1. new \in Task /\ new.derby = t.derby /\ new.step = "read" /\ new.points = t.points
        BY DEF Task
      <3> QED BY <1>2, <3>1
    <2>2. work' = [work EXCEPT ![w].step = "read", ![w].overdue = FALSE]
      BY <1>2, <1>6 DEF WarmCache, AfterWarm
    <2>3. work' = [work EXCEPT ![w] = x]
      BY <1>2, <2>1, <2>2, DInvParts
    <2>4. PublishedOnce'
      BY <1>4, <2>1, <2>3, NoPublication DEF DInv
    <2>5. \A side \in Sides : Backed(x.points[side], x.derby, side)
      BY <1>1, <1>2, <2>1, BusyTask
    <2> QED BY <1>4, <1>5, <2>1, <2>3, <2>4, <2>5, DInvParts, WorkerStep
  <1>7. CASE ~t.overdue
    <2>1. work' = [work EXCEPT ![w] = Idle]
      BY <1>2, <1>7 DEF WarmCache, AfterWarm, End
    <2>2. PublishedOnce'
      BY <1>4, <2>1, NoPublication DEF DInv
    <2> QED BY <1>4, <1>5, <2>1, <2>2, DInvParts, WorkerStep
  <1> QED BY <1>6, <1>7

LEMMA GetScoresKeeps ==
  ASSUME DInv, NEW w \in Workers, GetScores(w)
  PROVE  DInv'
  <1>1. work[w] # Idle
    BY DEF GetScores, At
  <1>2. PICK t \in Task, d \in Derbies : t = work[w] /\ d = t.derby
    BY <1>1, BusyTask
  <1>3. PICK points \in Points : points = counter[d]
    BY DInvParts
  <1> DEFINE new == [t EXCEPT !.step = "write", !.points = points]
  <1>4. PICK x \in Task : /\ x = new /\ x.derby = d /\ x.step = "write"
                          /\ x.points = points
    <2>1. new \in Task /\ new.derby = t.derby /\ new.step = "write" /\ new.points = points
      BY DEF Task
    <2> QED BY <1>2, <2>1
  <1>5. /\ UNCHANGED <<status, total, announced, opened, timely, counter, cached, now, spend, stops>>
        /\ work' = [work EXCEPT ![w].step = "write", ![w].points = points]
    BY <1>2, <1>3 DEF GetScores, derbyVars, redisVars
  <1>6. work' = [work EXCEPT ![w] = x]
    BY <1>2, <1>4, <1>5, DInvParts
  <1>7. PublishedOnce'
    BY <1>4, <1>5, <1>6, NoPublication DEF DInv
  <1>8. \A side \in Sides : Backed(x.points[side], x.derby, side)
    BY <1>3, <1>4, DInvParts
  <1> QED BY <1>4, <1>5, <1>6, <1>7, <1>8, DInvParts, WorkerStep

LEMMA ResolveKeeps ==
  ASSUME DInv, NEW w \in Workers, Resolve(w)
  PROVE  DInv'
  <1>1. work[w] # Idle
    BY DEF Resolve, At
  <1>2. PICK t \in Task, d \in Derbies, points \in Points :
           t = work[w] /\ d = t.derby /\ points = t.points
    BY <1>1, BusyTask
  <1>3. UNCHANGED <<announced, opened, timely, counter, cached, now, spend, stops>>
    BY DEF Resolve, redisVars
  <1>4. CASE status[d] \in {"scheduled", "active"}
    <2> DEFINE new == [t EXCEPT !.step = "drop", !.points = NoPoints]
    <2>1. PICK x \in Task : /\ x = new /\ x.derby = d /\ x.step = "drop"
                            /\ x.points = NoPoints
      <3>1. NoPoints \in Points
        BY DEF NoPoints, Points
      <3>2. /\ new \in Task /\ new.derby = t.derby /\ new.step = "drop"
            /\ new.points = NoPoints
        BY <3>1 DEF Task
      <3> QED BY <1>2, <3>2
    <2>2. /\ status' = [status EXCEPT ![d] = "resolved"]
          /\ total' = [total EXCEPT ![d] = points]
          /\ work' = [work EXCEPT ![w].step = "drop", ![w].points = NoPoints]
      BY <1>2, <1>4 DEF Resolve
    <2>3. work' = [work EXCEPT ![w] = x]
      BY <1>2, <2>1, <2>2, DInvParts
    <2>4. /\ status' \in [Derbies -> {"none", "scheduled", "active", "resolved"}]
          /\ \A e \in Derbies : status'[e] = "active" => e \in opened'
      BY <1>3, <2>2, DInvParts
    <2>5. /\ total' \in [Derbies -> Points]
          /\ \A e \in Derbies, side \in Sides : Backed(total'[e][side], e, side)
      BY <1>1, <1>2, <2>2, DInvParts, BusyTask
    <2>6. PublishedOnce'
      <3>1. /\ announced[d] = 0 /\ \A v \in Workers : ~Publishes(v, d)
            /\ status'[d] = "resolved" /\ announced'[d] = 0
        BY <1>3, <1>4, <2>2, DInvParts DEF PublishedOnce
      <3>2. \A e \in Derbies : e # d => status'[e] = status[e] /\ announced'[e] = announced[e]
        BY <1>3, <2>2, DInvParts
      <3>3. \A v \in Workers, e \in Derbies :
               Publishes(v, e)' => (v = w /\ e = d) \/ (e # d /\ Publishes(v, e))
        BY <2>1, <2>3, <3>1, DInvParts DEF Publishes, At
      <3> SUFFICES ASSUME NEW e \in Derbies
                   PROVE  /\ announced'[e] <= 1
                          /\ status'[e] # "resolved" => announced'[e] = 0
                          /\ \A v \in Workers : Publishes(v, e)' =>
                                status'[e] = "resolved" /\ announced'[e] = 0
                          /\ \A v, y \in Workers :
                                Publishes(v, e)' /\ Publishes(y, e)' => v = y
        BY DEF PublishedOnce
      <3>4. CASE e = d
        BY <3>1, <3>3, <3>4
      <3>5. CASE e # d
        BY <3>2, <3>3, <3>5, DInvParts DEF PublishedOnce
      <3> QED BY <3>4, <3>5
    <2>7. \A side \in Sides : Backed(x.points[side], x.derby, side)
      BY <2>1, NoPointsBacked
    <2> QED BY <1>3, <2>1, <2>3, <2>4, <2>5, <2>6, <2>7, DInvParts, WorkerStep
  <1>5. CASE status[d] \notin {"scheduled", "active"}
    <2>1. work' = [work EXCEPT ![w] = Idle] /\ UNCHANGED <<status, total>>
      BY <1>2, <1>5 DEF Resolve, End
    <2>2. PublishedOnce'
      BY <1>3, <2>1, NoPublication DEF DInv
    <2> QED BY <1>3, <2>1, <2>2, DInvParts, WorkerStep
  <1> QED BY <1>4, <1>5

LEMMA DropCacheKeeps ==
  ASSUME DInv, NEW w \in Workers, DropCache(w)
  PROVE  DInv'
  <1>1. work[w] # Idle /\ work[w].step = "drop"
    BY DEF DropCache, At
  <1>2. PICK t \in Task, d \in Derbies : t = work[w] /\ d = t.derby
    BY <1>1, BusyTask
  <1>3. /\ UNCHANGED <<status, total, opened, timely, counter, now, spend, stops>>
        /\ cached' = [cached EXCEPT ![City[d]] = NoDerby] \/ cached' = cached
        /\ announced' = [announced EXCEPT ![d] = announced[d] + 1]
        /\ work' = [work EXCEPT ![w] = Idle]
    BY <1>2 DEF DropCache, End
  <1>4. /\ cached' \in [Cities -> Derbies \cup {NoDerby}]
        /\ \A c \in Cities : cached'[c] # NoDerby => cached'[c] \in opened'
    BY <1>3, DInvParts
  <1>5. announced' \in [Derbies -> Nat]
    BY <1>3, DInvParts
  <1>6. PublishedOnce'
    <2>1. Publishes(w, d)
      BY <1>1, <1>2 DEF Publishes, At
    <2>2. /\ announced[d] = 0 /\ status[d] = "resolved"
          /\ \A v \in Workers : Publishes(v, d) => v = w
      BY <2>1, DInvParts DEF PublishedOnce
    <2>3. \A v \in Workers, e \in Derbies : Publishes(v, e)' => v # w /\ Publishes(v, e)
      BY <1>3, DInvParts DEF Publishes, At
    <2>4. announced'[d] = 1 /\ \A e \in Derbies : e # d => announced'[e] = announced[e]
      BY <1>3, <2>2, DInvParts
    <2> QED BY <1>3, <2>2, <2>3, <2>4, DInvParts DEF PublishedOnce
  <1> QED BY <1>3, <1>4, <1>5, <1>6, DInvParts, WorkerStep

LEMMA StopKeeps ==
  ASSUME DInv, NEW w \in Workers, Stop(w)
  PROVE  DInv'
  <1>1. /\ UNCHANGED <<status, total, announced, opened, timely, counter, cached, now, spend>>
        /\ work' = [work EXCEPT ![w] = Idle] /\ stops < MaxStops /\ stops' = stops + 1
    BY DEF Stop, End, derbyVars, redisVars
  <1>2. stops' \in 0..MaxStops
    BY <1>1, DInvParts, DerbyAssumption
  <1>3. PublishedOnce'
    BY <1>1, NoPublication DEF DInv
  <1> QED BY <1>1, <1>2, <1>3, DInvParts, WorkerStep
-----------------------------------------------------------------------------
(* Supports                                                                 *)

(* A support that moves on is counted once when it gets to its increment, and  *)
(* no other support is counted anew.                                         *)
Incremented(s, rec, d, side) == rec.step = "done" /\ rec.derby = d /\ SideOf(s, d) = side

LEMMA DoneGrows ==
  ASSUME DInv, NEW s \in Supports, NEW rec \in Spend,
         spend' = [spend EXCEPT ![s] = rec], spend[s].step # "done", rec.step # "new",
         NEW d \in Derbies, NEW side \in Sides
  PROVE  /\ IsFiniteSet(Begun')
         /\ Cardinality(Done(d, side)) \in Nat
         /\ Cardinality(Done(d, side)') = Cardinality(Done(d, side))
                + IF Incremented(s, rec, d, side) THEN 1 ELSE 0
  <1>1. /\ spend'[s] = rec
        /\ \A r \in Supports : r # s => spend'[r] = spend[r]
    BY DEF DInv, TypeOK
  <1>2. Begun' = Begun \cup {s}
    BY <1>1 DEF Begun
  <1>3. IsFiniteSet(Begun')
    BY <1>2, FS_AddElement DEF DInv, PointsBacked
  <1>4. Done(d, side) \subseteq Begun /\ s \notin Done(d, side)
    BY DEF Done, Begun
  <1>5. IsFiniteSet(Done(d, side)) /\ Cardinality(Done(d, side)) \in Nat
    BY <1>4, FS_Subset, FS_CardinalityType DEF DInv, PointsBacked
  <1>6. CASE Incremented(s, rec, d, side)
    <2>1. Done(d, side)' = Done(d, side) \cup {s}
      BY <1>1, <1>6 DEF Done, Incremented, SideOf
    <2>2. Cardinality(Done(d, side) \cup {s}) = Cardinality(Done(d, side)) + 1
      BY <1>4, <1>5, FS_AddElement
    <2> QED BY <1>3, <1>5, <1>6, <2>1, <2>2
  <1>7. CASE ~Incremented(s, rec, d, side)
    <2>1. Done(d, side)' = Done(d, side)
      BY <1>1, <1>7 DEF Done, Incremented, SideOf
    <2> QED BY <1>3, <1>5, <1>7, <2>1
  <1> QED BY <1>6, <1>7

(* Points that were backed stay backed, and a counted support backs two more.  *)
LEMMA BackedGrows ==
  ASSUME DInv, NEW s \in Supports, NEW rec \in Spend,
         spend' = [spend EXCEPT ![s] = rec], spend[s].step # "done", rec.step # "new",
         NEW d \in Derbies, NEW side \in Sides, NEW n \in Nat, Backed(n, d, side)
  PROVE  /\ Backed(n, d, side)'
         /\ Incremented(s, rec, d, side) => Backed(n + 2, d, side)'
  <1> PICK c \in Nat, e \in {0, 1} :
         /\ c = Cardinality(Done(d, side))
         /\ Cardinality(Done(d, side)') = c + e
         /\ Incremented(s, rec, d, side) => e = 1
    BY DoneGrows
  <1>1. n <= 2 * c
    BY DEF Backed
  <1>2. n <= 2 * (c + e) /\ (e = 1 => n + 2 <= 2 * (c + e))
    BY <1>1
  <1>3. Cardinality(Done(d, side))' = c + e
    OBVIOUS
  <1> QED BY <1>2, <1>3 DEF Backed

LEMMA SpendStep ==
  ASSUME DInv, NEW s \in Supports, NEW rec \in Spend,
         spend' = [spend EXCEPT ![s] = rec], spend[s].step # "done", rec.step # "new",
         rec.derby # NoDerby => rec.derby \in opened,
         UNCHANGED <<status, total, announced, opened, now, work, stops>>,
         cached' \in [Cities -> Derbies \cup {NoDerby}],
         \A c \in Cities : cached'[c] # NoDerby => cached'[c] \in opened,
         timely' \subseteq Supports, counter' \in [Derbies -> Points],
         \A d \in Derbies, side \in Sides :
            \/ counter'[d][side] = counter[d][side]
            \/ Incremented(s, rec, d, side) /\ counter'[d][side] = counter[d][side] + 2
  PROVE  DInv'
  <1>1. TypeOK'
    BY DEF DInv, TypeOK
  <1>2. OpenedFirst'
    <2>1. \A r \in Supports : spend'[r].derby # NoDerby => spend'[r].derby \in opened
      BY DEF DInv, TypeOK, OpenedFirst
    <2> QED BY <2>1 DEF DInv, OpenedFirst, At
  <1>3. PublishedOnce'
    BY DEF DInv, PublishedOnce, Publishes, At
  <1>4. PointsBacked'
    <2>1. IsFiniteSet(Begun)'
      <3>1. Begun' = Begun \cup {s}
        BY DEF Begun, DInv, TypeOK
      <3> QED BY <3>1, FS_AddElement DEF DInv, PointsBacked
    <2>2. ASSUME NEW d \in Derbies, NEW side \in Sides
          PROVE  Backed(counter[d][side], d, side)'
      <3> PICK n \in Nat : n = counter[d][side]
        BY DInvParts DEF Points
      <3>1. Backed(n, d, side)
        BY DInvParts
      <3>2. Backed(n, d, side)' /\ (Incremented(s, rec, d, side) => Backed(n + 2, d, side)')
        BY <3>1, BackedGrows
      <3>3. counter'[d][side] = n \/ (Incremented(s, rec, d, side) /\ counter'[d][side] = n + 2)
        OBVIOUS
      <3> QED BY <3>2, <3>3 DEF Backed
    <2>3. ASSUME NEW d \in Derbies, NEW side \in Sides
          PROVE  Backed(total[d][side], d, side)'
      <3> PICK n \in Nat : n = total[d][side] /\ n = total'[d][side]
        BY DInvParts DEF Points
      <3>1. Backed(n, d, side)'
        BY DInvParts, BackedGrows
      <3> QED BY <3>1 DEF Backed
    <2>4. ASSUME NEW w \in Workers, work'[w] # Idle, NEW side \in Sides
          PROVE  Backed(work[w].points[side], work[w].derby, side)'
      <3>1. work[w] # Idle /\ work'[w] = work[w]
        BY <2>4
      <3> PICK d \in Derbies, n \in Nat : d = work[w].derby /\ n = work[w].points[side]
        BY <3>1, BusyTask DEF Points
      <3>2. Backed(n, d, side)'
        BY <3>1, BusyTask, BackedGrows
      <3>3. work'[w].points[side] = n /\ work'[w].derby = d
        BY <3>1
      <3> QED BY <3>2, <3>3 DEF Backed
    <2> QED BY <2>1, <2>2, <2>3, <2>4 DEF PointsBacked
  <1> QED BY <1>1, <1>2, <1>3, <1>4 DEF DInv

(* The record a support moves on to.                                         *)
LEMMA SpendRecord ==
  ASSUME NEW step \in {"load", "fill", "priced", "committed", "done", "failed"},
         NEW d \in Derbies \cup {NoDerby}
  PROVE  \E rec \in Spend : /\ rec = [step |-> step, derby |-> d]
                            /\ rec.step = step /\ rec.derby = d
  <1>1. [step |-> step, derby |-> d] \in Spend
    BY DEF Spend
  <1> QED BY <1>1

(* Every step of a support before its increment.                             *)
LEMMA SupportMoves ==
  ASSUME DInv, NEW s \in Supports,
         NEW step \in {"load", "fill", "priced", "committed", "done", "failed"},
         NEW d \in Derbies \cup {NoDerby}, d # NoDerby => d \in opened,
         SpendTo(s, step, d), spend[s].step # "done",
         UNCHANGED <<derbyVars, counter, now, work, stops>>,
         cached' \in [Cities -> Derbies \cup {NoDerby}],
         \A c \in Cities : cached'[c] # NoDerby => cached'[c] \in opened
  PROVE  DInv'
  <1>1. PICK rec \in Spend : /\ rec = [step |-> step, derby |-> d]
                             /\ rec.step = step /\ rec.derby = d
    BY SpendRecord
  <1>2. spend' = [spend EXCEPT ![s] = rec] /\ rec.step # "new"
    BY <1>1 DEF SpendTo
  <1>3. UNCHANGED <<status, total, announced, opened, timely, now, work, stops, counter>>
    BY DEF derbyVars
  <1> QED BY <1>1, <1>2, <1>3, SpendStep, DInvParts

LEMMA PricedKeeps ==
  ASSUME DInv, NEW s \in Supports, NEW d \in Derbies \cup {NoDerby},
         d # NoDerby => d \in opened,
         Priced(s, d), spend[s].step # "done",
         UNCHANGED <<derbyVars, counter, now, work, stops>>,
         cached' \in [Cities -> Derbies \cup {NoDerby}],
         \A c \in Cities : cached'[c] # NoDerby => cached'[c] \in opened
  PROVE  DInv'
  <1>1. CASE Plays(s, d)
    <2>1. SpendTo(s, "priced", d)
      BY <1>1 DEF Priced
    <2> QED BY <2>1, SupportMoves
  <1>2. CASE ~Plays(s, d)
    <2>1. SpendTo(s, "priced", NoDerby)
      BY <1>2 DEF Priced
    <2> QED BY <2>1, SupportMoves
  <1> QED BY <1>1, <1>2

(* The derby a support was resolved to.                                      *)
LEMMA SpendDerby ==
  ASSUME DInv, NEW s \in Supports
  PROVE  /\ spend[s].derby \in Derbies \cup {NoDerby}
         /\ spend[s].derby # NoDerby => spend[s].derby \in opened
  BY DEF DInv, TypeOK, Spend, OpenedFirst

LEMMA SupportKeeps ==
  ASSUME DInv, NEW s \in Supports, Support(s)
  PROVE  DInv'
  <1>0. /\ cached \in [Cities -> Derbies \cup {NoDerby}]
        /\ \A c \in Cities : cached[c] # NoDerby => cached[c] \in opened
        /\ \A d \in Derbies : status[d] = "active" => d \in opened
        /\ counter \in [Derbies -> Points]
        /\ SupportCity[s] \in Cities
    BY DInvParts, DerbyAssumption
  <1>1. CASE LookUpCache(s)
    <2>1. UNCHANGED <<derbyVars, counter, cached, now, work, stops>> /\ spend[s].step # "done"
      BY <1>1 DEF LookUpCache, redisVars, SpendAt
    <2>2. CASE SpendTo(s, "load", NoDerby)
      BY <1>0, <2>1, <2>2, SupportMoves
    <2>3. CASE cached[SupportCity[s]] # NoDerby /\ Priced(s, cached[SupportCity[s]])
      <3> PICK d \in Derbies : d = cached[SupportCity[s]] /\ d \in opened
        BY <1>0, <2>3
      <3> QED BY <1>0, <2>1, <2>3, PricedKeeps
    <2> QED BY <1>1, <2>2, <2>3 DEF LookUpCache
  <1>2. CASE LoadDerby(s)
    <2>1. UNCHANGED <<derbyVars, counter, cached, now, work, stops>> /\ spend[s].step # "done"
      BY <1>2 DEF LoadDerby, redisVars, SpendAt
    <2>2. CASE Priced(s, NoDerby)
      BY <1>0, <2>1, <2>2, PricedKeeps
    <2>3. ASSUME NEW d \in ActiveIn(SupportCity[s]), SpendTo(s, "fill", d) PROVE DInv'
      <3>1. d \in Derbies /\ d \in opened
        BY <1>0 DEF ActiveIn
      <3> QED BY <1>0, <2>1, <2>3, <3>1, SupportMoves
    <2> QED BY <1>2, <2>2, <2>3 DEF LoadDerby
  <1>3. CASE FillCache(s)
    <2>1. /\ UNCHANGED <<derbyVars, counter, now, work, stops>> /\ spend[s].step # "done"
          /\ Priced(s, spend[s].derby)
      BY <1>3 DEF FillCache, SpendAt
    <2> PICK d \in Derbies \cup {NoDerby} : d = spend[s].derby /\ (d # NoDerby => d \in opened)
      BY SpendDerby
    <2>2. cached' = [cached EXCEPT ![SupportCity[s]] = d] \/ cached' = cached
      BY <1>3 DEF FillCache
    <2>3. /\ cached' \in [Cities -> Derbies \cup {NoDerby}]
          /\ \A c \in Cities : cached'[c] # NoDerby => cached'[c] \in opened
      BY <1>0, <2>2
    <2> QED BY <2>1, <2>3, PricedKeeps
  <1>4. CASE CommitSpend(s)
    <2>1. /\ UNCHANGED <<derbyVars, counter, cached, now, work, stops>> /\ spend[s].step # "done"
          /\ SpendTo(s, "committed", spend[s].derby)
      BY <1>4 DEF CommitSpend, redisVars, SpendAt
    <2> PICK d \in Derbies \cup {NoDerby} : d = spend[s].derby /\ (d # NoDerby => d \in opened)
      BY SpendDerby
    <2> QED BY <1>0, <2>1, SupportMoves
  <1>5. CASE IncrScore(s)
    <2> PICK d \in Derbies \cup {NoDerby} : d = spend[s].derby /\ (d # NoDerby => d \in opened)
      BY SpendDerby
    <2>1. /\ UNCHANGED <<status, total, announced, opened, cached, now, work, stops>>
          /\ spend[s].step # "done" /\ SpendTo(s, "done", d)
          /\ timely' \in {timely, timely \cup {s}} /\ (d = NoDerby => timely' = timely)
      BY <1>5 DEF IncrScore, SpendAt, Open
    <2>2. CASE d = NoDerby
      <3>1. counter' = counter /\ UNCHANGED derbyVars
        BY <1>5, <2>1, <2>2 DEF IncrScore, derbyVars
      <3> QED BY <1>0, <2>1, <3>1, SupportMoves
    <2>3. CASE d # NoDerby
      <3> PICK side \in Sides : side = SideOf(s, d)
        BY DEF SideOf, Sides
      <3>1. /\ d \in Derbies
            /\ counter' = [counter EXCEPT ![d] = [counter[d] EXCEPT ![side] = @ + 2]]
        BY <1>5, <2>3 DEF IncrScore
      <3>2. [counter[d] EXCEPT ![side] = @ + 2] \in Points
        BY <1>0, <3>1 DEF Points
      <3>3. counter' \in [Derbies -> Points]
        BY <1>0, <3>1, <3>2
      <3>4. PICK rec \in Spend : /\ rec = [step |-> "done", derby |-> d]
                                 /\ rec.step = "done" /\ rec.derby = d
        BY SpendRecord
      <3>5. spend' = [spend EXCEPT ![s] = rec]
        BY <2>1, <3>4 DEF SpendTo
      <3>6. ASSUME NEW e \in Derbies, NEW sd \in Sides
            PROVE  \/ counter'[e][sd] = counter[e][sd]
                   \/ Incremented(s, rec, e, sd) /\ counter'[e][sd] = counter[e][sd] + 2
        <4>1. CASE e = d /\ sd = side
          BY <1>0, <3>1, <3>4, <4>1 DEF Incremented, Points
        <4>2. CASE ~(e = d /\ sd = side)
          BY <1>0, <3>1, <4>2 DEF Points
        <4> QED BY <4>1, <4>2
      <3>7. timely' \subseteq Supports
        BY <2>1, DInvParts
      <3> QED BY <1>0, <2>1, <3>3, <3>4, <3>5, <3>6, <3>7, SpendStep
    <2> QED BY <2>2, <2>3
  <1> QED BY <1>1, <1>2, <1>3, <1>4, <1>5 DEF Support

LEMMA BreakOffKeeps ==
  ASSUME DInv, NEW s \in Supports, BreakOff(s)
  PROVE  DInv'
  <1>1. UNCHANGED <<derbyVars, counter, cached, now, work, stops>> /\ spend[s].step # "done"
    BY DEF BreakOff, redisVars, SpendAt
  <1> PICK d \in Derbies \cup {NoDerby} : d = spend[s].derby /\ (d # NoDerby => d \in opened)
    BY SpendDerby
  <1>2. SpendTo(s, "failed", NoDerby) \/ SpendTo(s, "done", d)
    BY DEF BreakOff
  <1> QED BY <1>1, <1>2, SupportMoves, DInvParts
-----------------------------------------------------------------------------
(* The theorems                                                             *)

LEMMA DInvInit == Init => DInv
  <1> SUFFICES ASSUME Init PROVE DInv
    OBVIOUS
  <1>1. NoPoints \in Points /\ \A side \in Sides : NoPoints[side] = 0
    BY DEF NoPoints, Points
  <1>2. TypeOK
    BY <1>1, DerbyAssumption DEF Init, TypeOK, Spend
  <1>3. OpenedFirst
    BY DerbyAssumption DEF Init, OpenedFirst, At
  <1>4. PublishedOnce
    BY DEF Init, PublishedOnce, Publishes, At
  <1>5. Begun = {}
    BY DEF Init, Begun
  <1>6. \A d, side : Backed(0, d, side)
    <2> SUFFICES ASSUME NEW d, NEW side PROVE Backed(0, d, side)
      OBVIOUS
    <2>1. Done(d, side) = {}
      BY <1>5 DEF Done, Begun
    <2>2. Cardinality(Done(d, side)) = 0
      BY <2>1, FS_EmptySet
    <2> QED BY <2>2 DEF Backed
  <1>7. PointsBacked
    <2>1. IsFiniteSet(Begun)
      BY <1>5, FS_EmptySet
    <2>2. \A d \in Derbies, side \in Sides : counter[d][side] = 0 /\ total[d][side] = 0
      BY <1>1 DEF Init
    <2>3. \A w \in Workers : work[w] = Idle
      BY DEF Init
    <2> QED BY <1>6, <2>1, <2>2, <2>3 DEF PointsBacked
  <1> QED BY <1>2, <1>3, <1>4, <1>7 DEF DInv

LEMMA TickKeeps ==
  ASSUME DInv, Tick
  PROVE  DInv'
  <1>1. /\ UNCHANGED <<status, total, announced, opened, timely, counter, cached, work, spend, stops>>
        /\ now < MaxTime /\ now' = now + 1
    BY DEF Tick, derbyVars, redisVars
  <1>2. TypeOK'
    BY <1>1, DerbyAssumption DEF DInv, TypeOK
  <1>3. OpenedFirst' /\ PublishedOnce'
    BY <1>1 DEF DInv, OpenedFirst, PublishedOnce, Publishes, At
  <1>4. PointsBacked'
    BY <1>1 DEF DInv, PointsBacked, Backed, Done, Begun
  <1> QED BY <1>2, <1>3, <1>4 DEF DInv

LEMMA DInvStep == DInv /\ [Next]_vars => DInv'
  <1> SUFFICES ASSUME DInv, [Next]_vars PROVE DInv'
    OBVIOUS
  <1>1. ASSUME NEW d \in Derbies, Schedule(d) PROVE DInv'
    <2>1. PICK w \in Workers : StartActivate(w, d) \/ StartResolve(w, d)
      BY <1>1 DEF Schedule, Workers
    <2> QED BY <2>1, StartActivateKeeps, StartResolveKeeps
  <1>2. ASSUME NEW w \in Admins, NEW d \in Derbies, ForceResolve(w, d) PROVE DInv'
    <2>1. w \in Workers
      BY DEF Workers
    <2> QED BY <1>2, <2>1, StartResolveKeeps
  <1>3. ASSUME NEW w \in Workers, Work(w) PROVE DInv'
    BY <1>3, InitScoresKeeps, WarmCacheKeeps, GetScoresKeeps, ResolveKeeps, DropCacheKeeps
       DEF Work
  <1>4. CASE UNCHANGED vars
    <2>1. UNCHANGED <<status, total, announced, opened, timely, counter, cached, now, work, spend, stops>>
      BY <1>4 DEF vars, derbyVars, redisVars
    <2>2. TypeOK' /\ OpenedFirst' /\ PublishedOnce'
      BY <2>1 DEF DInv, TypeOK, OpenedFirst, PublishedOnce, Publishes, At
    <2>3. PointsBacked'
      BY <2>1 DEF DInv, PointsBacked, Backed, Done, Begun
    <2> QED BY <2>2, <2>3 DEF DInv
  <1> QED BY <1>1, <1>2, <1>3, <1>4, TickKeeps, CreateKeeps, StopKeeps, SupportKeeps,
             BreakOffKeeps DEF Next

THEOREM DerbiesHold == Spec => []DInv
  BY DInvInit, DInvStep, PTL DEF Spec

(* Every variable keeps the type of its column, its Redis value or its local   *)
(* variable.                                                                 *)
THEOREM DerbyTypes == Spec => []TypeOK
  BY DerbiesHold, PTL DEF DInv

(* Only a derby the scheduler has opened doubles supports, through however     *)
(* stale a cache entry (derby/multiplier.go, ResolveSupportMultiplier).       *)
THEOREM OnlyOpenedDouble == Spec => []OnlyOpenedDerbiesDouble
  <1>1. DInv => OnlyOpenedDerbiesDouble
    BY DEF DInv, OpenedFirst, OnlyOpenedDerbiesDouble
  <1> QED BY <1>1, DerbiesHold, PTL

(* The supports whose increment was or will be made are committed ones, so no  *)
(* total ever exceeds twice what was committed for its side                   *)
(* (derby/store.go, IncrScore and Resolve).                                   *)
THEOREM TotalsBacked == Spec => []TotalsAreBacked
  <1>1. DInv => TotalsAreBacked
    <2> SUFFICES ASSUME DInv, NEW d \in Derbies, NEW side \in Sides
                 PROVE  /\ counter[d][side] <= 2 * Cardinality(Counted(d, side))
                        /\ total[d][side] <= 2 * Cardinality(Counted(d, side))
      BY DEF TotalsAreBacked
    <2>1. Done(d, side) \subseteq Counted(d, side) /\ Counted(d, side) \subseteq Begun
      BY DEF Done, Counted, Begun
    <2>2. IsFiniteSet(Counted(d, side))
      BY <2>1, FS_Subset DEF DInv, PointsBacked
    <2> PICK m \in Nat, n \in Nat :
           m = Cardinality(Done(d, side)) /\ n = Cardinality(Counted(d, side))
      BY <2>2, FS_CardinalityType, NothingIsBacked
    <2>3. m <= n
      BY <2>1, <2>2, FS_Subset
    <2>4. counter[d][side] \in Nat /\ total[d][side] \in Nat
      BY DEF DInv, TypeOK, Points
    <2>5. counter[d][side] <= 2 * m /\ total[d][side] <= 2 * m
      BY DEF DInv, PointsBacked, Backed
    <2> QED BY <2>3, <2>4, <2>5
  <1> QED BY <1>1, DerbiesHold, PTL

-----------------------------------------------------------------------------
(* Points in time                                                           *)

(* So many points are enough for the supports that were in time.              *)
Kept(n, d, side) == 2 * Cardinality(InTime(d, side)) <= n

(* A worker that is to reset the counters of a derby finds no support that was   *)
(* in time: none can be committed before the derby is opened, and none is in     *)
(* time before the reset.  The counters, the points a worker has read and is to   *)
(* write, and the totals of a resolved derby have all that were in time.         *)
TimeInv ==
    /\ \A s \in timely : spend[s].step = "done" /\ spend[s].derby # NoDerby
    /\ \A d \in Derbies : status[d] \in {"none", "scheduled"} => d \notin opened
    /\ \A w \in Workers : At(w, "init") =>
          \A side \in Sides : InTime(work[w].derby, side) = {}
    /\ \A d \in Derbies, side \in Sides : Kept(counter[d][side], d, side)
    /\ \A d \in Derbies, side \in Sides :
          status[d] = "resolved" => Kept(total[d][side], d, side)
    /\ \A w \in Workers : At(w, "write") =>
          \A side \in Sides : Kept(work[w].points[side], work[w].derby, side)

(* A support that was in time stays as it is, so that a step that adds none       *)
(* changes no one's dues.                                                    *)
LEMMA DuesStay ==
  ASSUME timely' = timely, \A s \in timely : spend'[s] = spend[s]
  PROVE  /\ \A d, side : InTime(d, side)' = InTime(d, side)
         /\ \A n, d, side : Kept(n, d, side)' <=> Kept(n, d, side)
  <1>1. \A d, side : InTime(d, side)' = InTime(d, side)
    BY DEF InTime, SideOf
  <1> QED BY <1>1 DEF Kept

(* Any step that adds no support to those in time.                            *)
LEMMA TimeStays ==
  ASSUME TimeInv, timely' = timely, \A s \in timely : spend'[s] = spend[s],
         \A d \in Derbies : status'[d] \in {"none", "scheduled"} => d \notin opened',
         \A w \in Workers : At(w, "init")' =>
            \A side \in Sides : InTime(work'[w].derby, side) = {},
         \A d \in Derbies, side \in Sides : Kept(counter'[d][side], d, side),
         \A d \in Derbies, side \in Sides :
            status'[d] = "resolved" => Kept(total'[d][side], d, side),
         \A w \in Workers : At(w, "write")' =>
            \A side \in Sides : Kept(work'[w].points[side], work'[w].derby, side)
  PROVE  TimeInv'
  <1>1. /\ \A d, side : InTime(d, side)' = InTime(d, side)
        /\ \A n, d, side : Kept(n, d, side)' <=> Kept(n, d, side)
    BY DuesStay
  <1>2. \A s \in timely' : spend'[s].step = "done" /\ spend'[s].derby # NoDerby
    BY DEF TimeInv
  <1>3. \A w \in Workers : At(w, "init")' =>
           \A side \in Sides : InTime(work[w].derby, side)' = {}
    BY DEF InTime, SideOf
  <1>4. \A d \in Derbies, side \in Sides : Kept(counter[d][side], d, side)'
    BY DEF Kept, InTime, SideOf
  <1>5. \A d \in Derbies, side \in Sides :
           status'[d] = "resolved" => Kept(total[d][side], d, side)'
    BY DEF Kept, InTime, SideOf
  <1>6. \A w \in Workers : At(w, "write")' =>
           \A side \in Sides : Kept(work[w].points[side], work[w].derby, side)'
    BY DEF Kept, InTime, SideOf
  <1> QED BY <1>2, <1>3, <1>4, <1>5, <1>6 DEF TimeInv

(* A step of the worker w.                                                   *)
LEMMA WorkerTime ==
  ASSUME TimeInv, NEW w \in Workers, UNCHANGED <<spend, timely>>,
         \A v \in Workers : v # w => work'[v] = work[v],
         \A d \in Derbies : status'[d] \in {"none", "scheduled"} => d \notin opened',
         At(w, "init")' => \A side \in Sides : InTime(work'[w].derby, side) = {},
         \A d \in Derbies, side \in Sides : Kept(counter'[d][side], d, side),
         \A d \in Derbies, side \in Sides :
            status'[d] = "resolved" => Kept(total'[d][side], d, side),
         At(w, "write")' =>
            \A side \in Sides : Kept(work'[w].points[side], work'[w].derby, side)
  PROVE  TimeInv'
  <1>1. ASSUME NEW v \in Workers, At(v, "init")', NEW side \in Sides
        PROVE  InTime(work'[v].derby, side) = {}
    BY <1>1 DEF TimeInv, At
  <1>2. ASSUME NEW v \in Workers, At(v, "write")', NEW side \in Sides
        PROVE  Kept(work'[v].points[side], work'[v].derby, side)
    BY <1>2 DEF TimeInv, At
  <1> QED BY <1>1, <1>2, TimeStays

(* There are finitely many dues, and none before a derby is opened.            *)
LEMMA DuesAreCounted ==
  ASSUME DInv, TimeInv, NEW d, NEW side
  PROVE  /\ IsFiniteSet(InTime(d, side)) /\ Cardinality(InTime(d, side)) \in Nat
         /\ InTime(d, side) = {} => Kept(0, d, side)
         /\ d # NoDerby /\ d \notin opened => InTime(d, side) = {}
  <1>1. timely \subseteq Supports
    BY DInvParts
  <1>2. InTime(d, side) \subseteq Begun
    BY <1>1 DEF TimeInv, Begun, InTime
  <1>3. IsFiniteSet(InTime(d, side)) /\ Cardinality(InTime(d, side)) \in Nat
    BY <1>2, FS_Subset, FS_CardinalityType DEF DInv, PointsBacked
  <1>4. InTime(d, side) = {} => Kept(0, d, side)
    BY FS_EmptySet DEF Kept
  <1>5. d # NoDerby /\ d \notin opened => InTime(d, side) = {}
    BY <1>1, SpendDerby DEF InTime
  <1> QED BY <1>3, <1>4, <1>5

LEMMA TimeParts ==
  ASSUME TimeInv
  PROVE  /\ \A d \in Derbies : status[d] \in {"none", "scheduled"} => d \notin opened
         /\ \A d \in Derbies, side \in Sides : Kept(counter[d][side], d, side)
         /\ \A d \in Derbies, side \in Sides :
               status[d] = "resolved" => Kept(total[d][side], d, side)
  BY DEF TimeInv

(* The task a worker has taken up, and the others.                            *)
LEMMA WorkChanges ==
  ASSUME DInv, NEW w \in Workers, NEW x, work' = [work EXCEPT ![w] = x]
  PROVE  work'[w] = x /\ \A v \in Workers : v # w => work'[v] = work[v]
  BY DInvParts

LEMMA StartActivateInTime ==
  ASSUME DInv, TimeInv, NEW w \in Workers, NEW d \in Derbies, StartActivate(w, d)
  PROVE  TimeInv'
  <1>1. PICK x \in Task : /\ work' = [work EXCEPT ![w] = x]
                          /\ x.derby = d /\ x.step = "init"
    BY ActivateTask
  <1>2. /\ UNCHANGED <<total, timely, counter, spend>>
        /\ status[d] = "scheduled" /\ status' = [status EXCEPT ![d] = "active"]
        /\ opened' = opened \cup {d}
    BY DEF StartActivate, redisVars
  <1>3. d \notin opened /\ \A side \in Sides : InTime(d, side) = {}
    BY <1>2, TimeParts, DuesAreCounted, DerbyAssumption
  <1>4. work'[w] = x /\ \A v \in Workers : v # w => work'[v] = work[v]
    BY <1>1, WorkChanges
  <1>5. At(w, "init")' => \A side \in Sides : InTime(work'[w].derby, side) = {}
    BY <1>1, <1>3, <1>4
  <1>6. ~At(w, "write")'
    BY <1>1, <1>4 DEF At
  <1>7. \A e \in Derbies : status'[e] \in {"none", "scheduled"} => e \notin opened'
    BY <1>2, DInvParts, TimeParts
  <1>8. \A e \in Derbies, side \in Sides :
           status'[e] = "resolved" => Kept(total'[e][side], e, side)
    BY <1>2, DInvParts, TimeParts
  <1> QED BY <1>2, <1>4, <1>5, <1>6, <1>7, <1>8, TimeParts, WorkerTime

LEMMA StartResolveInTime ==
  ASSUME DInv, TimeInv, NEW w \in Workers, NEW d \in Derbies,
         StartResolve(w, d) \/ ForceResolve(w, d)
  PROVE  TimeInv'
  <1>1. PICK x \in Task : /\ work' = [work EXCEPT ![w] = x]
                          /\ x.derby = d /\ x.step = "read" /\ x.points = NoPoints
    BY ResolveTask
  <1>2. UNCHANGED <<status, total, opened, timely, counter, spend>>
    BY DEF StartResolve, ForceResolve, derbyVars, redisVars
  <1>3. work'[w] = x /\ \A v \in Workers : v # w => work'[v] = work[v]
    BY <1>1, WorkChanges
  <1>4. ~At(w, "init")' /\ ~At(w, "write")'
    BY <1>1, <1>3 DEF At
  <1> QED BY <1>2, <1>3, <1>4, TimeParts, WorkerTime

(* The reset finds nobody who was in time.                                    *)
LEMMA InitScoresInTime ==
  ASSUME DInv, TimeInv, NEW w \in Workers, InitScores(w)
  PROVE  TimeInv'
  <1>1. work[w] # Idle /\ At(w, "init")
    BY DEF InitScores, At
  <1>2. PICK t \in Task, d \in Derbies : t = work[w] /\ d = t.derby
    BY <1>1, BusyTask
  <1>3. PICK x : x = [t EXCEPT !.step = "warm"] /\ x.step = "warm"
    <2> DEFINE new == [t EXCEPT !.step = "warm"]
    <2>1. new.step = "warm"
      BY DEF Task
    <2> QED BY <2>1
  <1>4. work' = [work EXCEPT ![w] = x]
    BY <1>2, <1>3 DEF InitScores, GoTo
  <1>5. /\ UNCHANGED <<status, total, opened, timely, spend>>
        /\ counter' = [counter EXCEPT ![d] = NoPoints] \/ counter' = counter
    BY <1>2 DEF InitScores, derbyVars
  <1>6. \A side \in Sides : Kept(NoPoints[side], d, side)
    BY <1>1, <1>2, DuesAreCounted DEF TimeInv, NoPoints
  <1>7. \A e \in Derbies, side \in Sides : Kept(counter'[e][side], e, side)
    <2>1. \A e \in Derbies : counter'[e] = counter[e] \/ (e = d /\ counter'[e] = NoPoints)
      BY <1>5, DInvParts
    <2> QED BY <1>6, <2>1, TimeParts
  <1>8. work'[w] = x /\ \A v \in Workers : v # w => work'[v] = work[v]
    BY <1>4, WorkChanges
  <1>9. ~At(w, "init")' /\ ~At(w, "write")'
    BY <1>3, <1>8 DEF At
  <1> QED BY <1>5, <1>7, <1>8, <1>9, TimeParts, WorkerTime

LEMMA WarmCacheInTime ==
  ASSUME DInv, TimeInv, NEW w \in Workers, WarmCache(w)
  PROVE  TimeInv'
  <1>1. work[w] # Idle
    BY DEF WarmCache, At
  <1>2. PICK t \in Task : t = work[w]
    BY <1>1, BusyTask
  <1>3. UNCHANGED <<status, total, opened, timely, counter, spend>>
    BY DEF WarmCache, derbyVars
  <1>4. PICK x : work' = [work EXCEPT ![w] = x] /\ (x = Idle \/ x.step = "read")
    <2>1. CASE t.overdue
      <3> DEFINE new == [t EXCEPT !.step = "read", !.overdue = FALSE]
      <3>1. PICK x : x = new /\ x.step = "read"
        <4>1. new.step = "read"
          BY DEF Task
        <4> QED BY <4>1
      <3>2. work' = [work EXCEPT ![w].step = "read", ![w].overdue = FALSE]
        BY <1>2, <2>1 DEF WarmCache, AfterWarm
      <3>3. work' = [work EXCEPT ![w] = x]
        BY <1>2, <3>1, <3>2, DInvParts
      <3> QED BY <3>1, <3>3
    <2>2. CASE ~t.overdue
      BY <1>2, <2>2 DEF WarmCache, AfterWarm, End
    <2> QED BY <2>1, <2>2
  <1>5. work'[w] = x /\ \A v \in Workers : v # w => work'[v] = work[v]
    BY <1>4, WorkChanges
  <1>6. ~At(w, "init")' /\ ~At(w, "write")'
    BY <1>4, <1>5 DEF At
  <1> QED BY <1>3, <1>5, <1>6, TimeParts, WorkerTime

LEMMA GetScoresInTime ==
  ASSUME DInv, TimeInv, NEW w \in Workers, GetScores(w)
  PROVE  TimeInv'
  <1>1. work[w] # Idle
    BY DEF GetScores, At
  <1>2. PICK t \in Task, d \in Derbies : t = work[w] /\ d = t.derby
    BY <1>1, BusyTask
  <1>3. PICK points \in Points : points = counter[d]
    BY DInvParts
  <1>4. PICK x : /\ x = [t EXCEPT !.step = "write", !.points = points]
                 /\ x.derby = d /\ x.step = "write" /\ x.points = points
    <2> DEFINE new == [t EXCEPT !.step = "write", !.points = points]
    <2>1. new.derby = t.derby /\ new.step = "write" /\ new.points = points
      BY DEF Task
    <2> QED BY <1>2, <2>1
  <1>5. /\ UNCHANGED <<status, total, opened, timely, counter, spend>>
        /\ work' = [work EXCEPT ![w].step = "write", ![w].points = points]
    BY <1>2, <1>3 DEF GetScores, derbyVars, redisVars
  <1>6. work' = [work EXCEPT ![w] = x]
    BY <1>2, <1>4, <1>5, DInvParts
  <1>7. work'[w] = x /\ \A v \in Workers : v # w => work'[v] = work[v]
    BY <1>6, WorkChanges
  <1>8. ~At(w, "init")'
    BY <1>4, <1>7 DEF At
  <1>9. \A side \in Sides : Kept(work'[w].points[side], work'[w].derby, side)
    BY <1>3, <1>4, <1>7, TimeParts
  <1> QED BY <1>5, <1>7, <1>8, <1>9, TimeParts, WorkerTime

(* What the winner writes has everyone who was in time.                        *)
LEMMA ResolveInTime ==
  ASSUME DInv, TimeInv, NEW w \in Workers, Resolve(w)
  PROVE  TimeInv'
  <1>1. work[w] # Idle /\ At(w, "write")
    BY DEF Resolve, At
  <1>2. PICK t \in Task, d \in Derbies, points \in Points :
           t = work[w] /\ d = t.derby /\ points = t.points
    BY <1>1, BusyTask
  <1>3. UNCHANGED <<opened, timely, counter, spend>>
    BY DEF Resolve, redisVars
  <1>4. \A side \in Sides : Kept(points[side], d, side)
    BY <1>1, <1>2 DEF TimeInv
  <1>5. PICK x : work' = [work EXCEPT ![w] = x] /\ (x = Idle \/ x.step = "drop")
    <2>1. CASE status[d] \in {"scheduled", "active"}
      <3>1. PICK x : /\ x = [t EXCEPT !.step = "drop", !.points = NoPoints]
                     /\ x.step = "drop"
        <4> DEFINE new == [t EXCEPT !.step = "drop", !.points = NoPoints]
        <4>1. new.step = "drop"
          BY DEF Task
        <4> QED BY <4>1
      <3>2. work' = [work EXCEPT ![w].step = "drop", ![w].points = NoPoints]
        BY <1>2, <2>1 DEF Resolve
      <3>3. work' = [work EXCEPT ![w] = x]
        BY <1>2, <3>1, <3>2, DInvParts
      <3> QED BY <3>1, <3>3
    <2>2. CASE status[d] \notin {"scheduled", "active"}
      BY <1>2, <2>2 DEF Resolve, End
    <2> QED BY <2>1, <2>2
  <1>6. work'[w] = x /\ \A v \in Workers : v # w => work'[v] = work[v]
    BY <1>5, WorkChanges
  <1>7. ~At(w, "init")' /\ ~At(w, "write")'
    BY <1>5, <1>6 DEF At
  <1>8. \A e \in Derbies :
           \/ status'[e] = status[e] /\ total'[e] = total[e]
           \/ e = d /\ status'[e] = "resolved" /\ total'[e] = points
    BY <1>2, DInvParts DEF Resolve
  <1>9. \A e \in Derbies : status'[e] \in {"none", "scheduled"} => e \notin opened'
    BY <1>3, <1>8, TimeParts
  <1>10. \A e \in Derbies, side \in Sides :
            status'[e] = "resolved" => Kept(total'[e][side], e, side)
    BY <1>4, <1>8, TimeParts
  <1> QED BY <1>3, <1>6, <1>7, <1>9, <1>10, TimeParts, WorkerTime

LEMMA EndsInTime ==
  ASSUME DInv, TimeInv, NEW w \in Workers, DropCache(w) \/ Stop(w)
  PROVE  TimeInv'
  <1>1. /\ UNCHANGED <<status, total, opened, timely, counter, spend>>
        /\ work' = [work EXCEPT ![w] = Idle]
    BY DEF DropCache, Stop, End, derbyVars, redisVars
  <1>2. work'[w] = Idle /\ \A v \in Workers : v # w => work'[v] = work[v]
    BY <1>1, WorkChanges
  <1>3. ~At(w, "init")' /\ ~At(w, "write")'
    BY <1>2 DEF At
  <1> QED BY <1>1, <1>2, <1>3, TimeParts, WorkerTime

(* A step that leaves the workers, the counters and the rows alone, but for a    *)
(* new row, and the supports that were in time.                                *)
LEMMA OtherwiseInTime ==
  ASSUME DInv, TimeInv, UNCHANGED <<total, opened, timely, counter, work>>,
         \A s \in timely : spend'[s] = spend[s],
         \A d \in Derbies :
            status'[d] = status[d] \/ (status[d] = "none" /\ status'[d] = "scheduled")
  PROVE  TimeInv'
  <1>1. \A d \in Derbies : status'[d] \in {"none", "scheduled"} => d \notin opened'
    BY TimeParts
  <1>2. \A d \in Derbies, side \in Sides :
           status'[d] = "resolved" => Kept(total'[d][side], d, side)
    BY TimeParts
  <1>3. \A w \in Workers : At(w, "init")' =>
           \A side \in Sides : InTime(work'[w].derby, side) = {}
    BY DEF TimeInv, At
  <1>4. \A w \in Workers : At(w, "write")' =>
           \A side \in Sides : Kept(work'[w].points[side], work'[w].derby, side)
    BY DEF TimeInv, At
  <1> QED BY <1>1, <1>2, <1>3, <1>4, TimeParts, TimeStays

(* A support before its increment is not yet in time.                         *)
LEMMA BeforeTheIncrement ==
  ASSUME DInv, TimeInv, NEW s \in Supports, NEW step, NEW d,
         SpendTo(s, step, d), spend[s].step # "done"
  PROVE  s \notin timely /\ \A r \in timely : spend'[r] = spend[r]
  <1>1. s \notin timely /\ timely \subseteq Supports
    BY DInvParts DEF TimeInv
  <1> QED BY <1>1 DEF SpendTo, DInv, TypeOK

(* An increment in time is made while nobody is to reset or to write: it adds   *)
(* one support and two points.  Any other adds points at most.                 *)
LEMMA IncrScoreInTime ==
  ASSUME DInv, TimeInv, NEW s \in Supports, IncrScore(s)
  PROVE  TimeInv'
  <1> PICK d \in Derbies \cup {NoDerby} : d = spend[s].derby
    BY SpendDerby
  <1>1. /\ UNCHANGED <<status, total, opened, work>> /\ spend[s].step # "done"
        /\ SpendTo(s, "done", d)
        /\ timely' = IF Open(d) THEN timely \cup {s} ELSE timely
        /\ d = NoDerby => counter' = counter
    BY DEF IncrScore, SpendAt
  <1>2. s \notin timely /\ \A r \in timely : spend'[r] = spend[r]
    BY <1>1, BeforeTheIncrement
  <1>3. CASE d = NoDerby
    BY <1>1, <1>2, <1>3, OtherwiseInTime DEF Open
  <1>4. CASE d # NoDerby
    <2> PICK side \in Sides : side = SideOf(s, d)
      BY DEF SideOf, Sides
    <2>1. /\ d \in Derbies /\ counter \in [Derbies -> Points]
          /\ counter' = [counter EXCEPT ![d] = [counter[d] EXCEPT ![side] = @ + 2]]
      BY <1>4, DInvParts DEF IncrScore
    <2>2. \A e \in Derbies, sd \in Sides :
             /\ counter[e][sd] \in Nat
             /\ counter'[e][sd] = counter[e][sd] + IF e = d /\ sd = side THEN 2 ELSE 0
      BY <2>1 DEF Points
    <2>3. CASE ~Open(d)
      <3>1. ASSUME NEW e \in Derbies, NEW sd \in Sides
            PROVE  Kept(counter'[e][sd], e, sd)
        <4> PICK m \in Nat, n \in Nat :
               m = Cardinality(InTime(e, sd)) /\ n = counter[e][sd]
          BY <2>2, DuesAreCounted
        <4>1. 2 * m <= n
          BY TimeParts DEF Kept
        <4>2. counter'[e][sd] = n \/ counter'[e][sd] = n + 2
          BY <2>2
        <4>3. 2 * m <= counter'[e][sd]
          BY <4>1, <4>2
        <4> QED BY <4>3 DEF Kept
      <3>2. \A w \in Workers : At(w, "init")' =>
               \A sd \in Sides : InTime(work'[w].derby, sd) = {}
        BY <1>1 DEF TimeInv, At
      <3>3. \A w \in Workers : At(w, "write")' =>
               \A sd \in Sides : Kept(work'[w].points[sd], work'[w].derby, sd)
        BY <1>1 DEF TimeInv, At
      <3> QED BY <1>1, <1>2, <2>3, <3>1, <3>2, <3>3, TimeParts, TimeStays
    <2>4. CASE Open(d)
      <3>1. timely' = timely \cup {s} /\ spend'[s].step = "done" /\ spend'[s].derby = d
        BY <1>1, <2>4 DEF SpendTo, DInv, TypeOK
      <3>2. ASSUME NEW e, NEW sd
            PROVE  InTime(e, sd)' = InTime(e, sd) \cup (IF e = d /\ sd = side THEN {s} ELSE {})
        BY <1>2, <3>1 DEF InTime, SideOf
      <3>3. ASSUME NEW e, NEW sd, ~(e = d /\ sd = side)
            PROVE  InTime(e, sd)' = InTime(e, sd)
        BY <3>2, <3>3
      <3>4. status[d] # "resolved" /\ \A w \in Workers :
               work[w] # Idle /\ work[w].derby = d => work[w].step \notin {"init", "write"}
        BY <2>4 DEF Open
      <3>5. ASSUME NEW e \in Derbies, NEW sd \in Sides
            PROVE  Kept(counter[e][sd], e, sd)'
        <4> PICK m \in Nat, n \in Nat :
               m = Cardinality(InTime(e, sd)) /\ n = counter[e][sd]
          BY <2>2, DuesAreCounted
        <4>1. 2 * m <= n
          BY TimeParts DEF Kept
        <4>2. CASE e = d /\ sd = side
          <5>1. s \notin InTime(e, sd) /\ IsFiniteSet(InTime(e, sd))
            BY <1>2, DuesAreCounted DEF InTime
          <5>2. InTime(e, sd)' = InTime(e, sd) \cup {s}
            BY <3>2, <4>2
          <5>3. Cardinality(InTime(e, sd)') = m + 1
            BY <5>1, <5>2, FS_AddElement
          <5>4. counter'[e][sd] = n + 2
            BY <2>2, <4>2
          <5>5. 2 * (m + 1) <= n + 2
            BY <4>1
          <5> QED BY <5>3, <5>4, <5>5 DEF Kept
        <4>3. CASE ~(e = d /\ sd = side)
          <5>1. InTime(e, sd)' = InTime(e, sd)
            BY <3>3, <4>3
          <5>2. Cardinality(InTime(e, sd)') = m /\ counter'[e][sd] = n
            BY <2>2, <4>3, <5>1
          <5> QED BY <4>1, <5>2 DEF Kept
        <4> QED BY <4>2, <4>3
      <3>6. ASSUME NEW e \in Derbies, NEW sd \in Sides, status'[e] = "resolved"
            PROVE  Kept(total[e][sd], e, sd)'
        <4>1. e # d /\ status[e] = "resolved"
          BY <1>1, <3>4, <3>6
        <4>2. InTime(e, sd)' = InTime(e, sd) /\ total'[e][sd] = total[e][sd]
          BY <1>1, <3>3, <4>1
        <4> QED BY <4>1, <4>2, TimeParts DEF Kept
      <3>7. ASSUME NEW w \in Workers, At(w, "init")', NEW sd \in Sides
            PROVE  InTime(work[w].derby, sd)' = {}
        <4>1. At(w, "init") /\ work'[w] = work[w] /\ work[w].derby # d
          BY <1>1, <3>4, <3>7 DEF At
        <4>2. InTime(work[w].derby, sd) = {}
          BY <4>1 DEF TimeInv
        <4>3. ASSUME NEW r \in timely', spend'[r].derby = work[w].derby
              PROVE  r \in timely /\ spend'[r] = spend[r]
          BY <1>2, <3>1, <4>1, <4>3
        <4> QED BY <4>1, <4>2, <4>3 DEF InTime, SideOf
      <3>8. ASSUME NEW w \in Workers, At(w, "write")', NEW sd \in Sides
            PROVE  Kept(work[w].points[sd], work[w].derby, sd)'
        <4>1. At(w, "write") /\ work'[w] = work[w] /\ work[w].derby # d
          BY <1>1, <3>4, <3>8 DEF At
        <4> PICK e, n : e = work[w].derby /\ n = work[w].points[sd]
          OBVIOUS
        <4>2. Kept(n, e, sd)
          BY <4>1 DEF TimeInv
        <4>3. InTime(e, sd)' = InTime(e, sd)
          BY <3>3, <4>1
        <4>4. work'[w].points[sd] = n /\ work'[w].derby = e
          BY <4>1
        <4> QED BY <4>2, <4>3, <4>4 DEF Kept, InTime, SideOf
      <3>9. \A r \in timely' : spend'[r].step = "done" /\ spend'[r].derby # NoDerby
        BY <1>2, <1>4, <3>1 DEF TimeInv
      <3>10. \A e \in Derbies : status'[e] \in {"none", "scheduled"} => e \notin opened'
        BY <1>1, TimeParts
      <3> QED BY <3>5, <3>6, <3>7, <3>8, <3>9, <3>10 DEF TimeInv
    <2> QED BY <2>3, <2>4
  <1> QED BY <1>3, <1>4

LEMMA SupportInTime ==
  ASSUME DInv, TimeInv, NEW s \in Supports, Support(s) \/ BreakOff(s)
  PROVE  TimeInv'
  <1>1. CASE ~IncrScore(s)
    <2>1. UNCHANGED <<status, total, opened, timely, counter, work>> /\ spend[s].step # "done"
      BY <1>1 DEF Support, LookUpCache, LoadDerby, FillCache, CommitSpend, BreakOff,
                  SpendAt, derbyVars, redisVars
    <2>2. \E step, d : SpendTo(s, step, d)
      BY <1>1 DEF Support, LookUpCache, LoadDerby, FillCache, CommitSpend, BreakOff, Priced
    <2>3. \A r \in timely : spend'[r] = spend[r]
      BY <2>1, <2>2, BeforeTheIncrement
    <2> QED BY <2>1, <2>3, OtherwiseInTime
  <1> QED BY <1>1, IncrScoreInTime

LEMMA TimeInit == Init => TimeInv
  <1> SUFFICES ASSUME Init PROVE TimeInv
    OBVIOUS
  <1>1. timely = {} /\ opened = {} /\ \A w \in Workers : work[w] = Idle
    BY DEF Init
  <1>2. \A d, side : InTime(d, side) = {} /\ Cardinality(InTime(d, side)) = 0
    BY <1>1, FS_EmptySet DEF InTime
  <1>3. \A d \in Derbies, side \in Sides : counter[d][side] = 0 /\ status[d] = "none"
    BY DEF Init, NoPoints
  <1>4. \A d \in Derbies, side \in Sides : Kept(counter[d][side], d, side)
    BY <1>2, <1>3 DEF Kept
  <1> QED BY <1>1, <1>3, <1>4 DEF TimeInv, At

LEMMA TimeStep == DInv /\ TimeInv /\ [Next]_vars => TimeInv'
  <1> SUFFICES ASSUME DInv, TimeInv, [Next]_vars PROVE TimeInv'
    OBVIOUS
  <1>1. ASSUME NEW d \in Derbies, Schedule(d) PROVE TimeInv'
    <2>1. PICK w \in Workers : StartActivate(w, d) \/ StartResolve(w, d)
      BY <1>1 DEF Schedule, Workers
    <2> QED BY <2>1, StartActivateInTime, StartResolveInTime
  <1>2. ASSUME NEW w \in Admins, NEW d \in Derbies, ForceResolve(w, d) PROVE TimeInv'
    <2>1. w \in Workers
      BY DEF Workers
    <2> QED BY <1>2, <2>1, StartResolveInTime
  <1>3. ASSUME NEW w \in Workers, Work(w) \/ Stop(w) PROVE TimeInv'
    BY <1>3, InitScoresInTime, WarmCacheInTime, GetScoresInTime, ResolveInTime, EndsInTime
       DEF Work
  <1>4. ASSUME NEW d \in Derbies, Create(d) PROVE TimeInv'
    <2>1. UNCHANGED <<total, opened, timely, counter, work, spend>>
      BY <1>4 DEF Create, redisVars
    <2>2. \A e \in Derbies :
             status'[e] = status[e] \/ (status[e] = "none" /\ status'[e] = "scheduled")
      BY <1>4, DInvParts DEF Create
    <2> QED BY <2>1, <2>2, OtherwiseInTime
  <1>5. CASE Tick \/ UNCHANGED vars
    <2>1. UNCHANGED <<status, total, opened, timely, counter, work, spend>>
      BY <1>5 DEF Tick, vars, derbyVars, redisVars
    <2> QED BY <2>1, OtherwiseInTime
  <1> QED BY <1>1, <1>2, <1>3, <1>4, <1>5, SupportInTime DEF Next

(* A derby's total has every support whose increment met neither the reset nor a  *)
(* resolution between its read and its write: only those can be lost              *)
(* (derby/service.go, Activate and Resolve; support/spend.go, the increment        *)
(* after the commit).                                                        *)
THEOREM PointsInTimeCount == Spec => []TimelyPointsCount
  <1>1. TimeInv => TimelyPointsCount
    BY DEF TimeInv, TimelyPointsCount, Kept
  <1>2. Spec => [](DInv /\ TimeInv)
    <2>1. Init => DInv /\ TimeInv
      BY DInvInit, TimeInit
    <2>2. DInv /\ TimeInv /\ [Next]_vars => (DInv /\ TimeInv)'
      BY DInvStep, TimeStep
    <2> QED BY <2>1, <2>2, PTL DEF Spec
  <1> QED BY <1>1, <1>2, PTL

-----------------------------------------------------------------------------
(* The points and the result                                                *)

(* What a support doubles and what a derby total counts has been earned, and what *)
(* was earned in time is counted (derby/multiplier.go, ResolveSupportMultiplier;  *)
(* derby/scores.go, IncrScore; derby/service.go, Resolve).                       *)
THEOREM PointsAreEarned == Spec => []DerbyPointsAreEarned
  BY OnlyOpenedDouble, TotalsBacked, PointsInTimeCount, PTL DEF DerbyPointsAreEarned

(* Only the worker whose UPDATE found the derby open writes its totals and     *)
(* publishes its result, so a resolved derby stays as it is and is announced   *)
(* once at most (derby/store.go, Resolve; derby/service.go, Resolve).         *)
LEMMA ResolvedStays ==
  ASSUME DInv, DInv', [Next]_vars, NEW d \in Derbies, status[d] = "resolved"
  PROVE  status'[d] = "resolved" /\ total'[d] = total[d] /\ announced'[d] <= 1
  <1>1. announced'[d] <= 1
    BY DEF DInv, PublishedOnce
  <1>2. CASE UNCHANGED <<status, total>>
    BY <1>1, <1>2
  <1>3. ASSUME NEW e \in Derbies, Create(e)
        PROVE  status'[d] = "resolved" /\ total'[d] = total[d]
    BY <1>3, DInvParts DEF Create
  <1>4. ASSUME NEW w, NEW e \in Derbies, StartActivate(w, e)
        PROVE  status'[d] = "resolved" /\ total'[d] = total[d]
    BY <1>4, DInvParts DEF StartActivate
  <1>5. ASSUME NEW w \in Workers, Resolve(w)
        PROVE  status'[d] = "resolved" /\ total'[d] = total[d]
    BY <1>5, DInvParts DEF Resolve
  <1>6. ASSUME NEW w \in Workers, Work(w), ~Resolve(w)
        PROVE  UNCHANGED <<status, total>>
    BY <1>6 DEF Work, InitScores, WarmCache, GetScores, DropCache, derbyVars
  <1>7. ASSUME NEW s \in Supports, Support(s) \/ BreakOff(s)
        PROVE  UNCHANGED <<status, total>>
    BY <1>7 DEF Support, LookUpCache, LoadDerby, FillCache, CommitSpend, IncrScore,
                BreakOff, derbyVars
  <1>8. ASSUME NEW w, NEW e \in Derbies,
               StartResolve(w, e) \/ ForceResolve(w, e) \/ Stop(w) \/ Tick
        PROVE  UNCHANGED <<status, total>>
    BY <1>8 DEF StartResolve, ForceResolve, Stop, Tick, derbyVars
  <1>9. CASE UNCHANGED vars
    BY <1>1, <1>9 DEF vars, derbyVars
  <1> QED BY <1>1, <1>2, <1>3, <1>4, <1>5, <1>6, <1>7, <1>8, <1>9 DEF Next, Schedule

THEOREM ResolutionIsFinal == Spec => ResolvedIsFinal
  <1>1. DInv /\ DInv' /\ [Next]_vars
           => [\A d \in Derbies : status[d] = "resolved"
                 => /\ status'[d] = "resolved"
                    /\ total'[d] = total[d]
                    /\ announced'[d] <= 1]_vars
    BY ResolvedStays
  <1> QED BY <1>1, DerbiesHold, PTL DEF Spec, ResolvedIsFinal
=============================================================================
