------------------------- MODULE SupportSpendProofs -------------------------
(***************************************************************************)
(* Theorems about SupportSpend, for any users, tribes, cities and requests.  *)
(***************************************************************************)
EXTENDS SupportSpend, WalletProofs, FiniteSetTheorems, WellFoundedInduction

(* Products and days stay natural numbers.                                   *)
LEMMA ProductPositive ==
  ASSUME NEW a \in Nat \ {0}, NEW b \in Nat \ {0}
  PROVE  a * b \in Nat \ {0}
  OBVIOUS

(* The calendar day of a time stamp is a number.                            *)
LEMMA DayIsNat ==
  ASSUME NEW t \in Nat
  PROVE  Day(t) \in Nat
  BY SpendAssumption DEF Day

-----------------------------------------------------------------------------
(* The leader of a city                                                    *)

ScoreTable == [Tribes -> [Cities -> Nat]]

(* At most one tribe leads.                                                  *)
LEMMA LeaderIs ==
  ASSUME NEW sc \in ScoreTable, NEW c \in Cities, NEW t \in Tribes, Leads(sc, c, t)
  PROVE  Leader(sc, c) = t
  <1>1. \A o \in Tribes : Leads(sc, c, o) => o = t
    BY SpendAssumption DEF Leads, ScoreTable
  <1> QED BY <1>1 DEF Leader

(* A city nobody has a score in has no leader.                              *)
LEMMA LeaderNone ==
  ASSUME NEW sc, NEW c, \A t \in Tribes : ~Leads(sc, c, t)
  PROVE  Leader(sc, c) = NoTribe
  BY DEF Leader

(* The leader is a tribe that leads, or no tribe.                           *)
LEMMA LeaderType ==
  ASSUME NEW sc \in ScoreTable, NEW c \in Cities
  PROVE  /\ Leader(sc, c) \in Tribes \cup {NoTribe}
         /\ Leader(sc, c) # NoTribe => Leads(sc, c, Leader(sc, c))
  <1>1. CASE \E t \in Tribes : Leads(sc, c, t)
    <2> PICK t \in Tribes : Leads(sc, c, t)
      BY <1>1
    <2> QED BY LeaderIs, SpendAssumption
  <1>2. CASE \A t \in Tribes : ~Leads(sc, c, t)
    BY <1>2, LeaderNone
  <1> QED BY <1>1, <1>2

(* Some tribe leads wherever one has support.                                *)
Contested(sc, c) ==
    (\E t \in Tribes : sc[t][c] > 0) => \E t \in Tribes : Leads(sc, c, t)

(* The table after one support.                                              *)
Raised(sc, t, c, n) == [sc EXCEPT ![t][c] = @ + n]

(* Raising one score changes that score only.                               *)
LEMMA RaisedValues ==
  ASSUME NEW sc \in ScoreTable, NEW t \in Tribes, NEW c \in Cities, NEW n \in Nat \ {0}
  PROVE  /\ Raised(sc, t, c, n) \in ScoreTable
         /\ Raised(sc, t, c, n)[t][c] = sc[t][c] + n
         /\ \A o \in Tribes, d \in Cities :
               (o # t \/ d # c) => Raised(sc, t, c, n)[o][d] = sc[o][d]
  BY DEF Raised, ScoreTable

(* A support leaves the leader alone or makes its own tribe the leader.      *)
LEMMA RaiseLeads ==
  ASSUME NEW sc \in ScoreTable, NEW t \in Tribes, NEW c \in Cities, NEW n \in Nat \ {0},
         Contested(sc, c)
  PROVE  \E o \in Tribes : Leads(Raised(sc, t, c, n), c, o)
  <1> DEFINE up == Raised(sc, t, c, n)
  <1>0. /\ up \in ScoreTable
        /\ up[t][c] = sc[t][c] + n
        /\ \A o \in Tribes : o # t => up[o][c] = sc[o][c]
        /\ \A o \in Tribes : sc[o][c] \in Nat /\ up[o][c] \in Nat
    BY RaisedValues DEF ScoreTable
  <1> HIDE DEF up
  <1>1. CASE \E o \in Tribes : Leads(sc, c, o)
    <2> PICK o \in Tribes : Leads(sc, c, o)
      BY <1>1
    <2>1. CASE o = t
      <3>1. Leads(up, c, t)
        BY <1>0, <2>1, SpendAssumption DEF Leads
      <3> QED BY <3>1 DEF up
    <2>2. CASE o # t /\ (up[t][c] > up[o][c] \/ (up[t][c] = up[o][c] /\ t <= o))
      <3>1. Leads(up, c, t)
        BY <1>0, <2>2, SpendAssumption DEF Leads
      <3> QED BY <3>1 DEF up
    <2>3. CASE o # t /\ (up[t][c] < up[o][c] \/ (up[t][c] = up[o][c] /\ o <= t))
      <3>1. Leads(up, c, o)
        BY <1>0, <2>3, SpendAssumption DEF Leads
      <3> QED BY <3>1 DEF up
    <2> QED BY <2>1, <2>2, <2>3, <1>0, SpendAssumption
  <1>2. CASE \A o \in Tribes : ~Leads(sc, c, o)
    <2>1. \A o \in Tribes : sc[o][c] = 0
      BY <1>0, <1>2 DEF Contested
    <2>2. Leads(up, c, t)
      BY <1>0, <2>1, SpendAssumption DEF Leads
    <2> QED BY <2>2 DEF up
  <1> QED BY <1>1, <1>2

(* Other cities keep their leader.                                           *)
LEMMA RaiseElsewhere ==
  ASSUME NEW sc \in ScoreTable, NEW t \in Tribes, NEW c \in Cities, NEW n \in Nat \ {0},
         NEW d \in Cities \ {c}
  PROVE  /\ Leader(Raised(sc, t, c, n), d) = Leader(sc, d)
         /\ Contested(sc, d) => Contested(Raised(sc, t, c, n), d)
  <1> DEFINE up == Raised(sc, t, c, n)
  <1>1. \A o \in Tribes : up[o][d] = sc[o][d]
    BY RaisedValues
  <1> HIDE DEF up
  <1>2. \A o \in Tribes : Leads(up, d, o) <=> Leads(sc, d, o)
    BY <1>1 DEF Leads
  <1>3. Leader(up, d) = Leader(sc, d)
    BY <1>2 DEF Leader
  <1>4. Contested(sc, d) => Contested(up, d)
    BY <1>1, <1>2 DEF Contested
  <1> QED BY <1>3, <1>4 DEF up

-----------------------------------------------------------------------------
(* Type correctness                                                        *)

(* The request fields the other lemmas rely on.                              *)
LEMMA RequestFields ==
  ASSUME TypeOK, NEW r \in Requests, pc[r] \in InTx \cup {"loaded"}
  PROVE  /\ req[r] \in RequestRow
         /\ req[r].user \in Users
         /\ req[r].city \in Cities
         /\ req[r].tribe \in Tribes
         /\ req[r].credits \in Nat \ {0}
         /\ req[r].mult \in Nat \ {0}
         /\ req[r].now \in Nat
         /\ req[r].next \in Nat
         /\ req[r].prev \in Tribes \cup {NoTribe}
  BY DEF TypeOK, RequestRow

(* The score table after a commit is the table raised by one support.        *)
LEMMA ScoredIsRaised ==
  ASSUME TypeOK, NEW r \in Requests, pc[r] \in InTx
  PROVE  /\ req[r].credits * req[r].mult \in Nat \ {0}
         /\ Scored(req[r]) = Raised(scores, req[r].tribe, req[r].city,
                                    req[r].credits * req[r].mult)
         /\ Scored(req[r]) \in ScoreTable
         /\ scores \in ScoreTable
  <1>1. req[r].credits * req[r].mult \in Nat \ {0}
    BY RequestFields, ProductPositive
  <1>2. scores \in ScoreTable
    BY DEF TypeOK, ScoreTable
  <1>3. Scored(req[r]) = Raised(scores, req[r].tribe, req[r].city,
                                req[r].credits * req[r].mult)
    BY DEF Scored, Raised
  <1>4. PICK n \in Nat \ {0} : n = req[r].credits * req[r].mult
    BY <1>1
  <1>5. Raised(scores, req[r].tribe, req[r].city, n) \in ScoreTable
    BY <1>2, RequestFields, RaisedValues
  <1> QED BY <1>1, <1>2, <1>3, <1>4, <1>5

(* A movement in its own transaction keeps the types of the wallet.          *)
LEMMA ApplyType ==
  ASSUME NEW u \in Users, NEW delta \in Int, NEW reason \in Reasons,
         NEW key \in Keys, WalletTypeOK, ApplyOnTx(u, delta, reason, key)
  PROVE  WalletTypeOK'
  <1>1. CASE Outcome(u, delta, reason, key) = "applied"
    <2> PICK next \in Nat : next = balance[u] + delta
      BY <1>1 DEF Outcome, WalletTypeOK
    <2>1. Post(u, delta, next, reason, key)
      BY <1>1 DEF ApplyOnTx
    <2>2. Posted(u, delta, next, reason, key)
      BY <2>1, PostRows
    <2> QED BY <2>2 DEF Posted
  <1>2. CASE Outcome(u, delta, reason, key) # "applied"
    BY <1>2 DEF ApplyOnTx, walletVars, WalletTypeOK
  <1> QED BY <1>1, <1>2

(* Loading the user keeps the types.                                        *)
LEMMA LoadType ==
  ASSUME TypeOK, NEW r \in Requests, NEW a \in Asks, LoadUser(r, a)
  PROVE  TypeOK'
  <1>1. a \in [user : Users, city : Cities, credits : Int, mult : Nat \ {0}]
    BY SpendAssumption
  <1>2. CASE status[a.user] = "banned" \/ a.credits <= 0 \/ tribeOf[a.user] = NoTribe
    BY <1>2 DEF LoadUser, Finish, TypeOK, WalletTypeOK, walletVars, userVars, tableVars,
               Phases, Refused, InTx
  <1>3. CASE ~(status[a.user] = "banned" \/ a.credits <= 0 \/ tribeOf[a.user] = NoTribe)
    <2> DEFINE row == [user |-> a.user, city |-> a.city, credits |-> a.credits,
                   mult |-> a.mult, tribe |-> tribeOf[a.user],
                   shadow |-> status[a.user] = "shadow_banned",
                   now |-> 0, prev |-> NoTribe, next |-> 0]
    <2>1. tribeOf[a.user] \in Tribes /\ a.credits \in Nat \ {0}
      BY <1>1, <1>3 DEF TypeOK
    <2>2. row \in RequestRow
      BY <1>1, <2>1 DEF RequestRow
    <2>3. pc' = [pc EXCEPT ![r] = "loaded"] /\ req' = [req EXCEPT ![r] = row]
      BY <1>3 DEF LoadUser
    <2> HIDE DEF row
    <2> QED BY <2>2, <2>3 DEF LoadUser, TypeOK, WalletTypeOK, walletVars, userVars,
                tableVars, Phases, InTx
  <1> QED BY <1>2, <1>3

(* Locking the city keeps the types.                                        *)
LEMMA LockCityType ==
  ASSUME TypeOK, NEW r \in Requests, LockCity(r)
  PROVE  TypeOK'
  <1>1. pc[r] = "loaded" /\ req[r] \in RequestRow /\ req[r].city \in Cities
    BY RequestFields DEF LockCity
  <1>2. PICK gap \in Gaps : clock' = clock + gap
    BY DEF LockCity
  <1>3. clock' \in Nat
    BY <1>2, SpendAssumption DEF TypeOK
  <1>4. PICK leader \in Tribes \cup {NoTribe} : leader = Leader(scores, req[r].city)
    <2>1. scores \in ScoreTable
      BY DEF TypeOK, ScoreTable
    <2> QED BY <1>1, <2>1, LeaderType
  <1>5. PICK time \in Nat : time = clock'
    BY <1>3
  <1>6. req' = [req EXCEPT ![r] = [@ EXCEPT !.now = time, !.prev = leader]]
    BY <1>4, <1>5 DEF LockCity, TypeOK
  <1>7. [req[r] EXCEPT !.now = time, !.prev = leader] \in RequestRow
    BY <1>1 DEF RequestRow
  <1> QED BY <1>3, <1>6, <1>7 DEF LockCity, TypeOK, WalletTypeOK, walletVars, userVars,
             tableVars, Phases, InTx

(* Locking the account keeps the types.                                     *)
LEMMA LockAccountType ==
  ASSUME TypeOK, NEW r \in Requests, LockAccount(r)
  PROVE  TypeOK'
  <1>1. /\ pc[r] = "cityLocked" /\ req[r] \in RequestRow
        /\ req[r].user \in Users /\ req[r].credits \in Nat
    BY RequestFields DEF LockAccount, InTx
  <1>2. CASE Outcome(req[r].user, -req[r].credits, "support_spend", r) = "applied"
    <2>1. PICK next \in Nat : next = balance[req[r].user] - req[r].credits
      BY <1>1, <1>2 DEF Outcome, TypeOK, WalletTypeOK
    <2>2. req' = [req EXCEPT ![r] = [@ EXCEPT !.next = next]]
      BY <1>2, <2>1 DEF LockAccount
    <2>3. [req[r] EXCEPT !.next = next] \in RequestRow
      BY <1>1 DEF RequestRow
    <2> QED BY <1>2, <2>2, <2>3 DEF LockAccount, TypeOK, WalletTypeOK, walletVars,
               userVars, tableVars, Phases, InTx
  <1>3. CASE Outcome(req[r].user, -req[r].credits, "support_spend", r) # "applied"
    BY <1>3 DEF LockAccount, Finish, TypeOK, WalletTypeOK, walletVars, userVars,
               tableVars, Phases, Refused, InTx
  <1> QED BY <1>2, <1>3

(* The parts of a commit: who leads afterwards, whether the city changes      *)
(* hands, the rows it writes.                                                *)
Winner(r) == Leader(Scored(req[r]), req[r].city)
Flips(r) == LeaderChanged(req[r].prev, Winner(r))
NewEntry(r) == [prev |-> req[r].prev, new |-> Winner(r), at |-> req[r].now, causing |-> r]
NewSupport(r) == [user |-> req[r].user, city |-> req[r].city, tribe |-> req[r].tribe,
                  credits |-> req[r].credits, effective |-> req[r].credits * req[r].mult,
                  at |-> req[r].now, capture |-> 0]
Tag(r, s) == IF Flips(r) /\ InCampaign(s, req[r].city, Winner(r), req[r].now)
             THEN [s EXCEPT !.capture = Len(log[req[r].city]) + 1] ELSE s

(* What CommitSupport writes, table by table.                               *)
LEMMA CommitParts ==
  ASSUME NEW r \in Requests, CommitSupport(r)
  PROVE  /\ pc[r] = "accountLocked"
         /\ Post(req[r].user, -req[r].credits, req[r].next, "support_spend", r)
         /\ scores' = Scored(req[r])
         /\ streak' = [streak EXCEPT ![req[r].user] = NextStreak(@, Day(req[r].now))]
         /\ log' = IF Flips(r) THEN [log EXCEPT ![req[r].city] = Append(@, NewEntry(r))]
                   ELSE log
         /\ supports' = [s \in DOMAIN supports \cup {r} |->
                            Tag(r, IF s = r THEN NewSupport(r) ELSE supports[s])]
         /\ pc' = [pc EXCEPT ![r] = "ok"]
         /\ req' = [req EXCEPT ![r] = NoRequest]
         /\ UNCHANGED <<tribeOf, status, clock>>
  BY DEF CommitSupport, Winner, Flips, NewEntry, NewSupport, Tag, Finish, userVars

(* The winner of a flip is a tribe.                                          *)
LEMMA WinnerType ==
  ASSUME TypeOK, NEW r \in Requests, pc[r] \in InTx
  PROVE  /\ Winner(r) \in Tribes \cup {NoTribe}
         /\ Flips(r) => Winner(r) \in Tribes /\ NewEntry(r) \in LogRow
  <1>1. PICK city \in Cities : city = req[r].city
    BY RequestFields
  <1>2. PICK up \in ScoreTable : up = Scored(req[r])
    BY ScoredIsRaised
  <1>3. Leader(up, city) \in Tribes \cup {NoTribe}
    BY LeaderType
  <1>4. Winner(r) \in Tribes \cup {NoTribe}
    BY <1>1, <1>2, <1>3 DEF Winner
  <1>5. ASSUME Flips(r)
        PROVE  Winner(r) \in Tribes /\ NewEntry(r) \in LogRow
    <2>1. Winner(r) \in Tribes
      BY <1>4, <1>5 DEF Flips, LeaderChanged
    <2>2. req[r].prev \in Tribes \cup {NoTribe} /\ req[r].now \in Nat
      BY RequestFields
    <2> QED BY <2>1, <2>2 DEF NewEntry, LogRow
  <1> QED BY <1>4, <1>5

(* The next streak is a streak row.                                         *)
LEMMA NextStreakType ==
  ASSUME NEW row \in StreakRow, NEW today \in Nat
  PROVE  NextStreak(row, today) \in StreakRow
  BY DEF NextStreak, StreakRow

(* The log of the city after a commit.                                       *)
LEMMA LogGrows ==
  ASSUME TypeOK, NEW r \in Requests, CommitSupport(r)
  PROVE  /\ log' \in [Cities -> Seq(LogRow)]
         /\ \A d \in Cities : d # req[r].city \/ ~Flips(r) => log'[d] = log[d]
         /\ Flips(r) => log'[req[r].city] = Append(log[req[r].city], NewEntry(r))
  <1>1. log \in [Cities -> Seq(LogRow)] /\ req[r].city \in Cities
    BY RequestFields, CommitParts DEF TypeOK, InTx
  <1>2. log' = IF Flips(r) THEN [log EXCEPT ![req[r].city] = Append(@, NewEntry(r))]
               ELSE log
    BY CommitParts
  <1>3. CASE Flips(r)
    <2>1. PICK entry \in LogRow : entry = NewEntry(r)
      BY <1>3, WinnerType, CommitParts DEF InTx
    <2>2. Append(log[req[r].city], entry) \in Seq(LogRow)
      BY <1>1, AppendProperties
    <2> QED BY <1>1, <1>2, <1>3, <2>1, <2>2
  <1>4. CASE ~Flips(r)
    BY <1>1, <1>2, <1>4
  <1> QED BY <1>3, <1>4

(* Committing a support keeps the types.                                    *)
LEMMA CommitType ==
  ASSUME TypeOK, NEW r \in Requests, CommitSupport(r)
  PROVE  TypeOK'
  <1>1. pc[r] \in InTx
    BY CommitParts DEF InTx
  <1>2. WalletTypeOK'
    <2>1. PICK u \in Users, delta \in Int, next \in Nat :
             u = req[r].user /\ delta = -req[r].credits /\ next = req[r].next
      BY <1>1, RequestFields
    <2>2. Post(u, delta, next, "support_spend", r)
      BY <2>1, CommitParts
    <2>3. WalletTypeOK /\ r \in Keys /\ "support_spend" \in Reasons
      BY SpendAssumption DEF TypeOK, Reasons
    <2>4. Posted(u, delta, next, "support_spend", r)
      BY <2>2, <2>3, PostRows
    <2> QED BY <2>4 DEF Posted
  <1>3. scores' \in [Tribes -> [Cities -> Nat]]
    BY <1>1, CommitParts, ScoredIsRaised DEF ScoreTable
  <1>4. /\ DOMAIN supports' \subseteq Requests
        /\ supports' \in [DOMAIN supports' -> SupportRow]
    <2>1. NewSupport(r) \in SupportRow
      <3>1. req[r].credits * req[r].mult \in Nat \ {0}
        BY <1>1, ScoredIsRaised
      <3> QED BY <1>1, <3>1, RequestFields DEF NewSupport, SupportRow
    <2>2. Len(log[req[r].city]) + 1 \in Nat
      <3>1. log[req[r].city] \in Seq(LogRow)
        BY <1>1, RequestFields DEF TypeOK
      <3> QED BY <3>1, LenProperties
    <2>3. \A s \in SupportRow : Tag(r, s) \in SupportRow
      BY <2>2 DEF Tag, SupportRow
    <2>4. supports' = [s \in DOMAIN supports \cup {r} |->
                          Tag(r, IF s = r THEN NewSupport(r) ELSE supports[s])]
      BY CommitParts
    <2>5. DOMAIN supports \subseteq Requests /\ supports \in [DOMAIN supports -> SupportRow]
      BY DEF TypeOK
    <2>6. \A s \in DOMAIN supports \cup {r} :
             (IF s = r THEN NewSupport(r) ELSE supports[s]) \in SupportRow
      BY <2>1, <2>5
    <2> QED BY <2>3, <2>4, <2>5, <2>6
  <1>5. log' \in [Cities -> Seq(LogRow)]
    BY LogGrows
  <1>6. streak' \in [Users -> StreakRow]
    <2>1. PICK today \in Nat : today = Day(req[r].now)
      BY <1>1, RequestFields, DayIsNat
    <2>2. streak \in [Users -> StreakRow] /\ req[r].user \in Users
      BY <1>1, RequestFields DEF TypeOK
    <2>3. NextStreak(streak[req[r].user], today) \in StreakRow
      BY <2>2, NextStreakType
    <2> QED BY <2>1, <2>2, <2>3, CommitParts
  <1>7. /\ pc' \in [Requests -> Phases]
        /\ req' \in [Requests -> RequestRow \cup {NoRequest}]
        /\ \A s \in Requests : pc'[s] \in InTx \cup {"loaded"} => req'[s] \in RequestRow
        /\ UNCHANGED <<tribeOf, status, clock>>
    BY CommitParts DEF TypeOK, Phases, InTx
  <1> QED BY <1>2, <1>3, <1>4, <1>5, <1>6, <1>7 DEF TypeOK

(* Every step keeps the types.                                              *)
LEMMA TypeStep == TypeOK /\ [Next]_vars => TypeOK'
  <1> SUFFICES ASSUME TypeOK, [Next]_vars PROVE TypeOK'
    OBVIOUS
  <1>1. ASSUME NEW u \in Movable, NEW t \in Tribes, ChangeTribe(u, t)
        PROVE  TypeOK'
    BY <1>1, SpendAssumption DEF ChangeTribe, TypeOK, WalletTypeOK, walletVars,
       tableVars, requestVars
  <1>2. ASSUME NEW u \in Moderated, NEW s \in Statuses, SetStatus(u, s)
        PROVE  TypeOK'
    BY <1>2, SpendAssumption DEF SetStatus, TypeOK, WalletTypeOK, walletVars,
       tableVars, requestVars
  <1>3. ASSUME NEW u \in Users, NEW n \in Grants, NEW key \in GrantKeys, Grant(u, n, key)
        PROVE  TypeOK'
    <2>1. n \in Int /\ key \in Keys /\ "purchase" \in Reasons
      BY SpendAssumption DEF Reasons
    <2>2. WalletTypeOK'
      BY <1>3, <2>1, ApplyType DEF Grant, TypeOK
    <2> QED BY <1>3, <2>2 DEF Grant, TypeOK, userVars, tableVars, requestVars
  <1>4. ASSUME NEW r \in Requests, NEW a \in Asks, LoadUser(r, a)
        PROVE  TypeOK'
    BY <1>4, LoadType
  <1>5. ASSUME NEW r \in Requests, AnswerInert(r)
        PROVE  TypeOK'
    BY <1>5 DEF AnswerInert, Finish, TypeOK, WalletTypeOK, walletVars, userVars,
       tableVars, Phases, Refused, InTx
  <1>6. ASSUME NEW r \in Requests, LockCity(r)
        PROVE  TypeOK'
    BY <1>6, LockCityType
  <1>7. ASSUME NEW r \in Requests, LockAccount(r)
        PROVE  TypeOK'
    BY <1>7, LockAccountType
  <1>8. ASSUME NEW r \in Requests, CommitSupport(r)
        PROVE  TypeOK'
    BY <1>8, CommitType
  <1>9. ASSUME NEW r \in Requests, Abort(r)
        PROVE  TypeOK'
    BY <1>9 DEF Abort, Finish, TypeOK, WalletTypeOK, walletVars, userVars, tableVars,
       Phases, Refused, InTx
  <1>10. CASE UNCHANGED vars
    BY <1>10 DEF vars, walletVars, userVars, tableVars, requestVars, TypeOK, WalletTypeOK
  <1> QED
    BY <1>1, <1>2, <1>3, <1>4, <1>5, <1>6, <1>7, <1>8, <1>9, <1>10 DEF Next, Progress

(* The initial tables are well typed.                                       *)
LEMMA TypeInit == Init => TypeOK
  BY SpendAssumption, WalletInitInv DEF Init, TypeOK, WalletInv, Statuses, StreakRow,
     Phases, InTx, SupportRow

(* Every variable keeps its type.                                            *)
THEOREM TypeCorrect == Spec => []TypeOK
  BY TypeInit, TypeStep, PTL DEF Spec

-----------------------------------------------------------------------------
(* The inductive invariant                                                 *)

(* A row has at most one lock holder.                                        *)
Locks ==
    \A r, s \in Requests : r # s =>
        /\ pc[r] \in InTx /\ pc[s] \in InTx => req[r].city # req[s].city
        /\ pc[r] = "accountLocked" /\ pc[s] = "accountLocked"
              => req[r].user # req[s].user

(* What a request read under its locks is still so.                          *)
Reads ==
    \A r \in Requests :
        /\ pc[r] \in InTx => req[r].prev = Leader(scores, req[r].city)
        /\ pc[r] = "accountLocked"
              => req[r].next = balance[req[r].user] - req[r].credits
        /\ pc[r] # "ok" => ~KeyUsed(r)

(* Captures are in the past, and before any open transaction on their city.  *)
Times ==
    /\ \A c \in Cities : \A i \in DOMAIN log[c] : log[c][i].at <= clock
    /\ \A r \in Requests : pc[r] \in InTx =>
          /\ req[r].now <= clock
          /\ \A i \in DOMAIN log[req[r].city] : log[req[r].city][i].at < req[r].now

IInv ==
    /\ TypeOK
    /\ BalanceMatchesLedger
    /\ KeysMoveCreditsOnce
    /\ Locks
    /\ Reads
    /\ Times
    /\ \A c \in Cities : Contested(scores, c)
    /\ LogExplainsLeader

(* A request that stops, or has not locked anything yet, disturbs nothing.   *)
LEMMA OutsideTx ==
  ASSUME IInv, TypeOK', NEW r \in Requests, NEW phase, NEW local,
         pc[r] # "ok", phase \notin InTx \cup {"ok"},
         pc' = [pc EXCEPT ![r] = phase], req' = [req EXCEPT ![r] = local],
         UNCHANGED <<walletVars, scores, log, clock>>
  PROVE  IInv'
  <1>1. \A s \in Requests : s # r => pc'[s] = pc[s] /\ req'[s] = req[s]
    BY DEF IInv, TypeOK
  <1>2. pc'[r] = phase
    BY DEF IInv, TypeOK
  <1>3. Locks'
    BY <1>1, <1>2 DEF IInv, Locks, InTx
  <1>4. \A k : KeyUsed(k)' <=> KeyUsed(k)
    BY DEF KeyUsed, RowsOf, walletVars
  <1>5. Reads'
    BY <1>1, <1>2, <1>4 DEF IInv, Reads, InTx, walletVars, Leader, Leads
  <1>6. Times'
    BY <1>1, <1>2 DEF IInv, Times, InTx
  <1>7. /\ BalanceMatchesLedger' /\ KeysMoveCreditsOnce' /\ LogExplainsLeader'
        /\ (\A c \in Cities : Contested(scores, c))'
    BY DEF IInv, walletVars, BalanceMatchesLedger, KeysMoveCreditsOnce,
           LogExplainsLeader, Leader, Leads
  <1> QED BY <1>3, <1>5, <1>6, <1>7 DEF IInv

(* A grant disturbs no request: it waits for the account row.               *)
LEMMA GrantKeepsInv ==
  ASSUME IInv, TypeOK', NEW u \in Users, NEW n \in Grants, NEW key \in GrantKeys,
         Grant(u, n, key)
  PROVE  IInv'
  <1>1. /\ n \in Int /\ key \in Keys /\ "purchase" \in Reasons
        /\ \A r \in Requests : r # key
    BY SpendAssumption DEF Reasons
  <1>2. WalletInv /\ ApplyOnTx(u, n, "purchase", key)
    BY DEF IInv, WalletInv, TypeOK, Grant
  <1>3. WalletInv'
    BY <1>1, <1>2, ApplyKeepsWallet
  <1>4. /\ \A v \in Users : v # u => balance'[v] = balance[v]
        /\ \A r \in Requests : KeyUsed(r)' => KeyUsed(r)
    <2>1. CASE Outcome(u, n, "purchase", key) = "applied"
      <3> PICK next \in Nat : next = balance[u] + n
        BY <1>1, <1>2, <2>1 DEF Outcome, WalletInv, WalletTypeOK
      <3>1. Post(u, n, next, "purchase", key)
        BY <1>2, <2>1 DEF ApplyOnTx
      <3>2. Posted(u, n, next, "purchase", key)
        BY <1>1, <1>2, <3>1, PostRows DEF WalletInv
      <3>3. \A k : KeyUsed(k)' => KeyUsed(k) \/ k = key
        BY <1>1, <1>2, <3>1, PostKeyUsed DEF WalletInv
      <3> QED BY <1>1, <3>2, <3>3 DEF Posted
    <2>2. CASE Outcome(u, n, "purchase", key) # "applied"
      BY <1>2, <2>2 DEF ApplyOnTx, walletVars, KeyUsed, RowsOf
    <2> QED BY <2>1, <2>2
  <1>5. UNCHANGED <<scores, log, clock, pc, req>> /\ AccountFree(u)
    BY DEF Grant, tableVars, requestVars
  <1>6. Locks' /\ Times'
    BY <1>5 DEF IInv, Locks, Times
  <1>7. Reads'
    <2> SUFFICES ASSUME NEW r \in Requests
                 PROVE  (/\ pc[r] \in InTx => req[r].prev = Leader(scores, req[r].city)
                         /\ pc[r] = "accountLocked"
                              => req[r].next = balance[req[r].user] - req[r].credits
                         /\ pc[r] # "ok" => ~KeyUsed(r))'
      BY DEF Reads
    <2>1. (pc[r] \in InTx => req[r].prev = Leader(scores, req[r].city))'
      BY <1>5 DEF IInv, Reads, Leader, Leads
    <2>2. pc[r] = "accountLocked" => balance'[req[r].user] = balance[req[r].user]
      BY <1>4, <1>5, RequestFields DEF AccountFree, IInv, InTx
    <2>3. (pc[r] = "accountLocked"
              => req[r].next = balance[req[r].user] - req[r].credits)'
      BY <1>5, <2>2 DEF IInv, Reads
    <2>4. (pc[r] # "ok" => ~KeyUsed(r))'
      BY <1>4, <1>5 DEF IInv, Reads
    <2> QED BY <2>1, <2>3, <2>4
  <1>8. LogExplainsLeader' /\ (\A c \in Cities : Contested(scores, c))'
    BY <1>5 DEF IInv, LogExplainsLeader, Leader, Leads
  <1> QED BY <1>3, <1>6, <1>7, <1>8 DEF IInv, WalletInv

(* A request that locks its city reads the true leader, after every capture. *)
LEMMA LockCityKeepsInv ==
  ASSUME IInv, TypeOK', NEW r \in Requests, LockCity(r)
  PROVE  IInv'
  <1>1. /\ pc[r] = "loaded" /\ req[r].city \in Cities /\ CityFree(req[r].city)
        /\ pc' = [pc EXCEPT ![r] = "cityLocked"]
        /\ UNCHANGED <<walletVars, scores, log>>
    BY RequestFields DEF IInv, LockCity, tableVars
  <1>2. clock \in Nat /\ clock' \in Nat /\ clock < clock'
    BY SpendAssumption DEF LockCity, IInv, TypeOK
  <1>3. /\ \A s \in Requests : s # r => pc'[s] = pc[s] /\ req'[s] = req[s]
        /\ pc'[r] = "cityLocked"
        /\ req'[r].city = req[r].city
        /\ req'[r].now = clock'
        /\ req'[r].prev = Leader(scores, req[r].city)
    <2>1. req[r] \in RequestRow
      BY <1>1, RequestFields DEF IInv
    <2> QED BY <1>1, <2>1 DEF LockCity, IInv, TypeOK, RequestRow
  <1>4. Locks'
    BY <1>1, <1>3 DEF IInv, Locks, CityFree, InTx
  <1>5. \A k : KeyUsed(k)' <=> KeyUsed(k)
    BY <1>1 DEF KeyUsed, RowsOf, walletVars
  <1>6. Reads'
    <2> SUFFICES ASSUME NEW s \in Requests
                 PROVE  (/\ pc[s] \in InTx => req[s].prev = Leader(scores, req[s].city)
                         /\ pc[s] = "accountLocked"
                              => req[s].next = balance[req[s].user] - req[s].credits
                         /\ pc[s] # "ok" => ~KeyUsed(s))'
      BY DEF Reads
    <2>1. CASE s = r
      BY <1>1, <1>3, <1>5, <2>1 DEF IInv, Reads, InTx
    <2>2. CASE s # r
      BY <1>1, <1>3, <1>5, <2>2 DEF IInv, Reads, InTx, walletVars
    <2> QED BY <2>1, <2>2
  <1>7. Times'
    <2>1. \A c \in Cities : \A i \in DOMAIN log[c] : log[c][i].at \in Nat
      <3> TAKE c \in Cities
      <3>1. log[c] \in Seq(LogRow)
        BY DEF IInv, TypeOK
      <3> TAKE i \in DOMAIN log[c]
      <3>2. log[c][i] \in LogRow
        BY <3>1, ElementOfSeq, LenProperties
      <3> QED BY <3>2 DEF LogRow
    <2>2. \A c \in Cities : \A i \in DOMAIN log[c] : log[c][i].at <= clock /\ log[c][i].at < clock'
      BY <1>2, <2>1 DEF IInv, Times
    <2>3. (\A c \in Cities : \A i \in DOMAIN log[c] : log[c][i].at <= clock)'
      BY <1>1, <1>2, <2>1, <2>2
    <2>4. ASSUME NEW s \in Requests, pc'[s] \in InTx
          PROVE  /\ req'[s].now <= clock'
                 /\ \A i \in DOMAIN log'[req'[s].city] :
                       log'[req'[s].city][i].at < req'[s].now
      <3>1. CASE s = r
        BY <1>1, <1>2, <1>3, <2>2, <3>1
      <3>2. CASE s # r
        <4>1. pc[s] \in InTx /\ req'[s] = req[s] /\ req[s].now \in Nat
          BY <1>3, <2>4, <3>2, RequestFields DEF IInv
        <4> QED BY <1>1, <1>2, <4>1 DEF IInv, Times
      <3> QED BY <3>1, <3>2
    <2> QED BY <2>3, <2>4 DEF Times
  <1>8. /\ BalanceMatchesLedger' /\ KeysMoveCreditsOnce' /\ LogExplainsLeader'
        /\ (\A c \in Cities : Contested(scores, c))'
    BY <1>1 DEF IInv, walletVars, BalanceMatchesLedger, KeysMoveCreditsOnce,
           LogExplainsLeader, Leader, Leads
  <1> QED BY <1>4, <1>6, <1>7, <1>8 DEF IInv

(* A request that locks its account computes the true next balance.         *)
LEMMA LockAccountKeepsInv ==
  ASSUME IInv, TypeOK', NEW r \in Requests, LockAccount(r)
  PROVE  IInv'
  <1>1. /\ pc[r] = "cityLocked" /\ req[r] \in RequestRow /\ AccountFree(req[r].user)
        /\ UNCHANGED <<walletVars, scores, log, clock>>
    BY RequestFields DEF IInv, LockAccount, InTx, tableVars
  <1>2. CASE Outcome(req[r].user, -req[r].credits, "support_spend", r) # "applied"
    <2>1. /\ pc' = [pc EXCEPT ![r] = "insufficient"]
          /\ req' = [req EXCEPT ![r] = NoRequest]
      BY <1>2 DEF LockAccount, Finish
    <2> QED BY <1>1, <2>1, OutsideTx DEF InTx
  <1>3. CASE Outcome(req[r].user, -req[r].credits, "support_spend", r) = "applied"
    <2>1. /\ \A s \in Requests : s # r => pc'[s] = pc[s] /\ req'[s] = req[s]
          /\ pc'[r] = "accountLocked"
          /\ req'[r].city = req[r].city /\ req'[r].user = req[r].user
          /\ req'[r].now = req[r].now /\ req'[r].prev = req[r].prev
          /\ req'[r].credits = req[r].credits
          /\ req'[r].next = balance[req[r].user] - req[r].credits
      BY <1>1, <1>3 DEF LockAccount, IInv, TypeOK, RequestRow
    <2>2. Locks'
      BY <1>1, <2>1 DEF IInv, Locks, AccountFree, InTx
    <2>3. \A k : KeyUsed(k)' <=> KeyUsed(k)
      BY <1>1 DEF KeyUsed, RowsOf, walletVars
    <2>4. Reads'
      <3> SUFFICES ASSUME NEW s \in Requests
                   PROVE  (/\ pc[s] \in InTx => req[s].prev = Leader(scores, req[s].city)
                           /\ pc[s] = "accountLocked"
                                => req[s].next = balance[req[s].user] - req[s].credits
                           /\ pc[s] # "ok" => ~KeyUsed(s))'
        BY DEF Reads
      <3>1. CASE s = r
        BY <1>1, <2>1, <2>3, <3>1 DEF IInv, Reads, InTx, walletVars
      <3>2. CASE s # r
        BY <1>1, <2>1, <2>3, <3>2 DEF IInv, Reads, InTx, walletVars
      <3> QED BY <3>1, <3>2
    <2>5. Times'
      BY <1>1, <2>1 DEF IInv, Times, InTx
    <2>6. /\ BalanceMatchesLedger' /\ KeysMoveCreditsOnce' /\ LogExplainsLeader'
          /\ (\A c \in Cities : Contested(scores, c))'
      BY <1>1 DEF IInv, walletVars, BalanceMatchesLedger, KeysMoveCreditsOnce,
             LogExplainsLeader, Leader, Leads
    <2> QED BY <2>2, <2>4, <2>5, <2>6 DEF IInv
  <1> QED BY <1>2, <1>3

(* What a commit does to the contest: the leader of its own city is the       *)
(* winner, a tribe; every other city keeps its leader.                       *)
LEMMA CommitLeaders ==
  ASSUME IInv, NEW r \in Requests, CommitSupport(r)
  PROVE  /\ \A c \in Cities : Contested(scores', c)
         /\ Leader(scores', req[r].city) = Winner(r)
         /\ Winner(r) \in Tribes
         /\ \A d \in Cities : d # req[r].city => Leader(scores', d) = Leader(scores, d)
  <1>1. pc[r] \in InTx /\ TypeOK /\ scores' = Scored(req[r])
    BY CommitParts DEF InTx, IInv
  <1>2. PICK t \in Tribes, c \in Cities, n \in Nat \ {0} :
           t = req[r].tribe /\ c = req[r].city /\ n = req[r].credits * req[r].mult
    BY <1>1, RequestFields, ScoredIsRaised
  <1>3. scores' = Raised(scores, t, c, n) /\ scores \in ScoreTable
    BY <1>1, <1>2, ScoredIsRaised
  <1>4. Contested(scores, c)
    BY DEF IInv
  <1>5. \E o \in Tribes : Leads(scores', c, o)
    BY <1>3, <1>4, RaiseLeads
  <1>6. Raised(scores, t, c, n) \in ScoreTable
    BY <1>3, RaisedValues
  <1>7. Leader(scores', c) \in Tribes
    BY <1>3, <1>5, <1>6, LeaderIs
  <1>8. \A d \in Cities : d # c =>
           Leader(scores', d) = Leader(scores, d) /\ Contested(scores', d)
    <2> TAKE d \in Cities
    <2> HAVE d # c
    <2> QED BY <1>3, RaiseElsewhere DEF IInv
  <1>9. Contested(scores', c)
    BY <1>5 DEF Contested
  <1> QED BY <1>1, <1>2, <1>7, <1>8, <1>9 DEF Winner

(* The log of a city, row by row.                                            *)
LEMMA CommitLog ==
  ASSUME TypeOK, NEW r \in Requests, CommitSupport(r), Flips(r)
  PROVE  LET rows == log[req[r].city]
             more == log'[req[r].city]
         IN /\ Len(rows) \in Nat
            /\ DOMAIN rows = 1..Len(rows)
            /\ Len(more) = Len(rows) + 1
            /\ DOMAIN more = 1..Len(rows) + 1
            /\ \A i \in 1..Len(rows) : more[i] = rows[i]
            /\ more[Len(rows) + 1] = NewEntry(r)
            /\ rows = <<>> <=> Len(rows) = 0
            /\ more # <<>>
  <1>1. pc[r] \in InTx
    BY CommitParts DEF InTx
  <1>2. PICK rows \in Seq(LogRow) : rows = log[req[r].city]
    BY <1>1, RequestFields DEF TypeOK
  <1>3. PICK entry \in LogRow : entry = NewEntry(r)
    BY <1>1, WinnerType
  <1>4. log'[req[r].city] = Append(rows, entry)
    BY <1>2, <1>3, LogGrows
  <1>5. /\ Append(rows, entry) \in Seq(LogRow)
        /\ Len(Append(rows, entry)) = Len(rows) + 1
        /\ \A i \in 1..Len(rows) : Append(rows, entry)[i] = rows[i]
        /\ Append(rows, entry)[Len(rows) + 1] = entry
        /\ Append(rows, entry) # <<>>
    BY AppendProperties
  <1>6. Len(rows) \in Nat /\ DOMAIN rows = 1..Len(rows) /\ (rows = <<>> <=> Len(rows) = 0)
    BY LenProperties, EmptySeq
  <1>7. DOMAIN Append(rows, entry) = 1..Len(rows) + 1
    BY <1>5, <1>6, LenProperties
  <1> QED BY <1>2, <1>3, <1>4, <1>5, <1>6, <1>7

(* A commit writes the balance that is still right when it is written.      *)
LEMMA CommitKeepsWallet ==
  ASSUME IInv, NEW r \in Requests, CommitSupport(r)
  PROVE  /\ BalanceMatchesLedger' /\ KeysMoveCreditsOnce'
         /\ \A v \in Users : v # req[r].user => balance'[v] = balance[v]
         /\ \A k : KeyUsed(k)' <=> KeyUsed(k) \/ k = r
  <1>1. pc[r] = "accountLocked" /\ pc[r] \in InTx /\ TypeOK /\ WalletTypeOK
    BY CommitParts DEF InTx, IInv, TypeOK
  <1>2. PICK u \in Users, delta \in Int, next \in Nat :
           u = req[r].user /\ delta = -req[r].credits /\ next = req[r].next
    BY <1>1, RequestFields
  <1>3. Post(u, delta, next, "support_spend", r)
    BY <1>2, CommitParts
  <1>4. r \in Keys /\ "support_spend" \in Reasons
    BY SpendAssumption DEF Reasons
  <1>5. next = balance[u] + delta
    <2>1. balance[u] \in Nat /\ req[r].credits \in Nat
      BY <1>1, RequestFields DEF WalletTypeOK
    <2>2. req[r].next = balance[req[r].user] - req[r].credits
      BY <1>1 DEF IInv, Reads
    <2> QED BY <1>2, <2>1, <2>2
  <1>6. ~KeyUsed(r)
    BY <1>1 DEF IInv, Reads
  <1>7. BalanceMatchesLedger'
    BY <1>1, <1>3, <1>4, <1>5, PostBalance DEF IInv
  <1>8. KeysMoveCreditsOnce'
    BY <1>1, <1>3, <1>4, <1>6, PostKeys DEF IInv
  <1>9. Posted(u, delta, next, "support_spend", r)
    BY <1>1, <1>3, <1>4, PostRows
  <1>10. \A k : KeyUsed(k)' <=> KeyUsed(k) \/ k = r
    BY <1>1, <1>3, <1>4, PostKeyUsed
  <1> QED BY <1>2, <1>7, <1>8, <1>9, <1>10 DEF Posted

(* One city of LogExplainsLeader.                                            *)
LogExplains(c) ==
    /\ Leader(scores, c) =
           IF log[c] = <<>> THEN NoTribe ELSE log[c][Len(log[c])].new
    /\ \A i \in DOMAIN log[c] :
          /\ log[c][i].prev = IF i = 1 THEN NoTribe ELSE log[c][i-1].new
          /\ log[c][i].new # log[c][i].prev
          /\ i > 1 => log[c][i-1].at < log[c][i].at

(* A commit logs a flip exactly when the leader of its city changes.        *)
LEMMA CommitKeepsLog ==
  ASSUME IInv, NEW r \in Requests, CommitSupport(r)
  PROVE  LogExplainsLeader'
  <1>1. pc[r] \in InTx /\ TypeOK /\ req[r].city \in Cities
    BY CommitParts, RequestFields DEF InTx, IInv
  <1>2. \A c \in Cities : LogExplains(c)
    BY DEF IInv, LogExplainsLeader, LogExplains
  <1>3. ASSUME NEW c \in Cities, c # req[r].city
        PROVE  LogExplains(c)'
    <2>1. log'[c] = log[c] /\ Leader(scores', c) = Leader(scores, c)
      BY <1>1, <1>3, LogGrows, CommitLeaders
    <2> QED BY <1>2, <2>1 DEF LogExplains
  <1>4. ASSUME NEW c \in Cities, c = req[r].city
        PROVE  LogExplains(c)'
    <2>1. /\ Leader(scores', c) = Winner(r) /\ Winner(r) \in Tribes
          /\ req[r].prev = Leader(scores, c)
      BY <1>1, <1>4, CommitLeaders DEF IInv, Reads
    <2>2. CASE ~Flips(r)
      <3>1. Winner(r) = req[r].prev
        BY <2>1, <2>2, SpendAssumption DEF Flips, LeaderChanged
      <3>2. log'[c] = log[c]
        BY <1>1, <1>4, <2>2, LogGrows
      <3> QED BY <1>2, <2>1, <3>1, <3>2 DEF LogExplains
    <2>3. CASE Flips(r)
      <3> DEFINE rows == log[c]
                 more == log'[c]
                 n == Len(log[c])
      <3>1. /\ n \in Nat
            /\ DOMAIN rows = 1..n
            /\ Len(more) = n + 1
            /\ DOMAIN more = 1..n + 1
            /\ \A i \in 1..n : more[i] = rows[i]
            /\ more[n + 1] = NewEntry(r)
            /\ rows = <<>> <=> n = 0
            /\ more # <<>>
        BY <1>1, <1>4, <2>3, CommitLog
      <3>2. /\ more[n + 1].prev = req[r].prev /\ more[n + 1].new = Winner(r)
            /\ more[n + 1].at = req[r].now
            /\ Winner(r) # req[r].prev
        BY <2>3, <3>1 DEF NewEntry, Flips, LeaderChanged
      <3>3. \A i \in 1..n : rows[i].at < req[r].now
        BY <1>1, <1>4, <3>1 DEF IInv, Times
      <3>4. req[r].prev = IF rows = <<>> THEN NoTribe ELSE rows[n].new
        BY <1>2, <2>1 DEF LogExplains
      <3>5. \A i \in 1..n :
              /\ rows[i].prev = IF i = 1 THEN NoTribe ELSE rows[i-1].new
              /\ rows[i].new # rows[i].prev
              /\ i > 1 => rows[i-1].at < rows[i].at
        BY <1>2, <3>1 DEF LogExplains
      <3> HIDE DEF rows, more, n
      <3>6. \A i \in 1..n + 1 :
              /\ more[i].prev = IF i = 1 THEN NoTribe ELSE more[i-1].new
              /\ more[i].new # more[i].prev
              /\ i > 1 => more[i-1].at < more[i].at
        <4> TAKE i \in 1..n + 1
        <4>1. CASE i \in 1..n
          <5>1. i > 1 => i - 1 \in 1..n
            BY <3>1
          <5> QED BY <3>1, <3>5, <4>1, <5>1
        <4>2. CASE i = n + 1
          <5>1. n # 0 => n \in 1..n
            BY <3>1
          <5> QED BY <3>1, <3>2, <3>3, <3>4, <4>2, <5>1
        <4> QED BY <3>1, <4>1, <4>2
      <3>7. /\ Leader(scores', c) = IF more = <<>> THEN NoTribe ELSE more[Len(more)].new
            /\ \A i \in DOMAIN more :
                 /\ more[i].prev = IF i = 1 THEN NoTribe ELSE more[i-1].new
                 /\ more[i].new # more[i].prev
                 /\ i > 1 => more[i-1].at < more[i].at
        BY <2>1, <3>1, <3>2, <3>6
      <3> QED BY <3>7 DEF LogExplains, more
    <2> QED BY <2>2, <2>3
  <1> QED BY <1>3, <1>4 DEF LogExplainsLeader, LogExplains

(* A commit preserves the invariant.                                        *)
LEMMA CommitKeepsInv ==
  ASSUME IInv, TypeOK', NEW r \in Requests, CommitSupport(r)
  PROVE  IInv'
  <1>1. /\ pc[r] = "accountLocked" /\ pc[r] \in InTx /\ TypeOK
        /\ req[r].city \in Cities /\ req[r].user \in Users
    BY CommitParts, RequestFields DEF InTx, IInv
  <1>2. /\ \A s \in Requests : s # r => pc'[s] = pc[s] /\ req'[s] = req[s]
        /\ pc'[r] = "ok" /\ clock' = clock
    <2>1. /\ pc' = [pc EXCEPT ![r] = "ok"] /\ req' = [req EXCEPT ![r] = NoRequest]
          /\ clock' = clock
      BY CommitParts
    <2>2. DOMAIN pc = Requests /\ DOMAIN req = Requests
      BY <1>1 DEF TypeOK
    <2> QED BY <2>1, <2>2
  <1>3. Locks'
    BY <1>2 DEF IInv, Locks, InTx
  <1>4. ASSUME NEW s \in Requests, s # r, pc[s] \in InTx
        PROVE  /\ req[s].city \in Cities /\ req[s].city # req[r].city
               /\ pc[s] = "accountLocked"
                    => req[s].user \in Users /\ req[s].user # req[r].user
    BY <1>1, <1>4, RequestFields DEF IInv, Locks
  <1>5. Reads'
    <2> SUFFICES ASSUME NEW s \in Requests
                 PROVE  (/\ pc[s] \in InTx => req[s].prev = Leader(scores, req[s].city)
                         /\ pc[s] = "accountLocked"
                              => req[s].next = balance[req[s].user] - req[s].credits
                         /\ pc[s] # "ok" => ~KeyUsed(s))'
      BY DEF Reads
    <2>1. CASE s = r
      BY <1>2, <2>1 DEF InTx
    <2>2. CASE s # r
      <3>1. pc[s] \in InTx => req[s].prev = Leader(scores', req[s].city)
        BY <1>4, <2>2, CommitLeaders DEF IInv, Reads
      <3>2. pc[s] = "accountLocked" => req[s].next = balance'[req[s].user] - req[s].credits
        BY <1>4, <2>2, CommitKeepsWallet DEF IInv, Reads, InTx
      <3>3. pc[s] # "ok" => ~KeyUsed(s)'
        BY <2>2, CommitKeepsWallet DEF IInv, Reads
      <3> QED BY <1>2, <2>2, <3>1, <3>2, <3>3
    <2> QED BY <2>1, <2>2
  <1>6. Times'
    <2>1. ASSUME NEW c \in Cities, NEW i \in DOMAIN log'[c]
          PROVE  log'[c][i].at <= clock'
      <3>1. CASE c = req[r].city /\ Flips(r)
        <4>1. /\ \A k \in DOMAIN log[c] : log[c][k].at <= clock
              /\ req[r].now <= clock
          BY <1>1 DEF IInv, Times
        <4>2. NewEntry(r).at = req[r].now
          BY DEF NewEntry
        <4>3. /\ Len(log[c]) \in Nat
              /\ DOMAIN log[c] = 1..Len(log[c])
              /\ DOMAIN log'[c] = 1..Len(log[c]) + 1
              /\ \A k \in 1..Len(log[c]) : log'[c][k] = log[c][k]
              /\ log'[c][Len(log[c]) + 1] = NewEntry(r)
          BY <1>1, <3>1, CommitLog
        <4> QED BY <1>2, <2>1, <4>1, <4>2, <4>3
      <3>2. CASE ~(c = req[r].city /\ Flips(r))
        <4>1. log'[c] = log[c]
          BY <1>1, <3>2, LogGrows
        <4> QED BY <1>2, <2>1, <4>1 DEF IInv, Times
      <3> QED BY <3>1, <3>2
    <2>2. ASSUME NEW s \in Requests, pc'[s] \in InTx
          PROVE  /\ req'[s].now <= clock'
                 /\ \A i \in DOMAIN log'[req'[s].city] :
                       log'[req'[s].city][i].at < req'[s].now
      <3>1. s # r /\ pc[s] \in InTx /\ req'[s] = req[s]
        BY <1>2, <2>2 DEF InTx
      <3>2. log'[req[s].city] = log[req[s].city]
        BY <1>1, <1>4, <3>1, LogGrows
      <3> QED BY <1>2, <3>1, <3>2 DEF IInv, Times
    <2> QED BY <2>1, <2>2 DEF Times
  <1> QED BY <1>3, <1>5, <1>6, CommitKeepsWallet, CommitLeaders, CommitKeepsLog DEF IInv

(* The initial state satisfies the invariant.                               *)
LEMMA InvInit == Init => IInv
  <1> SUFFICES ASSUME Init PROVE IInv
    OBVIOUS
  <1>1. TypeOK /\ BalanceMatchesLedger /\ KeysMoveCreditsOnce
    BY TypeInit, WalletInitInv DEF Init, WalletInv
  <1>2. Locks /\ Times
    BY DEF Init, Locks, Times, InTx
  <1>3. Reads
    BY DEF Init, WalletInit, Reads, KeyUsed, RowsOf, InTx
  <1>4. \A c \in Cities : Contested(scores, c)
    BY DEF Init, Contested
  <1>5. LogExplainsLeader
    BY DEF Init, LogExplainsLeader, Leader, Leads
  <1> QED BY <1>1, <1>2, <1>3, <1>4, <1>5 DEF IInv

(* Every step preserves the invariant.                                      *)
LEMMA InvStep == IInv /\ [Next]_vars => IInv'
  <1> SUFFICES ASSUME IInv, [Next]_vars PROVE IInv'
    OBVIOUS
  <1>0. TypeOK'
    BY TypeStep DEF IInv
  <1>1. ASSUME NEW u \in Movable, NEW t \in Tribes, ChangeTribe(u, t)
        PROVE  IInv'
    BY <1>0, <1>1 DEF ChangeTribe, IInv, Locks, Reads, Times, BalanceMatchesLedger,
       KeysMoveCreditsOnce, LogExplainsLeader, walletVars, tableVars, requestVars,
       KeyUsed, RowsOf
  <1>2. ASSUME NEW u \in Moderated, NEW s \in Statuses, SetStatus(u, s)
        PROVE  IInv'
    BY <1>0, <1>2 DEF SetStatus, IInv, Locks, Reads, Times, BalanceMatchesLedger,
       KeysMoveCreditsOnce, LogExplainsLeader, walletVars, tableVars, requestVars,
       KeyUsed, RowsOf
  <1>3. ASSUME NEW u \in Users, NEW n \in Grants, NEW key \in GrantKeys, Grant(u, n, key)
        PROVE  IInv'
    BY <1>0, <1>3, GrantKeepsInv
  <1>4. ASSUME NEW r \in Requests, NEW a \in Asks, LoadUser(r, a)
        PROVE  IInv'
    <2>1. PICK phase \in {"rejected", "loaded"} : pc' = [pc EXCEPT ![r] = phase]
      BY <1>4 DEF LoadUser, Finish
    <2>2. \E local : req' = [req EXCEPT ![r] = local]
      BY <1>4 DEF LoadUser, Finish
    <2>3. PICK local : req' = [req EXCEPT ![r] = local]
      BY <2>2
    <2>4. pc[r] # "ok" /\ phase \notin InTx \cup {"ok"}
      BY <1>4, <2>1 DEF LoadUser, InTx
    <2>5. UNCHANGED <<walletVars, scores, log, clock>>
      BY <1>4 DEF LoadUser, tableVars
    <2> QED BY <1>0, <2>1, <2>3, <2>4, <2>5, OutsideTx
  <1>5. ASSUME NEW r \in Requests, AnswerInert(r)
        PROVE  IInv'
    BY <1>0, <1>5, OutsideTx DEF AnswerInert, Finish, tableVars, InTx
  <1>6. ASSUME NEW r \in Requests, LockCity(r)
        PROVE  IInv'
    BY <1>0, <1>6, LockCityKeepsInv
  <1>7. ASSUME NEW r \in Requests, LockAccount(r)
        PROVE  IInv'
    BY <1>0, <1>7, LockAccountKeepsInv
  <1>8. ASSUME NEW r \in Requests, CommitSupport(r)
        PROVE  IInv'
    BY <1>0, <1>8, CommitKeepsInv
  <1>9. ASSUME NEW r \in Requests, Abort(r)
        PROVE  IInv'
    BY <1>0, <1>9, OutsideTx DEF Abort, Finish, tableVars, InTx
  <1>10. CASE UNCHANGED vars
    BY <1>0, <1>10 DEF vars, IInv, Locks, Reads, Times, BalanceMatchesLedger,
       KeysMoveCreditsOnce, LogExplainsLeader, walletVars, tableVars, requestVars,
       KeyUsed, RowsOf
  <1> QED
    BY <1>1, <1>2, <1>3, <1>4, <1>5, <1>6, <1>7, <1>8, <1>9, <1>10 DEF Next, Progress

(* The inductive invariant holds in every reachable state.                  *)
THEOREM InvHolds == Spec => []IInv
  BY InvInit, InvStep, PTL DEF Spec

(* The balance of every user is what its ledger says, in every interleaving   *)
(* of grants and spends.                                                     *)
THEOREM BalanceCorrect == Spec => []BalanceMatchesLedger
  <1>1. IInv => BalanceMatchesLedger
    BY DEF IInv
  <1> QED BY <1>1, InvHolds, PTL

(* No idempotency key moves credits twice.                                   *)
THEOREM KeysCorrect == Spec => []KeysMoveCreditsOnce
  <1>1. IInv => KeysMoveCreditsOnce
    BY DEF IInv
  <1> QED BY <1>1, InvHolds, PTL

(* conquest_log is the history of the leader of every city.                  *)
THEOREM LogCorrect == Spec => []LogExplainsLeader
  <1>1. IInv => LogExplainsLeader
    BY DEF IInv
  <1> QED BY <1>1, InvHolds, PTL

(* Whatever requests are under way, one that cannot go on waits for one other,   *)
(* and behind that one for one more at most.                                  *)
THEOREM LocksCorrect == Spec => []LocksNeverDeadlock
  <1>1. ASSUME IInv, NEW r \in Requests, pc[r] \in InTx \cup {"loaded"}, ~MayGoOn(r)
        PROVE  \E o \in Requests :
                   /\ \A p \in Requests : Blocks(p, r) <=> p = o
                   /\ MayGoOn(o) \/ \E p \in Requests : Blocks(p, o) /\ MayGoOn(p)
    <2>1. PICK o \in Requests : Blocks(o, r)
      BY <1>1 DEF MayGoOn, Blocks, CityFree, AccountFree, InTx
    <2>2. pc[o] \in InTx
      BY <2>1 DEF Blocks, InTx
    <2>3. ASSUME NEW p \in Requests, Blocks(p, r) PROVE p = o
      BY <2>1, <2>3, <1>1 DEF Blocks, IInv, Locks, InTx
    <2>4. MayGoOn(o) \/ \E p \in Requests : Blocks(p, o) /\ MayGoOn(p)
      BY <2>2 DEF MayGoOn, Blocks, AccountFree, InTx
    <2> QED BY <2>1, <2>3, <2>4
  <1>2. IInv => LocksNeverDeadlock
    BY <1>1 DEF LocksNeverDeadlock
  <1> QED BY <1>2, InvHolds, PTL

-----------------------------------------------------------------------------
(* SupportSpend implements CityContest                                     *)

(* A multiplier of at least 1 never shrinks an amount.                      *)
LEMMA ProductGrows ==
  ASSUME NEW a \in Nat \ {0}, NEW b \in Nat \ {0}
  PROVE  a <= a * b
  <1>1. PICK k \in Nat : b = k + 1
    <2>1. b - 1 \in Nat /\ b = (b - 1) + 1
      OBVIOUS
    <2> QED BY <2>1
  <1>2. a * b = a * k + a /\ a * k \in Nat
    BY <1>1
  <1> QED BY <1>2

(* The last capture's winner is the leader.                                 *)
LEMMA HolderLeads ==
  ASSUME LogExplainsLeader
  PROVE  Holder = [c \in Cities |-> Leader(scores, c)]
  BY DEF LogExplainsLeader, Holder

(* Leading in the code's sense is holding in the contest's.                 *)
LEMMA LeadsHolds ==
  ASSUME NEW sc \in ScoreTable, NEW c \in Cities, NEW t \in Tribes, Leads(sc, c, t)
  PROVE  Contest!Holds(sc, c, t)
  BY SpendAssumption DEF Leads, ScoreTable, Contest!Holds

(* A grant is Receive or a stutter of the contest.                          *)
LEMMA GrantReceives ==
  ASSUME IInv, NEW u \in Users, NEW n \in Grants, NEW key \in GrantKeys, Grant(u, n, key)
  PROVE  [Contest!ContestNext]_(Contest!contestVars)
  <1>1. UNCHANGED <<scores, log>>
    BY DEF Grant, tableVars
  <1>2. Holder' = Holder
    BY <1>1 DEF Holder
  <1>3. CASE Outcome(u, n, "purchase", key) = "applied"
    <2>1. balance' = [balance EXCEPT ![u] = balance[u] + n]
      BY <1>3 DEF Grant, ApplyOnTx, Post
    <2>2. balance \in [Users -> Nat] /\ n \in Nat \ {0}
      BY SpendAssumption DEF IInv, TypeOK, WalletTypeOK
    <2>3. balance'[u] > balance[u] /\ balance'[u] - balance[u] = n
      <3>1. balance'[u] = balance[u] + n
        BY <2>1, <2>2
      <3>2. balance[u] \in Nat
        BY <2>2
      <3> QED BY <2>2, <3>1, <3>2
    <2>4. Contest!Receive(u, n)
      BY <1>1, <1>2, <2>1 DEF Contest!Receive
    <2> QED BY <2>3, <2>4 DEF Contest!ContestNext
  <1>4. CASE Outcome(u, n, "purchase", key) # "applied"
    BY <1>1, <1>2, <1>4 DEF Grant, ApplyOnTx, walletVars, Contest!contestVars
  <1> QED BY <1>3, <1>4

(* A commit is Support of the contest.                                      *)
LEMMA CommitSupports ==
  ASSUME IInv, IInv', NEW r \in Requests, CommitSupport(r)
  PROVE  Contest!ContestNext
  <1>1. /\ pc[r] = "accountLocked" /\ pc[r] \in InTx /\ TypeOK
        /\ balance \in [Users -> Nat]
    BY CommitParts DEF InTx, IInv, TypeOK, WalletTypeOK
  <1>2. PICK u \in Users, t \in Tribes, c \in Cities, n \in Nat \ {0}, m \in Nat \ {0} :
           /\ u = req[r].user /\ t = req[r].tribe /\ c = req[r].city
           /\ n = req[r].credits /\ m = n * req[r].mult /\ n <= m
    <2>1. PICK n \in Nat \ {0}, k \in Nat \ {0} : n = req[r].credits /\ k = req[r].mult
      BY <1>1, RequestFields
    <2>2. n * k \in Nat \ {0} /\ n <= n * k
      BY ProductPositive, ProductGrows
    <2> QED BY <1>1, <2>1, <2>2, RequestFields
  <1>3. /\ req[r].next = balance[u] - n /\ req[r].next \in Nat
    BY <1>1, <1>2, RequestFields DEF IInv, Reads
  <1>4. balance' = [balance EXCEPT ![u] = balance[u] - n]
    BY <1>2, <1>3, CommitParts DEF Post
  <1>5. balance[u] \in Nat /\ balance'[u] = balance[u] - n /\ n <= balance[u]
    BY <1>1, <1>3, <1>4
  <1>6. /\ balance'[u] < balance[u] /\ balance[u] - balance'[u] = n
    BY <1>5
  <1>7. scores' = Raised(scores, t, c, m) /\ scores \in ScoreTable /\ scores' \in ScoreTable
    BY <1>1, <1>2, CommitParts, ScoredIsRaised
  <1>8. scores'[t][c] - scores[t][c] = m
    <2>1. Raised(scores, t, c, m)[t][c] = scores[t][c] + m
      BY <1>7, RaisedValues
    <2>2. scores[t][c] \in Nat
      BY <1>7 DEF ScoreTable
    <2> QED BY <1>7, <2>1, <2>2
  <1>9. scores' = [scores EXCEPT ![t][c] = @ + m]
    BY <1>7 DEF Raised
  <1>10. PICK h \in Tribes : h = Leader(scores', c)
    BY <1>2, CommitLeaders
  <1>11. Contest!Holds(scores', c, h)
    <2>1. h # NoTribe
      BY SpendAssumption
    <2>2. PICK sc \in ScoreTable : sc = scores'
      BY <1>7
    <2>3. Leads(sc, c, h)
      BY <1>10, <2>1, <2>2, LeaderType
    <2> QED BY <2>2, <2>3, LeadsHolds
  <1>12. Holder' = [Holder EXCEPT ![c] = h]
    <2>1. Holder = [d \in Cities |-> Leader(scores, d)]
      BY HolderLeads DEF IInv
    <2>2. Holder' = [d \in Cities |-> Leader(scores', d)]
      BY HolderLeads DEF IInv, LogExplainsLeader, Holder
    <2>3. \A d \in Cities : d # c => Leader(scores', d) = Leader(scores, d)
      BY <1>2, CommitLeaders
    <2> QED BY <1>10, <2>1, <2>2, <2>3
  <1>13. Contest!Support(u, t, c, n, m)
    BY <1>2, <1>4, <1>5, <1>9, <1>11, <1>12 DEF Contest!Support
  <1> QED BY <1>6, <1>8, <1>13 DEF Contest!ContestNext

(* Every step is a step or a stutter of the contest.                        *)
LEMMA ContestStep == IInv /\ IInv' /\ [Next]_vars => [Contest!ContestNext]_(Contest!contestVars)
  <1> SUFFICES ASSUME IInv, IInv', [Next]_vars
               PROVE  [Contest!ContestNext]_(Contest!contestVars)
    OBVIOUS
  <1>1. CASE UNCHANGED <<balance, scores, log>>
    BY <1>1 DEF Holder, Contest!contestVars
  <1>2. ASSUME NEW u \in Users, NEW n \in Grants, NEW key \in GrantKeys, Grant(u, n, key)
        PROVE  [Contest!ContestNext]_(Contest!contestVars)
    BY <1>2, GrantReceives
  <1>3. ASSUME NEW r \in Requests, CommitSupport(r)
        PROVE  [Contest!ContestNext]_(Contest!contestVars)
    BY <1>3, CommitSupports
  <1>4. \/ UNCHANGED <<balance, scores, log>>
        \/ \E u \in Users, n \in Grants, key \in GrantKeys : Grant(u, n, key)
        \/ \E r \in Requests : CommitSupport(r)
    BY DEF Next, Progress, vars, walletVars, tableVars, ChangeTribe, SetStatus, LoadUser,
           AnswerInert, LockCity, LockAccount, Abort
  <1> QED BY <1>1, <1>2, <1>3, <1>4

(* A committed support debits, scores and moves the city in one instant: the  *)
(* locking implementation has only the behaviours of the lock-free contest.  *)
THEOREM SpendImplementsContest == Spec => ImplementsContest
  <1>1. Init => Contest!ContestInit
    BY DEF Init, WalletInit, Contest!ContestInit, Holder
  <1>2. IInv /\ IInv' /\ [Next]_vars => [Contest!ContestNext]_(Contest!contestVars)
    BY ContestStep
  <1> QED BY <1>1, <1>2, InvHolds, PTL DEF Spec, ImplementsContest, Contest!ContestSpec

-----------------------------------------------------------------------------
(* The rows a support leaves behind                                        *)

(* A supports row was paid for by the ledger row with its key.               *)
Paid(s) == SameMovement(supports[s].user, -supports[s].credits, "support_spend", s)

(* Supports are in the past, and before any open transaction on their city.  *)
SupportTimes ==
    \A s \in DOMAIN supports :
        /\ supports[s].at <= clock
        /\ \A r \in Requests :
              pc[r] \in InTx /\ req[r].city = supports[s].city
                  => supports[s].at < req[r].now

(* One row of SupportsCountForFirstCapture, with its parts named.            *)
HeldAt(row, rows) ==
    \E i \in DOMAIN rows :
        /\ rows[i].new = row.tribe
        /\ rows[i].at < row.at
        /\ i = Len(rows) \/ rows[i+1].at >= row.at
CapturesAfter(row, rows) ==
    {i \in DOMAIN rows : rows[i].new = row.tribe /\ rows[i].at >= row.at}
Counts(row, rows) ==
    IF HeldAt(row, rows) \/ CapturesAfter(row, rows) = {} THEN row.capture = 0
    ELSE /\ row.capture \in CapturesAfter(row, rows)
         /\ \A i \in CapturesAfter(row, rows) : row.capture <= i

(* The inductive invariant of the tables, on top of IInv.                    *)
RowsInv ==
    /\ DOMAIN supports = {r \in Requests : pc[r] = "ok"}
    /\ \A s \in DOMAIN supports : Paid(s)
    /\ SupportTimes
    /\ StreakIsEarned
    /\ CapturesHaveTheirCause
    /\ SupportsCountForFirstCapture

(* The initial tables are empty.                                            *)
LEMMA RowsInit == Init => RowsInv
  <1> SUFFICES ASSUME Init PROVE RowsInv
    OBVIOUS
  <1>1. /\ DOMAIN supports = {} /\ \A r \in Requests : pc[r] = "new"
        /\ \A c \in Cities : DOMAIN log[c] = {}
        /\ \A u \in Users : streak[u] = [current |-> 0, longest |-> 0, last |-> 0]
    BY DEF Init
  <1>2. \A u \in Users : streak[u].current = 0 /\ streak[u].longest = 0 /\ streak[u].last = 0
    BY DEF Init
  <1>3. StreakIsEarned
    <2>1. ASSUME NEW u \in Users,
                 NEW d \in streak[u].last - streak[u].current + 1 .. streak[u].last
          PROVE  FALSE
      <3>1. streak[u].last = 0 /\ streak[u].current = 0
        BY <1>2
      <3>2. d \in 0 - 0 + 1 .. 0
        BY <2>1, <3>1
      <3> QED BY <3>2
    <2>2. ASSUME NEW u \in Users
          PROVE  streak[u].current <= streak[u].longest
      <3>1. streak[u].longest = 0 /\ streak[u].current = 0
        BY <1>2
      <3> QED BY <3>1
    <2> QED BY <2>1, <2>2 DEF StreakIsEarned
  <1> QED BY <1>1, <1>3 DEF RowsInv, SupportTimes, CapturesHaveTheirCause,
             SupportsCountForFirstCapture

(* Rows and their fields.                                                    *)
LEMMA SupportFields ==
  ASSUME TypeOK, NEW s \in DOMAIN supports
  PROVE  /\ supports[s] \in SupportRow
         /\ supports[s].user \in Users /\ supports[s].city \in Cities
         /\ supports[s].tribe \in Tribes /\ supports[s].credits \in Nat \ {0}
         /\ supports[s].at \in Nat /\ supports[s].capture \in Nat
  <1>1. supports[s] \in SupportRow
    BY DEF TypeOK
  <1> QED BY <1>1 DEF SupportRow

LEMMA LogFields ==
  ASSUME TypeOK, NEW c \in Cities
  PROVE  /\ Len(log[c]) \in Nat /\ DOMAIN log[c] = 1..Len(log[c])
         /\ log[c] = <<>> <=> Len(log[c]) = 0
         /\ \A i \in DOMAIN log[c] :
               /\ log[c][i].new \in Tribes /\ log[c][i].at \in Nat
               /\ log[c][i].prev \in Tribes \cup {NoTribe}
  <1>1. log[c] \in Seq(LogRow)
    BY DEF TypeOK
  <1>2. Len(log[c]) \in Nat /\ DOMAIN log[c] = 1..Len(log[c])
    BY <1>1, LenProperties
  <1>3. \A i \in DOMAIN log[c] : log[c][i] \in LogRow
    BY <1>1, <1>2, ElementOfSeq
  <1>4. log[c] = <<>> <=> Len(log[c]) = 0
    BY <1>1, EmptySeq
  <1> QED BY <1>2, <1>3, <1>4 DEF LogRow

(* A support stays paid for.                                                *)
LEMMA PaidStays ==
  ASSUME NEW s, Paid(s), supports[s].user \in Users,
         supports'[s].user = supports[s].user, supports'[s].credits = supports[s].credits,
         \A v \in Users : RowsOf(v) \subseteq RowsOf(v)'
  PROVE  Paid(s)'
  <1>1. PICK u \in Users : u = supports[s].user
    OBVIOUS
  <1>a. PICK delta : delta = -supports[s].credits
    OBVIOUS
  <1>2. PICK row \in RowsOf(u) :
           row.key = s /\ row.delta = delta /\ row.reason = "support_spend"
    BY <1>1, <1>a DEF Paid, SameMovement
  <1>3. row \in RowsOf(u)'
    BY <1>2
  <1>4. SameMovement(u, delta, "support_spend", s)'
    BY <1>2, <1>3 DEF SameMovement
  <1>5. u = supports'[s].user /\ delta = -supports'[s].credits
    BY <1>1, <1>a
  <1> QED BY <1>4, <1>5 DEF Paid, SameMovement, RowsOf

(* Captures are a matter of the rows and the log.                             *)
LEMMA CapturesStay ==
  ASSUME UNCHANGED <<supports, log>>, SupportsCountForFirstCapture
  PROVE  SupportsCountForFirstCapture'
  BY DEF SupportsCountForFirstCapture

(* A step that commits no support leaves the rows alone; a transaction that   *)
(* opens is later than all of them.                                          *)
LEMMA QuietRows ==
  ASSUME IInv, RowsInv, UNCHANGED <<supports, log, streak>>, clock <= clock',
         clock' \in Nat,
         \A v \in Users : RowsOf(v) \subseteq RowsOf(v)',
         \A r \in Requests : pc'[r] = "ok" <=> pc[r] = "ok",
         \A r \in Requests : pc'[r] \in InTx =>
            \/ pc[r] \in InTx /\ req'[r].city = req[r].city /\ req'[r].now = req[r].now
            \/ req'[r].now = clock' /\ clock < clock'
  PROVE  RowsInv'
  <1>1. (DOMAIN supports = {r \in Requests : pc[r] = "ok"})'
    BY DEF RowsInv
  <1>2. ASSUME NEW s \in DOMAIN supports
        PROVE  Paid(s)'
    BY PaidStays, SupportFields DEF RowsInv, IInv
  <1>3. SupportTimes'
    <2> SUFFICES ASSUME NEW s \in DOMAIN supports
                 PROVE  /\ supports[s].at <= clock'
                        /\ \A r \in Requests :
                              pc'[r] \in InTx /\ req'[r].city = supports[s].city
                                => supports[s].at < req'[r].now
      BY DEF SupportTimes
    <2>1. supports[s].at <= clock /\ supports[s].at \in Nat /\ clock \in Nat
      BY SupportFields DEF RowsInv, SupportTimes, IInv, TypeOK
    <2> QED BY <2>1 DEF RowsInv, SupportTimes
  <1>4. StreakIsEarned'
    BY DEF RowsInv, StreakIsEarned
  <1>5. CapturesHaveTheirCause'
    BY DEF RowsInv, CapturesHaveTheirCause
  <1>6. SupportsCountForFirstCapture'
    BY CapturesStay DEF RowsInv
  <1> QED BY <1>1, <1>2, <1>3, <1>4, <1>5, <1>6 DEF RowsInv

(* Raising a score makes nobody but its own tribe the leader.                *)
LEMMA RaiseWinner ==
  ASSUME NEW sc \in ScoreTable, NEW t \in Tribes, NEW c \in Cities, NEW n \in Nat \ {0},
         NEW o \in Tribes \ {t}, Leads(Raised(sc, t, c, n), c, o)
  PROVE  Leader(sc, c) = o
  <1> DEFINE up == Raised(sc, t, c, n)
  <1>1. /\ up[t][c] = sc[t][c] + n
        /\ \A p \in Tribes : p # t => up[p][c] = sc[p][c]
        /\ \A p \in Tribes : sc[p][c] \in Nat
        /\ Leads(up, c, o)
    BY RaisedValues DEF ScoreTable
  <1> HIDE DEF up
  <1>2. Leads(sc, c, o)
    BY <1>1, SpendAssumption DEF Leads
  <1> QED BY <1>2, LeaderIs

(* A city is taken by the tribe of the support that takes it.                *)
LEMMA FlipIsOwn ==
  ASSUME IInv, NEW r \in Requests, CommitSupport(r), Flips(r)
  PROVE  Winner(r) = req[r].tribe
  <1>1. pc[r] \in InTx /\ TypeOK /\ scores' = Scored(req[r])
    BY CommitParts DEF InTx, IInv
  <1>2. PICK t \in Tribes, c \in Cities, n \in Nat \ {0} :
           t = req[r].tribe /\ c = req[r].city /\ n = req[r].credits * req[r].mult
    BY <1>1, RequestFields, ScoredIsRaised
  <1>3. /\ Scored(req[r]) = Raised(scores, t, c, n) /\ scores \in ScoreTable
        /\ Raised(scores, t, c, n) \in ScoreTable
    BY <1>1, <1>2, ScoredIsRaised, RaisedValues
  <1>4. PICK o \in Tribes : o = Winner(r)
    BY CommitLeaders
  <1>5. o = Leader(Raised(scores, t, c, n), c) /\ o # NoTribe
    BY <1>2, <1>3, <1>4, SpendAssumption DEF Winner
  <1>6. Leads(Raised(scores, t, c, n), c, o)
    BY <1>3, <1>5, LeaderType
  <1>7. req[r].prev = Leader(scores, c) /\ o # req[r].prev
    BY <1>1, <1>2, <1>4 DEF IInv, Reads, Flips, LeaderChanged
  <1>8. o = t
    BY <1>3, <1>6, <1>7, RaiseWinner
  <1> QED BY <1>2, <1>4, <1>8

(* The supports rows after a commit: the new one, and the old ones with the   *)
(* capture tag as their only possible change.                                *)
LEMMA CommitRows ==
  ASSUME IInv, RowsInv, NEW r \in Requests, CommitSupport(r)
  PROVE  /\ r \notin DOMAIN supports
         /\ DOMAIN supports' = DOMAIN supports \cup {r}
         /\ supports'[r] = Tag(r, NewSupport(r))
         /\ \A s \in DOMAIN supports : supports'[s] = Tag(r, supports[s])
         /\ \A s \in DOMAIN supports :
               /\ supports'[s].user = supports[s].user
               /\ supports'[s].city = supports[s].city
               /\ supports'[s].tribe = supports[s].tribe
               /\ supports'[s].credits = supports[s].credits
               /\ supports'[s].effective = supports[s].effective
               /\ supports'[s].at = supports[s].at
         /\ /\ supports'[r].user = req[r].user
            /\ supports'[r].city = req[r].city
            /\ supports'[r].tribe = req[r].tribe
            /\ supports'[r].credits = req[r].credits
            /\ supports'[r].effective = req[r].credits * req[r].mult
            /\ supports'[r].at = req[r].now
  <1>1. r \notin DOMAIN supports
    BY CommitParts DEF RowsInv
  <1>2. supports' = [s \in DOMAIN supports \cup {r} |->
                        Tag(r, IF s = r THEN NewSupport(r) ELSE supports[s])]
    BY CommitParts
  <1>3. /\ supports'[r] = Tag(r, NewSupport(r))
        /\ \A s \in DOMAIN supports : supports'[s] = Tag(r, supports[s])
    BY <1>1, <1>2
  <1>4. \A s \in DOMAIN supports :
               /\ Tag(r, supports[s]).user = supports[s].user
               /\ Tag(r, supports[s]).city = supports[s].city
               /\ Tag(r, supports[s]).tribe = supports[s].tribe
               /\ Tag(r, supports[s]).credits = supports[s].credits
               /\ Tag(r, supports[s]).effective = supports[s].effective
               /\ Tag(r, supports[s]).at = supports[s].at
    BY SupportFields DEF Tag, SupportRow, IInv
  <1>5. /\ Tag(r, NewSupport(r)).user = req[r].user
        /\ Tag(r, NewSupport(r)).city = req[r].city
        /\ Tag(r, NewSupport(r)).tribe = req[r].tribe
        /\ Tag(r, NewSupport(r)).credits = req[r].credits
        /\ Tag(r, NewSupport(r)).effective = req[r].credits * req[r].mult
        /\ Tag(r, NewSupport(r)).at = req[r].now
    BY DEF Tag, NewSupport
  <1>6. DOMAIN supports' = DOMAIN supports \cup {r}
    BY <1>2
  <1> QED BY <1>1, <1>3, <1>4, <1>5, <1>6

(* A support on the day of the streak keeps it, one on the next day extends   *)
(* it by that day, any other starts a streak of one day.                     *)
LEMMA CommitStreak ==
  ASSUME IInv, RowsInv, NEW r \in Requests, CommitSupport(r)
  PROVE  StreakIsEarned'
  <1>1. pc[r] \in InTx /\ TypeOK
    BY CommitParts DEF InTx, IInv
  <1>2. PICK today \in Nat : today = Day(req[r].now)
    BY <1>1, RequestFields, DayIsNat
  <1>3. /\ streak \in [Users -> StreakRow] /\ req[r].user \in Users
        /\ streak' = [streak EXCEPT ![req[r].user] = NextStreak(streak[req[r].user], today)]
    BY <1>1, <1>2, RequestFields, CommitParts DEF TypeOK
  <1>4. /\ \A s \in DOMAIN supports : /\ s \in DOMAIN supports'
                                      /\ supports'[s].user = supports[s].user
                                      /\ supports'[s].at = supports[s].at
        /\ r \in DOMAIN supports' /\ supports'[r].user = req[r].user
        /\ Day(supports'[r].at) = today
    BY <1>2, CommitRows
  <1>5. ASSUME NEW u \in Users
        PROVE  /\ streak[u].current \in Nat /\ streak[u].last \in Nat
               /\ streak[u].longest \in Nat /\ streak[u].current <= streak[u].longest
               /\ \A d \in streak[u].last - streak[u].current + 1 .. streak[u].last :
                    \E s \in DOMAIN supports' :
                        supports'[s].user = u /\ Day(supports'[s].at) = d
    <2>1. streak[u] \in StreakRow
      BY <1>3
    <2>2. \A d \in streak[u].last - streak[u].current + 1 .. streak[u].last :
             \E s \in DOMAIN supports : supports[s].user = u /\ Day(supports[s].at) = d
      BY DEF RowsInv, StreakIsEarned
    <2>3. streak[u].current <= streak[u].longest
      BY DEF RowsInv, StreakIsEarned
    <2> QED BY <1>4, <2>1, <2>2, <2>3 DEF StreakRow
  <1>6. ASSUME NEW u \in Users
        PROVE  /\ streak'[u].current <= streak'[u].longest
               /\ \A d \in streak'[u].last - streak'[u].current + 1 .. streak'[u].last :
                    \E s \in DOMAIN supports' :
                        supports'[s].user = u /\ Day(supports'[s].at) = d
    <2>1. CASE u # req[r].user
      <3>1. streak'[u] = streak[u]
        BY <1>3, <2>1
      <3> QED BY <1>5, <3>1
    <2>2. CASE u = req[r].user
      <3> DEFINE row == streak[u]
      <3>1. streak'[u] = NextStreak(row, today)
        BY <1>3, <2>2
      <3>2. /\ streak'[u].last = today
            /\ streak'[u].current = IF row.last = today THEN row.current
                   ELSE IF row.last # 0 /\ row.last = today - 1
                        THEN row.current + 1 ELSE 1
            /\ streak'[u].longest = IF streak'[u].current > row.longest
                                   THEN streak'[u].current ELSE row.longest
        BY <3>1 DEF NextStreak
      <3>3. /\ row.current \in Nat /\ row.last \in Nat /\ row.longest \in Nat
            /\ row.current <= row.longest
            /\ \A d \in row.last - row.current + 1 .. row.last :
                    \E s \in DOMAIN supports' :
                        supports'[s].user = u /\ Day(supports'[s].at) = d
        BY <1>5
      <3> HIDE DEF row
      <3>4. streak'[u].current <= streak'[u].longest
        BY <3>2, <3>3
      <3>5. ASSUME NEW d \in streak'[u].last - streak'[u].current + 1 .. streak'[u].last
            PROVE  \/ d = today
                   \/ d \in row.last - row.current + 1 .. row.last
        BY <1>2, <3>2, <3>3
      <3>6. \E s \in DOMAIN supports' : supports'[s].user = u /\ Day(supports'[s].at) = today
        BY <1>4, <2>2
      <3> QED BY <3>3, <3>4, <3>5, <3>6
    <2> QED BY <2>1, <2>2
  <1> QED BY <1>6 DEF StreakIsEarned, Day

(* The support that takes a city is attributed to that capture.              *)
LEMMA CommitCause ==
  ASSUME IInv, RowsInv, NEW r \in Requests, CommitSupport(r)
  PROVE  CapturesHaveTheirCause'
  <1>1. pc[r] \in InTx /\ TypeOK /\ req[r].city \in Cities
    BY CommitParts, RequestFields DEF InTx, IInv
  <1>2. ASSUME NEW c \in Cities, NEW i \in DOMAIN log[c]
        PROVE  LET s == log[c][i].causing
               IN /\ s \in DOMAIN supports'
                  /\ supports'[s].city = c
                  /\ supports'[s].capture = i
                  /\ supports'[s].at = log[c][i].at
    <2> DEFINE s == log[c][i].causing
    <2>1. /\ s \in DOMAIN supports /\ supports[s].city = c
          /\ supports[s].capture = i /\ supports[s].at = log[c][i].at
      BY DEF RowsInv, CapturesHaveTheirCause
    <2>2. i # 0
      BY <1>1, LogFields
    <2> HIDE DEF s
    <2>3. supports'[s] = supports[s]
      BY <2>1, <2>2, CommitRows DEF Tag, InCampaign
    <2>4. s \in DOMAIN supports'
      BY <2>1, CommitRows
    <2> QED BY <2>1, <2>3, <2>4 DEF s
  <1>3. ASSUME NEW c \in Cities, NEW i \in DOMAIN log'[c]
        PROVE  LET s == log'[c][i].causing
               IN /\ s \in DOMAIN supports'
                  /\ supports'[s].city = c
                  /\ supports'[s].capture = i
                  /\ supports'[s].at = log'[c][i].at
    <2>1. CASE c = req[r].city /\ Flips(r)
      <3>1. /\ DOMAIN log[c] = 1..Len(log[c]) /\ Len(log[c]) \in Nat
            /\ DOMAIN log'[c] = 1..Len(log[c]) + 1
            /\ \A k \in 1..Len(log[c]) : log'[c][k] = log[c][k]
            /\ log'[c][Len(log[c]) + 1] = NewEntry(r)
        BY <1>1, <2>1, CommitLog
      <3>2. CASE i \in 1..Len(log[c])
        BY <1>2, <3>1, <3>2
      <3>3. CASE i = Len(log[c]) + 1
        <4>1. /\ log'[c][i].causing = r /\ log'[c][i].at = req[r].now
          BY <3>1, <3>3 DEF NewEntry
        <4>2. InCampaign(NewSupport(r), c, Winner(r), req[r].now)
          <5>1. \A k \in DOMAIN log[c] : req[r].now > log[c][k].at
            BY <1>1, <2>1, LogFields, RequestFields DEF IInv, Times
          <5>2. req[r].now <= req[r].now
            BY <1>1, RequestFields
          <5>3. Winner(r) = req[r].tribe
            BY <2>1, FlipIsOwn
          <5> QED BY <2>1, <5>1, <5>2, <5>3 DEF InCampaign, NewSupport
        <4>3. supports'[r] = [NewSupport(r) EXCEPT !.capture = Len(log[c]) + 1]
          BY <2>1, <4>2, CommitRows DEF Tag
        <4>4. supports'[r].capture = i
          BY <3>3, <4>3 DEF NewSupport
        <4> QED BY <2>1, <4>1, <4>4, CommitRows
      <3> QED BY <3>1, <3>2, <3>3
    <2>2. CASE ~(c = req[r].city /\ Flips(r))
      <3>1. log'[c] = log[c]
        BY <1>1, <2>2, LogGrows
      <3> QED BY <1>2, <3>1
    <2> QED BY <2>1, <2>2
  <1> QED BY <1>3 DEF CapturesHaveTheirCause

(* A support counts for the first capture of its tribe after it, and for none *)
(* when its tribe held the city: case by case over what the commit does to    *)
(* the log of the city.                                                      *)
LEMMA CommitCounts ==
  ASSUME IInv, RowsInv, NEW r \in Requests, CommitSupport(r)
  PROVE  SupportsCountForFirstCapture'
  <1>1. pc[r] \in InTx /\ TypeOK /\ req[r].city \in Cities /\ req[r].now \in Nat
    BY CommitParts, RequestFields DEF InTx, IInv
  <1>2. ASSUME NEW s \in DOMAIN supports
        PROVE  Counts(supports[s], log[supports[s].city])
    BY DEF RowsInv, SupportsCountForFirstCapture, Counts, HeldAt, CapturesAfter
  <1>3. ASSUME NEW s \in DOMAIN supports', ~(supports'[s].city = req[r].city /\ Flips(r))
        PROVE  Counts(supports'[s], log'[supports'[s].city])
    <2>1. CASE s \in DOMAIN supports
      <3>1. supports[s].city \in Cities /\ supports'[s].city = supports[s].city
        BY <1>1, <2>1, SupportFields, CommitRows
      <3>2. supports'[s] = supports[s]
        BY <1>3, <2>1, <3>1, CommitRows DEF Tag, InCampaign
      <3>3. log'[supports[s].city] = log[supports[s].city]
        BY <1>1, <1>3, <3>1, LogGrows
      <3> QED BY <1>2, <2>1, <3>2, <3>3
    <2>2. CASE s = r
      <3>1. ~Flips(r) /\ supports'[r].city = req[r].city
        BY <1>3, <2>2, CommitRows
      <3>2. supports'[r].capture = 0 /\ supports'[r].at = req[r].now
        <4>1. supports'[r] = NewSupport(r)
          BY <3>1, CommitRows DEF Tag
        <4> QED BY <4>1 DEF NewSupport
      <3>3. log'[req[r].city] = log[req[r].city]
        BY <1>1, <3>1, LogGrows
      <3>4. \A i \in DOMAIN log[req[r].city] : log[req[r].city][i].at < req[r].now
        BY <1>1 DEF IInv, Times
      <3>5. \A i \in DOMAIN log[req[r].city] : ~(log[req[r].city][i].at >= req[r].now)
        BY <1>1, <3>4, LogFields
      <3>6. CapturesAfter(supports'[r], log[req[r].city]) = {}
        BY <3>2, <3>5 DEF CapturesAfter
      <3> QED BY <2>2, <3>1, <3>2, <3>3, <3>6 DEF Counts
    <2> QED BY <2>1, <2>2, CommitRows
  <1>4. ASSUME Flips(r)
        PROVE  \A s \in DOMAIN supports' : supports'[s].city = req[r].city
                  => Counts(supports'[s], log'[supports'[s].city])
    <2> DEFINE rows == log[req[r].city]
               more == log'[req[r].city]
               n == Len(log[req[r].city])
               w == Winner(r)
    <2>1. /\ n \in Nat /\ DOMAIN rows = 1..n
          /\ DOMAIN more = 1..n + 1 /\ Len(more) = n + 1 /\ Len(rows) = n
          /\ \A i \in 1..n : more[i] = rows[i]
          /\ more[n + 1] = NewEntry(r)
      BY <1>1, <1>4, CommitLog
    <2>2. more[n + 1].new = w /\ more[n + 1].at = req[r].now
      BY <2>1 DEF NewEntry
    <2>3. /\ \A i \in 1..n : rows[i].at < req[r].now
          /\ \A i \in 1..n : rows[i].at \in Nat
          /\ \A i \in 1..n : rows[i].prev = IF i = 1 THEN NoTribe ELSE rows[i-1].new
      <3>1. \A i \in DOMAIN rows : rows[i].at < req[r].now
        BY <1>1 DEF IInv, Times
      <3>2. \A i \in DOMAIN rows :
               rows[i].prev = IF i = 1 THEN NoTribe ELSE rows[i-1].new
        BY <1>1 DEF IInv, LogExplainsLeader
      <3>3. \A i \in DOMAIN rows : rows[i].at \in Nat
        BY <1>1, LogFields
      <3> QED BY <2>1, <3>1, <3>2, <3>3
    <2>4. n # 0 => rows[n].new # w
      <3>1. req[r].prev = Leader(scores, req[r].city)
        BY <1>1 DEF IInv, Reads
      <3>2. n # 0 => Leader(scores, req[r].city) = rows[n].new
        BY <1>1, LogFields DEF IInv, LogExplainsLeader
      <3> QED BY <1>4, <3>1, <3>2 DEF Flips, LeaderChanged
    <2>5. w = req[r].tribe /\ w \in Tribes /\ w # NoTribe
      BY <1>4, FlipIsOwn, CommitLeaders, SpendAssumption
    <2>6. /\ n + 1 = Len(log[req[r].city]) + 1
          /\ \A s : InCampaign(s, req[r].city, Winner(r), req[r].now) <=>
                   /\ s.city = req[r].city /\ s.tribe = w /\ s.capture = 0
                   /\ s.at <= req[r].now
                   /\ \A i \in 1..n : rows[i].prev = w => s.at > rows[i].at
      BY <2>1 DEF InCampaign
    <2>7. PICK now \in Nat : now = req[r].now
      BY <1>1
    <2>8. \A s : Tag(r, s) = IF /\ s.city = req[r].city /\ s.tribe = w /\ s.capture = 0
                                /\ s.at <= now
                                /\ \A i \in 1..n : rows[i].prev = w => s.at > rows[i].at
                             THEN [s EXCEPT !.capture = n + 1] ELSE s
      BY <1>4, <2>6, <2>7 DEF Tag
    <2> HIDE DEF rows, more, n, w
    <2>9. Counts(supports'[r], more)
      <3>1. /\ supports'[r].tribe = w /\ supports'[r].at = now
            /\ supports'[r].capture = n + 1
        <4>1. supports'[r].tribe = w /\ supports'[r].at = now
          BY <2>5, <2>7, CommitRows
        <4>2. \A i \in 1..n : now > rows[i].at
          BY <2>3, <2>7
        <4>3. /\ NewSupport(r).city = req[r].city /\ NewSupport(r).tribe = w
              /\ NewSupport(r).capture = 0 /\ NewSupport(r).at = now /\ now <= now
          BY <2>5, <2>7 DEF NewSupport
        <4>4. supports'[r] = Tag(r, NewSupport(r))
          BY CommitRows
        <4>5. supports'[r] = [NewSupport(r) EXCEPT !.capture = n + 1]
          BY <2>8, <4>2, <4>3, <4>4
        <4> QED BY <4>1, <4>5 DEF NewSupport
      <3>2. CapturesAfter(supports'[r], more) = {n + 1}
        BY <2>1, <2>2, <2>3, <2>7, <3>1 DEF CapturesAfter
      <3>3. ~HeldAt(supports'[r], more)
        <4> SUFFICES ASSUME NEW i \in 1..n + 1, more[i].new = w, more[i].at < now,
                            i = n + 1 \/ more[i+1].at >= now
                     PROVE  FALSE
          BY <2>1, <3>1 DEF HeldAt
        <4>1. CASE i = n + 1
          BY <2>2, <2>7, <4>1
        <4>2. CASE i = n /\ i \in 1..n
          BY <2>1, <2>4, <4>2
        <4>3. CASE i \in 1..n /\ i # n
          <5>1. i + 1 \in 1..n
            BY <2>1, <4>3
          <5> QED BY <2>1, <2>3, <2>7, <4>3, <5>1
        <4> QED BY <2>1, <4>1, <4>2, <4>3
      <3> QED BY <2>1, <3>1, <3>2, <3>3 DEF Counts
    <2>10. ASSUME NEW s \in DOMAIN supports, supports[s].city = req[r].city
           PROVE  Counts(supports'[s], more)
      <3> DEFINE old == supports[s]
                 new == supports'[s]
      <3>1. /\ old \in SupportRow /\ old.at \in Nat /\ old.at < now /\ old.at <= now
            /\ old.city = req[r].city
            /\ Counts(old, rows)
        BY <1>1, <1>2, <2>7, <2>10, SupportFields DEF RowsInv, SupportTimes, rows
      <3>2. /\ new.tribe = old.tribe /\ new.at = old.at /\ new = Tag(r, old)
        BY CommitRows
      <3> HIDE DEF old, new
      <3>3. HeldAt(new, more) <=> HeldAt(old, rows)
        <4>1. ASSUME NEW i \in 1..n
              PROVE  (i = n + 1 \/ more[i+1].at >= old.at) <=> (i = n \/ rows[i+1].at >= old.at)
          <5>1. CASE i = n
            BY <2>1, <2>2, <2>7, <3>1, <5>1
          <5>2. CASE i # n
            <6>1. i + 1 \in 1..n /\ i # n + 1
              BY <2>1, <5>2
            <6> QED BY <2>1, <5>2, <6>1
          <5> QED BY <5>1, <5>2
        <4>2. ~(more[n + 1].at < old.at)
          BY <2>2, <2>7, <3>1
        <4>3. HeldAt(new, more) <=>
                 \E i \in 1..n : more[i].new = old.tribe /\ more[i].at < old.at
                               /\ (i = n + 1 \/ more[i+1].at >= old.at)
          <5>1. \A i \in 1..n + 1 : i \in 1..n \/ i = n + 1
            BY <2>1
          <5>2. \A i \in 1..n : i \in 1..n + 1
            BY <2>1
          <5> QED BY <2>1, <3>2, <4>2, <5>1, <5>2 DEF HeldAt
        <4> QED BY <2>1, <4>1, <4>3 DEF HeldAt
      <3>4. CapturesAfter(new, more) =
               CapturesAfter(old, rows) \cup (IF old.tribe = w THEN {n + 1} ELSE {})
        <4>1. more[n + 1].at >= old.at
          BY <2>2, <2>7, <3>1
        <4>2. \A i : i \in 1..n + 1 <=> i \in 1..n \/ i = n + 1
          BY <2>1
        <4>3. \A i : i \in CapturesAfter(new, more) <=>
                       \/ i \in CapturesAfter(old, rows)
                       \/ i = n + 1 /\ old.tribe = w
          BY <2>1, <2>2, <3>2, <4>1, <4>2 DEF CapturesAfter
        <4> QED BY <4>3
      <3>5. CASE old.tribe # w
        <4>1. new = old
          BY <2>8, <3>2, <3>5
        <4> QED BY <3>1, <3>3, <3>4, <3>5, <4>1 DEF Counts, new
      <3>6. CASE old.tribe = w /\ HeldAt(old, rows)
        <4>1. PICK i \in 1..n : /\ rows[i].new = w /\ rows[i].at < old.at
                                /\ i = n \/ rows[i+1].at >= old.at
          BY <2>1, <3>6 DEF HeldAt
        <4>2. i # n /\ i + 1 \in 1..n /\ i + 1 # 1 /\ i + 1 - 1 = i
          BY <2>1, <2>4, <4>1
        <4>3. rows[i+1].prev = w /\ ~(old.at > rows[i+1].at)
          <5>1. PICK j \in 1..n : j = i + 1 /\ j # 1 /\ j - 1 = i
            BY <4>2
          <5>2. rows[j].prev = w
            BY <2>3, <4>1, <5>1
          <5>3. ~(old.at > rows[j].at)
            BY <2>3, <3>1, <4>1, <4>2, <5>1
          <5> QED BY <5>1, <5>2, <5>3
        <4>4. new = old
          BY <2>8, <3>2, <4>2, <4>3
        <4> QED BY <3>1, <3>3, <3>6, <4>4 DEF Counts, new
      <3>7. CASE old.tribe = w /\ ~HeldAt(old, rows) /\ CapturesAfter(old, rows) = {}
        <4>1. old.capture = 0
          BY <3>1, <3>7 DEF Counts
        <4>2. ASSUME NEW i \in 1..n, rows[i].prev = w
              PROVE  old.at > rows[i].at
          <5>1. i # 1 /\ i - 1 \in 1..n /\ i - 1 + 1 = i /\ rows[i-1].new = w
            <6>1. i # 1
              BY <2>3, <2>5, <4>2
            <6>2. rows[i-1].new = w
              BY <2>3, <4>2, <6>1
            <6> QED BY <2>1, <6>1, <6>2
          <5>2. rows[i-1].at < old.at
            BY <2>1, <2>3, <3>1, <3>7, <5>1 DEF CapturesAfter
          <5>3. ~(rows[i].at >= old.at)
            BY <2>1, <3>7, <5>1, <5>2 DEF HeldAt
          <5> QED BY <2>3, <3>1, <5>3
        <4>3. new = [old EXCEPT !.capture = n + 1]
          BY <2>8, <3>1, <3>2, <3>7, <4>1, <4>2
        <4>4. new.capture = n + 1
          BY <3>1, <4>3 DEF SupportRow
        <4>5. CapturesAfter(new, more) = {n + 1}
          BY <3>4, <3>7
        <4>6. Counts(new, more)
          BY <2>1, <3>3, <3>7, <4>4, <4>5 DEF Counts
        <4> QED BY <4>6 DEF new
      <3>8. CASE old.tribe = w /\ ~HeldAt(old, rows) /\ CapturesAfter(old, rows) # {}
        <4>1. /\ old.capture \in CapturesAfter(old, rows)
              /\ \A i \in CapturesAfter(old, rows) : old.capture <= i
          BY <3>1, <3>8 DEF Counts
        <4>2. old.capture \in 1..n
          BY <2>1, <4>1 DEF CapturesAfter
        <4>3. old.capture # 0 /\ old.capture <= n + 1
          BY <2>1, <4>2
        <4>4. new = old
          BY <2>8, <3>2, <4>3
        <4>5. CapturesAfter(new, more) = CapturesAfter(old, rows) \cup {n + 1}
          BY <3>4, <3>8
        <4>6. Counts(new, more)
          BY <3>3, <3>8, <4>1, <4>3, <4>4, <4>5 DEF Counts
        <4> QED BY <4>6 DEF new
      <3> QED BY <3>5, <3>6, <3>7, <3>8
    <2> QED BY <2>9, <2>10, CommitRows DEF more
  <1> QED BY <1>3, <1>4 DEF SupportsCountForFirstCapture, Counts, HeldAt, CapturesAfter

(* The new support is paid for, and every earlier one stays so.              *)
LEMMA CommitPays ==
  ASSUME IInv, RowsInv, NEW r \in Requests, CommitSupport(r)
  PROVE  \A s \in DOMAIN supports' : Paid(s)'
  <1>1. /\ pc[r] \in InTx /\ TypeOK /\ WalletTypeOK
        /\ r \in Keys /\ "support_spend" \in Reasons
    BY CommitParts, SpendAssumption DEF InTx, IInv, TypeOK, Reasons
  <1>2. PICK u \in Users, delta \in Int, next \in Nat :
           u = req[r].user /\ delta = -req[r].credits /\ next = req[r].next
    BY <1>1, RequestFields
  <1>3. Post(u, delta, next, "support_spend", r)
    BY <1>2, CommitParts
  <1>4. \A v \in Users : RowsOf(v) \subseteq RowsOf(v)'
    BY <1>1, <1>3, PostOnlyAdds
  <1>5. ASSUME NEW s \in DOMAIN supports
        PROVE  Paid(s)'
    BY <1>1, <1>4, CommitRows, PaidStays, SupportFields DEF RowsInv
  <1>6. Paid(r)'
    <2> DEFINE n == Len(ledger[u]) + 1
    <2>1. Posted(u, delta, next, "support_spend", r)
      BY <1>1, <1>3, PostRows
    <2>2. /\ n \in DOMAIN ledger'[u]
          /\ ledger'[u][n] = [key |-> r, delta |-> delta, after |-> next,
                              reason |-> "support_spend"]
      BY <2>1 DEF Posted
    <2>3. SameMovement(u, delta, "support_spend", r)'
      <3>1. ledger'[u][n] \in RowsOf(u)'
        BY <2>2 DEF RowsOf
      <3> QED BY <2>2, <3>1 DEF SameMovement
    <2>4. u = supports'[r].user /\ delta = -supports'[r].credits
      BY <1>2, CommitRows
    <2> QED BY <2>3, <2>4 DEF Paid, SameMovement, RowsOf
  <1> QED BY <1>5, <1>6, CommitRows

(* The new support is made while its city is locked: after every support and  *)
(* before every open transaction it could be compared with.                  *)
LEMMA CommitTimes ==
  ASSUME IInv, RowsInv, NEW r \in Requests, CommitSupport(r)
  PROVE  SupportTimes'
  <1>1. /\ pc[r] \in InTx /\ clock' = clock /\ req[r].now <= clock
        /\ pc' = [pc EXCEPT ![r] = "ok"] /\ req' = [req EXCEPT ![r] = NoRequest]
        /\ pc \in [Requests -> Phases] /\ DOMAIN req = Requests
    BY CommitParts DEF InTx, IInv, Times, TypeOK
  <1>2. \A q \in Requests : pc'[q] \in InTx =>
           /\ q # r /\ pc[q] \in InTx /\ req'[q] = req[q] /\ req[q].city # req[r].city
    BY <1>1 DEF IInv, Locks, InTx
  <1>3. ASSUME NEW s \in DOMAIN supports
        PROVE  /\ supports'[s].at <= clock'
               /\ \A q \in Requests : pc'[q] \in InTx /\ req'[q].city = supports'[s].city
                     => supports'[s].at < req'[q].now
    <2>1. supports'[s].at = supports[s].at /\ supports'[s].city = supports[s].city
      BY CommitRows
    <2>2. /\ supports[s].at <= clock
          /\ \A q \in Requests : pc[q] \in InTx /\ req[q].city = supports[s].city
                => supports[s].at < req[q].now
      BY DEF RowsInv, SupportTimes
    <2> QED BY <1>1, <1>2, <2>1, <2>2
  <1>4. /\ supports'[r].at <= clock'
        /\ \A q \in Requests : pc'[q] \in InTx => req'[q].city # supports'[r].city
    BY <1>1, <1>2, CommitRows
  <1>5. DOMAIN supports' = DOMAIN supports \cup {r}
    BY CommitRows
  <1> QED BY <1>3, <1>4, <1>5 DEF SupportTimes

(* A commit keeps the tables consistent.                                    *)
LEMMA CommitKeepsRows ==
  ASSUME IInv, RowsInv, NEW r \in Requests, CommitSupport(r)
  PROVE  RowsInv'
  <1>1. (DOMAIN supports = {q \in Requests : pc[q] = "ok"})'
    <2>1. pc' = [pc EXCEPT ![r] = "ok"] /\ DOMAIN pc = Requests
      BY CommitParts DEF IInv, TypeOK
    <2>2. \A q \in Requests : pc'[q] = "ok" <=> pc[q] = "ok" \/ q = r
      BY <2>1
    <2>3. DOMAIN supports' = DOMAIN supports \cup {r}
      BY CommitRows
    <2>4. DOMAIN supports = {q \in Requests : pc[q] = "ok"}
      BY DEF RowsInv
    <2> QED BY <2>2, <2>3, <2>4
  <1> QED BY <1>1, CommitPays, CommitTimes, CommitStreak, CommitCause, CommitCounts
          DEF RowsInv

(* Every step keeps the tables consistent.                                  *)
LEMMA RowsStep == IInv /\ IInv' /\ RowsInv /\ [Next]_vars => RowsInv'
  <1> SUFFICES ASSUME IInv, IInv', RowsInv, [Next]_vars PROVE RowsInv'
    OBVIOUS
  <1>0. /\ clock \in Nat /\ clock' \in Nat /\ DOMAIN pc = Requests /\ DOMAIN req = Requests
        /\ clock <= clock
    BY DEF IInv, TypeOK
  <1>1. ASSUME NEW r \in Requests, NEW phase, NEW local,
               UNCHANGED <<walletVars, supports, log, streak, clock>>,
               pc[r] # "ok", phase \notin InTx \cup {"ok"},
               pc' = [pc EXCEPT ![r] = phase], req' = [req EXCEPT ![r] = local]
        PROVE  RowsInv'
    <2>1. \A v \in Users : RowsOf(v) \subseteq RowsOf(v)'
      BY <1>1 DEF walletVars, RowsOf
    <2>2. \A q \in Requests : q # r => pc'[q] = pc[q] /\ req'[q] = req[q]
      BY <1>0, <1>1
    <2>3. pc'[r] = phase
      BY <1>0, <1>1
    <2> QED BY <1>0, <1>1, <2>1, <2>2, <2>3, QuietRows
  <1>2. ASSUME UNCHANGED <<supports, log, streak, clock, pc, req>>,
               \A v \in Users : RowsOf(v) \subseteq RowsOf(v)'
        PROVE  RowsInv'
    BY <1>0, <1>2, QuietRows
  <1>3. ASSUME NEW u \in Movable, NEW t \in Tribes, ChangeTribe(u, t)
        PROVE  RowsInv'
    BY <1>2, <1>3 DEF ChangeTribe, walletVars, tableVars, requestVars, RowsOf
  <1>4. ASSUME NEW u \in Moderated, NEW s \in Statuses, SetStatus(u, s)
        PROVE  RowsInv'
    BY <1>2, <1>4 DEF SetStatus, walletVars, tableVars, requestVars, RowsOf
  <1>5. ASSUME NEW u \in Users, NEW n \in Grants, NEW key \in GrantKeys, Grant(u, n, key)
        PROVE  RowsInv'
    <2>1. n \in Int /\ key \in Keys /\ "purchase" \in Reasons
      BY SpendAssumption DEF Reasons
    <2>2. \A v \in Users : RowsOf(v) \subseteq RowsOf(v)'
      BY <1>5, <2>1, ApplyOnlyAdds DEF Grant, IInv, TypeOK
    <2> QED BY <1>2, <1>5, <2>2 DEF Grant, tableVars, requestVars
  <1>6. ASSUME NEW r \in Requests, NEW a \in Asks, LoadUser(r, a)
        PROVE  RowsInv'
    <2>1. PICK phase \in {"rejected", "loaded"} : pc' = [pc EXCEPT ![r] = phase]
      BY <1>6 DEF LoadUser, Finish
    <2>2. \E local : req' = [req EXCEPT ![r] = local]
      BY <1>6 DEF LoadUser, Finish
    <2>3. PICK local : req' = [req EXCEPT ![r] = local]
      BY <2>2
    <2> QED BY <1>1, <1>6, <2>1, <2>3 DEF LoadUser, tableVars, InTx
  <1>7. ASSUME NEW r \in Requests, AnswerInert(r)
        PROVE  RowsInv'
    BY <1>1, <1>7 DEF AnswerInert, Finish, tableVars, InTx
  <1>8. ASSUME NEW r \in Requests, LockCity(r)
        PROVE  RowsInv'
    <2>1. pc[r] = "loaded" /\ req[r] \in RequestRow
      BY <1>8, RequestFields DEF LockCity, IInv
    <2>2. clock < clock'
      BY <1>0, <1>8, SpendAssumption DEF LockCity
    <2>3. /\ \A q \in Requests : q # r => pc'[q] = pc[q] /\ req'[q] = req[q]
          /\ pc'[r] = "cityLocked" /\ req'[r].now = clock'
      BY <1>0, <1>8, <2>1 DEF LockCity, RequestRow
    <2>4. \A v \in Users : RowsOf(v) \subseteq RowsOf(v)'
      BY <1>8 DEF LockCity, walletVars, RowsOf
    <2> QED BY <1>0, <1>8, <2>1, <2>2, <2>3, <2>4, QuietRows DEF LockCity, tableVars, InTx
  <1>9. ASSUME NEW r \in Requests, LockAccount(r)
        PROVE  RowsInv'
    <2>1. /\ pc[r] = "cityLocked" /\ req[r] \in RequestRow
          /\ UNCHANGED <<walletVars, supports, log, streak, clock>>
      BY <1>9, RequestFields DEF LockAccount, IInv, InTx, tableVars
    <2>2. CASE Outcome(req[r].user, -req[r].credits, "support_spend", r) # "applied"
      BY <1>1, <1>9, <2>1, <2>2 DEF LockAccount, Finish, InTx
    <2>3. CASE Outcome(req[r].user, -req[r].credits, "support_spend", r) = "applied"
      <3>1. /\ \A q \in Requests : q # r => pc'[q] = pc[q] /\ req'[q] = req[q]
            /\ pc'[r] = "accountLocked" /\ req'[r].now = req[r].now
            /\ req'[r].city = req[r].city
        BY <1>0, <1>9, <2>1, <2>3 DEF LockAccount, RequestRow
      <3>2. \A v \in Users : RowsOf(v) \subseteq RowsOf(v)'
        BY <2>1 DEF walletVars, RowsOf
      <3> QED BY <1>0, <2>1, <3>1, <3>2, QuietRows DEF InTx
    <2> QED BY <2>2, <2>3
  <1>10. ASSUME NEW r \in Requests, CommitSupport(r)
         PROVE  RowsInv'
    BY <1>10, CommitKeepsRows
  <1>11. ASSUME NEW r \in Requests, Abort(r)
         PROVE  RowsInv'
    BY <1>1, <1>11 DEF Abort, Finish, tableVars, InTx
  <1>12. CASE UNCHANGED vars
    BY <1>2, <1>12 DEF vars, walletVars, tableVars, requestVars, RowsOf
  <1> QED BY <1>3, <1>4, <1>5, <1>6, <1>7, <1>8, <1>9, <1>10, <1>11, <1>12
          DEF Next, Progress

(* The tables a support writes stay consistent in every reachable state.     *)
THEOREM RowsHold == Spec => [](IInv /\ RowsInv)
  <1>1. Init => IInv /\ RowsInv
    BY InvInit, RowsInit
  <1>2. (IInv /\ RowsInv) /\ [Next]_vars => (IInv /\ RowsInv)'
    BY InvStep, RowsStep
  <1> QED BY <1>1, <1>2, PTL DEF Spec

(* A request that answered 200 wrote its supports row and exactly one ledger  *)
(* row, for the same user and amount; every other request wrote neither.     *)
THEOREM SpendAtomic == Spec => []SpendIsAllOrNothing
  <1>1. IInv /\ RowsInv => SpendIsAllOrNothing
    <2> SUFFICES ASSUME IInv, RowsInv, NEW r \in Requests
                 PROVE  LET paid == {u \in Users : \E row \in RowsOf(u) : row.key = r}
                        IN IF pc[r] = "ok"
                           THEN /\ r \in DOMAIN supports
                                /\ paid = {supports[r].user}
                                /\ SameMovement(supports[r].user, -supports[r].credits,
                                                "support_spend", r)
                           ELSE r \notin DOMAIN supports /\ paid = {}
      BY DEF SpendIsAllOrNothing
    <2>1. CASE pc[r] = "ok"
      <3>1. r \in DOMAIN supports /\ Paid(r) /\ supports[r].user \in Users
        BY <2>1, SupportFields DEF IInv, RowsInv
      <3>2. \E row \in RowsOf(supports[r].user) : row.key = r
        BY <3>1 DEF Paid, SameMovement
      <3>3. ASSUME NEW u \in Users, \E row \in RowsOf(u) : row.key = r
            PROVE  u = supports[r].user
        BY <3>1, <3>2, <3>3 DEF IInv, KeysMoveCreditsOnce, RowsOf
      <3> QED BY <2>1, <3>1, <3>2, <3>3 DEF Paid
    <2>2. CASE pc[r] # "ok"
      BY <2>2 DEF IInv, Reads, KeyUsed, RowsInv
    <2> QED BY <2>1, <2>2
  <1> QED BY <1>1, RowsHold, PTL

(* A support counts for the first capture its tribe makes from then on, and   *)
(* for none when the tribe held the city already.                            *)
THEOREM AttributionCorrect == Spec => []SupportsCountForFirstCapture
  <1>1. IInv /\ RowsInv => SupportsCountForFirstCapture
    BY DEF RowsInv
  <1> QED BY <1>1, RowsHold, PTL

(* The support that took a city is one of those attributed to the capture.    *)
THEOREM CausesCorrect == Spec => []CapturesHaveTheirCause
  <1>1. IInv /\ RowsInv => CapturesHaveTheirCause
    BY DEF RowsInv
  <1> QED BY <1>1, RowsHold, PTL

(* Every day of a streak was earned by a support on that day.               *)
THEOREM StreakCorrect == Spec => []StreakIsEarned
  <1>1. IInv /\ RowsInv => StreakIsEarned
    BY DEF RowsInv
  <1> QED BY <1>1, RowsHold, PTL

-----------------------------------------------------------------------------
(* The scores are the sums of the supports                                 *)

(* A nonempty set of numbers has a least element.                           *)
LEMMA LeastNumber ==
  ASSUME NEW T \in SUBSET Nat, T # {}
  PROVE  \E n \in T : \A m \in T : n <= m
  <1> DEFINE R == OpToRel(<, Nat)
  <1>1. IsWellFoundedOn(R, Nat)
    BY NatLessThanWellFounded
  <1>2. \A m, n \in Nat : m < n => <<m, n>> \in R
    <2>1. R = {ss \in Nat \X Nat : ss[1] < ss[2]}
      BY DEF OpToRel
    <2> QED BY <2>1
  <1> HIDE DEF R
  <1>3. PICK n \in T : \A m \in T : ~ (<<m, n>> \in R)
    BY <1>1, WFMin
  <1>4. ASSUME NEW m \in T
        PROVE  n <= m
    <2>1. m \in Nat /\ n \in Nat
      BY <1>4
    <2>2. ~ (m < n)
      BY <1>2, <1>3, <2>1
    <2> QED BY <2>1, <2>2
  <1> QED BY <1>4

(* Induction over the subsets of a finite set: G is the set of those the      *)
(* claim holds for.                                                          *)
LEMMA SubsetInduction ==
  ASSUME NEW U, IsFiniteSet(U), NEW G,
         \A S \in SUBSET U : (\A x \in S : S \ {x} \in G) => S \in G
  PROVE  \A S \in SUBSET U : S \in G
  <1> DEFINE Bad == {S \in SUBSET U : S \notin G}
             T == {Cardinality(S) : S \in Bad}
  <1>1. SUFFICES ASSUME Bad # {} PROVE FALSE
    OBVIOUS
  <1>2. \A S \in SUBSET U : IsFiniteSet(S) /\ Cardinality(S) \in Nat
    BY FS_Subset, FS_CardinalityType
  <1>3. T \in SUBSET Nat /\ T # {}
    BY <1>1, <1>2
  <1>4. PICK n \in T : \A m \in T : n <= m
    BY <1>3, LeastNumber
  <1>5. PICK S \in Bad : Cardinality(S) = n
    BY <1>4
  <1>6. ASSUME NEW x \in S
        PROVE  S \ {x} \in G
    <2>1. Cardinality(S \ {x}) = n - 1 /\ n \in Nat
      BY <1>2, <1>5, FS_RemoveElement
    <2>2. S \ {x} \in SUBSET U
      BY <1>5
    <2>3. S \ {x} \notin Bad
      BY <1>4, <2>1
    <2> QED BY <2>2, <2>3
  <1> QED BY <1>5, <1>6


(* Induction over the natural numbers, in the same form.                     *)
LEMMA NumberInduction ==
  ASSUME NEW G, 0 \in G, \A n \in Nat : n \in G => n + 1 \in G
  PROVE  \A n \in Nat : n \in G
  <1> DEFINE T == {n \in Nat : n \notin G}
  <1> SUFFICES ASSUME T # {} PROVE FALSE
    OBVIOUS
  <1>1. PICK n \in T : \A m \in T : n <= m
    BY LeastNumber
  <1>2. n - 1 \in Nat /\ n - 1 \notin T /\ n - 1 + 1 = n
    BY <1>1
  <1> QED BY <1>2

(* The total of the effective amounts of the rows S, as the model states it.  *)
Total(f, S) == MapThenSumSet(LAMBDA s : f[s].effective, S)

(* The recursive function behind it: the totals of all subsets of U.          *)
PickRow(s) == CHOOSE x \in s : TRUE
Adding(f, g, s) == IF s = {} THEN 0 ELSE f[PickRow(s)].effective + g[s \ {PickRow(s)}]
Totals(f, U) == CHOOSE g : g = [s \in SUBSET U |-> Adding(f, g, s)]

(* The row picked is one of the set.                                        *)
LEMMA PickIn ==
  ASSUME NEW s, s # {}
  PROVE  PickRow(s) \in s
  BY DEF PickRow

(* The model's sum is the recursive function at the whole set.              *)
LEMMA TotalIs ==
  ASSUME NEW f, NEW S
  PROVE  Total(f, S) = Totals(f, S)[S]
  BY DEF Total, MapThenSumSet, MapThenFoldSet, Totals, Adding, PickRow

(* The recursive function exists on a finite set: by induction on the size of *)
(* the subsets it is defined for.                                            *)
LEMMA TotalsExist ==
  ASSUME NEW f, NEW U, IsFiniteSet(U)
  PROVE  \A s \in SUBSET U : Totals(f, U)[s] = Adding(f, Totals(f, U), s)
  <1>1. \A s \in SUBSET U :
           /\ IsFiniteSet(s) /\ Cardinality(s) \in Nat
           /\ Cardinality(s) <= Cardinality(U)
    BY FS_Subset, FS_CardinalityType
  <1> DEFINE Sub(n) == {s \in SUBSET U : Cardinality(s) <= n}
             G == {n \in Nat : \E g : \A s \in Sub(n) : g[s] = Adding(f, g, s)}
  <1>2. 0 \in G
    <2> DEFINE g == [s \in SUBSET U |-> 0]
    <2>1. ASSUME NEW s \in Sub(0)
          PROVE  g[s] = Adding(f, g, s)
      <3>1. Cardinality(s) = 0
        BY <1>1
      <3>2. s = {}
        BY <1>1, <3>1, FS_EmptySet
      <3> QED BY <3>2 DEF Adding
    <2> QED BY <2>1
  <1>3. ASSUME NEW n \in Nat, n \in G
        PROVE  n + 1 \in G
    <2>1. PICK g : \A s \in Sub(n) : g[s] = Adding(f, g, s)
      BY <1>3
    <2> DEFINE h == [s \in SUBSET U |-> Adding(f, g, s)]
    <2>2. ASSUME NEW s \in Sub(n + 1), s # {}
          PROVE  h[s \ {PickRow(s)}] = g[s \ {PickRow(s)}]
      <3>1. PickRow(s) \in s
        BY <2>2, PickIn
      <3>2. Cardinality(s \ {PickRow(s)}) <= n
        BY <1>1, <3>1, FS_RemoveElement
      <3>3. s \ {PickRow(s)} \in Sub(n)
        BY <3>2
      <3> QED BY <2>1, <3>3
    <2>3. \A s \in Sub(n + 1) : h[s] = Adding(f, h, s)
      BY <2>2 DEF Adding
    <2> HIDE DEF h
    <2>4. \E t : \A s \in Sub(n + 1) : t[s] = Adding(f, t, s)
      BY <2>3
    <2> QED BY <2>4
  <1>4. Cardinality(U) \in G
    <2> HIDE DEF G
    <2> QED BY <1>2, <1>3, FS_CardinalityType, NumberInduction
  <1>5. PICK g : \A s \in SUBSET U : g[s] = Adding(f, g, s)
    BY <1>1, <1>4
  <1> DEFINE k == [s \in SUBSET U |-> g[s]]
  <1>6. k = [s \in SUBSET U |-> Adding(f, k, s)]
    <2>1. ASSUME NEW s \in SUBSET U
          PROVE  g[s] = Adding(f, k, s)
      BY <1>5, PickIn DEF Adding
    <2> QED BY <2>1
  <1>7. Totals(f, U) = [s \in SUBSET U |-> Adding(f, Totals(f, U), s)]
    <2> HIDE DEF k
    <2> QED BY <1>6 DEF Totals
  <1>8. ASSUME NEW t, t = [s \in SUBSET U |-> Adding(f, t, s)]
        PROVE  \A s \in SUBSET U : t[s] = Adding(f, t, s)
    BY <1>8
  <1> QED BY <1>7, <1>8

(* Tables with the same amounts give the same totals, whatever else they hold. *)
LEMMA TotalsAgree ==
  ASSUME NEW f, NEW h, NEW U, IsFiniteSet(U), NEW V, IsFiniteSet(V), NEW S,
         S \subseteq U, S \subseteq V, IsFiniteSet(S),
         \A x \in S : f[x].effective = h[x].effective
  PROVE  Totals(f, U)[S] = Totals(h, V)[S]
  <1> DEFINE G == {s \in SUBSET S : Totals(f, U)[s] = Totals(h, V)[s]}
  <1>1. ASSUME NEW s \in SUBSET S, \A x \in s : s \ {x} \in G
        PROVE  s \in G
    <2>1. s \in SUBSET U /\ s \in SUBSET V
      OBVIOUS
    <2>2. /\ Totals(f, U)[s] = Adding(f, Totals(f, U), s)
          /\ Totals(h, V)[s] = Adding(h, Totals(h, V), s)
      BY <2>1, TotalsExist
    <2>3. Adding(f, Totals(f, U), s) = Adding(h, Totals(h, V), s)
      BY <1>1, PickIn DEF Adding
    <2> QED BY <2>2, <2>3
  <1>2. \A s \in SUBSET S : s \in G
    <2> HIDE DEF G
    <2>1. \A s \in SUBSET S : (\A x \in s : s \ {x} \in G) => s \in G
      BY <1>1
    <2> QED BY <2>1, SubsetInduction
  <1>3. S \in SUBSET S
    OBVIOUS
  <1> QED BY <1>2, <1>3

(* Any row may be taken out first, not only the one the recursion picks.     *)
LEMMA TotalsSplit ==
  ASSUME NEW f, NEW U, IsFiniteSet(U), \A x \in U : f[x].effective \in Nat
  PROVE  /\ Totals(f, U)[U] \in Nat
         /\ \A x \in U : Totals(f, U)[U] = f[x].effective + Totals(f, U)[U \ {x}]
  <1>1. PICK g : g = Totals(f, U)
    OBVIOUS
  <1>2. PICK e \in [U -> Nat] : \A x \in U : e[x] = f[x].effective
    <2>1. [x \in U |-> f[x].effective] \in [U -> Nat]
      OBVIOUS
    <2> QED BY <2>1
  <1>3. /\ g[{}] = 0
        /\ \A s \in SUBSET U : s # {} =>
              PickRow(s) \in s /\ g[s] = e[PickRow(s)] + g[s \ {PickRow(s)}]
    <2>1. \A s \in SUBSET U : g[s] = Adding(f, g, s)
      BY <1>1, TotalsExist
    <2>2. {} \in SUBSET U
      OBVIOUS
    <2>3. g[{}] = 0
      BY <2>1, <2>2 DEF Adding
    <2>4. ASSUME NEW s \in SUBSET U, s # {}
          PROVE  PickRow(s) \in s /\ g[s] = e[PickRow(s)] + g[s \ {PickRow(s)}]
      <3>1. PickRow(s) \in s
        BY <2>4, PickIn
      <3> QED BY <1>2, <2>1, <2>4, <3>1 DEF Adding
    <2> QED BY <2>3, <2>4
  <1> DEFINE N == {s \in SUBSET U : g[s] \in Nat}
  <1>4. ASSUME NEW s \in SUBSET U, \A x \in s : s \ {x} \in N
        PROVE  s \in N
    <2>1. CASE s = {}
      BY <1>3, <2>1
    <2>2. CASE s # {}
      <3>1. PICK p \in s : g[s] = e[p] + g[s \ {p}]
        BY <1>3, <2>2
      <3> QED BY <1>4, <3>1
    <2> QED BY <2>1, <2>2
  <1>5. \A s \in SUBSET U : g[s] \in Nat
    <2>1. \A s \in SUBSET U : s \in N
      <3> HIDE DEF N
      <3> QED BY <1>4, SubsetInduction
    <2> QED BY <2>1
  <1> DEFINE G == {s \in SUBSET U : \A x \in s : g[s] = e[x] + g[s \ {x}]}
  <1>6. ASSUME NEW s \in SUBSET U, \A x \in s : s \ {x} \in G
        PROVE  s \in G
    <2> SUFFICES ASSUME NEW x \in s
                 PROVE  g[s] = e[x] + g[s \ {x}]
      OBVIOUS
    <2>1. PICK p \in s : g[s] = e[p] + g[s \ {p}]
      BY <1>3
    <2>2. CASE x # p
      <3>1. x \in s \ {p} /\ p \in s \ {x} /\ (s \ {p}) \ {x} = (s \ {x}) \ {p}
        BY <2>2
      <3>2. g[s \ {p}] = e[x] + g[(s \ {p}) \ {x}]
        BY <1>6, <3>1
      <3>3. g[s \ {x}] = e[p] + g[(s \ {p}) \ {x}]
        BY <1>6, <3>1
      <3>4. /\ e[x] \in Nat /\ e[p] \in Nat
            /\ g[(s \ {p}) \ {x}] \in Nat
        BY <1>5
      <3> QED BY <2>1, <3>2, <3>3, <3>4
    <2> QED BY <2>1, <2>2
  <1>7. \A s \in SUBSET U : s \in G
    <2> HIDE DEF G
    <2> QED BY <1>6, SubsetInduction
  <1>8. U \in SUBSET U
    OBVIOUS
  <1> QED BY <1>1, <1>2, <1>5, <1>7, <1>8

(* The total depends on the amounts of its rows only.                        *)
LEMMA TotalKept ==
  ASSUME NEW f, NEW h, NEW S, IsFiniteSet(S),
         \A x \in S : h[x].effective = f[x].effective
  PROVE  Total(h, S) = Total(f, S)
  BY TotalsAgree, TotalIs

(* One more row adds its amount.                                             *)
LEMMA TotalStep ==
  ASSUME NEW f, NEW h, NEW S, IsFiniteSet(S), NEW r, r \notin S,
         \A x \in S : f[x].effective \in Nat, \A x \in S : h[x].effective = f[x].effective,
         NEW n \in Nat, h[r].effective = n
  PROVE  Total(h, S \cup {r}) = Total(f, S) + n
  <1>1. IsFiniteSet(S \cup {r})
    BY FS_AddElement
  <1>2. /\ Totals(f, S)[S] \in Nat
        /\ Totals(h, S \cup {r})[S] = Totals(f, S)[S]
    BY <1>1, TotalsAgree, TotalsSplit
  <1>3. (S \cup {r}) \ {r} = S
    OBVIOUS
  <1>4. \A x \in S \cup {r} : h[x].effective \in Nat
    OBVIOUS
  <1>5. Totals(h, S \cup {r})[S \cup {r}] = n + Totals(h, S \cup {r})[S]
    BY <1>1, <1>3, <1>4, TotalsSplit
  <1> QED BY <1>2, <1>5, TotalIs

(* The rows of one tribe in one city.                                        *)
RowsFor(t, c) == {s \in DOMAIN supports : supports[s].tribe = t /\ supports[s].city = c}

(* Finitely many supports, whose effective amounts add up to the scores.      *)
SumsInv ==
    /\ IsFiniteSet(DOMAIN supports)
    /\ \A t \in Tribes, c \in Cities : scores[t][c] = Total(supports, RowsFor(t, c))

(* No support, no score.                                                     *)
LEMMA SumsInit == Init => SumsInv
  <1> SUFFICES ASSUME Init PROVE SumsInv
    OBVIOUS
  <1>1. DOMAIN supports = {} /\ \A t \in Tribes, c \in Cities : scores[t][c] = 0
    BY DEF Init
  <1>2. Total(supports, {}) = 0
    <2>1. Totals(supports, {})[{}] = Adding(supports, Totals(supports, {}), {})
      BY FS_EmptySet, TotalsExist
    <2> QED BY <2>1, TotalIs DEF Adding
  <1>3. \A t \in Tribes, c \in Cities : RowsFor(t, c) = {}
    BY <1>1 DEF RowsFor
  <1>4. \A t \in Tribes, c \in Cities : scores[t][c] = Total(supports, RowsFor(t, c))
    BY <1>1, <1>2, <1>3
  <1> QED BY <1>1, <1>4, FS_EmptySet DEF SumsInv

(* A commit adds the effective amount of its row to the score of its tribe in  *)
(* its city, and to nothing else.                                            *)
LEMMA CommitSums ==
  ASSUME IInv, RowsInv, SumsInv, NEW r \in Requests, CommitSupport(r)
  PROVE  SumsInv'
  <1>1. pc[r] \in InTx /\ TypeOK /\ scores' = Scored(req[r])
    BY CommitParts DEF InTx, IInv
  <1>2. PICK t \in Tribes, c \in Cities, n \in Nat \ {0} :
           t = req[r].tribe /\ c = req[r].city /\ n = req[r].credits * req[r].mult
    BY <1>1, RequestFields, ScoredIsRaised
  <1>3. scores' = Raised(scores, t, c, n) /\ scores \in ScoreTable
    BY <1>1, <1>2, ScoredIsRaised
  <1>4. /\ scores'[t][c] = scores[t][c] + n
        /\ \A o \in Tribes, d \in Cities : (o # t \/ d # c) => scores'[o][d] = scores[o][d]
    BY <1>3, RaisedValues
  <1>5. /\ r \notin DOMAIN supports /\ DOMAIN supports' = DOMAIN supports \cup {r}
        /\ supports'[r].tribe = t /\ supports'[r].city = c /\ supports'[r].effective = n
    BY <1>2, CommitRows
  <1>6. \A s \in DOMAIN supports :
           /\ supports'[s].tribe = supports[s].tribe
           /\ supports'[s].city = supports[s].city
           /\ supports'[s].effective = supports[s].effective
           /\ supports[s].effective \in Nat
    <2>1. \A s \in DOMAIN supports : supports[s] \in SupportRow
      BY <1>1 DEF TypeOK
    <2> QED BY <2>1, CommitRows DEF SupportRow
  <1>7. IsFiniteSet(DOMAIN supports) /\ IsFiniteSet(DOMAIN supports')
    BY <1>5, FS_AddElement DEF SumsInv
  <1>8. ASSUME NEW o \in Tribes, NEW d \in Cities
        PROVE  scores'[o][d] = Total(supports', {s \in DOMAIN supports' :
                                  supports'[s].tribe = o /\ supports'[s].city = d})
    <2> DEFINE old == RowsFor(o, d)
               new == {s \in DOMAIN supports' : supports'[s].tribe = o /\ supports'[s].city = d}
    <2>1. old \subseteq DOMAIN supports /\ r \notin old
      BY <1>5 DEF RowsFor
    <2>2. IsFiniteSet(old)
      BY <1>7, <2>1, FS_Subset
    <2>3. new = IF o = t /\ d = c THEN old \cup {r} ELSE old
      BY <1>5, <1>6 DEF RowsFor
    <2>4. scores[o][d] = Total(supports, old)
      BY DEF SumsInv
    <2> HIDE DEF old, new
    <2>5. PICK f, h : f = supports /\ h = supports'
      OBVIOUS
    <2>6. /\ Total(h, old) = Total(f, old)
          /\ Total(h, old \cup {r}) = Total(f, old) + n
      <3>1. /\ \A x \in old : f[x].effective \in Nat
            /\ \A x \in old : h[x].effective = f[x].effective
        BY <1>6, <2>1, <2>5
      <3>2. h[r].effective = n /\ n \in Nat
        BY <1>5, <2>5
      <3>3. Total(h, old) = Total(f, old)
        BY <2>2, <3>1, TotalKept
      <3>4. Total(h, old \cup {r}) = Total(f, old) + n
        BY <2>1, <2>2, <3>1, <3>2, TotalStep
      <3> QED BY <3>3, <3>4
    <2>7. scores'[o][d] = Total(h, new)
      BY <1>4, <2>3, <2>4, <2>5, <2>6
    <2> QED BY <2>5, <2>7 DEF new
  <1> QED BY <1>7, <1>8 DEF SumsInv, RowsFor

(* tribe_province_scores is the sum of the committed effective supports, for  *)
(* any number of them: concurrent upserts lose nothing and count nothing      *)
(* twice.                                                                    *)
THEOREM ScoresCorrect == Spec => []ScoresMatchSupports
  <1>1. Init => IInv /\ RowsInv /\ SumsInv
    BY InvInit, RowsInit, SumsInit
  <1>2. SumsInv /\ UNCHANGED <<scores, supports>> => SumsInv'
    BY DEF SumsInv, RowsFor
  <1>3. IInv /\ RowsInv /\ SumsInv /\ [Next]_vars => SumsInv'
    <2> SUFFICES ASSUME IInv, RowsInv, SumsInv, [Next]_vars PROVE SumsInv'
      OBVIOUS
    <2>1. CASE \E r \in Requests : CommitSupport(r)
      BY <2>1, CommitSums
    <2>2. UNCHANGED <<scores, supports>> \/ \E r \in Requests : CommitSupport(r)
      BY DEF Next, Progress, vars, tableVars, ChangeTribe, SetStatus, Grant, LoadUser,
             AnswerInert, LockCity, LockAccount, Abort
    <2> QED BY <1>2, <2>1, <2>2
  <1>4. (IInv /\ RowsInv /\ SumsInv) /\ [Next]_vars => (IInv /\ RowsInv /\ SumsInv)'
    BY <1>3, InvStep, RowsStep
  <1>5. SumsInv => ScoresMatchSupports
    BY DEF SumsInv, ScoresMatchSupports, Total, RowsFor
  <1> QED BY <1>1, <1>4, <1>5, PTL DEF Spec
=============================================================================
