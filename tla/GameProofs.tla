----------------------------- MODULE GameProofs -----------------------------
(*******************************************************************************)
(* What holds of the composed back end for all its constants, whatever acts    *)
(* together.  The arguments of the tribes, the inbox and the boards are here,  *)
(* and of what follows a support: the requests, the caches, the hub, the quests, *)
(* the alerts; those of the account modules in AccountsProofs, the store's in  *)
(* StoreProofs.  The types of all of them come last.                           *)
(*******************************************************************************)
EXTENDS Game, AccountsProofs, WellFoundedInduction

ShopProofs == INSTANCE StoreProofs

-----------------------------------------------------------------------------
(* Tribes: switches are spaced, edits are kept and who is online is listed, up to *)
(* what boots, erasures, prunes and clears undo. *)

(* The types the argument needs. *)
Types ==
    /\ tribe \in [Clubs -> Rows_] /\ setTo \in [Clubs -> BOOLEAN]
    /\ member \in [Members -> Clubs \cup {NoClub}]
    /\ moves \in [Members -> [made : Nat, passed : Nat]]
    /\ request \in [Requests -> [at : {"new", "join", "switch", "done"},
                                 by : Members, to : Clubs]]
    /\ patch \in [Admins -> [at : {"new", "write", "done"}, on : Clubs, row : Rows_]]
    /\ online \in [Sets -> SUBSET Members]
    /\ key \in [Members -> Clubs \cup {NoClub, Absent}]
    /\ beat \in [Members -> Clubs \cup {NoClub, Absent}]
    /\ sweep \in [at : {"idle", "read", "remove"}, set : Sets,
                  members : SUBSET Members, ghosts : SUBSET Members]
    /\ clear \in [Members -> [at : {"idle", "del", "users", "tribe"},
                             read : Clubs \cup {NoClub, Absent}]]

(* Every change of tribe begins a cooldown, and no user without a tribe is in *)
(* one, unless it has been taken away. *)
Spacing ==
    \A u \in Members \ unseated :
        /\ moves[u].made = moves[u].passed + (IF u \in cooling THEN 1 ELSE 0)
        /\ member[u] = NoClub => u \notin cooling

(* Without an overlap a tribe has one edit under way, which will write the last *)
(* is_active that was asked for, unless a boot came before it. *)
Writing(a, t) == patch[a].at = "write" /\ patch[a].on = t
Edits ==
    \A t \in Clubs : t \notin overlap =>
        \A a \in Admins : Writing(a, t) =>
            /\ t \notin reseeded => patch[a].row.active = setTo[t]
            /\ \A b \in Admins : Writing(b, t) => a = b

TribeInv == Types /\ Spacing /\ Edits /\ EditsAreKept /\ OnlineAreListed

-----------------------------------------------------------------------------
(* Users in any tribes or none, nothing under way. *)
LEMMA TribeInitInv ==
    ASSUME NEW home \in [Members -> Clubs \cup {NoClub}], TribeInit(home)
    PROVE  TribeInv
  <1>1. (CHOOSE u \in Members : TRUE) \in Members /\ (CHOOSE t \in Clubs : TRUE) \in Clubs
    BY TribeAssumption
  <1>2. Types
    BY <1>1 DEF Types, TribeInit, Unsent, NoSweep, Rows_, Sets
  <1>3. Spacing
    BY DEF TribeInit, Spacing
  <1>4. Edits
    BY DEF TribeInit, Edits, Writing
  <1>5. EditsAreKept
    BY Zenon DEF TribeInit, EditsAreKept
  <1>6. OnlineAreListed
    BY DEF TribeInit, OnlineAreListed, Absent
  <1> QED
    BY <1>2, <1>3, <1>4, <1>5, <1>6 DEF TribeInv

LEMMA AnswersAreTyped ==
    ASSUME request \in [Requests -> [at : {"new", "join", "switch", "done"},
                                     by : Members, to : Clubs]],
           NEW r \in Requests, Answer(r)
    PROVE  (request \in [Requests -> [at : {"new", "join", "switch", "done"},
                                      by : Members, to : Clubs]])'
  BY DEF Answer
LEMMA ReadsAreTyped ==
    ASSUME patch \in [Admins -> [at : {"new", "write", "done"}, on : Clubs, row : Rows_]],
           NEW a \in Admins, NEW t \in Clubs, NEW row \in Rows_,
           patch' = [patch EXCEPT ![a] = [at |-> "write", on |-> t, row |-> row]]
    PROVE  (patch \in [Admins -> [at : {"new", "write", "done"}, on : Clubs, row : Rows_]])'
  OBVIOUS

(* A change of tribe begins the cooldown that Switch waits for, and Join needs a *)
(* user who has none. *)
LEMMA Move ==
    ASSUME Types, Spacing, NEW u \in Members, NEW t \in Clubs, unseated' = unseated,
           u \notin cooling \/ u \in unseated, MoveTo(u, t)
    PROVE  /\ (member \in [Members -> Clubs \cup {NoClub}])'
           /\ (moves \in [Members -> [made : Nat, passed : Nat]])' /\ Spacing'
  <1> USE TribeAssumption DEF Types, MoveTo
  <1>1. moves[u].made \in Nat /\ moves[u].passed \in Nat
    OBVIOUS
  <1>2. (moves \in [Members -> [made : Nat, passed : Nat]])'
    BY <1>1
  <1>3. (member \in [Members -> Clubs \cup {NoClub}])'
    OBVIOUS
  <1>4. ASSUME NEW v \in Members \ unseated
        PROVE  /\ moves'[v].made = moves'[v].passed + (IF v \in cooling' THEN 1 ELSE 0)
               /\ member'[v] = NoClub => v \notin cooling'
    <2>1. CASE v = u
      BY <2>1, <1>1 DEF Spacing
    <2>2. CASE v # u
      BY <2>2 DEF Spacing
    <2> QED BY <2>1, <2>2
  <1> QED BY <1>2, <1>3, <1>4 DEF Spacing

(* Join, Switch and the end of a cooldown. *)
LEMMA MembershipKeeps ==
    ASSUME TribeInv, MembershipNext, UNCHANGED presenceVars
    PROVE  TribeInv'
  <1> USE DEF TribeInv, editVars, seedingVars
  <1>1. ASSUME UNCHANGED <<tribe, editVars, seedingVars>>
        PROVE  /\ Edits' /\ EditsAreKept' /\ OnlineAreListed'
               /\ (Types /\ (member \in [Members -> Clubs \cup {NoClub}])'
                   /\ (moves \in [Members -> [made : Nat, passed : Nat]])'
                   /\ (request \in [Requests -> [at : {"new", "join", "switch", "done"},
                                                 by : Members, to : Clubs]])' => Types')
    BY <1>1 DEF Types, Edits, Writing, EditsAreKept, OnlineAreListed, presenceVars
  <1>2. ASSUME NEW r \in Requests, NEW u \in Members, NEW t \in Clubs,
               NEW kind \in {"join", "switch"}, RequireActiveTribe(r, kind, u, t)
        PROVE  TribeInv'
    <2>1. UNCHANGED <<tribe, editVars, seedingVars, member, moves, cooling>>
      BY <1>2 DEF RequireActiveTribe
    <2>2. (request \in [Requests -> [at : {"new", "join", "switch", "done"},
                                     by : Members, to : Clubs]])'
      BY <1>2 DEF RequireActiveTribe, Types
    <2>3. Spacing'
      BY <2>1 DEF Spacing
    <2> QED BY <1>1, <2>1, <2>2, <2>3 DEF Types
  <1>3. ASSUME NEW r \in Requests, Join(r) \/ Switch(r)
        PROVE  TribeInv'
    <2>1. UNCHANGED <<tribe, editVars, seedingVars>>
      BY <1>3 DEF Join, Switch
    <2>2. (request \in [Requests -> [at : {"new", "join", "switch", "done"},
                                     by : Members, to : Clubs]])'
      <3>1. Answer(r)
        BY <1>3 DEF Join, Switch
      <3>2. request \in [Requests -> [at : {"new", "join", "switch", "done"},
                                      by : Members, to : Clubs]]
        BY DEF Types
      <3> QED BY <3>1, <3>2, AnswersAreTyped
    <2>3. request[r].by \in Members /\ request[r].to \in Clubs
      BY DEF Types
    <2>4. \/ UNCHANGED <<member, cooling, moves>>
          \/ /\ request[r].by \notin cooling \/ request[r].by \in unseated
             /\ MoveTo(request[r].by, request[r].to)
      BY <1>3, <2>3 DEF Join, Switch, Spacing
    <2>5. CASE UNCHANGED <<member, cooling, moves>>
      <3>1. Spacing'
        BY <2>1, <2>5 DEF Spacing
      <3> QED BY <1>1, <2>1, <2>2, <2>5, <3>1 DEF Types
    <2>6. CASE /\ request[r].by \notin cooling \/ request[r].by \in unseated
               /\ MoveTo(request[r].by, request[r].to)
      BY <1>1, <2>1, <2>2, <2>3, <2>6, Move DEF Types
    <2> QED BY <2>4, <2>5, <2>6
  <1>4. ASSUME NEW u \in Members, CooldownPasses(u)
        PROVE  TribeInv'
    <2>1. UNCHANGED <<tribe, editVars, seedingVars, member, request>>
      BY <1>4 DEF CooldownPasses
    <2>2. moves[u].made \in Nat /\ moves[u].passed \in Nat /\ u \in cooling
      BY <1>4 DEF CooldownPasses, Types
    <2>3. (moves \in [Members -> [made : Nat, passed : Nat]])'
      BY <1>4, <2>2 DEF CooldownPasses, Types
    <2>4. ASSUME NEW v \in Members \ unseated
          PROVE  /\ moves'[v].made = moves'[v].passed + (IF v \in cooling' THEN 1 ELSE 0)
                 /\ member'[v] = NoClub => v \notin cooling'
      <3>1. CASE v = u
        BY <1>4, <2>1, <2>2, <3>1 DEF CooldownPasses, Spacing, Types
      <3>2. CASE v # u
        BY <1>4, <2>1, <3>2 DEF CooldownPasses, Spacing, Types
      <3> QED BY <3>1, <3>2
    <2>5. Spacing'
      BY <2>1, <2>4 DEF Spacing
    <2> QED BY <1>1, <2>1, <2>3, <2>5 DEF Types
  <1> QED BY <1>2, <1>3, <1>4 DEF MembershipNext

(* An edit reads the tribe alone, or its tribe is one of those edited twice. *)
LEMMA EditsKeep ==
    ASSUME TribeInv, EditNext, UNCHANGED presenceVars
    PROVE  TribeInv'
  <1> USE DEF TribeInv
  <1>1. UNCHANGED <<member, cooling, moves, request, unseated>>
    BY DEF EditNext, ReadForName, ReadForActive, ReadTribe, UpdateTribe, seedingVars
  <1>0. ASSUME NEW a \in Admins, NEW t \in Clubs,
               ReadForName(a, t) \/ \E active \in BOOLEAN : ReadForActive(a, t, active)
        PROVE  \E row \in Rows_ :
                  /\ ReadTribe(a, t, row)
                  /\ \/ /\ row.active = tribe[t].active /\ UNCHANGED <<setTo, reseeded>>
                     \/ setTo' = [setTo EXCEPT ![t] = row.active] /\ reseeded' = reseeded \ {t}
    <2>1. tribe[t] \in Rows_
      BY DEF Types
    <2>2. CASE ReadForName(a, t)
      <3> PICK row : row = [tribe[t] EXCEPT !.name = a]
        OBVIOUS
      <3>1. row \in Rows_ /\ row.active = tribe[t].active
        BY <2>1 DEF Rows_
      <3> QED BY <2>2, <3>1 DEF ReadForName
    <2>3. ASSUME NEW active \in BOOLEAN, ReadForActive(a, t, active)
          PROVE  \E row \in Rows_ :
                    /\ ReadTribe(a, t, row)
                    /\ setTo' = [setTo EXCEPT ![t] = row.active] /\ reseeded' = reseeded \ {t}
      <3> PICK row : row = [tribe[t] EXCEPT !.active = active]
        OBVIOUS
      <3>1. row \in Rows_ /\ row.active = active
        BY <2>1 DEF Rows_
      <3> QED BY <2>3, <3>1 DEF ReadForActive
    <2> QED BY <1>0, <2>2, <2>3
  <1>2. Spacing' /\ OnlineAreListed'
    BY <1>1 DEF Spacing, OnlineAreListed, presenceVars
  <1>3. SUFFICES ASSUME (tribe \in [Clubs -> Rows_])', (setTo \in [Clubs -> BOOLEAN])',
                        (patch \in [Admins -> [at : {"new", "write", "done"},
                                               on : Clubs, row : Rows_]])'
                 PROVE  Edits' /\ EditsAreKept'
    <2>1. /\ (tribe \in [Clubs -> Rows_])' /\ (setTo \in [Clubs -> BOOLEAN])'
          /\ (patch \in [Admins -> [at : {"new", "write", "done"},
                                    on : Clubs, row : Rows_]])'
      <3>1. ASSUME NEW a \in Admins, NEW t \in Clubs, NEW row \in Rows_, ReadTribe(a, t, row),
                   NEW active \in BOOLEAN,
                   setTo' = setTo \/ setTo' = [setTo EXCEPT ![t] = active]
            PROVE  /\ (tribe \in [Clubs -> Rows_])' /\ (setTo \in [Clubs -> BOOLEAN])'
                   /\ (patch \in [Admins -> [at : {"new", "write", "done"},
                                             on : Clubs, row : Rows_]])'
        <4>1. patch' = [patch EXCEPT ![a] = [at |-> "write", on |-> t, row |-> row]]
          BY <3>1 DEF ReadTribe
        <4>2. patch \in [Admins -> [at : {"new", "write", "done"}, on : Clubs, row : Rows_]]
          BY DEF Types
        <4>3. (patch \in [Admins -> [at : {"new", "write", "done"},
                                     on : Clubs, row : Rows_]])'
          BY <4>1, <4>2, ReadsAreTyped
        <4>4. tribe \in [Clubs -> Rows_] /\ setTo \in [Clubs -> BOOLEAN]
          BY DEF Types
        <4>5. (tribe \in [Clubs -> Rows_])'
          BY <3>1, <4>4 DEF ReadTribe
        <4>6. (setTo \in [Clubs -> BOOLEAN])'
          BY <3>1, <4>4
        <4> QED BY <4>3, <4>5, <4>6
      <3>2. ASSUME NEW a \in Admins, UpdateTribe(a)
            PROVE  /\ (tribe \in [Clubs -> Rows_])' /\ (setTo \in [Clubs -> BOOLEAN])'
                   /\ (patch \in [Admins -> [at : {"new", "write", "done"},
                                             on : Clubs, row : Rows_]])'
        BY <3>2 DEF UpdateTribe, Types
      <3>3. \A row \in Rows_ : row.active \in BOOLEAN
        BY DEF Rows_
      <3>4. ASSUME NEW a \in Admins, NEW t \in Clubs,
                   ReadForName(a, t) \/ \E active \in BOOLEAN : ReadForActive(a, t, active)
            PROVE  /\ (tribe \in [Clubs -> Rows_])' /\ (setTo \in [Clubs -> BOOLEAN])'
                   /\ (patch \in [Admins -> [at : {"new", "write", "done"},
                                             on : Clubs, row : Rows_]])'
        <4> PICK row \in Rows_ :
                   /\ ReadTribe(a, t, row)
                   /\ setTo' = setTo \/ setTo' = [setTo EXCEPT ![t] = row.active]
          BY <1>0, <3>4
        <4> QED BY <3>1, <3>3
      <3> QED BY <3>2, <3>4 DEF EditNext
    <2>2. Types'
      BY <1>1, <2>1 DEF Types, presenceVars
    <2> QED BY <1>2, <2>1, <2>2
  <1>4. ASSUME NEW a \in Admins, NEW t \in Clubs, NEW row \in Rows_, ReadTribe(a, t, row),
               \/ row.active = tribe[t].active /\ UNCHANGED <<setTo, reseeded>>
               \/ setTo' = [setTo EXCEPT ![t] = row.active] /\ reseeded' = reseeded \ {t}
        PROVE  Edits' /\ EditsAreKept'
    <2>1. patch' = [patch EXCEPT ![a] = [at |-> "write", on |-> t, row |-> row]]
      BY <1>4 DEF ReadTribe
    <2>2. /\ \A b \in Admins : b # a => patch'[b] = patch[b]
          /\ patch'[a] = [at |-> "write", on |-> t, row |-> row]
      BY <2>1 DEF Types
    <2>3. \A s \in Clubs : s # t =>
              /\ setTo'[s] = setTo[s] /\ (s \in overlap <=> s \in overlap')
              /\ s \in reseeded <=> s \in reseeded'
      BY <1>4 DEF ReadTribe, Types
    <2>4. tribe' = tribe /\ overlap \subseteq overlap'
      BY <1>4 DEF ReadTribe
    <2>5. t \notin overlap' => \A b \in Admins : ~Writing(b, t)
      BY <1>4 DEF ReadTribe, Writing
    <2>6. t \notin overlap' \cup reseeded' => row.active = setTo'[t]
      <3> SUFFICES ASSUME t \notin overlap' \cup reseeded' PROVE row.active = setTo'[t]
        OBVIOUS
      <3>1. CASE row.active = tribe[t].active /\ UNCHANGED <<setTo, reseeded>>
        <4>1. tribe[t].active = setTo[t]
          BY <2>4, <2>5, <3>1 DEF EditsAreKept, Writing
        <4> QED BY <3>1, <4>1
      <3>2. CASE setTo' = [setTo EXCEPT ![t] = row.active]
        BY <3>2 DEF Types
      <3> QED BY <1>4, <3>1, <3>2
    <2>7. ASSUME NEW s \in Clubs, s \notin overlap', NEW b \in Admins, Writing(b, s)'
          PROVE  /\ s \notin reseeded' => patch'[b].row.active = setTo'[s]
                 /\ \A d \in Admins : Writing(d, s)' => b = d
      <3>1. CASE s = t
        <4>1. \A d \in Admins : Writing(d, t)' => d = a
          BY <2>2, <2>5, <2>7, <3>1 DEF Writing
        <4> QED BY <2>2, <2>6, <2>7, <3>1, <4>1
      <3>2. CASE s # t
        <4>1. \A d \in Admins : Writing(d, s)' => d # a /\ Writing(d, s) /\ patch'[d] = patch[d]
          BY <2>2, <3>2 DEF Writing
        <4>2. s \notin overlap /\ setTo'[s] = setTo[s] /\ (s \in reseeded <=> s \in reseeded')
          BY <2>3, <2>7, <3>2
        <4> QED BY <2>7, <4>1, <4>2 DEF Edits
      <3> QED BY <3>1, <3>2
    <2>8. Edits'
      BY <2>7 DEF Edits
    <2>9. ASSUME NEW s \in Clubs, tribe'[s].active # setTo'[s],
                 s \notin overlap' \cup reseeded'
          PROVE  \E b \in Admins : Writing(b, s)'
      <3>1. CASE s = t
        BY <2>2, <3>1 DEF Writing
      <3>2. CASE s # t
        <4>1. PICK b \in Admins : Writing(b, s)
          BY <2>3, <2>4, <2>9, <3>2 DEF EditsAreKept, Writing
        <4>2. patch[b].at = "write" /\ patch[a].at = "new"
          BY <1>4, <4>1 DEF ReadTribe, Writing
        <4> QED BY <2>2, <4>1, <4>2 DEF Writing
      <3> QED BY <3>1, <3>2
    <2> QED BY <2>8, <2>9 DEF EditsAreKept, Writing
  <1>5. ASSUME NEW a \in Admins, UpdateTribe(a)
        PROVE  Edits' /\ EditsAreKept'
    <2> DEFINE t == patch[a].on
    <2>1. /\ patch[a].at = "write" /\ t \in Clubs
          /\ UNCHANGED <<setTo, overlap, reseeded>>
      BY <1>5 DEF UpdateTribe, Types, seedingVars
    <2>2. /\ \A s \in Clubs : s # t => tribe'[s] = tribe[s]
          /\ tribe'[t] = patch[a].row
      BY <1>5, <2>1 DEF UpdateTribe, Types
    <2>3. /\ \A b \in Admins : b # a => patch'[b] = patch[b]
          /\ patch'[a].at = "done"
      BY <1>5 DEF UpdateTribe, Types
    <2>4. \A b \in Admins, s \in Clubs : Writing(b, s)' <=> b # a /\ Writing(b, s)
      BY <2>3 DEF Writing
    <2>5. Edits'
      BY <2>1, <2>3, <2>4 DEF Edits
    <2>6. ASSUME NEW s \in Clubs, tribe'[s].active # setTo'[s],
                 s \notin overlap' \cup reseeded'
          PROVE  \E b \in Admins : Writing(b, s)'
      <3>1. CASE s = t
        BY <2>1, <2>2, <2>6, <3>1 DEF Edits, Writing
      <3>2. CASE s # t
        <4>1. PICK b \in Admins : Writing(b, s)
          BY <2>1, <2>2, <2>6, <3>2 DEF EditsAreKept, Writing
        <4>2. b # a
          BY <3>2, <4>1 DEF Writing
        <4> QED BY <2>4, <4>1, <4>2
      <3> QED BY <3>1, <3>2
    <2> QED BY <2>5, <2>6 DEF EditsAreKept, Writing
  <1> QED BY <1>0, <1>4, <1>5 DEF EditNext

(* A boot marks the tribes it writes; it and an erasure mark the users they unseat, *)
(* and a user who has been seated has made no move. *)
LEMMA SeatingKeeps ==
    ASSUME TribeInv, BootNext \/ AnonymizeNext, UNCHANGED presenceVars
    PROVE  TribeInv'
  <1> USE DEF TribeInv, editVars
  <1>1. OnlineAreListed'
    BY DEF OnlineAreListed, presenceVars
  <1>2. ASSUME NEW t \in Clubs, UpsertSeedTribe(t) PROVE TribeInv'
    <2>1. Types'
      BY <1>2 DEF UpsertSeedTribe, Types, presenceVars, Rows_
    <2>2. Spacing' /\ Edits'
      BY <1>2 DEF UpsertSeedTribe, Spacing, Edits, Writing
    <2>3. \A s \in Clubs : s # t => tribe'[s] = tribe[s]
      BY <1>2 DEF UpsertSeedTribe, Types
    <2>4. EditsAreKept'
      BY <1>2, <2>3 DEF UpsertSeedTribe, EditsAreKept
    <2> QED BY <1>1, <2>1, <2>2, <2>4
  <1>3. ASSUME NEW u \in Members, NEW t \in Clubs \cup {NoClub}, Seat(u, t) PROVE TribeInv'
    <2>1. Types'
      BY <1>3 DEF Seat, Types, presenceVars
    <2>2. Edits' /\ EditsAreKept'
      BY <1>3 DEF Seat, Edits, Writing, EditsAreKept
    <2>3. \A v \in Members \ unseated' : v \notin unseated /\ (member'[v] = NoClub => member[v] = NoClub)
      BY <1>3 DEF Seat, Types
    <2>4. Spacing'
      BY <1>3, <2>3 DEF Seat, Spacing
    <2> QED BY <1>1, <2>1, <2>2, <2>4
  <1>4. Seeds \subseteq Clubs /\ \A u \in DOMAIN Personas : u \in Members /\ Personas[u] \in Clubs \cup {NoClub}
    BY TribeAssumption
  <1> QED BY <1>2, <1>3, <1>4 DEF BootNext, AnonymizeNext, SeedPersona, AnonymizeMember


LEMMA ClearingKeeps ==
    ASSUME Types, NEW u \in Members, NEW from, NEW to \in {"idle", "del", "users", "tribe"},
           Clearing(u, from, to)
    PROVE  clear' \in [Members -> [at : {"idle", "del", "users", "tribe"},
                                  read : Clubs \cup {NoClub, Absent}]]
  <1> PICK row : row = [clear[u] EXCEPT !.at = to]
    OBVIOUS
  <1>1. row \in [at : {"idle", "del", "users", "tribe"}, read : Clubs \cup {NoClub, Absent}]
    BY DEF Types
  <1>2. clear' = [clear EXCEPT ![u] = row]
    BY DEF Clearing
  <1> QED BY <1>1, <1>2 DEF Types

(* A heartbeat lists its user; what a prune or a clear removes was a ghost or is *)
(* remembered. *)
LEMMA PresenceKeeps ==
    ASSUME TribeInv, PresenceNext, UNCHANGED membershipVars
    PROVE  TribeInv'
  <1> USE TribeAssumption DEF TribeInv
  <1>1. Spacing' /\ Edits' /\ EditsAreKept'
    BY DEF membershipVars, editVars, seedingVars, Spacing, Edits, Writing, EditsAreKept
  <1>2. SUFFICES Types' /\ OnlineAreListed'
    BY <1>1
  <1> USE DEF Types, editVars
  <1>3. ASSUME NEW u \in Members, StartHeartbeat(u) \/ FailHeartbeat(u)
        PROVE  Types' /\ OnlineAreListed'
    BY <1>3 DEF StartHeartbeat, FailHeartbeat, membershipVars, OnlineAreListed, Absent
  <1>4. ASSUME NEW u \in Members, FinishHeartbeat(u)
        PROVE  Types' /\ OnlineAreListed'
    <2>1. Types'
      BY <1>4 DEF FinishHeartbeat, membershipVars
    <2>2. ASSUME NEW v \in Members, NEW s \in Sets, key'[v] # Absent, s \in {"users", key'[v]}
          PROVE  v \in online'[s] \/ <<s, v>> \in swept'
      <3>1. CASE v = u
        <4>1. s \in Listing(u)
          BY <1>4, <2>2, <3>1 DEF FinishHeartbeat, Listing
        <4> QED BY <1>4, <3>1, <4>1 DEF FinishHeartbeat
      <3>2. CASE v # u
        <4>1. key'[v] = key[v] /\ online[s] \subseteq online'[s]
          BY <1>4, <3>2 DEF FinishHeartbeat
        <4>2. <<s, v>> \in swept => <<s, v>> \in swept'
          BY <1>4, <3>2 DEF FinishHeartbeat
        <4> QED BY <2>2, <4>1, <4>2 DEF OnlineAreListed
      <3> QED BY <3>1, <3>2
    <2> QED BY <2>1, <2>2 DEF OnlineAreListed
  <1>5. ASSUME NEW u \in Members, KeyExpires(u)
        PROVE  Types' /\ OnlineAreListed'
    BY <1>5 DEF KeyExpires, membershipVars, OnlineAreListed, Absent
  <1>6. ASSUME NEW u \in Members, StartClear(u) \/ FailClear(u)
        PROVE  Types' /\ OnlineAreListed'
    <2>1. clear' \in [Members -> [at : {"idle", "del", "users", "tribe"},
                                 read : Clubs \cup {NoClub, Absent}]]
      BY <1>6, ClearingKeeps DEF StartClear, FailClear
    <2>2. UNCHANGED <<key, online, beat, sweep, swept>>
      BY <1>6 DEF StartClear, FailClear
    <2> QED BY <2>1, <2>2 DEF membershipVars, OnlineAreListed
  <1>10. ASSUME NEW u \in Members, DelKey(u)
        PROVE  Types' /\ OnlineAreListed'
    <2>1. clear' \in [Members -> [at : {"idle", "del", "users", "tribe"},
                                 read : Clubs \cup {NoClub, Absent}]]
      BY <1>10, ClearingKeeps DEF DelKey
    <2> QED BY <1>10, <2>1 DEF DelKey, membershipVars, OnlineAreListed, Absent
  <1>11. ASSUME NEW u \in Members, NEW r \in Sets, RemoveListing(u, r)
        PROVE  Types' /\ OnlineAreListed'
    <2>1. Types'
      <3>1. clear' \in [Members -> [at : {"idle", "del", "users", "tribe"},
                                   read : Clubs \cup {NoClub, Absent}]]
        <4>1. \E from : \E to \in {"idle", "tribe"} : Clearing(u, from, to)
          BY <1>11 DEF RemoveListing
        <4> QED BY <4>1, ClearingKeeps
      <3>2. online' \in [Sets -> SUBSET Members]
        BY <1>11 DEF RemoveListing
      <3> QED BY <1>11, <3>1, <3>2 DEF RemoveListing, membershipVars
    <2>2. ASSUME NEW v \in Members, NEW s \in Sets, key'[v] # Absent, s \in {"users", key'[v]}
          PROVE  v \in online'[s] \/ <<s, v>> \in swept'
      <3>1. (v \in online[s] \/ <<s, v>> \in swept) /\ swept \subseteq swept'
        BY <1>11, <2>2 DEF RemoveListing, OnlineAreListed
      <3>2. ~IsGhost(v, s)
        BY <1>11, <2>2 DEF RemoveListing, IsGhost
      <3>3. CASE v = u /\ s = r
        BY <1>11, <3>2, <3>3 DEF RemoveListing
      <3>4. CASE ~(v = u /\ s = r)
        <4>1. v \in online[s] => v \in online'[s]
          BY <1>11, <3>4 DEF RemoveListing
        <4> QED BY <3>1, <4>1
      <3> QED BY <3>3, <3>4
    <2> QED BY <2>1, <2>2 DEF OnlineAreListed
  <1>7. ASSUME NEW s \in Sets, ReadSet(s)
        PROVE  Types' /\ OnlineAreListed'
    BY <1>7 DEF ReadSet, membershipVars, OnlineAreListed
  <1>8. CASE FindGhosts
    BY <1>8 DEF FindGhosts, NoSweep, Sets, membershipVars, OnlineAreListed
  <1>9. CASE RemoveGhosts
    <2>1. Types'
      BY <1>9 DEF RemoveGhosts, NoSweep, Sets, membershipVars
    <2>2. ASSUME NEW v \in Members, NEW s \in Sets, key'[v] # Absent, s \in {"users", key'[v]}
          PROVE  v \in online'[s] \/ <<s, v>> \in swept'
      <3>1. v \in online[s] \/ <<s, v>> \in swept
        BY <1>9, <2>2 DEF RemoveGhosts, OnlineAreListed
      <3>2. ~IsGhost(v, s)
        BY <1>9, <2>2 DEF RemoveGhosts, IsGhost
      <3>3. CASE v \in online[s]
        BY <1>9, <3>2, <3>3 DEF RemoveGhosts
      <3>4. CASE <<s, v>> \in swept
        BY <1>9, <3>4 DEF RemoveGhosts
      <3> QED BY <3>1, <3>3, <3>4
    <2> QED BY <2>1, <2>2 DEF OnlineAreListed
  <1> QED BY <1>3, <1>4, <1>5, <1>6, <1>7, <1>8, <1>9, <1>10, <1>11 DEF PresenceNext

(* Chat reads the membership and changes nothing of it. *)
LEMMA TribeStep ==
    ASSUME TribeInv, TribeNext \/ UNCHANGED tribeVars
    PROVE  TribeInv'
  <1>1. CASE UNCHANGED <<membershipVars, presenceVars>>
    BY <1>1 DEF membershipVars, editVars, seedingVars, presenceVars, TribeInv, Types, Spacing,
                Edits, Writing, EditsAreKept, OnlineAreListed
  <1> QED BY <1>1, MembershipKeeps, EditsKeep, SeatingKeeps, PresenceKeeps DEF TribeNext, tribeVars

(* Between two cooldowns there is one change of tribe, and the first comes before. *)
LEMMA TribeInvKeeps ==
    ASSUME TribeInv
    PROVE  TribesKeepTheirMembers
  <1>1. SwitchesAreSpaced
    BY DEF TribeInv, Types, Spacing, SwitchesAreSpaced
  <1> QED BY <1>1 DEF TribeInv, TribesKeepTheirMembers

-----------------------------------------------------------------------------
(* The components share the log of published messages with the tribes, and *)
(* nothing else. *)
LEMMA TribesMoveAlone ==
    ASSUME GameNext \/ UNCHANGED gameVars
    PROVE  TribeNext \/ UNCHANGED tribeVars
  <1>1. CASE UNCHANGED gameVars
    BY <1>1 DEF gameVars, otherVars
  <1>2. CASE TribesNext
    BY <1>2 DEF TribesNext, TribeNext, membershipVars, presenceVars
  <1>3. CASE GameNext /\ ~TribesNext
    BY <1>3 DEF GameNext, otherVars
  <1> QED BY <1>1, <1>2, <1>3

(* In the whole back end users whom no boot or erasure has unseated change tribe *)
(* once per cooldown; edits of tribes that do not overlap are kept until a boot *)
(* writes the tribe; and who is online is listed unless a prune or a clear raced a *)
(* heartbeat (tribe/store.go, tribe/seed.go, presence/tracker.go). *)
THEOREM TribesAreKept == GameSpec => []TribesKeepTheirMembers
  <1>1. GameInit => TribeInv
    <2> SUFFICES ASSUME NEW start \in Starts, TribeInit(start.home) PROVE TribeInv
      BY DEF GameInit
    <2>1. start.home \in [Members -> Clubs \cup {NoClub}]
      BY GameAssumption
    <2> QED BY <2>1, TribeInitInv
  <1>2. TribeInv /\ [GameNext]_gameVars => TribeInv'
    BY TribesMoveAlone, TribeStep
  <1>3. TribeInv => TribesKeepTheirMembers
    BY TribeInvKeeps
  <1> QED BY <1>1, <1>2, <1>3, PTL DEF GameSpec

-----------------------------------------------------------------------------
(* The accounts are moved by the account modules only. *)
LEMMA AccountsMoveAlone ==
    ASSUME GameNext \/ UNCHANGED gameVars
    PROVE  AccountsNext \/ UNCHANGED accountsVars
  BY DEF GameNext, gameVars

(* In the whole back end a verified marker opens at most one registration, login *)
(* or merge, however many calls consume it (auth/otp.go, ConsumeVerified). *)
THEOREM MarkersAreSpentOnce == GameSpec => []VerificationsAreSpentOnce
  <1>1. GameInit => MarkerInv
    BY MarkersStart DEF GameInit, AccountsInit
  <1>2. MarkerInv /\ [GameNext]_gameVars => MarkerInv'
    BY AccountsMoveAlone, MarkersStep
  <1>3. MarkerInv => VerificationsAreSpentOnce
    BY MarkersKeep
  <1> QED BY <1>1, <1>2, <1>3, PTL DEF GameSpec

(* In the whole back end a live session that no later revocation can find was *)
(* opened during a revocation of its user, by whichever worker, and whether that *)
(* worker finished, failed or stopped (auth/session.go, RevokeAll). *)
THEOREM SessionsStayInReach == GameSpec => []SessionsAreRevocable
  <1>1. GameInit => SessionInv
    BY SessionsStart DEF GameInit, AccountsInit
  <1>2. SessionInv /\ [GameNext]_gameVars => SessionInv'
    BY AccountsMoveAlone, SessionsStep
  <1>3. SessionInv => SessionsAreRevocable
    BY DEF SessionInv
  <1> QED BY <1>1, <1>2, <1>3, PTL DEF GameSpec

(* In the whole back end a merge links an identity to the account that registered *)
(* the verified phone, whatever moderation and erasure did to that account between *)
(* the steps of the merge (auth/social.go, Merge). *)
THEOREM MergesAreConfirmed == GameSpec => []MergesFollowThePhone
  <1>1. GameInit => MergeInv
    <2> SUFFICES ASSUME NEW start \in Starts, SignInInit(start.phone, start.opened),
                        ModerationInit
                 PROVE  MergeInv
      BY DEF GameInit, AccountsInit
    <2>1. start.phone \in [Users -> Phones \cup {None}]
      BY GameAssumption
    <2> QED BY <2>1, MergeStart
  <1>2. MergeInv /\ [GameNext]_gameVars => MergeInv'
    BY AccountsMoveAlone, MergesStep
  <1>3. MergeInv => MergesFollowThePhone
    BY MergesFollow
  <1> QED BY <1>1, <1>2, <1>3, PTL DEF GameSpec

(* In the whole back end a block ends the friendship of its pair, and nothing *)
(* makes the pair friends again while the block is there, except an accept that *)
(* was open at the same time as the block (social/friends.go, Block). *)
THEOREM BlocksEndFriendships == GameSpec => []BlockingEndsFriendship
  <1>1. GameInit => FriendInv
    BY FriendsStart DEF GameInit, AccountsInit
  <1>2. FriendInv /\ [GameNext]_gameVars => FriendInv'
    BY AccountsMoveAlone, FriendsStep
  <1>3. FriendInv => BlockingEndsFriendship
    BY DEF FriendInv
  <1> QED BY <1>1, <1>2, <1>3, PTL DEF GameSpec

(* In the whole back end a completed erasure has left nothing of what was there *)
(* at its request, however often its workers failed, stopped or raced another job's, *)
(* and however its user's sessions came and went (erasure/worker.go). *)
THEOREM ErasuresAreComplete == GameSpec => []ErasureLeavesNothing
  <1> DEFINE Inv == MergeInv /\ SessionInv /\ EraseInv
  <1>1. GameInit => Inv
    <2> SUFFICES ASSUME NEW start \in Starts, SignInInit(start.phone, start.opened),
                        ModerationInit, ErasureInit
                 PROVE  Inv
      BY DEF GameInit, AccountsInit
    <2>1. start.phone \in [Users -> Phones \cup {None}]
      BY GameAssumption
    <2> QED BY <2>1, MergeStart, SessionsStart, ErasureStarts
  <1>2. Inv /\ [GameNext]_gameVars => Inv'
    <2>1. MergeInv => CallShape
      BY DEF MergeInv
    <2> QED BY <2>1, AccountsMoveAlone, MergesStep, SessionsStep, EraseStep
  <1>3. Inv => ErasureLeavesNothing
    BY EraseInvErases
  <1> QED BY <1>1, <1>2, <1>3, PTL DEF GameSpec

(* In the whole back end the audit log explains every user's status, each row of *)
(* the queue is decided once, by one audit row, and a user has one pending appeal, *)
(* and one pending flag apart from flags tested at the same time, whichever *)
(* moderators and erasures act on the rows (admin/moderation_api.go). *)
THEOREM DecisionsAreExplained == GameSpec => []DecisionsAreAudited
  <1> DEFINE Inv == MergeInv /\ AuditInv
  <1>1. GameInit => Inv
    <2> SUFFICES ASSUME NEW start \in Starts, SignInInit(start.phone, start.opened),
                        ModerationInit
                 PROVE  Inv
      BY DEF GameInit, AccountsInit
    <2>1. start.phone \in [Users -> Phones \cup {None}]
      BY GameAssumption
    <2> QED BY <2>1, MergeStart, AuditStarts
  <1>2. Inv /\ [GameNext]_gameVars => Inv'
    <2>1. MergeInv => UserShape
      BY DEF MergeInv
    <2> QED BY <2>1, AccountsMoveAlone, MergesStep, AuditStep
  <1>3. Inv => DecisionsAreAudited
    BY AuditDecides
  <1> QED BY <1>1, <1>2, <1>3, PTL DEF GameSpec

(* In the whole back end a referee is rewarded by one redemption, which pays both *)
(* sides, and a device earns two rewards only from redemptions tested at the same *)
(* time, however redemptions and erasures overlap (social/referral.go, Redeem). *)
THEOREM ReferralsArePaidOnce == GameSpec => []ReferralsPayOnce
  <1>1. GameInit => PayInv
    BY ReferralsStart DEF GameInit, AccountsInit
  <1>2. PayInv /\ [GameNext]_gameVars => PayInv'
    BY AccountsMoveAlone, ReferralsStep
  <1>3. PayInv => ReferralsPayOnce
    BY PayInvPays
  <1> QED BY <1>1, <1>2, <1>3, PTL DEF GameSpec

-----------------------------------------------------------------------------
(* Reading the conquest log. *)

(* The n-th row of a city has the n-th stamp of the city; a cursor, and what a *)
(* mark-all has read, is a row of the log; and marks that do not overlap leave *)
(* the cursor behind every row they have passed. *)
Logged ==
    /\ log \in Seq(Rows)
    /\ \A i, j \in DOMAIN log :
           i < j /\ CityOfRow[log[i]] = CityOfRow[log[j]] => log[i] < log[j]
    /\ dismissed \subseteq LogRows /\ listed \subseteq LogRows

Marked ==
    /\ cursor \in LogRows \cup {0}
    /\ newest \in [MarkAlls -> LogRows \cup {0, MaxRow + 1}]
    /\ overwritten \in BOOLEAN
    /\ ~overwritten => \A n \in dismissed : n <= cursor

Accounted(i) ==
    log[i] \notin UnreadRows \cup dismissed =>
        \E j \in 1..(i - 1) : log[j] > log[i] /\ CityOfRow[log[j]] # CityOfRow[log[i]]

InboxInv == Logged /\ Marked /\ \A i \in DOMAIN log : Accounted(i)

(* A set of rows has a newest one. *)
LEMMA NewestIsARow ==
    ASSUME NEW S \in SUBSET Rows PROVE Newest(S) \in S \cup {0}
  <1> DEFINE Bounds == {n \in Nat : \A m \in S : m <= n}
             R == OpToRel(<, Nat)
  <1>1. MaxRow \in Bounds
    BY InboxAssumption DEF Rows
  <1>2. IsWellFoundedOn(R, Nat)
    BY NatLessThanWellFounded
  <1>3. \A m, n \in Nat : m < n => <<m, n>> \in R
    BY DEF OpToRel
  <1> HIDE DEF R
  <1>4. PICK n \in Bounds : \A m \in Bounds : ~(<<m, n>> \in R)
    <2>1. Bounds \subseteq Nat /\ Bounds # {}
      BY <1>1
    <2> HIDE DEF Bounds
    <2> QED BY <1>2, <2>1, WFMin
  <1>5. ASSUME S # {}, n \notin S PROVE FALSE
    <2>0. \A m \in S : m \in Nat \ {0}
      BY InboxAssumption DEF Rows
    <2>1. PICK m \in S : m \in Nat \ {0} /\ m <= n
      BY <1>5, <2>0
    <2>2. n - 1 \in Nat /\ n - 1 < n
      BY <1>5, <2>1
    <2>3. n - 1 \in Bounds
      BY <1>5, <2>2, InboxAssumption DEF Rows
    <2> QED BY <1>3, <1>4, <2>2, <2>3
  <1>6. CASE S # {}
    <2>1. n \in S /\ \A m \in S : m <= n
      BY <1>5, <1>6
    <2> QED BY <1>6, <2>1 DEF Newest
  <1>7. CASE S = {}
    BY <1>7 DEF Newest
  <1> QED BY <1>6, <1>7

LEMMA InboxStarts == InboxInit => InboxInv
  <1> SUFFICES ASSUME InboxInit PROVE InboxInv
    OBVIOUS
  <1>1. log = <<>> /\ DOMAIN log = {}
    BY DEF InboxInit
  <1>2. Logged
    BY <1>1, InboxAssumption DEF InboxInit, Logged, Rows
  <1>3. Marked
    BY InboxAssumption DEF InboxInit, Marked, Idle
  <1> QED BY <1>1, <1>2, <1>3 DEF InboxInv

(* A row of a city whose newer rows have been passed came behind another city's. *)
LEMMA InsertKeepsInbox ==
    ASSUME InboxInv, NEW n \in Rows, InsertOnTx(n) PROVE InboxInv'
  <1> DEFINE L == Len(log)
  <1>1. /\ log \in Seq(Rows) /\ log' = Append(log, n)
        /\ UNCHANGED <<cursor, listed, newest, dismissed, overwritten>>
        /\ L \in Nat /\ DOMAIN log = 1..L
    BY DEF InboxInv, Logged, InsertOnTx
  <1>2. /\ log' \in Seq(Rows) /\ DOMAIN log' = 1..(L + 1)
        /\ log'[L + 1] = n /\ \A i \in 1..L : log'[i] = log[i]
    BY <1>1
  <1>3. LogRows' = LogRows \cup {n}
    BY <1>1, <1>2 DEF LogRows
  <1>4. \A i \in 1..L : log[i] \in LogRows /\ log[i] \in Nat
    BY <1>1, InboxAssumption DEF LogRows, Rows
  <1>5. Logged'
    <2>1. ASSUME NEW i \in 1..(L + 1), NEW j \in 1..(L + 1), i < j,
                 CityOfRow[log'[i]] = CityOfRow[log'[j]]
          PROVE  log'[i] < log'[j]
      <3>1. i \in 1..L /\ log'[i] = log[i]
        BY <1>1, <1>2, <2>1
      <3>2. CASE j = L + 1
        BY <1>2, <1>4, <2>1, <3>1, <3>2 DEF InsertOnTx
      <3>3. CASE j # L + 1
        <4>1. j \in 1..L /\ log'[j] = log[j]
          BY <1>1, <1>2, <3>3
        <4> QED BY <1>1, <2>1, <3>1, <4>1 DEF InboxInv, Logged
      <3> QED BY <3>2, <3>3
    <2>2. dismissed' \subseteq LogRows' /\ listed' \subseteq LogRows'
      BY <1>1, <1>3 DEF InboxInv, Logged
    <2> QED BY <1>2, <2>1, <2>2 DEF Logged
  <1>6. Marked'
    <2>1. cursor' \in LogRows' \cup {0}
      BY <1>1, <1>3 DEF InboxInv, Marked
    <2>2. newest' \in [MarkAlls -> LogRows' \cup {0, MaxRow + 1}]
      <3>1. newest \in [MarkAlls -> LogRows \cup {0, MaxRow + 1}]
        BY DEF InboxInv, Marked
      <3> QED BY <1>1, <1>3, <3>1
    <2>3. overwritten' \in BOOLEAN /\ (~overwritten' => \A m \in dismissed' : m <= cursor')
      BY <1>1 DEF InboxInv, Marked
    <2> QED BY <2>1, <2>2, <2>3 DEF Marked
  <1>7. ASSUME NEW i \in 1..(L + 1) PROVE Accounted(i)'
    <2> SUFFICES ASSUME log'[i] \notin UnreadRows', log'[i] \notin dismissed'
                 PROVE  \E j \in 1..(i - 1) : /\ log'[j] > log'[i]
                                              /\ CityOfRow[log'[j]] # CityOfRow[log'[i]]
      BY DEF Accounted
    <2>1. CASE i = L + 1
      <3>0. n \in Nat \ {0} /\ cursor \in LogRows \cup {0} /\ LogRows \subseteq Nat
        BY <1>1, InboxAssumption DEF InboxInv, Marked, LogRows, Rows
      <3>1. log'[i] = n /\ n \in Nat /\ n <= cursor /\ cursor \in LogRows
        BY <1>1, <1>2, <1>3, <2>1, <3>0 DEF UnreadRows
      <3>2. PICK j \in 1..L : cursor = log[j]
        BY <1>1, <3>1 DEF LogRows
      <3>3. cursor # n /\ cursor \in Nat /\ CityOfRow[cursor] # CityOfRow[n]
        <4>1. cursor # n
          BY <3>1 DEF InsertOnTx
        <4>2. cursor \in Nat
          BY <1>4, <3>2
        <4>3. ~(cursor < n)
          BY <3>1, <4>2
        <4> QED BY <3>1, <4>1, <4>2, <4>3 DEF InsertOnTx
      <3>4. j \in 1..(i - 1) /\ log'[j] = cursor
        BY <1>1, <1>2, <2>1, <3>2
      <3> QED BY <3>1, <3>3, <3>4
    <2>2. CASE i # L + 1
      <3>1. i \in 1..L /\ log'[i] = log[i] /\ log[i] \in LogRows
        BY <1>1, <1>2, <1>4, <2>2
      <3>2. log[i] \notin UnreadRows /\ log[i] \notin dismissed
        BY <1>1, <1>3, <3>1 DEF UnreadRows
      <3>3. PICK j \in 1..(i - 1) : log[j] > log[i] /\ CityOfRow[log[j]] # CityOfRow[log[i]]
        BY <1>1, <3>1, <3>2 DEF InboxInv, Accounted
      <3>4. log'[j] = log[j]
        BY <1>1, <1>2, <3>1, <3>3
      <3> QED BY <3>1, <3>3, <3>4
    <2> QED BY <2>1, <2>2
  <1> QED BY <1>2, <1>5, <1>6, <1>7 DEF InboxInv

(* A mark passes every row up to it, forwards unless it overlapped. *)
LEMMA SetCursorKeepsInbox ==
    ASSUME InboxInv, NEW n, n \in LogRows \cup {0}, SetCursor(n), UNCHANGED <<log, listed>>,
           newest' \in [MarkAlls -> LogRows \cup {0, MaxRow + 1}],
           overwritten' \in BOOLEAN, ~overwritten' => ~overwritten /\ cursor <= n
    PROVE  InboxInv'
  <1>1. /\ cursor' = n /\ dismissed' = dismissed \cup {m \in LogRows : m <= n}
        /\ log' = log /\ LogRows' = LogRows /\ listed' = listed
    BY DEF SetCursor, LogRows
  <1>2. \A m \in LogRows \cup {0} : m \in Nat
    BY InboxAssumption DEF InboxInv, Logged, LogRows, Rows
  <1>3. Logged'
    BY <1>1 DEF InboxInv, Logged
  <1>4. ASSUME ~overwritten', NEW m \in dismissed' PROVE m <= cursor'
    <2>1. CASE m \in dismissed
      <3>1. m \in Nat /\ cursor \in Nat /\ m <= cursor /\ cursor <= n
        BY <1>2, <1>4, <2>1 DEF InboxInv, Logged, Marked
      <3> QED BY <1>1, <1>2, <3>1
    <2>2. CASE m \notin dismissed
      BY <1>1, <1>4, <2>2
    <2> QED BY <2>1, <2>2
  <1>5. Marked'
    <2>1. /\ cursor' \in LogRows' \cup {0}
          /\ newest' \in [MarkAlls -> LogRows' \cup {0, MaxRow + 1}]
      BY <1>1
    <2> QED BY <1>4, <2>1 DEF Marked
  <1>6. ASSUME NEW i \in DOMAIN log' PROVE Accounted(i)'
    <2>1. log'[i] \in LogRows'
      BY <1>1 DEF LogRows
    <2>2. log'[i] \in UnreadRows' \cup dismissed'
      BY <1>1, <1>2, <2>1 DEF UnreadRows
    <2> QED BY <2>2 DEF Accounted
  <1> QED BY <1>3, <1>5, <1>6 DEF InboxInv

LEMMA InboxStep ==
    ASSUME InboxInv, InboxNext \/ UNCHANGED inboxVars PROVE InboxInv'
  <1>1. ASSUME UNCHANGED <<log, cursor, dismissed, overwritten>>,
               listed' \subseteq LogRows, newest' \in [MarkAlls -> LogRows \cup {0, MaxRow + 1}]
        PROVE  InboxInv'
    <2>1. LogRows' = LogRows
      BY <1>1 DEF LogRows
    <2> QED BY <1>1, <2>1 DEF InboxInv, Logged, Marked, Accounted, UnreadRows
  <1>2. listed \subseteq LogRows /\ newest \in [MarkAlls -> LogRows \cup {0, MaxRow + 1}]
    BY DEF InboxInv, Logged, Marked
  <1>3. LogRows \subseteq Rows
    BY DEF InboxInv, Logged, LogRows
  <1>4. ASSUME NEW n \in Rows, InsertOnTx(n) PROVE InboxInv'
    BY <1>4, InsertKeepsInbox
  <1>5. ASSUME NEW n \in Rows, MarkUpTo(n) PROVE InboxInv'
    <2>1. n \in LogRows
      BY <1>2, <1>5 DEF MarkUpTo
    <2>2. cursor \in Nat /\ n \in Nat /\ cursor <= n
      BY <1>3, <1>5, InboxAssumption DEF MarkUpTo, InboxInv, Marked, Rows
    <2> QED BY <1>2, <1>5, <2>1, <2>2, SetCursorKeepsInbox DEF MarkUpTo, InboxInv, Marked
  <1>6. ASSUME NEW offset \in 0..MaxRow, List(offset) PROVE InboxInv'
    BY <1>1, <1>2, <1>6 DEF List
  <1>7. ASSUME NEW m \in MarkAlls, MarkAllRead(m) PROVE InboxInv'
    <2>1. Newest(LogRows) \in LogRows \cup {0}
      BY <1>3, NewestIsARow
    <2> QED BY <1>1, <1>2, <1>7, <2>1 DEF MarkAllRead
  <1>8. ASSUME NEW m \in MarkAlls, WriteMarkAll(m) PROVE InboxInv'
    <2>1. newest' \in [MarkAlls -> LogRows \cup {0, MaxRow + 1}]
      BY <1>2, <1>8 DEF WriteMarkAll, Idle
    <2>2. CASE newest[m] = cursor
      BY <1>1, <1>2, <1>8, <2>1, <2>2 DEF WriteMarkAll
    <2>3. CASE newest[m] # cursor
      <3> DEFINE n == newest[m]
      <3>1. n \in LogRows \cup {0}
        BY <1>2, <1>8 DEF WriteMarkAll, Idle
      <3>2. SetCursor(n) /\ overwritten' = (overwritten \/ n < cursor)
            /\ UNCHANGED <<log, listed>>
        BY <1>8, <2>3 DEF WriteMarkAll
      <3>3. n \in Nat /\ cursor \in Nat
        <4>1. LogRows \subseteq Nat /\ cursor \in LogRows \cup {0}
          BY <1>3, InboxAssumption DEF InboxInv, Marked, Rows
        <4> HIDE DEF n
        <4> QED BY <3>1, <4>1
      <3>4. overwritten' \in BOOLEAN /\ (~overwritten' => ~overwritten /\ ~(n < cursor))
        BY <3>2
      <3>5. ~overwritten' => ~overwritten /\ cursor <= n
        BY <3>3, <3>4
      <3> HIDE DEF n
      <3> QED BY <2>1, <3>1, <3>2, <3>4, <3>5, SetCursorKeepsInbox
    <2> QED BY <2>2, <2>3
  <1>9. CASE UNCHANGED inboxVars
    BY <1>1, <1>2, <1>9 DEF inboxVars
  <1> QED BY <1>4, <1>5, <1>6, <1>7, <1>8, <1>9 DEF InboxNext

(* Rows that count as read have been marked, or came behind a later stamp of *)
(* another city; marks that do not overlap never bring a row back to unread *)
(* (conquest/log.go: "It never moves the marker backwards"). *)
THEOREM MarksAreKept == GameSpec => []ReadMeansMarked
  <1>1. GameInit => InboxInv
    BY InboxStarts DEF GameInit
  <1>2. InboxInv /\ [GameNext]_gameVars => InboxInv'
    <2>1. [GameNext]_gameVars => InboxNext \/ UNCHANGED inboxVars
      BY DEF GameNext, gameVars, otherVars
    <2> QED BY <2>1, InboxStep
  <1>3. InboxInv => ReadMeansMarked
    <2>1. InboxInv => (~overwritten => dismissed \cap UnreadRows = {})
      <3> SUFFICES ASSUME InboxInv, ~overwritten, NEW n \in dismissed, n \in UnreadRows
                   PROVE  FALSE
        OBVIOUS
      <3>1. n \in Nat /\ cursor \in Nat /\ n <= cursor /\ n > cursor
        BY InboxAssumption DEF InboxInv, Logged, Marked, LogRows, UnreadRows, Rows
      <3> QED BY <3>1
    <2> QED BY <2>1 DEF InboxInv, Accounted, ReadMeansMarked
  <1> QED BY <1>1, <1>2, <1>3, PTL DEF GameSpec
-----------------------------------------------------------------------------
(* The boards of a season. *)

(* The boards hold counts; a support that has not come to a key is not on its *)
(* board, while nothing but requests has filled it. *)
BoardShape ==
    /\ board \in [BoardKeys -> [Supports -> Nat]]
    /\ posted \in [Supports -> 0..Len(Keys_)]
    /\ archiver.step \in {"idle", "dump", "insert", "delete"}
    /\ archiver.step = "insert" => archiver.dump \in [Supports -> Nat] /\ archiver.key \in BoardKeys
    /\ archiver.todo \subseteq BoardKeys /\ archiver.done \subseteq BoardKeys
    /\ archiver = [step |-> archiver.step, todo |-> archiver.todo, done |-> archiver.done,
                   dump |-> archiver.dump, key |-> archiver.key]
    /\ archive = [k \in BoardKeys |-> archive[k]]
    /\ seed.step \in {"idle", "claim", "sum", "add"}
    /\ seed = [step |-> seed.step, sums |-> seed.sums]
    /\ seed.step \in {"sum", "add"} => booted
    /\ \A k \in archiver.done : archive[k] # NoArchive

(* What a key has to show of a support, wherever the support is counted. *)
Owed(k, s) == Through(s, k) /\ <<k, s>> \notin late \cup missed

(* A support that is owed is on the board until the key is archived, then in the *)
(* archive; so a dump that is still to be inserted has it as well. *)
KeptOf(k, s) ==
    /\ archive[k] # NoArchive => archive[k] \in [Supports -> Nat]
    /\ Owed(k, s) =>
          /\ archive[k] = NoArchive => board[k][s] > 0
          /\ archive[k] # NoArchive => archive[k][s] > 0
          /\ archiver.step = "insert" /\ archiver.key = k /\ archive[k] = NoArchive =>
                archiver.dump[s] > 0

(* Only the seed of the tribe rank counts a support again. *)
OnceOf(k, s) ==
    /\ k # RankKey \/ ~booted =>
          board[k][s] <= 1 /\ (~Through(s, k) => board[k][s] = 0)
    /\ k # RankKey =>
          /\ archive[k] # NoArchive => archive[k][s] <= 1
          /\ archiver.step = "insert" /\ archiver.key = k => archiver.dump[s] <= 1

BoardInv ==
    /\ BoardShape
    /\ \A k \in BoardKeys, s \in Supports : KeptOf(k, s) /\ OnceOf(k, s)

LEMMA BoardsStart == BoardsInit => BoardInv
  <1> SUFFICES ASSUME BoardsInit PROVE BoardInv
    OBVIOUS
  <1>1. BoardShape
    BY BoardsAssumption DEF BoardsInit, BoardShape, NoJob, NoSeed, Zero
  <1>2. ASSUME NEW k \in BoardKeys, NEW s \in Supports PROVE KeptOf(k, s) /\ OnceOf(k, s)
    <2>1. ~Through(s, k)
      BY DEF BoardsInit, Through
    <2>2. board[k][s] = 0 /\ archive[k] = NoArchive /\ archiver.step = "idle"
      BY DEF BoardsInit, Zero, NoJob
    <2> QED BY <2>1, <2>2 DEF KeptOf, OnceOf, Owed
  <1> QED BY <1>1, <1>2 DEF BoardInv

LEMMA BoardsAreKept == BoardInv => SeasonScoresAreKept
  <1> SUFFICES ASSUME BoardInv, NEW k \in BoardKeys, NEW s \in Supports
               PROVE  /\ Owed(k, s) => board[k][s] + Archived(k, s) > 0
                      /\ k = RankKey => booted \/ board[k][s] <= 1
                      /\ k # RankKey => board[k][s] <= 1 /\ Archived(k, s) <= 1
    BY DEF SeasonScoresAreKept, Owed
  <1>1. KeptOf(k, s) /\ OnceOf(k, s) /\ board[k][s] \in Nat
    BY DEF BoardInv, BoardShape
  <1>2. CASE archive[k] = NoArchive
    BY <1>1, <1>2 DEF KeptOf, OnceOf, Archived
  <1>3. CASE archive[k] # NoArchive
    <2>1. archive[k][s] \in Nat
      BY <1>1, <1>3 DEF KeptOf
    <2> QED BY <1>1, <1>3, <2>1 DEF KeptOf, OnceOf, Archived
  <1> QED BY <1>2, <1>3

(* A request that moves on comes to one key, which it had not come to. *)
LEMMA PostingReaches ==
    ASSUME BoardShape, NEW s \in Supports, PostNext(s)
    PROVE  /\ NextKey(s) \in BoardKeys /\ ~Through(s, NextKey(s))
           /\ posted' \in [Supports -> 0..Len(Keys_)]
           /\ \A k \in BoardKeys, r \in Supports :
                 Through(r, k)' <=> Through(r, k) \/ (r = s /\ k = NextKey(s))
  <1> PICK n \in Nat : n = posted[s]
    BY BoardsAssumption DEF BoardShape
  <1>1. n + 1 \in DOMAIN Keys_ /\ NextKey(s) = Keys_[n + 1] /\ Len(Keys_) \in Nat
    BY BoardsAssumption DEF PostNext, NextKey
  <1>2. posted' = [posted EXCEPT ![s] = n + 1]
    BY DEF PostNext
  <1>3. \A i \in 1..n : Keys_[i] # NextKey(s)
    BY <1>1, BoardsAssumption
  <1>4. NextKey(s) \in BoardKeys
    BY <1>1 DEF BoardKeys
  <1>5. posted' \in [Supports -> 0..Len(Keys_)]
    BY <1>1, <1>2, BoardsAssumption DEF BoardShape
  <1>6. ASSUME NEW k \in BoardKeys, NEW r \in Supports
        PROVE  Through(r, k)' <=> Through(r, k) \/ (r = s /\ k = NextKey(s))
    <2>1. CASE r = s
      <3>1. posted'[r] = n + 1
        BY <1>2, <2>1 DEF BoardShape
      <3>2. \A i : i \in 1..(n + 1) <=> i \in 1..n \/ i = n + 1
        OBVIOUS
      <3> QED BY <1>1, <2>1, <3>1, <3>2 DEF Through
    <2>2. CASE r # s
      BY <1>2, <2>2 DEF Through, BoardShape
    <2> QED BY <2>1, <2>2
  <1> QED BY <1>3, <1>4, <1>5, <1>6 DEF Through

LEMMA IncrKeepsBoards ==
    ASSUME BoardInv, NEW s \in Supports, Incr(s) PROVE BoardInv'
  <1> PICK next \in BoardKeys : next = NextKey(s)
    BY PostingReaches DEF BoardInv, Incr
  <1> PICK n \in Nat : n = board[next][s]
    BY DEF BoardInv, BoardShape
  <1> PICK row \in [Supports -> Nat] : row = board[next]
    BY DEF BoardInv, BoardShape
  <1>1. /\ ~Through(s, next) /\ posted' \in [Supports -> 0..Len(Keys_)]
        /\ \A k \in BoardKeys, r \in Supports :
              Through(r, k)' <=> Through(r, k) \/ (r = s /\ k = next)
    BY PostingReaches DEF BoardInv, Incr
  <1>2. /\ UNCHANGED <<archive, archiver, seed, booted, missed>>
        /\ late' = IF Dumped(next) THEN late \cup {<<next, s>>} ELSE late
        /\ board' = [board EXCEPT ![next] = [row EXCEPT ![s] = n + 1]]
    BY DEF Incr, archiveVars, seedVars
  <1>3. BoardShape'
    <2>1. board' \in [BoardKeys -> [Supports -> Nat]]
      BY <1>2 DEF BoardInv, BoardShape
    <2> QED BY <1>1, <1>2, <2>1 DEF BoardInv, BoardShape
  <1>4. ASSUME NEW k \in BoardKeys, NEW r \in Supports PROVE (KeptOf(k, r) /\ OnceOf(k, r))'
    <2>1. KeptOf(k, r) /\ OnceOf(k, r)
      BY DEF BoardInv
    <2>2. CASE k = next /\ r = s
      <3>1. board'[k][r] = n + 1
        BY <1>2, <2>2 DEF BoardInv, BoardShape
      <3>2. Owed(k, r)' => ~Dumped(next)
        BY <1>2, <2>2 DEF Owed
      <3>3. KeptOf(k, r)'
        BY <1>2, <2>1, <2>2, <3>1, <3>2 DEF KeptOf, Dumped
      <3>4. k # RankKey \/ ~booted => n = 0
        BY <1>1, <2>1, <2>2 DEF OnceOf
      <3>5. Through(r, k)'
        BY <1>1, <2>2
      <3> QED BY <1>2, <2>1, <3>1, <3>3, <3>4, <3>5 DEF OnceOf
    <2>3. CASE k # next \/ r # s
      <3>1. board'[k][r] = board[k][r]
        BY <1>2, <2>3 DEF BoardInv, BoardShape
      <3>2. Through(r, k)' <=> Through(r, k)
        BY <1>1, <2>3
      <3>3. Owed(k, r)' => Owed(k, r)
        BY <1>2, <3>2 DEF Owed
      <3> QED BY <1>2, <2>1, <3>1, <3>2, <3>3 DEF KeptOf, OnceOf
    <2> QED BY <2>2, <2>3
  <1> QED BY <1>3, <1>4 DEF BoardInv
LEMMA FailIncrKeepsBoards ==
    ASSUME BoardInv, NEW s \in Supports, FailIncr(s) PROVE BoardInv'
  <1> PICK next \in BoardKeys : next = NextKey(s)
    BY PostingReaches DEF BoardInv, FailIncr
  <1>1. /\ posted' \in [Supports -> 0..Len(Keys_)]
        /\ \A k \in BoardKeys, r \in Supports :
              Through(r, k)' <=> Through(r, k) \/ (r = s /\ k = next)
    BY PostingReaches DEF BoardInv, FailIncr
  <1>2. /\ UNCHANGED <<board, archive, archiver, seed, booted, late>>
        /\ missed' = missed \cup {<<next, s>>}
    BY DEF FailIncr, archiveVars, seedVars
  <1>3. BoardShape'
    BY <1>1, <1>2 DEF BoardInv, BoardShape
  <1>4. ASSUME NEW k \in BoardKeys, NEW r \in Supports PROVE (KeptOf(k, r) /\ OnceOf(k, r))'
    <2>1. KeptOf(k, r) /\ OnceOf(k, r)
      BY DEF BoardInv
    <2>2. Owed(k, r)' => Owed(k, r)
      BY <1>1, <1>2 DEF Owed
    <2>3. Through(r, k) => Through(r, k)'
      BY <1>1
    <2> QED BY <1>2, <2>1, <2>2, <2>3 DEF KeptOf, OnceOf
  <1> QED BY <1>3, <1>4 DEF BoardInv

(* What the season worker knows is all that may change without harm, as long as *)
(* a dump it holds is of the board as it was, and it archives before it deletes. *)
LEMMA ArchiverKeepsBoards ==
    ASSUME BoardInv, UNCHANGED <<board, posted, archive, seed, booted, late, missed>>,
           NEW step \in {"idle", "dump", "insert", "delete"}, NEW todo \in SUBSET BoardKeys,
           NEW done \in SUBSET BoardKeys, \A k \in done : archive[k] # NoArchive,
           NEW dump, NEW at,
           step = "insert" => at \in BoardKeys /\ dump = board[at],
           archiver' = [step |-> step, todo |-> todo, done |-> done, dump |-> dump, key |-> at]
    PROVE  BoardInv'
  <1>1. BoardShape'
    BY DEF BoardInv, BoardShape
  <1>2. ASSUME NEW k \in BoardKeys, NEW s \in Supports PROVE (KeptOf(k, s) /\ OnceOf(k, s))'
    <2>1. KeptOf(k, s) /\ OnceOf(k, s)
      BY DEF BoardInv
    <2>2. (Through(s, k)' <=> Through(s, k)) /\ (Owed(k, s)' <=> Owed(k, s))
      BY DEF Through, Owed
    <2> QED BY <2>1, <2>2 DEF KeptOf, OnceOf
  <1> QED BY <1>1, <1>2 DEF BoardInv

LEMMA InsertKeepsBoards ==
    ASSUME BoardInv, InsertArchive PROVE BoardInv'
  <1> PICK k0 \in BoardKeys, dump \in [Supports -> Nat], todo \in SUBSET BoardKeys :
        k0 = archiver.key /\ dump = archiver.dump /\ todo = archiver.todo
    BY DEF BoardInv, BoardShape, InsertArchive
  <1> PICK done \in SUBSET BoardKeys : done = archiver.done
    BY DEF BoardInv, BoardShape
  <1> PICK step \in {"delete", "dump"} : step = AfterInsert
    BY DEF AfterInsert
  <1> PICK to : to = IF archive[k0] = NoArchive THEN dump ELSE archive[k0]
    OBVIOUS
  <1>1. /\ archiver.step = "insert" /\ UNCHANGED <<board, posted, seed, booted, late, missed>>
        /\ archive' = [archive EXCEPT ![k0] = to]
    BY DEF InsertArchive, seedVars
  <1>2. archiver' = [step |-> step, todo |-> todo \ {k0}, done |-> done \cup {k0},
                     dump |-> dump, key |-> k0]
    BY DEF BoardInv, BoardShape, InsertArchive
  <1>3. archive' = [k \in BoardKeys |-> IF k = k0 THEN to ELSE archive[k]]
    BY <1>1 DEF BoardInv, BoardShape
  <1>4. to # NoArchive
    BY BoardsAssumption
  <1>5. BoardShape'
    BY <1>1, <1>2, <1>3, <1>4 DEF BoardInv, BoardShape
  <1>6. ASSUME NEW k \in BoardKeys, NEW s \in Supports PROVE (KeptOf(k, s) /\ OnceOf(k, s))'
    <2>1. KeptOf(k, s) /\ OnceOf(k, s)
      BY DEF BoardInv
    <2>2. (Through(s, k)' <=> Through(s, k)) /\ (Owed(k, s)' <=> Owed(k, s))
      BY <1>1 DEF Through, Owed
    <2>3. archiver'.step # "insert" /\ archive'[k] = IF k = k0 THEN to ELSE archive[k]
      BY <1>2, <1>3
    <2>4. CASE k = k0 /\ archive[k] = NoArchive
      <3>1. archive'[k] = dump
        BY <2>3, <2>4
      <3> QED BY <1>1, <1>4, <2>1, <2>2, <2>3, <2>4, <3>1 DEF KeptOf, OnceOf
    <2>5. CASE ~(k = k0 /\ archive[k] = NoArchive)
      <3>1. archive'[k] = archive[k]
        BY <2>3, <2>5
      <3> QED BY <1>1, <2>1, <2>2, <2>3, <3>1 DEF KeptOf, OnceOf
    <2> QED BY <2>4, <2>5
  <1> QED BY <1>5, <1>6 DEF BoardInv

LEMMA DeleteKeepsBoards ==
    ASSUME BoardInv, DeleteKeys PROVE BoardInv'
  <1>1. /\ UNCHANGED <<posted, archive, seed, booted, late, missed>>
        /\ archiver'.step = "idle" /\ archiver'.todo = {} /\ archiver'.done = {}
        /\ archiver' = [step |-> archiver'.step, todo |-> archiver'.todo,
                        done |-> archiver'.done, dump |-> archiver'.dump,
                        key |-> archiver'.key]
    BY DEF DeleteKeys, NoJob, seedVars
  <1>2. \A k \in BoardKeys : board'[k] = IF k \in archiver.done THEN Zero ELSE board[k]
    BY DEF DeleteKeys
  <1>3. BoardShape'
    <2>1. board' \in [BoardKeys -> [Supports -> Nat]]
      BY DEF BoardInv, BoardShape, DeleteKeys, Zero
    <2> QED BY <1>1, <2>1 DEF BoardInv, BoardShape
  <1>4. ASSUME NEW k \in BoardKeys, NEW s \in Supports PROVE (KeptOf(k, s) /\ OnceOf(k, s))'
    <2>1. KeptOf(k, s) /\ OnceOf(k, s)
      BY DEF BoardInv
    <2>2. (Through(s, k)' <=> Through(s, k)) /\ (Owed(k, s)' <=> Owed(k, s))
      BY <1>1 DEF Through, Owed
    <2>3. CASE k \in archiver.done
      <3>1. archive[k] # NoArchive /\ board'[k][s] = 0
        BY <1>2, <2>3 DEF BoardInv, BoardShape, Zero
      <3> QED BY <1>1, <2>1, <2>2, <3>1 DEF KeptOf, OnceOf
    <2>4. CASE k \notin archiver.done
      BY <1>1, <1>2, <2>1, <2>2, <2>4 DEF KeptOf, OnceOf
    <2> QED BY <2>3, <2>4
  <1> QED BY <1>3, <1>4 DEF BoardInv

LEMMA ArchiveKeepsBoards ==
    ASSUME BoardInv, ArchiveNext PROVE BoardInv'
  <1>1. /\ archiver = [step |-> archiver.step, todo |-> archiver.todo, done |-> archiver.done,
                       dump |-> archiver.dump, key |-> archiver.key]
        /\ archiver.todo \subseteq BoardKeys /\ archiver.done \subseteq BoardKeys
        /\ \A k \in archiver.done : archive[k] # NoArchive
    BY DEF BoardInv, BoardShape
  <1>2. ASSUME StartArchive PROVE BoardInv'
    <2>1. /\ UNCHANGED <<board, posted, archive, seed, booted, late, missed>>
          /\ archiver' = [step |-> "dump", todo |-> Present, done |-> {}, dump |-> Zero,
                          key |-> RankKey]
      BY <1>2 DEF StartArchive, NoJob, seedVars
    <2>2. PICK step \in {"dump"}, todo \in SUBSET BoardKeys, done \in SUBSET BoardKeys :
             step = "dump" /\ todo = Present /\ done = {}
      BY DEF Present
    <2> QED BY <2>1, <2>2, ArchiverKeepsBoards
  <1>3. ASSUME DumpKey PROVE BoardInv'
    <2>1. PICK k \in archiver.todo :
             archiver' = [archiver EXCEPT !.step = "insert", !.key = k, !.dump = board[k]]
      BY <1>3 DEF DumpKey
    <2>2. PICK step, todo, done, dump :
             step = "insert" /\ todo = archiver.todo /\ done = archiver.done /\ dump = board[k]
      OBVIOUS
    <2>6. /\ step \in {"idle", "dump", "insert", "delete"}
          /\ todo \in SUBSET BoardKeys /\ done \in SUBSET BoardKeys
      BY <1>1, <2>2
    <2>3. archiver' = [step |-> step, todo |-> todo, done |-> done, dump |-> dump, key |-> k]
      BY <1>1, <2>1, <2>2
    <2>4. UNCHANGED <<board, posted, archive, seed, booted, late, missed>>
      BY <1>3 DEF DumpKey, seedVars
    <2>5. k \in BoardKeys /\ \A l \in done : archive[l] # NoArchive
      BY <1>1, <2>2
    <2> QED BY <2>2, <2>3, <2>4, <2>5, <2>6, ArchiverKeepsBoards
  <1>4. ASSUME StopArchive PROVE BoardInv'
    <2>1. /\ UNCHANGED <<board, posted, archive, seed, booted, late, missed>>
          /\ archiver' = [step |-> "idle", todo |-> {}, done |-> {}, dump |-> Zero,
                          key |-> RankKey]
      BY <1>4 DEF StopArchive, NoJob, seedVars
    <2>2. PICK step \in {"idle"}, todo \in SUBSET BoardKeys, done \in SUBSET BoardKeys :
             step = "idle" /\ todo = {} /\ done = {}
      OBVIOUS
    <2> QED BY <2>1, <2>2, ArchiverKeepsBoards
  <1> QED BY <1>2, <1>3, <1>4, InsertKeepsBoards, DeleteKeepsBoards DEF ArchiveNext

LEMMA AddSumsKeepsBoards ==
    ASSUME BoardInv, AddSums PROVE BoardInv'
  <1>1. RankKey \in BoardKeys
    BY BoardsAssumption DEF BoardKeys
  <1> PICK row \in [Supports -> Nat] : row = board[RankKey]
    BY <1>1 DEF BoardInv, BoardShape
  <1>a. PICK added \in SUBSET seed.sums :
           /\ board' = [board EXCEPT ![RankKey] =
                           [s \in Supports |-> IF s \in added THEN @[s] + 1 ELSE @[s]]]
           /\ seed' = [seed EXCEPT !.sums = @ \ added]
    BY DEF AddSums
  <1>2. seed.step = "add" /\ UNCHANGED <<posted, archive, archiver, booted, late, missed>>
    BY DEF AddSums, archiveVars
  <1> PICK sums : sums = [s \in Supports |-> IF s \in added THEN row[s] + 1 ELSE row[s]]
    OBVIOUS
  <1>6. /\ booted /\ board' = [board EXCEPT ![RankKey] = sums]
        /\ seed' = [step |-> "add", sums |-> seed.sums \ added]
    BY <1>a, <1>2 DEF BoardInv, BoardShape
  <1>3. sums \in [Supports -> Nat] /\ \A s \in Supports : sums[s] >= row[s]
    OBVIOUS
  <1>4. BoardShape'
    <2>1. board' \in [BoardKeys -> [Supports -> Nat]]
      BY <1>3, <1>6 DEF BoardInv, BoardShape
    <2> QED BY <1>2, <1>6, <2>1 DEF BoardInv, BoardShape
  <1>5. ASSUME NEW k \in BoardKeys, NEW s \in Supports PROVE (KeptOf(k, s) /\ OnceOf(k, s))'
    <2>1. KeptOf(k, s) /\ OnceOf(k, s)
      BY DEF BoardInv
    <2>2. (Through(s, k)' <=> Through(s, k)) /\ (Owed(k, s)' <=> Owed(k, s))
      BY <1>2 DEF Through, Owed
    <2>3. board'[k] = IF k = RankKey THEN sums ELSE board[k]
      BY <1>6 DEF BoardInv, BoardShape
    <2>4. board[k][s] > 0 => board'[k][s] > 0
      BY <1>3, <2>3
    <2>5. k # RankKey => board'[k][s] = board[k][s]
      BY <2>3
    <2> QED BY <1>2, <1>6, <2>1, <2>2, <2>4, <2>5 DEF KeptOf, OnceOf
  <1> QED BY <1>4, <1>5 DEF BoardInv

LEMMA RankKeepsBoards ==
    ASSUME BoardInv, RankNext PROVE BoardInv'
  <1>1. ASSUME UNCHANGED <<board, posted, archive, archiver, late, missed>>,
               booted => booted', NEW step \in {"idle", "claim", "sum", "add"},
               step \in {"sum", "add"} => booted', NEW sums,
               seed' = [step |-> step, sums |-> sums]
        PROVE  BoardInv'
    <2>1. BoardShape'
      BY <1>1 DEF BoardInv, BoardShape
    <2>2. ASSUME NEW k \in BoardKeys, NEW s \in Supports PROVE (KeptOf(k, s) /\ OnceOf(k, s))'
      <3>1. KeptOf(k, s) /\ OnceOf(k, s)
        BY DEF BoardInv
      <3>2. (Through(s, k)' <=> Through(s, k)) /\ (Owed(k, s)' <=> Owed(k, s))
        BY <1>1 DEF Through, Owed
      <3> QED BY <1>1, <3>1, <3>2 DEF KeptOf, OnceOf
    <2> QED BY <2>1, <2>2 DEF BoardInv
  <1>2. ASSUME NEW from, NEW to \in {"idle", "claim", "sum", "add"}, Seed(from, to),
               UNCHANGED <<board, posted, archive, archiver, late, missed>>,
               booted => booted', to \in {"sum", "add"} => booted'
        PROVE  BoardInv'
    <2>1. PICK sums : sums = seed.sums
      OBVIOUS
    <2>2. seed' = [step |-> to, sums |-> sums]
      BY <1>2, <2>1 DEF BoardInv, BoardShape, Seed
    <2> QED BY <1>1, <1>2, <2>2
  <1>3. ASSUME FindEmpty PROVE BoardInv'
    <2>1. PICK from, to : from = "idle" /\ to = "claim"
      BY Zenon
    <2>2. to \in {"idle", "claim", "sum", "add"} /\ Seed(from, to)
      BY <1>3, <2>1 DEF FindEmpty
    <2> QED BY <1>2, <1>3, <2>1, <2>2 DEF FindEmpty, archiveVars
  <1>4. ASSUME TakeBoot PROVE BoardInv'
    <2>1. PICK from, to : from = "claim" /\ to = IF booted THEN "idle" ELSE "sum"
      BY Zenon
    <2>2. to \in {"idle", "claim", "sum", "add"} /\ Seed(from, to)
      BY <1>4, <2>1 DEF TakeBoot
    <2> QED BY <1>2, <1>4, <2>1, <2>2 DEF TakeBoot, archiveVars
  <1>5. ASSUME ReadSums PROVE BoardInv'
    <2>1. PICK step, sums : step = "add" /\ seed' = [step |-> step, sums |-> sums]
      BY <1>5 DEF ReadSums
    <2>3. step \in {"idle", "claim", "sum", "add"}
      BY <2>1
    <2>2. booted /\ booted' = booted
      BY <1>5 DEF BoardInv, BoardShape, ReadSums
    <2> QED BY <1>1, <1>5, <2>1, <2>2, <2>3 DEF ReadSums, archiveVars
  <1>6. ASSUME EndSeed PROVE BoardInv'
    <2>1. PICK step, sums : step = "idle" /\ sums = {}
      OBVIOUS
    <2>2. step \in {"idle", "claim", "sum", "add"} /\ step \notin {"sum", "add"}
      BY <2>1
    <2> QED BY <1>1, <1>6, <2>1, <2>2 DEF EndSeed, NoSeed, archiveVars
  <1> QED BY <1>3, <1>4, <1>5, <1>6, AddSumsKeepsBoards DEF RankNext

LEMMA BoardsStep ==
    ASSUME BoardInv, BoardsNext \/ UNCHANGED boardVars PROVE BoardInv'
  <1>1. CASE UNCHANGED boardVars
    <2>1. BoardShape'
      BY <1>1 DEF BoardInv, BoardShape, boardVars
    <2>2. ASSUME NEW k \in BoardKeys, NEW s \in Supports PROVE (KeptOf(k, s) /\ OnceOf(k, s))'
      BY <1>1 DEF BoardInv, KeptOf, OnceOf, Owed, Through, boardVars
    <2> QED BY <2>1, <2>2 DEF BoardInv
  <1> QED BY <1>1, IncrKeepsBoards, FailIncrKeepsBoards, ArchiveKeepsBoards, RankKeepsBoards
          DEF BoardsNext, PostBoards

(* In the whole back end what requests have added to a board is on it or in the *)
(* season's archive, whenever the season worker fails, stops or runs again *)
(* (season/archive.go, Run). *)
THEOREM ScoresOutliveSeasons == GameSpec => []SeasonScoresAreKept
  <1>1. GameInit => BoardInv
    BY BoardsStart DEF GameInit
  <1>2. BoardInv /\ [GameNext]_gameVars => BoardInv'
    <2>1. [GameNext]_gameVars => BoardsNext \/ UNCHANGED boardVars
      BY DEF GameNext, gameVars, effectVars, otherVars, SupportsNext, ServersNext, TribesNext,
             BoardsNext
    <2> QED BY <2>1, BoardsStep
  <1>3. BoardInv => SeasonScoresAreKept
    BY BoardsAreKept
  <1> QED BY <1>1, <1>2, <1>3, PTL DEF GameSpec

-----------------------------------------------------------------------------
(* The store's own argument, about the store of this state: the two instances of *)
(* module Store say the same, action by action. *)
LEMMA SameMoves ==
    ASSUME NEW u, NEW delta, NEW reason, NEW x
    PROVE  /\ Shop!Outcome(u, delta, reason, x) = ShopProofs!Outcome(u, delta, reason, x)
           /\ Shop!ApplyOnTx(u, delta, reason, x) <=> ShopProofs!ApplyOnTx(u, delta, reason, x)
  <1>1. Shop!KeyUsed(x) <=> ShopProofs!KeyUsed(x)
    BY DEF Shop!KeyUsed, ShopProofs!KeyUsed, Shop!RowsOf, ShopProofs!RowsOf
  <1>2. Shop!SameMovement(u, delta, reason, x) <=> ShopProofs!SameMovement(u, delta, reason, x)
    BY DEF Shop!SameMovement, ShopProofs!SameMovement, Shop!RowsOf, ShopProofs!RowsOf
  <1>3. Shop!Outcome(u, delta, reason, x) = ShopProofs!Outcome(u, delta, reason, x)
    BY <1>1, <1>2 DEF Shop!Outcome, ShopProofs!Outcome
  <1>4. Shop!Post(u, delta, balance[u] + delta, reason, x)
           <=> ShopProofs!Post(u, delta, balance[u] + delta, reason, x)
    BY DEF Shop!Post, ShopProofs!Post
  <1>5. Shop!ApplyOnTx(u, delta, reason, x) <=> ShopProofs!ApplyOnTx(u, delta, reason, x)
    BY <1>3, <1>4 DEF Shop!ApplyOnTx, ShopProofs!ApplyOnTx, Shop!walletVars,
                      ShopProofs!walletVars
  <1> QED BY <1>3, <1>5

LEMMA SameGrant ==
    ASSUME NEW b \in Buys, Shop!GrantVerified(b) PROVE ShopProofs!GrantVerified(b)
  <1> PICK x : x = buy[b].txn
    OBVIOUS
  <1> PICK u : u = buy[b].user
    OBVIOUS
  <1> PICK amount : amount = IF iap[x] = Nobody THEN buy[b].credits ELSE iap[x].credits
    OBVIOUS
  <1>1. /\ Shop!Outcome(u, amount, "purchase", x) = ShopProofs!Outcome(u, amount, "purchase", x)
        /\ Shop!ApplyOnTx(u, amount, "purchase", x)
              <=> ShopProofs!ApplyOnTx(u, amount, "purchase", x)
    BY SameMoves
  <1>2. \A step : Shop!BuyEnds(b, step) <=> ShopProofs!BuyEnds(b, step)
    BY DEF Shop!BuyEnds, ShopProofs!BuyEnds
  <1> QED BY <1>1, <1>2 DEF Shop!GrantVerified, ShopProofs!GrantVerified,
            Shop!walletVars, ShopProofs!walletVars, Shop!passVars, ShopProofs!passVars

LEMMA SameClaim ==
    ASSUME NEW c \in Claims, Shop!ClaimTiers(c) PROVE ShopProofs!ClaimTiers(c)
  <1> PICK u : u = claim[c].user
    OBVIOUS
  <1>1. Shop!Unclaimed(u) = ShopProofs!Unclaimed(u)
    BY DEF Shop!Unclaimed, ShopProofs!Unclaimed
  <1>2. \A step : Shop!ClaimEnds(c, step) <=> ShopProofs!ClaimEnds(c, step)
    BY DEF Shop!ClaimEnds, ShopProofs!ClaimEnds
  <1> PICK taken : taken = claim[c].due \cap Shop!Unclaimed(u)
    OBVIOUS
  <1>3. Shop!Paying(u, taken) = ShopProofs!Paying(u, taken)
    BY DEF Shop!Paying, ShopProofs!Paying
  <1>4. Shop!Refused(u, taken) = ShopProofs!Refused(u, taken)
    BY <1>3, SameMoves DEF Shop!Refused, ShopProofs!Refused
  <1>5. (\E t \in Shop!Paying(u, taken) :
             Shop!ApplyOnTx(u, Reward[t], "admin_adjust", TierKey[t]))
          <=> (\E t \in ShopProofs!Paying(u, taken) :
                  ShopProofs!ApplyOnTx(u, Reward[t], "admin_adjust", TierKey[t]))
    BY <1>3, SameMoves
  <1> QED BY <1>1, <1>2, <1>3, <1>4, <1>5 DEF Shop!ClaimTiers, ShopProofs!ClaimTiers,
            Shop!walletVars, ShopProofs!walletVars, Shop!buyVars, ShopProofs!buyVars

LEMMA ShopStep == ASSUME Shop!BuyNext \/ Shop!PassNext PROVE ShopProofs!StoreNext
  <1>1. ASSUME NEW b \in Buys, NEW u \in Users, NEW x \in Txns, Shop!VerifyAndGrant(b, u, x)
        PROVE ShopProofs!VerifyAndGrant(b, u, x)
    BY <1>1 DEF Shop!VerifyAndGrant, ShopProofs!VerifyAndGrant, Shop!walletVars,
           ShopProofs!walletVars, Shop!passVars, ShopProofs!passVars, Shop!ApplyBonus,
           ShopProofs!ApplyBonus
  <1>2. ASSUME NEW percent, Shop!Activate(percent) PROVE ShopProofs!Activate(percent)
    BY <1>2 DEF Shop!Activate, ShopProofs!Activate, Shop!walletVars, ShopProofs!walletVars,
                Shop!passVars, ShopProofs!passVars, Shop!ValidPromoPercent,
                ShopProofs!ValidPromoPercent, Shop!PromoMinPercent, ShopProofs!PromoMinPercent,
                Shop!PromoMaxPercent, ShopProofs!PromoMaxPercent
  <1>3. ASSUME Shop!Deactivate PROVE ShopProofs!Deactivate
    BY <1>3 DEF Shop!Deactivate, ShopProofs!Deactivate, Shop!walletVars,
                ShopProofs!walletVars, Shop!passVars, ShopProofs!passVars
  <1>4. ASSUME NEW u \in Users, Shop!EarnXP(u) PROVE ShopProofs!EarnXP(u)
    BY <1>4 DEF Shop!EarnXP, ShopProofs!EarnXP, Shop!walletVars, ShopProofs!walletVars,
                Shop!buyVars, ShopProofs!buyVars
  <1>5. ASSUME NEW c \in Claims, NEW u \in Users, Shop!ReadStatus(c, u)
        PROVE  ShopProofs!ReadStatus(c, u)
    <2>1. Shop!Eligible(u) = ShopProofs!Eligible(u) /\ Shop!Unclaimed(u) = ShopProofs!Unclaimed(u)
      BY DEF Shop!Eligible, ShopProofs!Eligible, Shop!Unclaimed, ShopProofs!Unclaimed
    <2> QED BY <1>5, <2>1 DEF Shop!ReadStatus, ShopProofs!ReadStatus, Shop!walletVars,
                              ShopProofs!walletVars, Shop!buyVars, ShopProofs!buyVars
  <1>6. CASE Shop!BuyNext
    <2>1. ShopProofs!BuyNext
      BY <1>1, <1>2, <1>3, <1>6, SameGrant DEF Shop!BuyNext, ShopProofs!BuyNext
    <2> QED BY <2>1 DEF ShopProofs!StoreNext
  <1>7. CASE Shop!PassNext
    <2>1. ShopProofs!PassNext
      BY <1>4, <1>5, <1>7, SameClaim DEF Shop!PassNext, ShopProofs!PassNext
    <2> QED BY <2>1 DEF ShopProofs!StoreNext
  <1> QED BY <1>6, <1>7

LEMMA SameGrants == ShopProofs!StoreGrantsOnce => Shop!StoreGrantsOnce
  BY DEF ShopProofs!StoreGrantsOnce, Shop!StoreGrantsOnce, ShopProofs!RowsOf, Shop!RowsOf,
     ShopProofs!KeyUsed, Shop!KeyUsed, ShopProofs!SameMovement, Shop!SameMovement,
     ShopProofs!BalanceMatchesLedger, Shop!BalanceMatchesLedger,
     ShopProofs!KeysMoveCreditsOnce, Shop!KeysMoveCreditsOnce

(* The store starts and moves as its own argument has it. *)
LEMMA ShopStarts ==
    ASSUME Shop!StoreInit PROVE ShopProofs!StoreInv /\ ShopProofs!StoreTyped
  <1>1. ShopProofs!StoreInit
    BY DEF Shop!StoreInit, ShopProofs!StoreInit, Shop!WalletInit, ShopProofs!WalletInit
  <1>2. ShopProofs!StoreAssumption
    BY ShopAssumption DEF Shop!StoreAssumption, ShopProofs!StoreAssumption
  <1> QED BY <1>1, <1>2, ShopProofs!StoreStarts, ShopProofs!StoreTypesStart

LEMMA ShopMoves ==
    ASSUME ShopProofs!StoreInv, GameNext \/ UNCHANGED gameVars
    PROVE  ShopProofs!StoreInv' /\ (ShopProofs!StoreTyped => ShopProofs!StoreTyped')
  <1>1. ShopProofs!StoreAssumption
    BY ShopAssumption DEF Shop!StoreAssumption, ShopProofs!StoreAssumption
  <1>2. ASSUME UNCHANGED shopVars PROVE UNCHANGED ShopProofs!storeVars
    BY <1>2 DEF shopVars, ShopProofs!storeVars, ShopProofs!buyVars, ShopProofs!passVars,
                ShopProofs!walletVars
  <1>3. ShopProofs!StoreNext \/ UNCHANGED ShopProofs!storeVars
    BY <1>2, ShopStep DEF GameNext, gameVars, otherVars
  <1> QED BY <1>1, <1>3, ShopProofs!StoreStep, ShopProofs!StoreTypesStep

(* In the whole back end a verified purchase is granted once, to one user, at the *)
(* price it was inserted with, and a paying tier pays its claimant once, whatever *)
(* requests, promotions and claims come between (iap.go, grantVerified; *)
(* battlepass.go, Claim). *)
THEOREM StorePaysOnce == GameSpec => []StoreGrantsOnce
  <1>1. GameInit => ShopProofs!StoreInv
    BY ShopStarts DEF GameInit
  <1>2. ShopProofs!StoreInv /\ [GameNext]_gameVars => ShopProofs!StoreInv'
    BY ShopMoves
  <1>3. ShopProofs!StoreInv => StoreGrantsOnce
    BY SameGrants, ShopProofs!StoreInvGrants DEF StoreGrantsOnce
  <1> QED BY <1>1, <1>2, <1>3, PTL DEF GameSpec

-----------------------------------------------------------------------------
(* The request of a support: the calls behind a commit come in one order. *)

LEMMA LeastNumber ==
  ASSUME NEW T \in SUBSET Nat, T # {}
  PROVE  \E n \in T : \A m \in T : n <= m
  <1> DEFINE R == OpToRel(<, Nat)
  <1>1. IsWellFoundedOn(R, Nat)
    BY NatLessThanWellFounded
  <1>2. \A m, n \in Nat : m < n => <<m, n>> \in R
    <2>1. R = {ss \in Nat \X Nat : ss[1] < ss[2]}
      BY DEF OpToRel
    <2> QED BY <2>1
  <1> HIDE DEF R
  <1>3. PICK n \in T : \A m \in T : ~ (<<m, n>> \in R)
    BY <1>1, WFMin
  <1>4. ASSUME NEW m \in T
        PROVE  n <= m
    <2>1. m \in Nat /\ n \in Nat
      BY <1>4
    <2>2. ~ (m < n)
      BY <1>2, <1>3, <2>1
    <2> QED BY <2>1, <2>2
  <1> QED BY <1>4

LEMMA Placing ==
    /\ \A c \in Calls_ : Place(c) \in 1..12 /\ Order[Place(c)] = c
    /\ \A c, d \in Calls_ : Place(c) = Place(d) => c = d
  <1>1. DOMAIN Order = 1..12
    BY DEF Order
  <1>2. ASSUME NEW c \in Calls_ PROVE Place(c) \in 1..12 /\ Order[Place(c)] = c
    <2>1. \E i \in DOMAIN Order : Order[i] = c
      BY DEF Calls_
    <2>2. Place(c) \in DOMAIN Order /\ Order[Place(c)] = c
      BY <2>1 DEF Place
    <2> QED BY <1>1, <2>2
  <1> QED BY <1>2

LEMMA CallNames ==
    /\ "requested" \notin Calls_ /\ "done" \notin Calls_
    /\ {"control", "support_event", "flip_event", "feed", "momentum", "boards", "xp",
        "streak", "threats", "lead", "first", "streaks"} = Calls_
  <1>1. DOMAIN Order = 1..12
    BY DEF Order
  <1>2. \A c : c \in Calls_ <=> \E i \in 1..12 : Order[i] = c
    BY <1>1 DEF Calls_
  <1>3. /\ Order[1] = "control" /\ Order[2] = "support_event" /\ Order[3] = "flip_event"
        /\ Order[4] = "feed" /\ Order[5] = "momentum" /\ Order[6] = "boards"
        /\ Order[7] = "xp" /\ Order[8] = "streak" /\ Order[9] = "threats"
        /\ Order[10] = "lead" /\ Order[11] = "first" /\ Order[12] = "streaks"
    BY DEF Order
  <1>4. \A i \in 1..12 : i = 1 \/ i = 2 \/ i = 3 \/ i = 4 \/ i = 5 \/ i = 6 \/ i = 7 \/ i = 8
                        \/ i = 9 \/ i = 10 \/ i = 11 \/ i = 12
    OBVIOUS
  <1> HIDE DEF Order
  <1>5. \A c : c \in Calls_ <=> c \in {"control", "support_event", "flip_event", "feed",
            "momentum", "boards", "xp", "streak", "threats", "lead", "first", "streaks"}
    BY <1>2, <1>3, <1>4
  <1> QED BY <1>5

(* The first of some calls is one of them, and none of them is before it. *)
LEMMA FirstCall ==
    ASSUME NEW calls \in SUBSET Calls_
    PROVE  /\ calls = {} => First(calls) = "done"
           /\ calls # {} => /\ First(calls) \in calls /\ First(calls) \in Calls_
                            /\ \A d \in calls : Place(First(calls)) <= Place(d)
  <1>1. CASE calls = {}
    BY <1>1 DEF First
  <1>2. CASE calls # {}
    <2> DEFINE Spots == {Place(c) : c \in calls}
    <2>1. Spots \in SUBSET Nat /\ Spots # {}
      BY <1>2, Placing
    <2>2. PICK n \in Spots : \A m \in Spots : n <= m
      <3> HIDE DEF Spots
      <3> QED BY <2>1, LeastNumber
    <2>3. PICK c \in calls : Place(c) = n
      BY <2>2
    <2>4. \A d \in calls : Place(c) <= Place(d)
      BY <2>2, <2>3
    <2> QED BY <1>2, <2>4 DEF First
  <1> QED BY <1>1, <1>2

PipeShape ==
    /\ stage \in [Supports -> Calls_ \cup {"requested", "done"}]
    /\ effects \subseteq Calls_
    /\ commits \in Seq([by : Supports, left : [Tribes -> Nat]])

(* The commits name the committed supports, each once. *)
CommitsNamed ==
    /\ \A i \in DOMAIN commits : stage[commits[i].by] # "requested"
    /\ \A i, j \in DOMAIN commits : commits[i].by = commits[j].by => i = j

(* What a request's progress row says of its stage. *)
StepShape(row) ==
    /\ row = [call |-> row.call, step |-> row.step, read |-> row.read, new |-> row.new]
    /\ row.step \in {"select", "insert", "open", "reward"} => row.call \in QuestStages
    /\ row.step = "create" => row.call = "first"

PipeInv ==
    /\ PipeShape /\ CommitsNamed
    /\ place = [s \in Supports |-> place[s]] /\ \A s \in Supports : StepShape(place[s])

LEMMA PipeStarts ==
    ASSUME NEW acting \in SUBSET Calls_, NEW supports, PipelineInit(acting, supports), ProgressInit
    PROVE  PipeInv
  <1>1. PipeShape /\ CommitsNamed
    BY DEF PipelineInit, PipeShape, CommitsNamed
  <1>2. StepShape(Fresh)
    BY DEF StepShape, Fresh
  <1> QED BY <1>1, <1>2 DEF ProgressInit, PipeInv

(* A request in a call goes on to the next that acts, or is done. *)
LEMMA NextCall ==
    ASSUME PipeShape, NEW s \in Supports, stage[s] \in Calls_
    PROVE  /\ First(Behind(s)) \in effects \cup {"done"}
           /\ First(Behind(s)) # "done" => Place(First(Behind(s))) > Place(stage[s])
           /\ \A c \in CallsOf(s \in flips) : Place(c) > Place(stage[s]) =>
                 First(Behind(s)) # "done" /\ Place(First(Behind(s))) <= Place(c)
  <1>1. Behind(s) \subseteq Calls_ /\ Behind(s) \subseteq effects
    BY DEF Behind, CallsOf, PipeShape
  <1>2. \A c \in CallsOf(s \in flips) : Place(c) > Place(stage[s]) => c \in Behind(s)
    BY DEF Behind
  <1>3. CASE Behind(s) = {}
    BY <1>2, <1>3, FirstCall
  <1>4. CASE Behind(s) # {}
    <2>1. First(Behind(s)) \in Behind(s) /\ \A d \in Behind(s) : Place(First(Behind(s))) <= Place(d)
      BY <1>1, <1>4, FirstCall
    <2>2. Place(First(Behind(s))) > Place(stage[s])
      BY <2>1 DEF Behind
    <2>3. First(Behind(s)) # "done"
      BY <1>1, <2>1, CallNames
    <2> QED BY <1>1, <1>2, <2>1, <2>2, <2>3
  <1> QED BY <1>3, <1>4
LEMMA CommitsShaped ==
    ASSUME PipeShape, NEW i \in DOMAIN commits
    PROVE  /\ i \in 1..Len(commits) /\ Len(commits) \in Nat
           /\ commits[i].by \in Supports /\ commits[i].left \in [Tribes -> Nat]
  <1>0. PICK R : R = [by : Supports, left : [Tribes -> Nat]]
    OBVIOUS
  <1>1. commits \in Seq(R)
    BY <1>0 DEF PipeShape
  <1>2. i \in 1..Len(commits) /\ Len(commits) \in Nat
    BY <1>1
  <1>3. commits[i] \in R
    BY <1>1, <1>2
  <1> QED BY <1>0, <1>2, <1>3

(* Which scores a commit has left does not depend on later ones. *)
LEMMA ScoresShaped ==
    ASSUME PipeShape
    PROVE  /\ Scores \in [Tribes -> Nat] /\ Len(commits) \in Nat
           /\ \A n \in 0..Len(commits) : ScoresAfter(n) \in [Tribes -> Nat]
  <1>1. Len(commits) \in Nat /\ DOMAIN commits = 1..Len(commits)
    BY DEF PipeShape
  <1>2. ASSUME NEW n \in 0..Len(commits) PROVE ScoresAfter(n) \in [Tribes -> Nat]
    <2>1. CASE n = 0
      BY <2>1, PipelineAssumption DEF ScoresAfter, Tribes
    <2>2. CASE n # 0
      <3>1. n \in DOMAIN commits
        BY <1>1, <2>2
      <3> QED BY <2>2, <3>1, CommitsShaped DEF ScoresAfter
    <2> QED BY <2>1, <2>2
  <1>3. Scores \in [Tribes -> Nat]
    <2> PICK n : n = Len(commits)
      OBVIOUS
    <2>1. ScoresAfter(n) \in [Tribes -> Nat]
      BY <1>1, <1>2
    <2> QED BY <2>1 DEF Scores
  <1> QED BY <1>1, <1>2, <1>3

LEMMA CommitAppends ==
    ASSUME PipeInv, NEW s \in Supports, CommitSupport(s)
    PROVE  /\ commits' \in Seq([by : Supports, left : [Tribes -> Nat]])
           /\ Len(commits') = Len(commits) + 1 /\ Len(commits) \in Nat
           /\ \A i \in 1..Len(commits) : commits'[i] = commits[i]
           /\ commits'[Len(commits) + 1].by = s
           /\ Scores \in [Tribes -> Nat]
           /\ commits'[Len(commits) + 1].left = [Scores EXCEPT ![SideOf[s]] = @ + Worth[s]]
  <1>1. PICK left : left = [Scores EXCEPT ![SideOf[s]] = @ + Worth[s]]
    OBVIOUS
  <1>2. commits' = Append(commits, [by |-> s, left |-> left])
    BY <1>1 DEF CommitSupport
  <1>3. Scores \in [Tribes -> Nat]
    BY ScoresShaped DEF PipeInv
  <1>4. left \in [Tribes -> Nat]
    BY <1>1, <1>3, PipelineAssumption DEF Tribes
  <1> QED BY <1>1, <1>2, <1>3, <1>4 DEF PipeInv, PipeShape

LEMMA CommitFlips ==
    ASSUME PipeInv, NEW s \in Supports, CommitSupport(s)
    PROVE  /\ \A n \in 0..Len(commits) : ScoresAfter(n)' = ScoresAfter(n)
           /\ \A i \in DOMAIN commits : Flipped(i)' <=> Flipped(i)
           /\ s \notin flips /\ \A t \in Supports \ {s} : t \in flips' <=> t \in flips
           /\ s \in flips' <=> Leader([Scores EXCEPT ![SideOf[s]] = @ + Worth[s]]) # Leader(Scores)
  <1> PICK n : n = Len(commits)
    OBVIOUS
  <1>1. n \in Nat /\ Len(commits') = n + 1 /\ DOMAIN commits = 1..n /\ DOMAIN commits' = 1..(n + 1)
    <2>1. commits \in Seq([by : Supports, left : [Tribes -> Nat]])
      BY DEF PipeInv, PipeShape
    <2>2. /\ commits' \in Seq([by : Supports, left : [Tribes -> Nat]])
          /\ Len(commits') = Len(commits) + 1
      BY CommitAppends
    <2> QED BY <2>1, <2>2
  <1>0. \A i \in 1..n : commits'[i] = commits[i]
    BY CommitAppends
  <1>2. ASSUME NEW m \in 0..n PROVE ScoresAfter(m)' = ScoresAfter(m)
    <2>1. m = 0 \/ m \in 1..n
      BY <1>1
    <2> QED BY <1>0, <2>1 DEF ScoresAfter
  <1>3. \A i \in 1..n : Flipped(i)' <=> Flipped(i)
    BY <1>1, <1>2 DEF Flipped, Leader
  <1>4. Flipped(n + 1)' <=> Leader([Scores EXCEPT ![SideOf[s]] = @ + Worth[s]]) # Leader(Scores)
    <2>1. ScoresAfter(n + 1)' = [Scores EXCEPT ![SideOf[s]] = @ + Worth[s]]
      <3>1. n + 1 # 0 /\ commits'[n + 1].left = [Scores EXCEPT ![SideOf[s]] = @ + Worth[s]]
        BY <1>1, CommitAppends
      <3> QED BY <3>1 DEF ScoresAfter
    <2>2. ScoresAfter((n + 1) - 1)' = Scores
      <3>1. (n + 1) - 1 = n /\ n \in 0..n
        BY <1>1
      <3>2. ScoresAfter(n)' = ScoresAfter(n)
        BY <1>2, <3>1
      <3>3. ScoresAfter((n + 1) - 1)' = ScoresAfter(n)'
        BY <3>1
      <3> QED BY <3>2, <3>3 DEF Scores
    <2> QED BY <1>1, <2>1, <2>2 DEF Flipped, Leader
  <1>5. \A i \in 1..n : commits[i].by # s
    BY <1>1 DEF PipeInv, CommitsNamed, CommitSupport
  <1>6. \A t : t \in flips <=> \E i \in 1..n : Flipped(i) /\ commits[i].by = t
    BY <1>1 DEF flips
  <1>7. \A t : t \in flips' <=> \E i \in 1..(n + 1) : Flipped(i)' /\ commits'[i].by = t
    BY <1>1 DEF flips
  <1>8. s \notin flips
    BY <1>5, <1>6
  <1>9. \A i \in 1..n : commits'[i].by = commits[i].by
    BY CommitAppends
  <1>10. commits'[n + 1].by = s
    BY CommitAppends
  <1>11. \A i \in 1..(n + 1) : i \in 1..n \/ i = n + 1
    BY <1>1
  <1>12. \A t \in Supports \ {s} : t \in flips' <=> t \in flips
    BY <1>1, <1>3, <1>6, <1>7, <1>9, <1>10, <1>11
  <1>13. s \in flips' <=> Flipped(n + 1)'
    <2>1. n + 1 \in 1..(n + 1)
      BY <1>1
    <2>2. \A i \in 1..n : commits'[i].by # s
      BY <1>5, <1>9
    <2> QED BY <1>7, <1>10, <1>11, <2>1, <2>2
  <1> QED BY <1>1, <1>2, <1>3, <1>4, <1>8, <1>12, <1>13

(* A commit, seen from the calls. *)
LEMMA CommitSteps ==
    ASSUME PipeInv, NEW s \in Supports, CommitSupport(s)
    PROVE  /\ s \notin Committed /\ UNCHANGED <<skipped, effects, asked, faults>>
           /\ stage'[s] \in effects \cup {"done"}
           /\ stage' = [stage EXCEPT ![s] = stage'[s]]
           /\ Committed' = Committed \cup {s}
           /\ \A c \in CallsOf(s \in flips)' : stage'[s] # "done" /\ Place(stage'[s]) <= Place(c)
  <1> DEFINE left == [Scores EXCEPT ![SideOf[s]] = @ + Worth[s]]
  <1> PICK calls : calls = CallsOf(Leader(left) # Leader(Scores))
    OBVIOUS
  <1>1. stage[s] = "requested" /\ stage' = [stage EXCEPT ![s] = First(calls)]
    BY DEF CommitSupport
  <1>2. UNCHANGED <<skipped, effects, asked, faults>>
    BY DEF CommitSupport
  <1>3. calls = CallsOf(s \in flips)'
    BY <1>2, CommitFlips DEF CallsOf
  <1>4. calls \subseteq effects /\ calls \subseteq Calls_
    BY DEF CallsOf, PipeInv, PipeShape
  <1>5. First(calls) \in effects \cup {"done"} /\ First(calls) # "requested"
    BY <1>4, FirstCall, CallNames DEF PipeInv, PipeShape
  <1>6. \A c \in calls : First(calls) # "done" /\ Place(First(calls)) <= Place(c)
    BY <1>4, FirstCall, CallNames
  <1>7. \A t \in Supports : stage'[t] = IF t = s THEN First(calls) ELSE stage[t]
    BY <1>1 DEF PipeInv, PipeShape
  <1>8. Committed' = Committed \cup {s} /\ s \notin Committed
    BY <1>1, <1>5, <1>7 DEF Committed
  <1> QED BY <1>1, <1>2, <1>3, <1>5, <1>6, <1>7, <1>8

(* The end of a call, made or not, seen from the calls. *)
LEMMA MovesOn ==
    ASSUME PipeInv, NEW s \in Supports, stage[s] \in Calls_,
           stage' = [stage EXCEPT ![s] = First(Behind(s))], UNCHANGED <<commits, effects>>
    PROVE  /\ PipeShape' /\ CommitsNamed' /\ flips' = flips /\ Committed' = Committed
           /\ \A t \in Supports \ {s} : stage'[t] = stage[t]
           /\ stage'[s] \in effects \cup {"done"} /\ stage'[s] # stage[s]
           /\ \A c \in CallsOf(s \in flips) : Passed(s, c)' <=> Passed(s, c) \/ c = stage[s]
           /\ \A c \in Calls_ : \A t \in Supports : Passed(t, c) => Passed(t, c)'
           /\ \A c \in Calls_ : \A t \in Supports \ {s} : Passed(t, c)' <=> Passed(t, c)
  <1> PICK next : next = First(Behind(s))
    OBVIOUS
  <1>1. /\ next \in effects \cup {"done"}
        /\ next # "done" => Place(next) > Place(stage[s])
        /\ \A c \in CallsOf(s \in flips) : Place(c) > Place(stage[s]) =>
              next # "done" /\ Place(next) <= Place(c)
    BY NextCall DEF PipeInv
  <1>2. next # "requested" /\ next \in Calls_ \cup {"done"}
    BY <1>1, CallNames DEF PipeInv, PipeShape
  <1>3. \A t \in Supports : stage'[t] = IF t = s THEN next ELSE stage[t]
    BY DEF PipeInv, PipeShape
  <1>4. stage[s] # "requested" /\ stage[s] # "done"
    BY CallNames
  <1>5. Committed' = Committed /\ s \in Committed
    BY <1>2, <1>3, <1>4 DEF Committed
  <1>6. PipeShape' /\ flips' = flips
    <2>1. stage' \in [Supports -> Calls_ \cup {"requested", "done"}]
      BY <1>2 DEF PipeInv, PipeShape
    <2>2. flips' = flips
      BY DEF flips, Flipped, ScoresAfter, Leader
    <2> QED BY <2>1, <2>2 DEF PipeInv, PipeShape
  <1>7. CommitsNamed'
    <2>1. \A i \in DOMAIN commits : commits[i].by \in Supports
      BY CommitsShaped DEF PipeInv
    <2> QED BY <1>2, <1>3, <2>1 DEF PipeInv, CommitsNamed
  <1>8. \A c \in Calls_ : Place(c) \in Nat
    BY Placing
  <1>9. \A c \in Calls_ : c # stage[s] => Place(c) # Place(stage[s])
    BY Placing
  <1>10. \A c \in Calls_ : Passed(s, c)' <=> next = "done" \/ Place(c) < Place(next)
    BY <1>3, <1>5 DEF Passed
  <1>11. \A c \in Calls_ : Passed(s, c) <=> Place(c) < Place(stage[s])
    BY <1>4, <1>5 DEF Passed
  <1>12. CallsOf(s \in flips) \subseteq Calls_
    BY DEF CallsOf, PipeInv, PipeShape
  <1>13. ASSUME NEW c \in CallsOf(s \in flips)
         PROVE  Passed(s, c)' <=> Passed(s, c) \/ c = stage[s]
    BY <1>1, <1>2, <1>8, <1>9, <1>10, <1>11, <1>12
  <1>14. \A c \in Calls_ : Passed(s, c) => Passed(s, c)'
    BY <1>1, <1>2, <1>8, <1>10, <1>11
  <1>15. \A c \in Calls_ : \A t \in Supports \ {s} : Passed(t, c)' <=> Passed(t, c)
    BY <1>3, <1>5 DEF Passed
  <1>16. next # stage[s]
    BY <1>1, <1>2, <1>4, <1>8
  <1> QED BY <1>1, <1>3, <1>5, <1>6, <1>7, <1>13, <1>14, <1>15, <1>16
(* Who passes a call: the modules that follow it. *)
LEMMA ProgressPasses ==
    ASSUME PipeInv, ProgressNext
    PROVE  \/ UNCHANGED pipelineVars
           \/ \E s \in Supports, d \in {"xp", "streak", "first", "streaks"} : Pass(s, d)
  <1> PICK s \in Supports :
         \/ AwardXP(s) \/ SelectQuest(s) \/ InsertQuest(s) \/ CommitQuest(s)
         \/ RewardQuest(s) \/ CountSupports(s) \/ CreateFirst(s) \/ MintStreak(s)
    BY DEF ProgressNext
  <1>1. StepShape(place[s])
    BY DEF PipeInv
  <1>2. StepOf(s) \in {"insert", "open", "reward"} => stage[s] \in QuestStages
    BY <1>1 DEF StepOf, StepShape
  <1>3. StepOf(s) = "create" => stage[s] = "first"
    BY <1>1 DEF StepOf, StepShape
  <1>4. \/ UNCHANGED pipelineVars
        \/ Pass(s, stage[s]) /\ stage[s] \in QuestStages \cup {"first", "streaks"}
    BY <1>2, <1>3 DEF AwardXP, SelectQuest, InsertQuest, CommitQuest, RewardQuest, CountSupports,
                      CreateFirst, MintStreak, Leave, Stay
  <1> QED BY <1>4 DEF QuestStages

LEMMA DetectPasses ==
    ASSUME DetectNext
    PROVE  \/ UNCHANGED pipelineVars
           \/ \E s \in Supports, d \in AlertStages : Pass(s, d)
  <1>1. ASSUME NEW s \in Supports, ClearCooldown(s)
        PROVE  \E t \in Supports, d \in AlertStages : Pass(t, d)
    BY <1>1 DEF ClearCooldown, AlertStages
  <1>2. ASSUME NEW s \in Supports, NEW d \in AlertStages,
               Detect(s, d) \/ TryCooldown(s, d) \/ Enqueue(s, d)
        PROVE  UNCHANGED pipelineVars \/ Pass(s, d)
    BY <1>2 DEF Detect, TryCooldown, Enqueue, Settle
  <1> QED BY <1>1, <1>2 DEF DetectNext

LEMMA BoardsPass ==
    ASSUME PostBoards
    PROVE  UNCHANGED pipelineVars \/ \E s \in Supports : Pass(s, "boards")
  BY DEF PostBoards, Incr, FailIncr, PostNext

LEMMA PublishPasses ==
    ASSUME PublishNext
    PROVE  \E s \in Supports, d \in {"support_event", "flip_event", "feed"} : Pass(s, d)
  BY DEF PublishNext, PublishSupport, PublishFlip, PublishFeed

LEMMA InvalidatePasses ==
    ASSUME InvalidateNext PROVE \E s \in Supports, c \in Caches : Pass(s, c)
  BY DEF InvalidateNext, Invalidate

(* What a step of the whole back end is for the requests: a commit, a failure or *)
(* an early end, or the end of a call, by the module that follows the call. *)
LEMMA PipelineMoves ==
    ASSUME PipeInv, GameNext \/ UNCHANGED gameVars
    PROVE  \/ UNCHANGED pipelineVars
           \/ RequestNext
           \/ \E s \in Supports, d \in Calls_ : Pass(s, d)
  <1>2. CASE SupportsNext
    <2>1. CASE InvalidateNext
      BY <2>1, InvalidatePasses, CallNames DEF Caches
    <2>2. CASE ProgressNext
      BY <2>2, ProgressPasses, CallNames
    <2>3. CASE PostBoards
      BY <2>3, BoardsPass, CallNames
    <2>4. CASE DetectNext
      BY <2>4, DetectPasses, CallNames DEF AlertStages
    <2>5. CASE PublishNext
      BY <2>5, PublishPasses, CallNames
    <2> QED BY <1>2, <2>1, <2>2, <2>3, <2>4, <2>5 DEF SupportsNext
  <1>3. CASE ServersNext
    <2>1. ASSUME ArchiveNext \/ RankNext PROVE UNCHANGED pipelineVars
      BY <2>1 DEF ArchiveNext, RankNext
    <2>2. ASSUME PushNext PROVE UNCHANGED pipelineVars
      BY <2>2 DEF PushNext
    <2> QED BY <1>3, <2>1, <2>2 DEF ServersNext
  <1>4. CASE ~SupportsNext /\ ~ServersNext
    BY <1>4 DEF GameNext, gameVars
  <1> QED BY <1>2, <1>3, <1>4

(* Who moves the progress rows. *)
LEMMA PlacesMove ==
    ASSUME PipeInv, GameNext \/ UNCHANGED gameVars PROVE UNCHANGED place \/ ProgressNext
  BY DEF GameNext, gameVars, effectVars, otherVars, progressVars, SupportsNext, ServersNext,
         TribesNext

LEMMA StepsKeepPlaces ==
    ASSUME PipeInv, ProgressNext
    PROVE  place' = [s \in Supports |-> place'[s]] /\ \A s \in Supports : StepShape(place'[s])
  <1> PICK s \in Supports :
         \/ AwardXP(s) \/ SelectQuest(s) \/ InsertQuest(s) \/ CommitQuest(s)
         \/ RewardQuest(s) \/ CountSupports(s) \/ CreateFirst(s) \/ MintStreak(s)
    BY DEF ProgressNext
  <1>1. ASSUME NEW row, StepShape(row), place' = [place EXCEPT ![s] = row]
        PROVE  /\ place' = [t \in Supports |-> place'[t]]
               /\ \A t \in Supports : StepShape(place'[t])
    BY <1>1 DEF PipeInv
  <1>2. StepShape(Fresh)
    BY DEF StepShape, Fresh
  <1>3. CASE Leave(s)
    BY <1>1, <1>2, <1>3 DEF Leave
  <1>4. ASSUME NEW step, NEW read, NEW new, Stay(s, step, read, new),
               step \in {"select", "insert", "open", "reward"} => stage[s] \in QuestStages,
               step = "create" => stage[s] = "first"
        PROVE  /\ place' = [t \in Supports |-> place'[t]]
               /\ \A t \in Supports : StepShape(place'[t])
    <2> PICK row : row = [call |-> stage[s], step |-> step, read |-> read, new |-> new]
      OBVIOUS
    <2>1. StepShape(row)
      BY <1>4 DEF StepShape
    <2>2. place' = [place EXCEPT ![s] = row]
      BY <1>4 DEF Stay
    <2> QED BY <1>1, <2>1, <2>2
  <1>5. StepShape(place[s])
    BY DEF PipeInv
  <1>6. StepOf(s) \in {"insert", "open", "reward"} => stage[s] \in QuestStages
    BY <1>5 DEF StepOf, StepShape
  <1>7. CASE AwardXP(s)
    BY <1>4, <1>7 DEF AwardXP
  <1>8. CASE SelectQuest(s) /\ ~Leave(s)
    <2> PICK read : read = RowOf(s).progress
      OBVIOUS
    <2>1. Stay(s, "insert", 0, FALSE) \/ Stay(s, "open", read, FALSE)
      BY <1>8 DEF SelectQuest
    <2>2. stage[s] \in QuestStages
      BY <1>8 DEF SelectQuest
    <2> QED BY <1>4, <2>1, <2>2
  <1>9. CASE InsertQuest(s) /\ ~Leave(s)
    <2>1. Stay(s, "open", 0, TRUE) /\ stage[s] \in QuestStages
      BY <1>6, <1>9 DEF InsertQuest
    <2> QED BY <1>4, <2>1
  <1>10. CASE CommitQuest(s) /\ ~Leave(s)
    <2>1. Stay(s, "reward", 0, FALSE) /\ stage[s] \in QuestStages
      BY <1>6, <1>10 DEF CommitQuest
    <2> QED BY <1>4, <2>1
  <1>11. CASE CountSupports(s) /\ ~Leave(s)
    <2>1. Stay(s, "create", 0, FALSE) /\ stage[s] = "first"
      BY <1>11 DEF CountSupports
    <2> QED BY <1>4, <2>1
  <1> QED BY <1>3, <1>7, <1>8, <1>9, <1>10, <1>11 DEF RewardQuest, CreateFirst, MintStreak

LEMMA PipeStep ==
    ASSUME PipeInv, GameNext \/ UNCHANGED gameVars PROVE PipeInv'
  <1>1. place' = [s \in Supports |-> place'[s]] /\ \A s \in Supports : StepShape(place[s])'
    <2>1. CASE UNCHANGED place
      BY <2>1 DEF PipeInv
    <2>2. \A s \in Supports : StepShape(place'[s]) <=> StepShape(place[s])'
      BY DEF StepShape
    <2> QED BY <2>1, <2>2, PlacesMove, StepsKeepPlaces
  <1>2. PipeShape' /\ CommitsNamed'
    <2>1. CASE UNCHANGED pipelineVars
      BY <2>1 DEF pipelineVars, PipeInv, PipeShape, CommitsNamed
    <2>2. ASSUME NEW s \in Supports, NEW d \in Calls_, Pass(s, d)
          PROVE  PipeShape' /\ CommitsNamed'
      BY <2>2, MovesOn DEF Pass
    <2>3. ASSUME NEW s \in Supports, CommitSupport(s) PROVE PipeShape' /\ CommitsNamed'
      <3>1. /\ stage' = [stage EXCEPT ![s] = stage'[s]]
            /\ stage'[s] \in Calls_ \cup {"done"} /\ stage'[s] # "requested"
            /\ effects' = effects /\ stage[s] = "requested"
        BY <2>3, CommitSteps, CallNames DEF PipeInv, PipeShape, CommitSupport
      <3>2. PipeShape'
        BY <2>3, <3>1, CommitAppends DEF PipeInv, PipeShape
      <3>3. /\ DOMAIN commits' = 1..(Len(commits) + 1) /\ DOMAIN commits = 1..Len(commits)
            /\ Len(commits) \in Nat
        <4>1. /\ commits' \in Seq([by : Supports, left : [Tribes -> Nat]])
              /\ Len(commits') = Len(commits) + 1 /\ Len(commits) \in Nat
          BY <2>3, CommitAppends
        <4>2. commits \in Seq([by : Supports, left : [Tribes -> Nat]])
          BY DEF PipeInv, PipeShape
        <4> QED BY <4>1, <4>2
      <3>4. \A i \in DOMAIN commits : commits'[i] = commits[i] /\ commits[i].by # s
                                      /\ commits[i].by \in Supports
        <4>1. \A i \in 1..Len(commits) : commits'[i] = commits[i]
          BY <2>3, CommitAppends
        <4>2. \A i \in DOMAIN commits : stage[commits[i].by] # "requested"
          BY DEF PipeInv, CommitsNamed
        <4>3. \A i \in DOMAIN commits : commits[i].by \in Supports
          BY CommitsShaped DEF PipeInv
        <4> QED BY <3>1, <3>3, <4>1, <4>2, <4>3
      <3>5. commits'[Len(commits) + 1].by = s
        BY <2>3, CommitAppends
      <3>6. \A i \in DOMAIN commits' : i \in DOMAIN commits \/ i = Len(commits) + 1
        BY <3>3
      <3>7. \A t \in Supports : stage'[t] = IF t = s THEN stage'[s] ELSE stage[t]
        BY <3>1 DEF PipeInv, PipeShape
      <3>8. CommitsNamed'
        BY <3>1, <3>4, <3>5, <3>6, <3>7 DEF PipeInv, CommitsNamed
      <3> QED BY <3>2, <3>8
    <2>4. ASSUME NEW s \in Supports, Skip(s) PROVE PipeShape' /\ CommitsNamed'
      <3>1. stage[s] \in Calls_
        BY <2>4 DEF Skip, Ongoing, Committed, PipeInv, PipeShape
      <3> QED BY <2>4, <3>1, MovesOn DEF Skip
    <2>5. ASSUME NEW s \in Supports, BreakOff(s) PROVE PipeShape' /\ CommitsNamed'
      <3>1. \A t \in Supports : stage'[t] = IF t = s THEN "done" ELSE stage[t]
        BY <2>5 DEF BreakOff, PipeInv, PipeShape
      <3>2. PipeShape'
        BY <2>5 DEF BreakOff, PipeInv, PipeShape
      <3>3. CommitsNamed'
        BY <2>5, <3>1, CommitsShaped DEF BreakOff, PipeInv, CommitsNamed
      <3> QED BY <3>2, <3>3
    <2> QED BY <2>1, <2>2, <2>3, <2>4, <2>5, PipelineMoves DEF RequestNext
  <1> QED BY <1>1, <1>2 DEF PipeInv
(* No call d is newly made in a step that does not end one: a support that has made *)
(* it was there before and had made it. *)
LEMMA NobodyMakes ==
    ASSUME PipeInv, NEW d \in Calls_,
           \/ UNCHANGED pipelineVars
           \/ RequestNext
           \/ \E s \in Supports, e \in Calls_ \ {d} : Pass(s, e)
    PROVE  /\ Committed \subseteq Committed'
           /\ flips \subseteq flips' /\ \A t \in Committed : t \in flips' => t \in flips
           /\ \A t \in Committed' : Made(t, d)' /\ d \in CallsOf(t \in flips)' =>
                 t \in Committed /\ Made(t, d)
  <1>1. CASE UNCHANGED pipelineVars
    BY <1>1 DEF pipelineVars, Committed, flips, Flipped, ScoresAfter, Leader, Made, Passed, CallsOf
  <1>2. ASSUME NEW s \in Supports, NEW e \in Calls_ \ {d}, Pass(s, e)
        PROVE  /\ flips' = flips /\ Committed' = Committed
               /\ \A t \in Committed' : Made(t, d)' /\ d \in CallsOf(t \in flips)' =>
                     t \in Committed /\ Made(t, d)
    <2>1. stage[s] = e /\ UNCHANGED <<commits, effects, skipped>>
          /\ stage' = [stage EXCEPT ![s] = First(Behind(s))]
      BY <1>2 DEF Pass
    <2>2. /\ flips' = flips /\ Committed' = Committed
          /\ \A c \in CallsOf(s \in flips) : Passed(s, c)' <=> Passed(s, c) \/ c = stage[s]
          /\ \A c \in Calls_ : \A t \in Supports \ {s} : Passed(t, c)' <=> Passed(t, c)
      BY <2>1, MovesOn
    <2>3. \A t : CallsOf(t \in flips)' = CallsOf(t \in flips)
      BY <2>1, <2>2 DEF CallsOf
    <2>4. Committed \subseteq Supports
      BY DEF Committed
    <2> QED BY <2>1, <2>2, <2>3, <2>4 DEF Made
  <1>3. ASSUME NEW s \in Supports, CommitSupport(s)
        PROVE  /\ flips \subseteq flips' /\ Committed' = Committed \cup {s} /\ s \notin Committed
               /\ \A t \in Committed : t \in flips' => t \in flips
               /\ \A t \in Committed' : Made(t, d)' /\ d \in CallsOf(t \in flips)' =>
                     t \in Committed /\ Made(t, d)
    <2>1. /\ s \notin Committed /\ UNCHANGED <<skipped, effects>>
          /\ stage' = [stage EXCEPT ![s] = stage'[s]]
          /\ Committed' = Committed \cup {s}
          /\ \A c \in CallsOf(s \in flips)' : stage'[s] # "done" /\ Place(stage'[s]) <= Place(c)
          /\ stage'[s] \in Calls_ \cup {"done"}
      BY <1>3, CommitSteps DEF PipeInv, PipeShape
    <2>2. s \notin flips /\ \A t \in Supports \ {s} : t \in flips' <=> t \in flips
      BY <1>3, CommitFlips
    <2>3. flips \subseteq Supports
      BY CommitsShaped DEF flips, PipeInv
    <2>4. d \in CallsOf(s \in flips)' => ~Passed(s, d)'
      BY <2>1, Placing DEF Passed
    <2>5. \A t \in Supports \ {s} : Made(t, d)' => Made(t, d)
      <3>1. \A t \in Supports \ {s} : stage'[t] = stage[t]
        BY <2>1 DEF PipeInv, PipeShape
      <3> QED BY <2>1, <3>1 DEF Made, Passed
    <2>6. Committed \subseteq Supports
      BY DEF Committed
    <2> QED BY <2>1, <2>2, <2>3, <2>4, <2>5, <2>6 DEF Made
  <1>4. ASSUME NEW s \in Supports, Skip(s)
        PROVE  /\ flips' = flips /\ Committed' = Committed
               /\ \A t \in Committed' : Made(t, d)' /\ d \in CallsOf(t \in flips)' =>
                     t \in Committed /\ Made(t, d)
    <2>1. /\ UNCHANGED <<commits, effects>> /\ skipped' = skipped \cup {<<s, stage[s]>>}
          /\ stage' = [stage EXCEPT ![s] = First(Behind(s))] /\ stage[s] \in Calls_
      BY <1>4 DEF Skip, Ongoing, Committed, PipeInv, PipeShape
    <2>2. /\ flips' = flips /\ Committed' = Committed
          /\ \A c \in CallsOf(s \in flips) : Passed(s, c)' <=> Passed(s, c) \/ c = stage[s]
          /\ \A c \in Calls_ : \A t \in Supports \ {s} : Passed(t, c)' <=> Passed(t, c)
      BY <2>1, MovesOn
    <2>3. \A t : CallsOf(t \in flips)' = CallsOf(t \in flips)
      BY <2>1, <2>2 DEF CallsOf
    <2>4. Committed \subseteq Supports
      BY DEF Committed
    <2> QED BY <2>1, <2>2, <2>3, <2>4 DEF Made
  <1>5. ASSUME NEW s \in Supports, BreakOff(s)
        PROVE  /\ flips' = flips /\ Committed' = Committed
               /\ \A t \in Committed' : Made(t, d)' /\ d \in CallsOf(t \in flips)' =>
                     t \in Committed /\ Made(t, d)
    <2>1. /\ UNCHANGED <<commits, effects>> /\ stage[s] \in Calls_ /\ s \in Committed
          /\ skipped' = skipped \cup ({s} \X ({stage[s]} \cup Behind(s)))
          /\ stage' = [stage EXCEPT ![s] = "done"]
      BY <1>5 DEF BreakOff, Ongoing, Committed, PipeInv, PipeShape
    <2>2. \A t \in Supports : stage'[t] = IF t = s THEN "done" ELSE stage[t]
      BY <2>1 DEF PipeInv, PipeShape
    <2>3. flips' = flips
      BY <2>1 DEF flips, Flipped, ScoresAfter, Leader
    <2>4. Committed' = Committed /\ Committed \subseteq Supports
      BY <2>1, <2>2 DEF Committed
    <2>5. \A t : CallsOf(t \in flips)' = CallsOf(t \in flips)
      BY <2>1, <2>3 DEF CallsOf
    <2>6. \A t \in Supports \ {s} : Made(t, d)' => Made(t, d)
      BY <2>1, <2>2, <2>4 DEF Made, Passed
    <2>7. d \in CallsOf(s \in flips) /\ ~Passed(s, d) => <<s, d>> \in skipped'
      <3>1. ~Passed(s, d) => Place(d) >= Place(stage[s])
        BY <2>1, Placing, CallNames DEF Passed
      <3>2. d = stage[s] \/ Place(d) # Place(stage[s])
        BY <2>1, Placing
      <3>3. Place(d) \in Nat /\ Place(stage[s]) \in Nat
        BY <2>1, Placing
      <3> QED BY <2>1, <3>1, <3>2, <3>3 DEF Behind
    <2> QED BY <2>1, <2>3, <2>4, <2>5, <2>6, <2>7 DEF Made
  <1> QED BY <1>1, <1>2, <1>3, <1>4, <1>5 DEF RequestNext

-----------------------------------------------------------------------------
(* The snapshots of control and momentum. *)

(* A snapshot without a support that will not be deleted on behalf of it shows it *)
(* as missed, or its replica as lagging. *)
Fresh_(c, snap) ==
    \A s \in Shown(c) \ snap.saw : s \in snap.missed \cup snap.lagged \/ ~Made(s, c)

Busy == {r \in Readers : reader[r] \in {"load", "store", "unlock"}}

SnapInv ==
    /\ \A c \in Caches : snapshot[c] # Nil => Fresh_(c, snapshot[c])
    /\ \A r \in Readers, c \in Caches :
          reader[r] = StoreStep(c) /\ loaded[r] # Nil => Fresh_(c, loaded[r])
    /\ \A r \in Readers : loaded[r] # Nil =>
          loaded[r] = [saw |-> loaded[r].saw, missed |-> loaded[r].missed,
                       lagged |-> loaded[r].lagged]

CacheShape ==
    /\ snapshot = [c \in Caches |-> snapshot[c]]
    /\ reader \in [Readers -> ReaderSteps] /\ loaded = [r \in Readers |-> loaded[r]]

(* The readers between the lock and its release exceed the lock by an expiry each. *)
LockInv ==
    /\ lock \in BOOLEAN /\ expiries \in [{"lock", "snapshot"} -> Nat]
    /\ Cardinality(Busy) <= expiries["lock"] + (IF lock THEN 1 ELSE 0)

CacheInv == CacheShape /\ SnapInv /\ LockInv

LEMMA CacheStarts == CacheInit => CacheInv
  <1> SUFFICES ASSUME CacheInit PROVE CacheInv
    OBVIOUS
  <1>1. CacheShape /\ SnapInv
    BY DEF CacheInit, CacheShape, SnapInv, ReaderSteps
  <1>2. Busy = {}
    BY DEF CacheInit, Busy
  <1>3. LockInv
    <2>1. lock = FALSE /\ expiries = [e \in {"lock", "snapshot"} |-> 0]
      BY DEF CacheInit
    <2>2. expiries \in [{"lock", "snapshot"} -> Nat] /\ expiries["lock"] = 0
      BY <2>1
    <2>3. Cardinality(Busy) = 0
      BY <1>2, FS_EmptySet
    <2>4. (IF lock THEN 1 ELSE 0) = 0
      BY <2>1
    <2>5. Cardinality(Busy) <= expiries["lock"] + (IF lock THEN 1 ELSE 0)
      BY <2>2, <2>3, <2>4
    <2> QED BY <2>1, <2>2, <2>5 DEF LockInv
  <1> QED BY <1>1, <1>3 DEF CacheInv

LEMMA CacheServes == CacheInv => ControlIsServedFresh
  <1> SUFFICES ASSUME CacheInv PROVE ControlIsServedFresh
    OBVIOUS
  <1>1. SnapshotsAreFresh
    BY DEF CacheInv, SnapInv, Fresh_, SnapshotsAreFresh
  <1> DEFINE Loading == {r \in Readers : reader[r] \in {"load", "store"}}
  <1>2. IsFiniteSet(Busy) /\ Loading \subseteq Busy
    BY CacheAssumption, FS_Subset DEF Busy
  <1>3. Cardinality(Loading) <= Cardinality(Busy) /\ IsFiniteSet(Loading)
    BY <1>2, FS_Subset
  <1>4. Cardinality(Loading) \in Nat /\ Cardinality(Busy) \in Nat
    BY <1>2, <1>3, FS_CardinalityType
  <1>5. FillsAreLimited
    <2>1. expiries["lock"] \in Nat
      BY DEF CacheInv, LockInv
    <2> HIDE DEF Loading
    <2>2. Cardinality(Loading) <= 1 + expiries["lock"]
      BY <1>3, <1>4, <2>1 DEF CacheInv, LockInv
    <2> QED BY <2>2 DEF FillsAreLimited, Loading
  <1> QED BY <1>1, <1>5 DEF ControlIsServedFresh

(* Freshness survives what the requests do short of the call that deletes. *)
LEMMA StaysFresh ==
    ASSUME PipeInv, NEW c \in Caches, NEW snap, Fresh_(c, snap),
           \/ UNCHANGED pipelineVars
           \/ RequestNext
           \/ \E s \in Supports, e \in Calls_ \ {c} : Pass(s, e)
    PROVE  Fresh_(c, snap)'
  <1>1. c \in Calls_ /\ "control" \notin FlipOnly
    BY CallNames DEF Caches, FlipOnly
  <1>2. /\ Committed \subseteq Committed'
        /\ flips \subseteq flips' /\ \A t \in Committed : t \in flips' => t \in flips
        /\ \A t \in Committed' : Made(t, c)' /\ c \in CallsOf(t \in flips)' =>
              t \in Committed /\ Made(t, c)
    BY <1>1, NobodyMakes
  <1>3. ASSUME NEW t \in Shown(c)' \ snap.saw, Made(t, c)' PROVE t \in snap.missed \cup snap.lagged
    <2>1. c \in effects' /\ t \in Committed' /\ (c # "control" => t \in flips')
      BY <1>3 DEF Made, Shown
    <2>2. c \in CallsOf(t \in flips)'
      BY <1>1, <2>1 DEF CallsOf, Caches
    <2>3. t \in Shown(c) /\ Made(t, c)
      BY <1>2, <1>3, <2>1, <2>2 DEF Shown
    <2> QED BY <1>3, <2>3 DEF Fresh_
  <1> QED BY <1>3 DEF Fresh_
(* Reading and storing. *)
LEMMA SameFreshness ==
    ASSUME UNCHANGED pipelineVars, NEW c, NEW snap PROVE Fresh_(c, snap)' <=> Fresh_(c, snap)
  BY DEF pipelineVars, Fresh_, Shown, Committed, flips, Flipped, ScoresAfter, Leader, Made, Passed

LEMMA LookingKeepsSnaps ==
    ASSUME CacheShape, SnapInv, UNCHANGED <<pipelineVars, snapshot, loaded>>,
           CacheShape', \A r \in Readers : reader'[r] = reader[r]
                                          \/ reader'[r] \notin {"store", "store_momentum"}
    PROVE  SnapInv'
  <1>1. \A c \in Caches, r \in Readers : reader'[r] = StoreStep(c) => reader[r] = StoreStep(c)
    BY DEF StoreStep
  <1>2. \A c, snap : Fresh_(c, snap)' <=> Fresh_(c, snap)
    BY SameFreshness
  <1> QED BY <1>1, <1>2 DEF SnapInv, Fresh_, StoreStep

LEMMA LoadKeepsSnaps ==
    ASSUME CacheShape, SnapInv, UNCHANGED pipelineVars, NEW r \in Readers, NEW c \in Caches,
           Load(r, c)
    PROVE  CacheShape' /\ SnapInv'
  <1> PICK n \in 0..Len(commits) : loaded' = [loaded EXCEPT ![r] = ReadAfter(n, c)]
    BY DEF Load
  <1> PICK snap : snap = ReadAfter(n, c)
    OBVIOUS
  <1>1. /\ loaded' = [loaded EXCEPT ![r] = snap] /\ snapshot' = snapshot
        /\ reader' = [reader EXCEPT ![r] = StoreStep(c)]
    BY DEF Load, GoOn, StoreStep
  <1>2. CacheShape'
    BY <1>1 DEF CacheShape, StoreStep, ReaderSteps
  <1>3. \A d, s2 : Fresh_(d, s2)' <=> Fresh_(d, s2)
    BY SameFreshness
  <1>4. Fresh_(c, snap)
    BY DEF Fresh_, ReadAfter
  <1>5. snap = [saw |-> snap.saw, missed |-> snap.missed, lagged |-> snap.lagged]
    BY DEF ReadAfter
  <1>6. \A q \in Readers : /\ loaded'[q] = IF q = r THEN snap ELSE loaded[q]
                           /\ reader'[q] = IF q = r THEN StoreStep(c) ELSE reader[q]
    BY <1>1 DEF CacheShape
  <1>7. \A d \in Caches : StoreStep(d) = StoreStep(c) => d = c
    BY DEF Caches, StoreStep
  <1>8. ASSUME NEW d \in Caches, NEW q \in Readers, reader'[q] = StoreStep(d), loaded'[q] # Nil
        PROVE  Fresh_(d, loaded'[q])
    BY <1>4, <1>6, <1>7, <1>8 DEF SnapInv
  <1>9. \A d \in Caches : StoreStep(d)' = StoreStep(d)
    BY DEF StoreStep
  <1>10. \A d \in Caches : snapshot'[d] # Nil => Fresh_(d, snapshot'[d])
    BY <1>1 DEF SnapInv
  <1>11. \A q \in Readers : loaded'[q] # Nil =>
            loaded'[q] = [saw |-> loaded'[q].saw, missed |-> loaded'[q].missed,
                          lagged |-> loaded'[q].lagged]
    BY <1>5, <1>6 DEF SnapInv
  <1>12. SnapInv'
    <2>1. \A d \in Caches : snapshot'[d] # Nil => Fresh_(d, snapshot[d])'
      <3>1. ASSUME NEW d \in Caches, snapshot'[d] # Nil PROVE Fresh_(d, snapshot[d])'
        <4> PICK s2 : s2 = snapshot'[d]
          OBVIOUS
        <4>1. Fresh_(d, s2)'
          BY <1>3, <1>10, <3>1
        <4> QED BY <4>1 DEF Fresh_
      <3> QED BY <3>1
    <2>2. ASSUME NEW d \in Caches, NEW q \in Readers, reader'[q] = StoreStep(d), loaded'[q] # Nil
          PROVE  Fresh_(d, loaded[q])'
      <3> PICK s2 : s2 = loaded'[q]
        OBVIOUS
      <3>1. Fresh_(d, s2)'
        BY <1>3, <1>8, <2>2
      <3> QED BY <3>1 DEF Fresh_
    <2> QED BY <1>9, <1>11, <2>1, <2>2 DEF SnapInv
  <1> QED BY <1>2, <1>12

(* What is stored is as fresh as it was when its reader had it in hand. *)
LEMMA StoringKeepsSnaps ==
    ASSUME CacheShape, SnapInv, UNCHANGED pipelineVars, NEW c \in Caches, NEW snap,
           snap # Nil => Fresh_(c, snap), snapshot' = [snapshot EXCEPT ![c] = snap],
           CacheShape',
           \A r \in Readers : /\ loaded'[r] = loaded[r] \/ loaded'[r] = Nil
                              /\ reader'[r] = reader[r]
                                    \/ reader'[r] \notin {"store", "store_momentum"}
    PROVE  SnapInv'
  <1>1. \A d, s2 : Fresh_(d, s2)' <=> Fresh_(d, s2)
    BY SameFreshness
  <1>2. \A d \in Caches : snapshot'[d] = IF d = c THEN snap ELSE snapshot[d]
    BY DEF CacheShape
  <1>3. ASSUME NEW d \in Caches, snapshot'[d] # Nil PROVE Fresh_(d, snapshot[d])'
    <2> PICK s2 : s2 = snapshot'[d]
      OBVIOUS
    <2>1. Fresh_(d, s2)'
      BY <1>1, <1>2, <1>3 DEF SnapInv
    <2> QED BY <2>1 DEF Fresh_
  <1>4. ASSUME NEW d \in Caches, NEW q \in Readers, reader'[q] = StoreStep(d), loaded'[q] # Nil
        PROVE  Fresh_(d, loaded[q])'
    <2> PICK s2 : s2 = loaded'[q]
      OBVIOUS
    <2>1. s2 = loaded[q] /\ reader[q] = StoreStep(d)
      BY <1>4 DEF StoreStep
    <2>2. Fresh_(d, s2)'
      BY <1>1, <1>4, <2>1 DEF SnapInv
    <2> QED BY <2>2 DEF Fresh_
  <1>5. \A d \in Caches : StoreStep(d)' = StoreStep(d)
    BY DEF StoreStep
  <1>6. \A q \in Readers : loaded'[q] # Nil =>
            loaded'[q] = [saw |-> loaded'[q].saw, missed |-> loaded'[q].missed,
                          lagged |-> loaded'[q].lagged]
    BY DEF SnapInv
  <1> QED BY <1>3, <1>4, <1>5, <1>6 DEF SnapInv

(* The steps of a reader that neither load what it will store nor store it. *)
LooksOnly(r) ==
    \/ Get(r) \/ Acquire(r) \/ Wait(r) \/ LoadUnlocked(r) \/ Stats(r) \/ FailRead(r) \/ FailStats(r)
    \/ Unlock(r)

LEMMA ReadKeepsSnaps ==
    ASSUME CacheShape, SnapInv, UNCHANGED pipelineVars, ReadNext
    PROVE  CacheShape' /\ SnapInv'
  <1>1. ASSUME NEW r \in Readers, NEW from, NEW to \in ReaderSteps \ {"store", "store_momentum"},
               GoOn(r, from, to), UNCHANGED <<snapshot, loaded>>
        PROVE  CacheShape' /\ SnapInv'
    <2>1. CacheShape' /\ \A q \in Readers : reader'[q] = IF q = r THEN to ELSE reader[q]
      BY <1>1 DEF GoOn, CacheShape
    <2> QED BY <1>1, <2>1, LookingKeepsSnaps
  <1>2. ASSUME NEW r \in Readers, LooksOnly(r)
        PROVE  \E from : \E to \in ReaderSteps \ {"store", "store_momentum"} :
                  GoOn(r, from, to) /\ UNCHANGED <<snapshot, loaded>>
    <2>1. {"miss", "load", "wait", "idle", "retry", "load_unlocked", "load_momentum", "unlock"}
             \subseteq ReaderSteps \ {"store", "store_momentum"}
      BY DEF ReaderSteps
    <2> QED BY <1>2, <2>1 DEF LooksOnly, Get, Acquire, Wait, LoadUnlocked, Stats, FailRead,
                              FailStats, Unlock
  <1>3. ASSUME NEW r \in Readers, NEW c \in Caches, StoreSnapshot(r, c) \/ FailStore(r, c)
        PROVE  CacheShape' /\ SnapInv'
    <2> PICK to \in {"unlock", "idle"} : to = AfterStore(c)
      BY DEF AfterStore
    <2> PICK snap : snap = IF StoreSnapshot(r, c) THEN loaded[r] ELSE snapshot[c]
      OBVIOUS
    <2>1. /\ reader[r] = StoreStep(c) /\ reader' = [reader EXCEPT ![r] = to]
          /\ loaded' = [loaded EXCEPT ![r] = Nil]
      BY <1>3 DEF StoreSnapshot, FailStore, GoOn
    <2>5. snapshot' = [snapshot EXCEPT ![c] = snap]
      BY <1>3 DEF StoreSnapshot, FailStore, CacheShape
    <2>2. CacheShape'
      BY <2>1, <2>5 DEF CacheShape, ReaderSteps
    <2>3. \A q \in Readers : /\ loaded'[q] = IF q = r THEN Nil ELSE loaded[q]
                             /\ reader'[q] = IF q = r THEN to ELSE reader[q]
      BY <2>1 DEF CacheShape
    <2>4. snap # Nil => Fresh_(c, snap)
      BY <2>1 DEF SnapInv
    <2> QED BY <2>1, <2>2, <2>3, <2>4, <2>5, StoringKeepsSnaps
  <1>4. ASSUME LockExpires PROVE CacheShape' /\ SnapInv'
    <2>1. CacheShape' /\ UNCHANGED <<snapshot, loaded, reader>>
      BY <1>4 DEF LockExpires, CacheShape
    <2> QED BY <2>1, LookingKeepsSnaps
  <1>5. ASSUME NEW c \in Caches, SnapshotExpires(c) PROVE CacheShape' /\ SnapInv'
    <2> PICK snap : snap = Nil
      OBVIOUS
    <2>1. snapshot' = [snapshot EXCEPT ![c] = snap] /\ UNCHANGED <<loaded, reader>>
      BY <1>5 DEF SnapshotExpires
    <2>2. CacheShape'
      BY <2>1 DEF CacheShape
    <2> QED BY <2>1, <2>2, StoringKeepsSnaps
  <1>6. "control" \in Caches /\ "momentum" \in Caches
    BY DEF Caches
  <1>7. \/ \E r \in Readers : LooksOnly(r)
        \/ \E r \in Readers, c \in Caches : Load(r, c) \/ StoreSnapshot(r, c) \/ FailStore(r, c)
        \/ LockExpires \/ \E c \in Caches : SnapshotExpires(c)
    BY <1>6 DEF ReadNext, ControlReads, MomentumReads, Fill, LooksOnly
  <1> QED BY <1>1, <1>2, <1>3, <1>4, <1>5, <1>7, LoadKeepsSnaps

LEMMA Marking ==
    ASSUME NEW s, NEW row, row = [saw |-> row.saw, missed |-> row.missed, lagged |-> row.lagged]
    PROVE  [row EXCEPT !.missed = @ \cup {s}] =
               [saw |-> row.saw, missed |-> row.missed \cup {s}, lagged |-> row.lagged]
  OBVIOUS

(* mark is snap, or snap with s marked as missed. *)
Marks(s, snap, mark) ==
    /\ mark = [saw |-> mark.saw, missed |-> mark.missed, lagged |-> mark.lagged]
    /\ mark.saw = snap.saw /\ mark.lagged = snap.lagged /\ snap.missed \subseteq mark.missed

LEMMA MarkingMarks ==
    ASSUME NEW s, NEW row, row = [saw |-> row.saw, missed |-> row.missed, lagged |-> row.lagged]
    PROVE  LET mark == [row EXCEPT !.missed = @ \cup {s}]
           IN Marks(s, row, row) /\ Marks(s, row, mark) /\ s \in mark.missed
  BY Marking DEF Marks

(* The call that deletes. *)
LEMMA InvalidateKeepsSnaps ==
    ASSUME PipeInv, CacheShape, SnapInv, NEW s \in Supports, NEW c \in Caches, Invalidate(s, c)
    PROVE  CacheShape' /\ SnapInv'
  <1>1. /\ Pass(s, c) /\ snapshot' = [snapshot EXCEPT ![c] = Nil] /\ loaded' = Overtaken(s, c)
        /\ reader' = reader
    BY DEF Invalidate
  <1>2. CacheShape'
    BY <1>1 DEF CacheShape, Overtaken
  <1>3. ASSUME NEW d \in Caches \ {c}, NEW snap, Fresh_(d, snap) PROVE Fresh_(d, snap)'
    <2>1. c \in Calls_ \ {d}
      BY CallNames DEF Caches
    <2> QED BY <1>1, <1>3, <2>1, StaysFresh
  <1>4. ASSUME NEW snap, Fresh_(c, snap),
               NEW mark, mark.saw = snap.saw, snap.missed \subseteq mark.missed,
               mark.lagged = snap.lagged,
               s \in mark.saw \/ s \in mark.missed
        PROVE  Fresh_(c, mark)'
    <2>1. /\ stage[s] = c /\ stage[s] \in Calls_ /\ UNCHANGED <<commits, effects, skipped>>
          /\ stage' = [stage EXCEPT ![s] = First(Behind(s))]
      BY <1>1, CallNames DEF Pass, Caches
    <2>2. /\ flips' = flips /\ Committed' = Committed
          /\ \A d \in Calls_ : \A t \in Supports \ {s} : Passed(t, d)' <=> Passed(t, d)
      BY <2>1, MovesOn
    <2>3. \A t \in Supports \ {s} : Made(t, c)' <=> Made(t, c)
      BY <2>1, <2>2 DEF Made
    <2>4. Shown(c)' = Shown(c) /\ Shown(c) \subseteq Supports
      BY <2>2 DEF Shown, Committed
    <2> QED BY <1>4, <2>3, <2>4 DEF Fresh_
  <1>5. ASSUME NEW r \in Readers, loaded[r] # Nil
        PROVE  /\ Marks(s, loaded[r], loaded'[r])
               /\ reader[r] = StoreStep(c) =>
                     s \in loaded[r].saw \/ s \in loaded'[r].missed
               /\ reader[r] # StoreStep(c) => loaded'[r] = loaded[r]
    <2>1. loaded'[r] = IF reader[r] = StoreStep(c) /\ s \notin loaded[r].saw
                       THEN [loaded[r] EXCEPT !.missed = @ \cup {s}] ELSE loaded[r]
      BY <1>1, <1>5 DEF Overtaken
    <2> PICK row : row = loaded[r]
      OBVIOUS
    <2>2. row = [saw |-> row.saw, missed |-> row.missed, lagged |-> row.lagged]
      BY <1>5 DEF SnapInv
    <2>3. /\ Marks(s, row, row) /\ Marks(s, row, [row EXCEPT !.missed = @ \cup {s}])
          /\ s \in [row EXCEPT !.missed = @ \cup {s}].missed
      BY <2>2, MarkingMarks
    <2> QED BY <2>1, <2>3
  <1>6. \A r \in Readers : loaded[r] = Nil => loaded'[r] = Nil
    BY <1>1 DEF Overtaken
  <1>7. ASSUME NEW d \in Caches, snapshot'[d] # Nil PROVE Fresh_(d, snapshot[d])'
    <2> PICK snap : snap = snapshot'[d]
      OBVIOUS
    <2>1. d # c /\ snap = snapshot[d]
      BY <1>1, <1>7 DEF CacheShape
    <2>2. Fresh_(d, snap)'
      BY <1>3, <1>7, <2>1 DEF SnapInv
    <2> QED BY <2>2 DEF Fresh_
  <1>8. ASSUME NEW d \in Caches, NEW q \in Readers, reader[q] = StoreStep(d), loaded'[q] # Nil
        PROVE  Fresh_(d, loaded[q])'
    <2> PICK mark : mark = loaded'[q]
      OBVIOUS
    <2> PICK snap : snap = loaded[q]
      OBVIOUS
    <2>1. snap # Nil => Fresh_(d, snap)
      BY <1>8 DEF SnapInv
    <2>0. snap # Nil
      BY <1>6, <1>8
    <2>2. CASE d # c
      <3>1. StoreStep(d) # StoreStep(c)
        BY <2>2 DEF StoreStep, Caches
      <3>2. mark = snap
        BY <1>5, <1>8, <2>0, <3>1
      <3>3. Fresh_(d, snap)'
        BY <1>3, <2>0, <2>1, <2>2
      <3> QED BY <3>2, <3>3 DEF Fresh_
    <2>3. CASE d = c
      <3>1. Marks(s, snap, mark) /\ (s \in snap.saw \/ s \in mark.missed)
        BY <1>5, <1>8, <2>0, <2>3
      <3>2. /\ mark.saw = snap.saw /\ snap.missed \subseteq mark.missed
            /\ mark.lagged = snap.lagged
        BY <3>1 DEF Marks
      <3>3. s \in mark.saw \/ s \in mark.missed
        BY <3>1, <3>2
      <3>4. Fresh_(c, mark)'
        BY <1>4, <2>0, <2>1, <2>3, <3>2, <3>3
      <3> QED BY <2>3, <3>4 DEF Fresh_
    <2> QED BY <2>2, <2>3
  <1>9. ASSUME NEW r \in Readers, loaded'[r] # Nil
        PROVE  loaded'[r] = [saw |-> loaded'[r].saw, missed |-> loaded'[r].missed,
                             lagged |-> loaded'[r].lagged]
    <2>1. Marks(s, loaded[r], loaded'[r])
      BY <1>5, <1>6, <1>9
    <2> QED BY <2>1 DEF Marks
  <1>10. \A d \in Caches : StoreStep(d)' = StoreStep(d)
    BY DEF StoreStep
  <1>11. SnapInv'
    BY <1>1, <1>7, <1>8, <1>9, <1>10 DEF SnapInv
  <1> QED BY <1>2, <1>11
(* The lock: each step adds a busy reader only with it, and leaves it behind only by *)
(* an expiry or when a busy reader ends. *)
LEMMA BusyMoves ==
    ASSUME NEW r \in Readers, reader \in [Readers -> ReaderSteps], NEW to \in ReaderSteps,
           reader' = [reader EXCEPT ![r] = to]
    PROVE  /\ Cardinality(Busy) \in Nat /\ Cardinality(Busy') \in Nat
           /\ Cardinality(Busy') <= Cardinality(Busy) + 1
           /\ to \notin {"load", "store", "unlock"} \/ r \in Busy
                 => Cardinality(Busy') <= Cardinality(Busy)
           /\ to \notin {"load", "store", "unlock"} /\ r \in Busy
                 => Cardinality(Busy') = Cardinality(Busy) - 1
  <1>1. IsFiniteSet(Busy) /\ IsFiniteSet(Busy \ {r})
    BY CacheAssumption, FS_Subset DEF Busy
  <1>2. \A q \in Readers : reader'[q] = IF q = r THEN to ELSE reader[q]
    OBVIOUS
  <1>3. Busy' = IF to \in {"load", "store", "unlock"} THEN Busy \cup {r} ELSE Busy \ {r}
    BY <1>2 DEF Busy
  <1>4. Cardinality(Busy \cup {r}) = IF r \in Busy THEN Cardinality(Busy) ELSE Cardinality(Busy) + 1
    BY <1>1, FS_AddElement
  <1>5. Cardinality(Busy \ {r}) = IF r \in Busy THEN Cardinality(Busy) - 1 ELSE Cardinality(Busy)
    BY <1>1, FS_RemoveElement
  <1>6. Cardinality(Busy) \in Nat /\ Cardinality(Busy \ {r}) \in Nat
    BY <1>1, FS_CardinalityType
  <1> QED BY <1>3, <1>4, <1>5, <1>6

LEMMA ReadKeepsLock ==
    ASSUME CacheShape, LockInv, ReadNext PROVE LockInv'
  <1> PICK n \in Nat : n = expiries["lock"]
    BY DEF LockInv
  <1>0. reader \in [Readers -> ReaderSteps] /\ lock \in BOOLEAN
        /\ expiries \in [{"lock", "snapshot"} -> Nat]
        /\ Cardinality(Busy) <= n + (IF lock THEN 1 ELSE 0)
    BY DEF CacheShape, LockInv
  <1>00. Cardinality(Busy) \in Nat
    BY CacheAssumption, FS_Subset, FS_CardinalityType DEF Busy
  <1>1. ASSUME NEW r \in Readers, NEW to \in ReaderSteps, UNCHANGED <<lock, expiries>>,
               reader' = [reader EXCEPT ![r] = to],
               to \notin {"load", "store", "unlock"} \/ r \in Busy
        PROVE  LockInv'
    <2>1. Cardinality(Busy') <= Cardinality(Busy) /\ Cardinality(Busy') \in Nat
      BY <1>0, <1>1, BusyMoves
    <2>2. Cardinality(Busy') <= n + (IF lock THEN 1 ELSE 0)
      BY <1>0, <1>00, <2>1
    <2> QED BY <1>0, <1>1, <2>2 DEF LockInv
  <1>2. ASSUME NEW r \in Readers,
               \/ Get(r) \/ Wait(r) \/ LoadUnlocked(r) \/ Stats(r) \/ FailRead(r) \/ FailStats(r)
               \/ \E c \in Caches : Fill(r, c)
        PROVE  \E to \in ReaderSteps :
                  /\ UNCHANGED <<lock, expiries>> /\ reader' = [reader EXCEPT ![r] = to]
                  /\ to \notin {"load", "store", "unlock"} \/ r \in Busy
    <2>1. {"miss", "wait", "idle", "retry", "load_unlocked", "load_momentum", "unlock", "store",
           "store_momentum"} \subseteq ReaderSteps
      BY DEF ReaderSteps
    <2>2. CASE Get(r) \/ Wait(r) \/ LoadUnlocked(r) \/ Stats(r) \/ FailRead(r) \/ FailStats(r)
      BY <2>1, <2>2 DEF Get, Wait, LoadUnlocked, Stats, FailRead, FailStats, GoOn, Busy
    <2>3. ASSUME NEW c \in Caches, Fill(r, c)
          PROVE  \E to \in ReaderSteps :
                    /\ UNCHANGED <<lock, expiries>> /\ reader' = [reader EXCEPT ![r] = to]
                    /\ to \notin {"load", "store", "unlock"} \/ r \in Busy
      BY <2>1, <2>3 DEF Fill, Load, StoreSnapshot, FailStore, GoOn, StoreStep, AfterStore, Busy,
                        Caches
    <2> QED BY <1>2, <2>2, <2>3
  <1>3. ASSUME NEW r \in Readers, Acquire(r) PROVE LockInv'
    <2> PICK to \in ReaderSteps : to = "load"
      BY DEF ReaderSteps
    <2>1. /\ reader' = [reader EXCEPT ![r] = to] /\ ~lock /\ lock' = TRUE /\ expiries' = expiries
      BY <1>3 DEF Acquire, GoOn
    <2>2. Cardinality(Busy') <= Cardinality(Busy) + 1 /\ Cardinality(Busy') \in Nat
      BY <1>0, <2>1, BusyMoves
    <2>3. Cardinality(Busy') <= n + 1
      BY <1>0, <1>00, <2>1, <2>2
    <2> QED BY <1>0, <2>1, <2>3 DEF LockInv
  <1>4. ASSUME NEW r \in Readers, Unlock(r) PROVE LockInv'
    <2> PICK to \in ReaderSteps : to = "idle"
      BY DEF ReaderSteps
    <2>1. /\ reader' = [reader EXCEPT ![r] = to] /\ r \in Busy /\ lock' \in {FALSE, lock}
          /\ expiries' = expiries
      BY <1>4 DEF Unlock, GoOn, Busy
    <2>2. Cardinality(Busy') = Cardinality(Busy) - 1 /\ Cardinality(Busy') \in Nat
      BY <1>0, <2>1, BusyMoves
    <2>3. Cardinality(Busy') <= n
      BY <1>0, <1>00, <2>2
    <2>6. lock' \in BOOLEAN
      BY <1>0, <2>1
    <2>7. PICK k \in Nat : k = IF lock' THEN 1 ELSE 0
      OBVIOUS
    <2>8. Cardinality(Busy') <= n + k
      BY <2>2, <2>3
    <2>4. lock' \in BOOLEAN /\ Cardinality(Busy') <= n + (IF lock' THEN 1 ELSE 0)
      BY <2>6, <2>7, <2>8
    <2>5. expiries'["lock"] = n /\ expiries' \in [{"lock", "snapshot"} -> Nat]
      BY <1>0, <2>1
    <2> QED BY <2>4, <2>5 DEF LockInv
  <1>5. ASSUME LockExpires PROVE LockInv'
    <2>1. /\ lock /\ lock' = FALSE /\ Busy' = Busy
          /\ expiries' = [expiries EXCEPT !["lock"] = @ + 1]
      BY <1>5 DEF LockExpires, Busy
    <2>2. expiries' \in [{"lock", "snapshot"} -> Nat] /\ expiries'["lock"] = n + 1
      BY <1>0, <2>1
    <2>3. Cardinality(Busy') <= (n + 1) + 0
      BY <1>0, <1>00, <2>1
    <2>4. (IF lock' THEN 1 ELSE 0) = 0 /\ lock' \in BOOLEAN
      BY <2>1
    <2> QED BY <2>2, <2>3, <2>4 DEF LockInv
  <1>6. ASSUME NEW c \in Caches, SnapshotExpires(c) PROVE LockInv'
    <2>1. /\ UNCHANGED lock /\ Busy' = Busy
          /\ expiries' = [expiries EXCEPT !["snapshot"] = @ + 1]
      BY <1>6 DEF SnapshotExpires, Busy
    <2>2. expiries' \in [{"lock", "snapshot"} -> Nat] /\ expiries'["lock"] = n
      BY <1>0, <2>1
    <2> QED BY <1>0, <2>1, <2>2 DEF LockInv
  <1>7. "control" \in Caches /\ "momentum" \in Caches
    BY DEF Caches
  <1> QED BY <1>1, <1>2, <1>3, <1>4, <1>5, <1>6, <1>7 DEF ReadNext, ControlReads, MomentumReads

LEMMA OthersKeepCaches ==
    ASSUME PipeInv, CacheInv, UNCHANGED cacheVars,
           \/ UNCHANGED pipelineVars
           \/ RequestNext
           \/ \E s \in Supports, e \in Calls_ \ Caches : Pass(s, e)
    PROVE  CacheInv'
  <1>1. CacheShape' /\ LockInv'
    BY DEF cacheVars, CacheInv, CacheShape, LockInv, Busy
  <1>2. ASSUME NEW c \in Caches, NEW snap, Fresh_(c, snap) PROVE Fresh_(c, snap)'
    BY <1>2, StaysFresh
  <1>3. ASSUME NEW c \in Caches, snapshot'[c] # Nil PROVE Fresh_(c, snapshot[c])'
    <2> PICK snap : snap = snapshot[c]
      OBVIOUS
    <2>1. Fresh_(c, snap)' /\ snapshot'[c] = snap
      BY <1>2, <1>3 DEF CacheInv, SnapInv, cacheVars
    <2> QED BY <2>1 DEF Fresh_
  <1>4. ASSUME NEW c \in Caches, NEW r \in Readers, reader[r] = StoreStep(c), loaded[r] # Nil
        PROVE  Fresh_(c, loaded[r])'
    <2> PICK snap : snap = loaded[r]
      OBVIOUS
    <2>1. Fresh_(c, snap)' /\ loaded'[r] = snap
      BY <1>2, <1>4 DEF CacheInv, SnapInv, cacheVars
    <2> QED BY <2>1 DEF Fresh_
  <1>5. SnapInv'
    BY <1>3, <1>4 DEF CacheInv, SnapInv, cacheVars, StoreStep
  <1> QED BY <1>1, <1>5 DEF CacheInv

LEMMA CacheStep ==
    ASSUME PipeInv, CacheInv, GameNext \/ UNCHANGED gameVars PROVE CacheInv'
  <1>1. CASE UNCHANGED cacheVars /\ UNCHANGED pipelineVars
    BY <1>1, OthersKeepCaches
  <1>2. CASE SupportsNext
    <2>1. CASE RequestNext /\ UNCHANGED effectVars
      BY <2>1, OthersKeepCaches DEF effectVars
    <2>2. CASE InvalidateNext
      <3> PICK s \in Supports, c \in Caches : Invalidate(s, c)
        BY <2>2 DEF InvalidateNext
      <3>1. CacheShape' /\ SnapInv'
        BY InvalidateKeepsSnaps DEF CacheInv
      <3>2. LockInv'
        BY DEF CacheInv, LockInv, Invalidate, Busy
      <3> QED BY <3>1, <3>2 DEF CacheInv
    <2>3. CASE ProgressNext /\ UNCHANGED cacheVars
      <3>1. {"xp", "streak", "first", "streaks"} \subseteq Calls_ \ Caches
        BY CallNames DEF Caches
      <3> QED BY <2>3, <3>1, ProgressPasses, OthersKeepCaches
    <2>4. CASE PostBoards /\ UNCHANGED cacheVars
      <3>1. "boards" \in Calls_ \ Caches
        BY CallNames DEF Caches
      <3> QED BY <2>4, <3>1, BoardsPass, OthersKeepCaches
    <2>5. CASE DetectNext /\ UNCHANGED cacheVars
      <3>1. AlertStages \subseteq Calls_ \ Caches
        BY CallNames DEF Caches, AlertStages
      <3> QED BY <2>5, <3>1, DetectPasses, OthersKeepCaches
    <2>6. CASE PublishNext /\ UNCHANGED cacheVars
      <3>1. {"support_event", "flip_event", "feed"} \subseteq Calls_ \ Caches
        BY CallNames DEF Caches
      <3> QED BY <2>6, <3>1, PublishPasses, OthersKeepCaches
    <2> QED BY <1>2, <2>1, <2>2, <2>3, <2>4, <2>5, <2>6 DEF SupportsNext
  <1>3. CASE ServersNext /\ ~(UNCHANGED cacheVars /\ UNCHANGED pipelineVars)
    <2>1. ReadNext /\ UNCHANGED pipelineVars
      BY <1>3 DEF ServersNext, ArchiveNext, RankNext, PushNext, ReadNext
    <2> QED BY <2>1, ReadKeepsSnaps, ReadKeepsLock DEF CacheInv
  <1>4. CASE ~SupportsNext /\ ~ServersNext
    <2>1. UNCHANGED cacheVars /\ UNCHANGED pipelineVars
      BY <1>4 DEF GameNext, gameVars, effectVars
    <2> QED BY <1>1, <2>1
  <1> QED BY <1>1, <1>2, <1>3, <1>4

LEMMA GamePipeStarts == GameInit => PipeInv
  <1> SUFFICES ASSUME NEW start \in Starts, PipelineInit(start.effects, start.asked), ProgressInit
               PROVE  PipeInv
    BY DEF GameInit
  <1>1. start.effects \in SUBSET Calls_
    BY GameAssumption
  <1> QED BY <1>1, PipeStarts

(* In the whole back end a snapshot of the control or of the momentum lacks a *)
(* support only while its invalidation is to come or was skipped, when a reader *)
(* stored after it what it had loaded before, or when a replica lagged behind a *)
(* load that came after it; and readers fill the control snapshot one at a time, but *)
(* for one more per expiry of the lock, whoever loads without it *)
(* (support/cache.go, conquest/momentum.go). *)
THEOREM ControlStaysFresh == GameSpec => []ControlIsServedFresh
  <1>1. GameInit => PipeInv /\ CacheInv
    BY GamePipeStarts, CacheStarts DEF GameInit
  <1>2. PipeInv /\ CacheInv /\ [GameNext]_gameVars => (PipeInv /\ CacheInv)'
    BY PipeStep, CacheStep
  <1>3. PipeInv /\ CacheInv => ControlIsServedFresh
    BY CacheServes
  <1> QED BY <1>1, <1>2, <1>3, PTL DEF GameSpec
-----------------------------------------------------------------------------
(* The hub: what is published reaches the clients once, and in order. *)

Elems(q) == {q[i] : i \in DOMAIN q}
Rising(q) == \A i, j \in DOMAIN q : i < j => q[i] < q[j]

LEMMA AppendElems ==
    ASSUME NEW q \in Seq(Nat), NEW m \in Nat
    PROVE  /\ Append(q, m) \in Seq(Nat) /\ Elems(Append(q, m)) = Elems(q) \cup {m}
           /\ Elems(q) \subseteq Nat
           /\ Rising(q) /\ (\A n \in Elems(q) : n < m) => Rising(Append(q, m))
  <1>1. /\ Len(q) \in Nat /\ DOMAIN q = 1..Len(q) /\ DOMAIN Append(q, m) = 1..(Len(q) + 1)
        /\ \A i \in 1..Len(q) : Append(q, m)[i] = q[i] /\ q[i] \in Nat
        /\ Append(q, m)[Len(q) + 1] = m
    OBVIOUS
  <1>2. \A i \in 1..(Len(q) + 1) : i \in 1..Len(q) \/ i = Len(q) + 1
    BY <1>1
  <1>3. Elems(Append(q, m)) = Elems(q) \cup {m} /\ Elems(q) \subseteq Nat
    BY <1>1, <1>2 DEF Elems
  <1>4. ASSUME Rising(q), \A n \in Elems(q) : n < m PROVE Rising(Append(q, m))
    <2>1. ASSUME NEW i \in 1..(Len(q) + 1), NEW j \in 1..(Len(q) + 1), i < j
          PROVE  Append(q, m)[i] < Append(q, m)[j]
      <3>1. i \in 1..Len(q) /\ q[i] \in Elems(q)
        BY <1>1, <2>1 DEF Elems
      <3> QED BY <1>1, <1>2, <1>4, <2>1, <3>1 DEF Rising
    <2> QED BY <1>1, <2>1 DEF Rising
  <1> QED BY <1>3, <1>4

LEMMA TailElems ==
    ASSUME NEW q \in Seq(Nat), q # <<>>
    PROVE  /\ Head(q) \in Nat /\ Tail(q) \in Seq(Nat) /\ Elems(q) = {Head(q)} \cup Elems(Tail(q))
           /\ Rising(q) => Rising(Tail(q)) /\ \A n \in Elems(Tail(q)) : Head(q) < n
  <1>1. /\ Len(q) \in Nat \ {0} /\ DOMAIN q = 1..Len(q) /\ Head(q) = q[1] /\ Tail(q) \in Seq(Nat)
        /\ DOMAIN Tail(q) = 1..(Len(q) - 1)
        /\ \A i \in 1..(Len(q) - 1) : Tail(q)[i] = q[i + 1]
        /\ \A i \in 1..Len(q) : q[i] \in Nat
    OBVIOUS
  <1>2. \A i \in 1..(Len(q) - 1) : i + 1 \in 1..Len(q)
    BY <1>1
  <1>3. ASSUME NEW n \in Elems(q) PROVE n = Head(q) \/ n \in Elems(Tail(q))
    <2>1. PICK i \in 1..Len(q) : n = q[i]
      BY <1>1, <1>3 DEF Elems
    <2>2. CASE i # 1
      <3>1. i - 1 \in 1..(Len(q) - 1) /\ (i - 1) + 1 = i
        BY <1>1, <2>2
      <3>2. Tail(q)[i - 1] = n
        BY <1>1, <2>1, <3>1
      <3> QED BY <1>1, <3>1, <3>2 DEF Elems
    <2> QED BY <1>1, <2>1, <2>2
  <1>4. Elems(Tail(q)) \subseteq Elems(q) /\ Head(q) \in Elems(q)
    BY <1>1, <1>2 DEF Elems
  <1>5. ASSUME Rising(q) PROVE Rising(Tail(q)) /\ \A n \in Elems(Tail(q)) : Head(q) < n
    <2>1. ASSUME NEW i \in 1..(Len(q) - 1), NEW j \in 1..(Len(q) - 1), i < j
          PROVE  Tail(q)[i] < Tail(q)[j]
      <3>1. q[i + 1] < q[j + 1]
        BY <1>1, <1>2, <1>5, <2>1 DEF Rising
      <3> QED BY <1>1, <3>1
    <2>2. ASSUME NEW n \in Elems(Tail(q)) PROVE Head(q) < n
      <3>1. PICK i \in 1..(Len(q) - 1) : n = q[i + 1]
        BY <1>1, <2>2 DEF Elems
      <3>2. 1 \in 1..Len(q) /\ i + 1 \in 1..Len(q) /\ 1 < i + 1
        BY <1>1
      <3> QED BY <1>1, <1>5, <3>1, <3>2 DEF Rising
    <2> QED BY <1>1, <2>1, <2>2 DEF Rising
  <1> QED BY <1>1, <1>3, <1>4, <1>5

LEMMA WritingOn ==
    ASSUME NEW g \in Seq(Nat), NEW b \in Seq(Nat), b # <<>>
    PROVE  Append(g, Head(b)) \o Tail(b) = g \o b
  <1>1. /\ Len(g) \in Nat /\ Len(b) \in Nat \ {0} /\ Append(g, Head(b)) \in Seq(Nat)
        /\ Len(Append(g, Head(b))) = Len(g) + 1 /\ Tail(b) \in Seq(Nat) /\ Len(Tail(b)) = Len(b) - 1
    OBVIOUS
  <1>2. /\ Append(g, Head(b)) \o Tail(b) \in Seq(Nat) /\ g \o b \in Seq(Nat)
        /\ Len(Append(g, Head(b)) \o Tail(b)) = Len(g) + Len(b) /\ Len(g \o b) = Len(g) + Len(b)
    BY <1>1
  <1>3. ASSUME NEW i \in 1..(Len(g) + Len(b))
        PROVE  (Append(g, Head(b)) \o Tail(b))[i] = (g \o b)[i]
    <2>1. CASE i \in 1..Len(g)
      BY <1>1, <2>1
    <2>2. CASE i = Len(g) + 1
      BY <1>1, <2>2
    <2>3. CASE i > Len(g) + 1
      BY <1>1, <2>3
    <2> QED BY <1>1, <2>1, <2>2, <2>3
  <1> QED BY <1>2, <1>3

LEMMA BufferingOn ==
    ASSUME NEW g \in Seq(Nat), NEW b \in Seq(Nat), NEW m \in Nat
    PROVE  g \o Append(b, m) = Append(g \o b, m)
  <1>1. /\ Len(g) \in Nat /\ Len(b) \in Nat /\ Append(b, m) \in Seq(Nat)
        /\ Len(Append(b, m)) = Len(b) + 1 /\ g \o b \in Seq(Nat) /\ Len(g \o b) = Len(g) + Len(b)
    OBVIOUS
  <1>2. /\ g \o Append(b, m) \in Seq(Nat) /\ Append(g \o b, m) \in Seq(Nat)
        /\ Len(g \o Append(b, m)) = Len(g) + Len(b) + 1
        /\ Len(Append(g \o b, m)) = Len(g) + Len(b) + 1
    BY <1>1
  <1>3. ASSUME NEW i \in 1..(Len(g) + Len(b) + 1)
        PROVE  (g \o Append(b, m))[i] = Append(g \o b, m)[i]
    <2>1. CASE i \in 1..Len(g)
      BY <1>1, <2>1
    <2>2. CASE i > Len(g) /\ i <= Len(g) + Len(b)
      BY <1>1, <2>2
    <2>3. CASE i = Len(g) + Len(b) + 1
      BY <1>1, <2>3
    <2> QED BY <1>1, <2>1, <2>2, <2>3
  <1> QED BY <1>2, <1>3
FanRecords == [msg : Nat, left : SUBSET Clients, checked : Clients \cup {NoFan}]
LiveShape ==
    /\ published \in Seq([topic : Topics, by : Supports \cup {NoFan}])
    /\ wire \in Seq(Nat) /\ fan \in FanRecords \cup {NoFan}
    /\ client = [c \in Clients |-> [state |-> client[c].state, wants |-> client[c].wants]]
    /\ buffer \in [Clients -> Seq(Nat)] /\ got \in [Clients -> Seq(Nat)]
    /\ since \in [Clients -> Nat]

(* The wire holds the newest messages, but for those lost; the one under delivery *)
(* is older. *)
WireInv ==
    /\ Rising(wire) /\ Elems(wire) \subseteq 1..Len(published)
    /\ \A m \in Elems(wire), n \in 1..Len(published) : m <= n => n \in Elems(wire) \cup lost
    /\ fan # NoFan =>
          /\ fan.msg \in 1..Len(published) /\ \A m \in Elems(wire) : fan.msg < m
          /\ \A n \in 1..Len(published) : fan.msg < n => n \in Elems(wire) \cup lost

(* What a client has is older than what is under way to it. *)
Older(c, m) ==
    /\ m \in 1..Len(published) /\ \A n \in Elems(wire) : m < n
    /\ fan # NoFan => m <= fan.msg /\ (c \in fan.left => m < fan.msg)
OrderInv(c) == Rising(Reached(c)) /\ \A m \in Elems(Reached(c)) : Older(c, m)

(* From the first message an open client has, and from its registration, on, every *)
(* message for all has a place. *)
Served(c, n) ==
    \/ n \in Elems(Reached(c)) \/ <<c, n>> \in dropped \/ n \in lost \/ n \in Elems(wire)
    \/ fan # NoFan /\ fan.msg = n /\ c \in fan.left
Due(c, n) == since[c] < n \/ \E m \in Elems(Reached(c)) : m <= n
ServedInv(c) ==
    /\ client[c].state = "new" => Reached(c) = <<>>
    /\ IsOpen(c) /\ hub \in {"running", "stopping"} =>
          \A n \in 1..Len(published) : Due(c, n) /\ published[n].topic \in ForAll => Served(c, n)

(* The client looked at is open, or was closed in the window. *)
RaceInv ==
    /\ fan # NoFan /\ fan.checked # NoFan =>
          fan.checked \in fan.left /\ (IsOpen(fan.checked) \/ closedUnder)
    /\ PanicsAreRaces

LiveInv ==
    LiveShape /\ WireInv /\ RaceInv /\ \A c \in Clients : OrderInv(c) /\ ServedInv(c)

(* The flips that were published, against the commits. *)
FlipOf(n, s) == published[n].topic = "flip" /\ published[n].by = s
LastOnly == \A s \in Ongoing : commits # <<>> /\ commits[Len(commits)].by = s
InCommitOrder ==
    \A n, m \in 1..Len(published), i, j \in DOMAIN commits :
        n < m /\ FlipOf(n, commits[i].by) /\ FlipOf(m, commits[j].by) => i <= j
FlipInv ==
    /\ \A s \in Supports : stage[s] = "flip_event" => s \in flips /\ "flip_event" \in effects
    /\ \A n \in 1..Len(published) : published[n].topic = "flip" =>
          published[n].by \in flips /\ "flip_event" \in effects
    /\ \A s \in flips : Made(s, "flip_event") => \E n \in 1..Len(published) : FlipOf(n, s)
    /\ overlapping = {} => LastOnly /\ InCommitOrder
LEMMA LiveStarts == ASSUME NEW connecting, RealtimeInit(connecting) PROVE LiveInv
  <1>1. published = <<>> /\ wire = <<>> /\ fan = NoFan /\ hub = "running"
        /\ (\A c \in Clients : got[c] = <<>> /\ buffer[c] = <<>>)
    BY DEF RealtimeInit
  <1>2. LiveShape
    BY DEF RealtimeInit, LiveShape
  <1>3. WireInv
    BY <1>1 DEF WireInv, Rising, Elems
  <1>4. RaceInv
    BY <1>1 DEF RaceInv, PanicsAreRaces
  <1>5. ASSUME NEW c \in Clients PROVE OrderInv(c) /\ ServedInv(c)
    <2>1. Reached(c) = <<>>
      BY <1>1 DEF Reached
    <2>2. ~IsOpen(c)
      BY DEF RealtimeInit, IsOpen
    <2> QED BY <2>1, <2>2 DEF OrderInv, ServedInv, Rising, Elems
  <1> QED BY <1>2, <1>3, <1>4, <1>5 DEF LiveInv

(* A message at its place in what a client has. *)
LEMMA ReachedElems ==
    ASSUME LiveShape, NEW c \in Clients
    PROVE  /\ got[c] \in Seq(Nat) /\ buffer[c] \in Seq(Nat) /\ Reached(c) \in Seq(Nat)
           /\ \A n : HasReached(c, n) <=> n \in Elems(Reached(c))
  <1>1. got[c] \in Seq(Nat) /\ buffer[c] \in Seq(Nat)
    BY DEF LiveShape
  <1>2. Reached(c) \in Seq(Nat)
    BY <1>1 DEF Reached
  <1> QED BY <1>1, <1>2 DEF HasReached, Elems

LEMMA LiveDelivers == ASSUME LiveInv PROVE DeliveriesAreComplete /\ PanicsAreRaces
  <1>1. ASSUME NEW c \in Clients, NEW i \in DOMAIN Reached(c), NEW j \in DOMAIN Reached(c), i < j
        PROVE  Reached(c)[i] < Reached(c)[j]
    BY <1>1 DEF LiveInv, OrderInv, Rising
  <1>2. ASSUME NEW c \in Clients, IsOpen(c), hub \in {"running", "stopping"},
               NEW n \in (since[c] + 1)..Len(published), published[n].topic \in ForAll
        PROVE  HasReached(c, n) \/ <<c, n>> \in dropped \/ n \in lost \/ Pending(c, n)
    <2>1. since[c] \in Nat /\ Len(published) \in Nat
      BY DEF LiveInv, LiveShape
    <2>2. n \in 1..Len(published) /\ since[c] < n
      BY <2>1
    <2>3. Served(c, n)
      BY <1>2, <2>2 DEF LiveInv, ServedInv, Due
    <2>4. HasReached(c, n) <=> n \in Elems(Reached(c))
      BY ReachedElems DEF LiveInv
    <2>5. n \in Elems(wire) => \E i \in DOMAIN wire : wire[i] = n
      BY DEF Elems
    <2> QED BY <2>3, <2>4, <2>5 DEF Served, Pending
  <1>3. DeliveriesAreComplete
    BY <1>1, <1>2 DEF DeliveriesAreComplete
  <1> QED BY <1>3 DEF LiveInv, RaceInv

(* Steps that leave every message where it is for every client. *)
LEMMA MessagesStay ==
    ASSUME LiveInv, UNCHANGED <<published, wire, fan, dropped, lost>>,
           \A c \in Clients : Reached(c)' = Reached(c)
    PROVE  /\ WireInv' /\ \A c \in Clients : OrderInv(c)'
           /\ \A c \in Clients : \A n : Served(c, n)' <=> Served(c, n)
  <1>1. Elems(wire)' = Elems(wire)
    BY DEF Elems
  <1>2. ASSUME NEW c \in Clients PROVE Elems(Reached(c))' = Elems(Reached(c))
    BY DEF Elems
  <1>3. WireInv'
    BY <1>1 DEF LiveInv, WireInv, Rising
  <1>4. ASSUME NEW c \in Clients PROVE OrderInv(c)'
    <2>1. \A m : Older(c, m)' <=> Older(c, m)
      BY <1>1 DEF Older
    <2>2. Rising(Reached(c))'
      BY DEF LiveInv, OrderInv, Rising
    <2> QED BY <1>2, <2>1, <2>2 DEF LiveInv, OrderInv
  <1>5. ASSUME NEW c \in Clients, NEW n PROVE Served(c, n)' <=> Served(c, n)
    BY <1>1, <1>2 DEF Served
  <1> QED BY <1>3, <1>4, <1>5

(* ... and keep who is open, or close some. *)
LEMMA ClosingKeepsServed ==
    ASSUME LiveInv, UNCHANGED <<published, wire, fan, dropped, lost, since>>,
           \A c \in Clients : Reached(c)' = Reached(c),
           \A c \in Clients : /\ IsOpen(c)' => IsOpen(c)
                              /\ client'[c].state = "new" => client[c].state = "new",
           hub' \in {"running", "stopping"} => hub \in {"running", "stopping"}
    PROVE  WireInv' /\ \A c \in Clients : OrderInv(c)' /\ ServedInv(c)'
  <1>1. /\ WireInv' /\ \A c \in Clients : OrderInv(c)'
        /\ \A c \in Clients : \A n : Served(c, n)' <=> Served(c, n)
    BY MessagesStay
  <1>2. ASSUME NEW c \in Clients PROVE ServedInv(c)'
    <2>1. ServedInv(c)
      BY DEF LiveInv
    <2>2. Reached(c)' = Reached(c) /\ \A n : Due(c, n)' <=> Due(c, n)
      BY DEF Due, Elems
    <2> QED BY <1>1, <2>1, <2>2 DEF ServedInv
  <1> QED BY <1>1, <1>2
LEMMA OpenSocketKeepsLive ==
    ASSUME LiveInv, NEW c \in Clients, OpenSocket(c) PROVE LiveInv'
  <1> PICK row : row = [client[c] EXCEPT !.state = "open"]
    OBVIOUS
  <1>0. row = [state |-> "open", wants |-> client[c].wants]
    BY DEF LiveInv, LiveShape
  <1>1. /\ client' = [client EXCEPT ![c] = row] /\ since' = [since EXCEPT ![c] = Len(published)]
        /\ client[c].state = "new"
        /\ UNCHANGED <<published, wire, buffer, got, fan, hub, dropped, lost, closedUnder>>
    BY DEF OpenSocket
  <1>2. \A d \in Clients : /\ client'[d] = IF d = c THEN row ELSE client[d]
                           /\ since'[d] = IF d = c THEN Len(published) ELSE since[d]
    BY <1>1 DEF LiveInv, LiveShape
  <1>3. LiveShape'
    <2>1. Len(published) \in Nat
      BY DEF LiveInv, LiveShape
    <2>2. client' = [d \in Clients |-> [state |-> client'[d].state, wants |-> client'[d].wants]]
      BY <1>0, <1>1, <1>2 DEF LiveInv, LiveShape
    <2> QED BY <1>1, <2>1, <2>2 DEF LiveInv, LiveShape
  <1>4. /\ WireInv' /\ \A d \in Clients : OrderInv(d)'
        /\ \A d \in Clients : \A n : Served(d, n)' <=> Served(d, n)
        /\ \A d \in Clients : Reached(d)' = Reached(d)
    BY <1>1, MessagesStay DEF Reached
  <1>5. RaceInv'
    BY <1>0, <1>1, <1>2 DEF LiveInv, LiveShape, RaceInv, IsOpen, PanicsAreRaces
  <1>6. ASSUME NEW d \in Clients PROVE ServedInv(d)'
    <2>1. CASE d # c
      <3>1. (IsOpen(d)' <=> IsOpen(d)) /\ \A n : Due(d, n)' <=> Due(d, n)
        BY <1>2, <1>4, <2>1 DEF IsOpen, Due, Elems
      <3> QED BY <1>1, <1>2, <1>4, <2>1, <3>1 DEF LiveInv, ServedInv
    <2>2. CASE d = c
      <3>0. Reached(c) = <<>> /\ Len(published) \in Nat
        <4>1. ServedInv(c) /\ Len(published) \in Nat
          BY DEF LiveInv, LiveShape
        <4> QED BY <1>1, <4>1 DEF ServedInv
      <3>1. Reached(c)' = <<>> /\ since'[c] = Len(published') /\ Len(published') \in Nat
        BY <1>1, <1>2, <1>4, <3>0
      <3>2. \A n \in 1..Len(published') : ~Due(c, n)'
        BY <3>1 DEF Due, Elems
      <3> QED BY <2>2, <3>1, <3>2 DEF ServedInv
    <2> QED BY <2>1, <2>2
  <1> QED BY <1>3, <1>4, <1>5, <1>6 DEF LiveInv

LEMMA SetInterestKeepsLive ==
    ASSUME LiveInv, NEW c \in Clients, NEW topic, SetInterest(c, topic) PROVE LiveInv'
  <1> PICK wants : client' = [client EXCEPT ![c].wants = wants]
    BY DEF SetInterest
  <1> PICK row : row = [client[c] EXCEPT !.wants = wants]
    OBVIOUS
  <1>0. row = [state |-> client[c].state, wants |-> wants]
    BY DEF LiveInv, LiveShape
  <1>1. /\ client' = [client EXCEPT ![c] = row]
        /\ UNCHANGED <<published, wire, buffer, got, fan, hub, since, dropped, lost, closedUnder>>
    BY DEF SetInterest
  <1>2. \A d \in Clients : client'[d] = IF d = c THEN row ELSE client[d]
    BY <1>1 DEF LiveInv, LiveShape
  <1>3. \A d \in Clients : client'[d].state = client[d].state
    BY <1>0, <1>2
  <1>4. LiveShape'
    <2>0. \A d \in Clients : client'[d] = [state |-> client'[d].state, wants |-> client'[d].wants]
      BY <1>0, <1>2 DEF LiveInv, LiveShape
    <2>1. client' = [d \in Clients |-> [state |-> client'[d].state, wants |-> client'[d].wants]]
      BY <1>1, <2>0 DEF LiveInv, LiveShape
    <2> QED BY <1>1, <2>1 DEF LiveInv, LiveShape
  <1>5. WireInv' /\ \A d \in Clients : OrderInv(d)' /\ ServedInv(d)'
    BY <1>1, <1>3, ClosingKeepsServed DEF Reached, IsOpen
  <1>6. RaceInv'
    BY <1>1, <1>3 DEF LiveInv, LiveShape, RaceInv, IsOpen, PanicsAreRaces, FanRecords
  <1> QED BY <1>4, <1>5, <1>6 DEF LiveInv

LEMMA UnregisterKeepsLive ==
    ASSUME LiveInv, NEW c \in Clients, Unregister(c) PROVE LiveInv'
  <1> PICK row : row = [state |-> "closed", wants |-> {}]
    OBVIOUS
  <1>1. /\ client' = [client EXCEPT ![c] = row]
        /\ closedUnder' = (closedUnder \/ (fan # NoFan /\ fan.checked = c)) /\ Alive
        /\ UNCHANGED <<published, wire, buffer, got, fan, hub, since, dropped, lost>>
    BY DEF Unregister, Closed
  <1>2. \A d \in Clients : client'[d] = IF d = c THEN row ELSE client[d]
    BY <1>1 DEF LiveInv, LiveShape
  <1>3. LiveShape'
    <2>1. client' = [d \in Clients |-> [state |-> client'[d].state, wants |-> client'[d].wants]]
      BY <1>1, <1>2 DEF LiveInv, LiveShape
    <2> QED BY <1>1, <2>1 DEF LiveInv, LiveShape
  <1>4. WireInv' /\ \A d \in Clients : OrderInv(d)' /\ ServedInv(d)'
    BY <1>1, <1>2, ClosingKeepsServed DEF Reached, IsOpen
  <1>5. RaceInv'
    BY <1>1, <1>2 DEF LiveInv, LiveShape, RaceInv, IsOpen, PanicsAreRaces, FanRecords, Alive
  <1> QED BY <1>3, <1>4, <1>5 DEF LiveInv

LEMMA WriteKeepsLive ==
    ASSUME LiveInv, NEW c \in Clients, Write(c) PROVE LiveInv'
  <1>1. /\ got' = [got EXCEPT ![c] = Append(@, Head(buffer[c]))]
        /\ buffer' = [buffer EXCEPT ![c] = Tail(@)] /\ buffer[c] # <<>>
        /\ UNCHANGED <<published, wire, client, fan, hub, since, dropped, lost, closedUnder>>
    BY DEF Write
  <1>2. got[c] \in Seq(Nat) /\ buffer[c] \in Seq(Nat)
    BY DEF LiveInv, LiveShape
  <1>3. /\ Append(got[c], Head(buffer[c])) \in Seq(Nat) /\ Tail(buffer[c]) \in Seq(Nat)
        /\ Append(got[c], Head(buffer[c])) \o Tail(buffer[c]) = Reached(c)
    <2>1. Head(buffer[c]) \in Nat /\ Tail(buffer[c]) \in Seq(Nat)
      BY <1>1, <1>2, TailElems
    <2>2. Append(got[c], Head(buffer[c])) \in Seq(Nat)
      BY <1>2, <2>1
    <2> QED BY <1>1, <1>2, <2>1, <2>2, WritingOn DEF Reached
  <1>4. LiveShape'
    BY <1>1, <1>3 DEF LiveInv, LiveShape
  <1>5. \A d \in Clients : Reached(d)' = Reached(d)
    BY <1>1, <1>3 DEF LiveInv, LiveShape, Reached
  <1>6. WireInv' /\ \A d \in Clients : OrderInv(d)' /\ ServedInv(d)'
    BY <1>1, <1>5, ClosingKeepsServed DEF IsOpen
  <1>7. RaceInv'
    BY <1>1 DEF LiveInv, RaceInv, IsOpen, PanicsAreRaces
  <1> QED BY <1>4, <1>6, <1>7 DEF LiveInv

LEMMA StoppingKeepsLive == ASSUME LiveInv, Cancel \/ CloseAllClients PROVE LiveInv'
  <1>1. /\ UNCHANGED <<published, wire, buffer, got, fan, since, dropped, lost, closedUnder>>
        /\ hub \in {"running", "stopping"} /\ hub' \in {"stopping", "stopped"}
    BY DEF Cancel, CloseAllClients
  <1>2. /\ client' = [d \in Clients |-> [state |-> client'[d].state, wants |-> client'[d].wants]]
        /\ \A d \in Clients : client'[d] = client[d] \/ client'[d].state = "closed"
    <2>1. CASE Cancel
      BY <2>1 DEF Cancel, LiveInv, LiveShape
    <2>2. CASE CloseAllClients
      <3>1. client' = [c \in Clients |->
                          IF IsOpen(c) THEN [state |-> "closed", wants |-> {}] ELSE client[c]]
        BY <2>2 DEF CloseAllClients
      <3>2. \A d \in Clients : \/ client'[d] = [state |-> "closed", wants |-> {}]
                               \/ client'[d] = client[d]
        BY <3>1
      <3>3. \A d \in Clients : client[d] = [state |-> client[d].state, wants |-> client[d].wants]
        BY DEF LiveInv, LiveShape
      <3>4. \A d \in Clients :
               /\ client'[d] = [state |-> client'[d].state, wants |-> client'[d].wants]
               /\ client'[d] = client[d] \/ client'[d].state = "closed"
        BY <3>2, <3>3
      <3>5. client' = [d \in Clients |-> client'[d]]
        BY <3>1
      <3> QED BY <3>4, <3>5
    <2> QED BY <2>1, <2>2
  <1>3. LiveShape'
    BY <1>1, <1>2 DEF LiveInv, LiveShape
  <1>4. WireInv' /\ \A d \in Clients : OrderInv(d)' /\ ServedInv(d)'
    BY <1>1, <1>2, ClosingKeepsServed DEF Reached, IsOpen
  <1>5. RaceInv'
    <2>1. fan = NoFan \/ client' = client
      BY DEF Cancel, CloseAllClients
    <2> QED BY <1>1, <2>1 DEF LiveInv, RaceInv, IsOpen, PanicsAreRaces
  <1> QED BY <1>3, <1>4, <1>5 DEF LiveInv
(* The loop takes a message, looks at a client, sends to it, loses its subscription. *)
LEMMA FanOutKeepsLive == ASSUME LiveInv, FanOut PROVE LiveInv'
  <1> PICK m : m = Head(wire)
    OBVIOUS
  <1> PICK targets \in SUBSET Clients :
         targets = {c \in Clients : IsOpen(c) /\ Wants(c, published[m].topic)}
    OBVIOUS
  <1>1. /\ hub \in {"running", "stopping"} /\ fan = NoFan /\ wire # <<>> /\ wire' = Tail(wire)
        /\ fan' = [msg |-> m, checked |-> NoFan, left |-> targets]
        /\ UNCHANGED <<published, client, buffer, got, hub, since, dropped, lost, closedUnder>>
    BY DEF FanOut
  <1>2. /\ m \in Nat /\ wire' \in Seq(Nat) /\ Elems(wire) = {m} \cup Elems(wire')
        /\ Rising(wire') /\ \A n \in Elems(wire') : m < n
    BY <1>1, TailElems DEF LiveInv, LiveShape, WireInv
  <1>3. /\ fan' \in FanRecords /\ fan' # NoFan
        /\ fan'.msg = m /\ fan'.left = targets /\ fan'.checked = NoFan
    BY <1>1, <1>2, RealtimeAssumption DEF FanRecords
  <1>4. LiveShape'
    BY <1>1, <1>2, <1>3 DEF LiveInv, LiveShape, FanRecords
  <1>5. WireInv'
    <2>1. Elems(wire)' = Elems(wire')
      BY DEF Elems
    <2>2. /\ Elems(wire) \subseteq 1..Len(published)
          /\ \A k \in Elems(wire), n \in 1..Len(published) : k <= n => n \in Elems(wire) \cup lost
      BY DEF LiveInv, WireInv
    <2>3. ASSUME NEW n \in 1..Len(published), m < n PROVE n \in Elems(wire') \cup lost
      <3>1. m \in Elems(wire) /\ m <= n /\ n # m
        BY <1>2, <2>3
      <3> QED BY <1>2, <2>2, <3>1
    <2>4. ASSUME NEW k \in Elems(wire'), NEW n \in 1..Len(published), k <= n
          PROVE  n \in Elems(wire') \cup lost
      <3>1. k \in Nat /\ m < k /\ m \in Nat /\ n \in Nat
        BY <1>2, <2>2, <2>4
      <3> QED BY <2>3, <2>4, <3>1
    <2>5. Rising(wire)'
      BY <1>2 DEF Rising
    <2> QED BY <1>1, <1>2, <1>3, <2>1, <2>2, <2>3, <2>4, <2>5 DEF WireInv
  <1>6. RaceInv'
    BY <1>1, <1>3 DEF RaceInv, PanicsAreRaces
  <1>7. \A c \in Clients : Elems(Reached(c))' = Elems(Reached(c)) /\ Reached(c)' = Reached(c)
    BY <1>1 DEF Elems, Reached
  <1>8. Elems(wire)' = Elems(wire')
    BY DEF Elems
  <1>9. ASSUME NEW c \in Clients PROVE OrderInv(c)'
    <2>1. ASSUME NEW k \in Elems(Reached(c)) PROVE Older(c, k)'
      <3>1. Older(c, k)
        BY <2>1 DEF LiveInv, OrderInv
      <3>2. k \in Nat /\ k < m
        BY <1>2, <3>1 DEF Older
      <3> QED BY <1>1, <1>2, <1>3, <1>8, <3>1, <3>2 DEF Older
    <2>2. Rising(Reached(c))'
      BY <1>7 DEF LiveInv, OrderInv, Rising
    <2> QED BY <1>7, <2>1, <2>2 DEF OrderInv
  <1>10. ASSUME NEW c \in Clients PROVE ServedInv(c)'
    <2>1. ServedInv(c)
      BY DEF LiveInv
    <2>2. ASSUME IsOpen(c), NEW n \in 1..Len(published), published[n].topic \in ForAll, Served(c, n)
          PROVE  Served(c, n)'
      <3>1. n = m => c \in targets
        BY <2>2 DEF Wants
      <3> QED BY <1>1, <1>2, <1>3, <1>7, <1>8, <2>2, <3>1 DEF Served
    <2>3. \A n : Due(c, n)' <=> Due(c, n)
      BY <1>1, <1>7 DEF Due
    <2> QED BY <1>1, <1>7, <2>1, <2>2, <2>3 DEF ServedInv, IsOpen
  <1> QED BY <1>4, <1>5, <1>6, <1>9, <1>10 DEF LiveInv

(* What is left of a delivery when some of its clients are not to be served. *)
LEMMA LeavingKeepsServed ==
    ASSUME LiveInv, UNCHANGED <<published, wire, dropped, lost, since, client, hub, got, buffer>>,
           \A c \in Clients : fan # NoFan /\ c \in fan.left =>
               \/ ~IsOpen(c)
               \/ fan' # NoFan /\ c \in fan'.left,
           fan' # NoFan => fan # NoFan /\ fan'.msg = fan.msg /\ fan'.left \subseteq fan.left
    PROVE  WireInv' /\ \A c \in Clients : OrderInv(c)' /\ ServedInv(c)'
  <1>1. /\ Elems(wire)' = Elems(wire)
        /\ \A c \in Clients : Elems(Reached(c))' = Elems(Reached(c)) /\ Reached(c)' = Reached(c)
    BY DEF Elems, Reached
  <1>2. WireInv'
    BY <1>1 DEF LiveInv, WireInv, Rising
  <1>3. ASSUME NEW c \in Clients PROVE OrderInv(c)' /\ ServedInv(c)'
    <2>1. \A m : Older(c, m) => Older(c, m)'
      BY <1>1 DEF Older
    <2>2. Rising(Reached(c))'
      BY <1>1 DEF LiveInv, OrderInv, Rising
    <2>3. \A n : IsOpen(c) /\ Served(c, n) => Served(c, n)'
      BY <1>1 DEF Served
    <2>4. \A n : Due(c, n)' <=> Due(c, n)
      BY <1>1 DEF Due
    <2>5. ServedInv(c)
      BY DEF LiveInv
    <2>6. OrderInv(c)'
      BY <1>1, <2>1, <2>2 DEF LiveInv, OrderInv
    <2>7. ServedInv(c)'
      BY <1>1, <2>3, <2>4, <2>5 DEF ServedInv, IsOpen
    <2> QED BY <2>6, <2>7
  <1> QED BY <1>2, <1>3

LEMMA LookAtKeepsLive == ASSUME LiveInv, LookAt PROVE LiveInv'
  <1>1. /\ fan # NoFan /\ fan.checked = NoFan
        /\ UNCHANGED <<published, wire, client, buffer, got, hub, since, dropped, lost, closedUnder>>
    BY DEF LookAt, Deliver
  <1>2. fan \in FanRecords
    BY <1>1 DEF LiveInv, LiveShape
  <1>3. \/ fan.left = {} /\ fan' = NoFan
        \/ \E c \in fan.left : IsOpen(c) /\ fan' = [fan EXCEPT !.checked = c]
        \/ \E c \in fan.left : ~IsOpen(c) /\ fan' = [fan EXCEPT !.left = @ \ {c}]
    BY DEF LookAt
  <1>4. CASE fan.left = {} /\ fan' = NoFan
    <2>1. WireInv' /\ \A c \in Clients : OrderInv(c)' /\ ServedInv(c)'
      BY <1>1, <1>4, LeavingKeepsServed
    <2>2. LiveShape' /\ RaceInv'
      BY <1>1, <1>4 DEF LiveInv, LiveShape, RaceInv, PanicsAreRaces, FanRecords
    <2> QED BY <2>1, <2>2 DEF LiveInv
  <1>5. ASSUME NEW c \in fan.left, IsOpen(c), fan' = [fan EXCEPT !.checked = c] PROVE LiveInv'
    <2>1. c \in Clients
      BY <1>2 DEF FanRecords
    <2>2. fan' = [msg |-> fan.msg, left |-> fan.left, checked |-> c] /\ fan' \in FanRecords
      BY <1>2, <1>5, <2>1 DEF FanRecords
    <2>3. fan' # NoFan
      BY <2>2, RealtimeAssumption DEF FanRecords
    <2>4. WireInv' /\ \A d \in Clients : OrderInv(d)' /\ ServedInv(d)'
      BY <1>1, <2>2, <2>3, LeavingKeepsServed
    <2>5. LiveShape'
      BY <1>1, <2>2 DEF LiveInv, LiveShape, FanRecords
    <2>6. fan'.checked = c /\ fan'.left = fan.left /\ IsOpen(c)'
      BY <1>1, <1>5, <2>2 DEF IsOpen
    <2>7. RaceInv'
      BY <1>1, <1>5, <2>6 DEF LiveInv, RaceInv, PanicsAreRaces, IsOpen
    <2> QED BY <2>4, <2>5, <2>7 DEF LiveInv
  <1>6. ASSUME NEW c \in fan.left, ~IsOpen(c), fan' = [fan EXCEPT !.left = @ \ {c}] PROVE LiveInv'
    <2>2. /\ fan' = [msg |-> fan.msg, left |-> fan.left \ {c}, checked |-> NoFan]
          /\ fan' \in FanRecords
      BY <1>1, <1>2, <1>6 DEF FanRecords
    <2>3. fan' # NoFan
      BY <2>2, RealtimeAssumption DEF FanRecords
    <2>4. WireInv' /\ \A d \in Clients : OrderInv(d)' /\ ServedInv(d)'
      BY <1>1, <1>6, <2>2, <2>3, LeavingKeepsServed
    <2>5. LiveShape' /\ RaceInv'
      BY <1>1, <2>2 DEF LiveInv, LiveShape, RaceInv, PanicsAreRaces, FanRecords
    <2> QED BY <2>4, <2>5 DEF LiveInv
  <1> QED BY <1>3, <1>4, <1>5, <1>6
LEMMA SendToKeepsLive == ASSUME LiveInv, NEW c \in Clients, SendTo(c) PROVE LiveInv'
  <1> PICK m : m = fan.msg
    OBVIOUS
  <1>1. /\ fan # NoFan /\ fan.checked = c /\ fan' = [fan EXCEPT !.left = @ \ {c}, !.checked = NoFan]
        /\ UNCHANGED <<published, wire, client, got, since, lost, closedUnder>>
    BY DEF SendTo, Deliver
  <1>2. fan \in FanRecords /\ c # NoFan /\ c \in fan.left /\ (IsOpen(c) \/ closedUnder)
    BY <1>1, RealtimeAssumption DEF LiveInv, LiveShape, RaceInv
  <1>3. /\ fan' = [msg |-> m, left |-> fan.left \ {c}, checked |-> NoFan] /\ fan' \in FanRecords
        /\ m \in Nat
    BY <1>1, <1>2 DEF FanRecords
  <1>4. fan' # NoFan
    BY <1>3, RealtimeAssumption DEF FanRecords
  <1>5. WireInv'
    <2>1. Elems(wire)' = Elems(wire)
      BY <1>1 DEF Elems
    <2> QED BY <1>1, <1>3, <1>4, <2>1 DEF LiveInv, WireInv, Rising
  <1>6. RaceInv'
    <2>1. (hub' = "panicked" /\ ~IsOpen(c)) \/ hub' = hub
      BY DEF SendTo
    <2> QED BY <1>1, <1>2, <1>3, <2>1 DEF LiveInv, RaceInv, PanicsAreRaces, Alive
  <1>7. CASE ~IsOpen(c) /\ hub' = "panicked" /\ UNCHANGED <<buffer, dropped>>
    <2>1. ASSUME NEW d \in Clients
          PROVE  /\ Elems(Reached(d))' = Elems(Reached(d)) /\ Reached(d)' = Reached(d)
                 /\ \A k : Older(d, k) => Older(d, k)'
      BY <1>1, <1>3, <1>7 DEF Elems, Reached, Older
    <2>2. \A d \in Clients : OrderInv(d)'
      BY <2>1 DEF LiveInv, OrderInv, Rising
    <2>3. \A d \in Clients : ServedInv(d)'
      BY <1>1, <1>7, <2>1 DEF LiveInv, ServedInv
    <2>4. LiveShape'
      BY <1>1, <1>3, <1>7 DEF LiveInv, LiveShape
    <2> QED BY <1>5, <1>6, <2>2, <2>3, <2>4 DEF LiveInv
  <1>8. CASE IsOpen(c) /\ dropped' = dropped \cup {<<c, m>>} /\ UNCHANGED <<buffer, hub>>
    <2>1. ASSUME NEW d \in Clients
          PROVE  /\ Elems(Reached(d))' = Elems(Reached(d)) /\ Reached(d)' = Reached(d)
                 /\ Elems(wire)' = Elems(wire)
      BY <1>1, <1>8 DEF Elems, Reached
    <2>2. ASSUME NEW d \in Clients PROVE OrderInv(d)'
      <3>1. \A k : Older(d, k) => Older(d, k)'
        BY <1>1, <1>3, <2>1 DEF Older
      <3> QED BY <2>1, <3>1 DEF LiveInv, OrderInv, Rising
    <2>3. ASSUME NEW d \in Clients PROVE ServedInv(d)'
      <3>1. ServedInv(d)
        BY DEF LiveInv
      <3>2. \A k : Served(d, k) => Served(d, k)'
        BY <1>1, <1>3, <1>4, <1>8, <2>1 DEF Served
      <3>3. \A k : Due(d, k)' <=> Due(d, k)
        BY <1>1, <2>1 DEF Due
      <3> QED BY <1>1, <1>8, <2>1, <3>1, <3>2, <3>3 DEF ServedInv, IsOpen
    <2>4. LiveShape'
      BY <1>1, <1>3, <1>8 DEF LiveInv, LiveShape
    <2> QED BY <1>5, <1>6, <2>2, <2>3, <2>4 DEF LiveInv
  <1>9. CASE /\ IsOpen(c) /\ UNCHANGED <<dropped, hub>>
             /\ buffer' = [buffer EXCEPT ![c] = Append(@, m)]
    <2>1. /\ \A d \in Clients \ {c} : Reached(d)' = Reached(d)
          /\ Reached(c)' = Append(Reached(c), m) /\ Reached(c) \in Seq(Nat)
          /\ Append(buffer[c], m) \in Seq(Nat)
      <3>1. got[c] \in Seq(Nat) /\ buffer[c] \in Seq(Nat) /\ Reached(c) \in Seq(Nat)
        BY ReachedElems DEF LiveInv
      <3>2. /\ \A d \in Clients \ {c} : buffer'[d] = buffer[d]
            /\ buffer'[c] = Append(buffer[c], m)
        BY <1>9 DEF LiveInv, LiveShape
      <3>3. Append(buffer[c], m) \in Seq(Nat)
        BY <1>3, <3>1
      <3>4. got[c] \o Append(buffer[c], m) = Append(got[c] \o buffer[c], m)
        BY <1>3, <3>1, BufferingOn
      <3> QED BY <1>1, <3>1, <3>2, <3>3, <3>4 DEF Reached
    <2>2. LiveShape'
      BY <1>1, <1>3, <1>9, <2>1 DEF LiveInv, LiveShape
    <2>3. /\ \A d \in Clients \ {c} : Elems(Reached(d))' = Elems(Reached(d))
          /\ Elems(Reached(c))' = Elems(Reached(c)) \cup {m} /\ Elems(wire)' = Elems(wire)
      <3>1. \A d \in Clients \ {c} : Elems(Reached(d))' = Elems(Reached(d))
        BY <2>1 DEF Elems
      <3>2. Elems(Reached(c))' = Elems(Append(Reached(c), m))
        BY <2>1 DEF Elems
      <3>3. Elems(Append(Reached(c), m)) = Elems(Reached(c)) \cup {m}
        BY <1>3, <2>1, AppendElems
      <3>4. Elems(wire)' = Elems(wire)
        BY <1>1 DEF Elems
      <3> QED BY <3>1, <3>2, <3>3, <3>4
    <2>4. \A k \in Elems(Reached(c)) : Older(c, k) /\ k < m
      BY <1>1, <1>2 DEF LiveInv, OrderInv, Older
    <2>5. ASSUME NEW d \in Clients PROVE OrderInv(d)'
      <3>1. \A k : Older(d, k) => Older(d, k)'
        BY <1>1, <1>3, <2>3 DEF Older
      <3>2. CASE d # c
        <4>1. Rising(Reached(d))'
          BY <2>1, <3>2 DEF LiveInv, OrderInv, Rising
        <4> QED BY <2>3, <3>1, <3>2, <4>1 DEF LiveInv, OrderInv
      <3>3. CASE d = c
        <4>1. Rising(Append(Reached(c), m))
          BY <1>3, <2>1, <2>4, AppendElems DEF LiveInv, OrderInv
        <4>2. Rising(Reached(c))'
          BY <2>1, <4>1 DEF Rising
        <4>3. Older(c, m)'
          BY <1>1, <1>3, <2>3 DEF LiveInv, WireInv, Older
        <4> QED BY <2>3, <2>4, <3>1, <3>3, <4>2, <4>3 DEF OrderInv
      <3> QED BY <3>2, <3>3
    <2>6. ASSUME NEW d \in Clients PROVE ServedInv(d)'
      <3>1. ServedInv(d) /\ (d = c => client[d].state # "new")
        BY <1>9 DEF LiveInv, IsOpen
      <3>2. \A k : Served(d, k) => Served(d, k)'
        BY <1>1, <1>3, <1>4, <1>9, <2>3 DEF Served
      <3>3. ASSUME NEW k \in 1..Len(published), Due(d, k)'
            PROVE  Due(d, k) \/ (m <= k /\ d = c)
        <4>1. since'[d] = since[d] /\ Elems(Reached(d))' \subseteq Elems(Reached(d)) \cup
                 (IF d = c THEN {m} ELSE {})
          BY <1>1, <2>3
        <4> QED BY <3>3, <4>1 DEF Due
      <3>4. \A k \in 1..Len(published) : m <= k => k = m \/ k \in Elems(wire) \cup lost
        <4>1. \A k \in 1..Len(published) : m < k => k \in Elems(wire) \cup lost
          BY <1>1 DEF LiveInv, WireInv
        <4> QED BY <1>3, <4>1
      <3>5. \A k \in 1..Len(published) : m <= k => Served(c, k)'
        BY <1>1, <2>3, <3>4 DEF Served
      <3>6. client[d].state = "new" => Reached(d)' = <<>>
        BY <2>1, <3>1 DEF ServedInv
      <3> QED BY <1>1, <1>9, <3>1, <3>2, <3>3, <3>5, <3>6 DEF ServedInv, IsOpen
    <2> QED BY <1>5, <1>6, <2>2, <2>5, <2>6 DEF LiveInv
  <1> QED BY <1>7, <1>8, <1>9 DEF SendTo

LEMMA ResubscribeKeepsLive == ASSUME LiveInv, Resubscribe PROVE LiveInv'
  <1>1. /\ fan = NoFan /\ wire' = <<>> /\ lost' = lost \cup Elems(wire)
        /\ UNCHANGED <<published, client, buffer, got, fan, hub, since, dropped, closedUnder>>
    BY DEF Resubscribe, Elems
  <1>2. /\ Elems(wire)' = {} /\ LiveShape' /\ RaceInv'
    BY <1>1 DEF LiveInv, LiveShape, RaceInv, IsOpen, PanicsAreRaces, Elems
  <1>3. WireInv'
    BY <1>1, <1>2 DEF WireInv, Rising
  <1>4. ASSUME NEW c \in Clients PROVE OrderInv(c)' /\ ServedInv(c)'
    <2>1. Elems(Reached(c))' = Elems(Reached(c)) /\ Reached(c)' = Reached(c)
      BY <1>1 DEF Elems, Reached
    <2>2. \A k : (Older(c, k) => Older(c, k)') /\ (Served(c, k) => Served(c, k)')
      BY <1>1, <1>2, <2>1 DEF Older, Served
    <2>3. OrderInv(c)'
      BY <2>1, <2>2 DEF LiveInv, OrderInv, Rising
    <2>4. \A k : Due(c, k)' <=> Due(c, k)
      BY <1>1, <2>1 DEF Due
    <2>5. ServedInv(c)
      BY DEF LiveInv
    <2>6. ServedInv(c)'
      BY <1>1, <2>1, <2>2, <2>4, <2>5 DEF ServedInv, IsOpen
    <2> QED BY <2>3, <2>6
  <1> QED BY <1>2, <1>3, <1>4 DEF LiveInv
(* Publication: the next number, at the end of the wire. *)
LEMMA PublishAppends ==
    ASSUME LiveShape, NEW topic \in Topics, NEW s \in Supports \cup {NoFan}, Publish(topic, s)
    PROVE  /\ published' \in Seq([topic : Topics, by : Supports \cup {NoFan}])
           /\ Len(published) \in Nat /\ Len(published') = Len(published) + 1
           /\ \A n \in 1..Len(published) : published'[n] = published[n]
           /\ published'[Len(published) + 1].topic = topic /\ published'[Len(published) + 1].by = s
           /\ wire' = Append(wire, Len(published) + 1)
  <1> PICK R : R = [topic : Topics, by : Supports \cup {NoFan}]
    OBVIOUS
  <1> PICK row \in R : row = [topic |-> topic, by |-> s]
    OBVIOUS
  <1>1. published \in Seq(R) /\ published' = Append(published, row)
    BY DEF LiveShape, Publish
  <1>2. /\ published' \in Seq(R) /\ Len(published) \in Nat /\ Len(published') = Len(published) + 1
        /\ \A n \in 1..Len(published) : published'[n] = published[n]
        /\ published'[Len(published) + 1] = row
    BY <1>1
  <1>3. wire' = Append(wire, Len(published) + 1)
    BY <1>2 DEF Publish
  <1> QED BY <1>2, <1>3

LEMMA PublishKeepsLive ==
    ASSUME LiveInv, NEW topic \in Topics, NEW s \in Supports \cup {NoFan}, Publish(topic, s)
    PROVE  LiveInv'
  <1> PICK N : N = Len(published)
    OBVIOUS
  <1>1. /\ published' \in Seq([topic : Topics, by : Supports \cup {NoFan}])
        /\ N \in Nat /\ Len(published') = N + 1 /\ Len(published) = N
        /\ \A n \in 1..N : published'[n] = published[n]
        /\ wire' = Append(wire, N + 1)
        /\ UNCHANGED <<client, buffer, got, fan, hub, since, dropped, lost, closedUnder>>
    BY PublishAppends DEF LiveInv, Publish
  <1>2. wire \in Seq(Nat) /\ Rising(wire) /\ Elems(wire) \subseteq 1..N
    BY <1>1 DEF LiveInv, LiveShape, WireInv
  <1>3. /\ wire' \in Seq(Nat) /\ Elems(wire') = Elems(wire) \cup {N + 1} /\ Rising(wire')
    BY <1>1, <1>2, AppendElems
  <1>4. LiveShape' /\ RaceInv'
    BY <1>1, <1>3 DEF LiveInv, LiveShape, RaceInv, IsOpen, PanicsAreRaces
  <1>5. Elems(wire)' = Elems(wire) \cup {N + 1} /\ Rising(wire)'
    BY <1>3 DEF Elems, Rising
  <1>6. \A n \in 1..(N + 1) : n \in 1..N \/ n = N + 1
    BY <1>1
  <1>7. WireInv'
    <2>1. /\ \A m \in Elems(wire), n \in 1..N : m <= n => n \in Elems(wire) \cup lost
          /\ fan # NoFan => /\ fan.msg \in 1..N /\ \A m \in Elems(wire) : fan.msg < m
                            /\ \A n \in 1..N : fan.msg < n => n \in Elems(wire) \cup lost
      BY <1>1 DEF LiveInv, WireInv
    <2>2. ASSUME NEW m \in Elems(wire) \cup {N + 1}, NEW n \in 1..(N + 1), m <= n
          PROVE  n \in Elems(wire) \cup {N + 1} \cup lost
      BY <1>1, <1>2, <1>6, <2>1, <2>2
    <2>3. fan # NoFan =>
            /\ fan.msg \in 1..(N + 1) /\ \A m \in Elems(wire) \cup {N + 1} : fan.msg < m
            /\ \A n \in 1..(N + 1) : fan.msg < n => n \in Elems(wire) \cup {N + 1} \cup lost
      BY <1>1, <1>2, <1>6, <2>1
    <2>4. Elems(wire)' \subseteq 1..Len(published')
      BY <1>1, <1>2, <1>5
    <2>5. \A m \in Elems(wire)', n \in 1..Len(published') : m <= n => n \in Elems(wire)' \cup lost'
      BY <1>1, <1>5, <2>2
    <2>6. fan' # NoFan =>
            /\ fan'.msg \in 1..Len(published') /\ \A m \in Elems(wire)' : fan'.msg < m
            /\ \A n \in 1..Len(published') : fan'.msg < n => n \in Elems(wire)' \cup lost'
      BY <1>1, <1>5, <2>3
    <2> QED BY <1>5, <2>4, <2>5, <2>6 DEF WireInv
  <1>8. ASSUME NEW c \in Clients PROVE OrderInv(c)' /\ ServedInv(c)'
    <2>1. Elems(Reached(c))' = Elems(Reached(c)) /\ Reached(c)' = Reached(c)
      BY <1>1 DEF Elems, Reached
    <2>2. \A m : Older(c, m) => Older(c, m)'
      BY <1>1, <1>5 DEF Older
    <2>3. OrderInv(c)'
      BY <2>1, <2>2 DEF LiveInv, OrderInv, Rising
    <2>4. /\ \A n : Served(c, n) => Served(c, n)'
          /\ Served(c, N + 1)' /\ \A n : Due(c, n)' <=> Due(c, n)
      BY <1>1, <1>5, <2>1 DEF Served, Due
    <2>5. ServedInv(c)
      BY DEF LiveInv
    <2>6. ServedInv(c)'
      BY <1>1, <1>6, <2>1, <2>4, <2>5 DEF ServedInv, IsOpen
    <2> QED BY <2>3, <2>6
  <1> QED BY <1>4, <1>7, <1>8 DEF LiveInv

(* Who publishes. *)
LEMMA HubPublishesNothing ==
    ASSUME LiveInv, HubNext PROVE LiveInv' /\ published' = published
  <1>1. ASSUME NEW c \in Clients,
               OpenSocket(c) \/ Unregister(c) \/ SendTo(c) \/ Write(c)
               \/ \E topic \in Topics : SetInterest(c, topic)
        PROVE  LiveInv' /\ published' = published
    <2>1. LiveInv'
      BY <1>1, OpenSocketKeepsLive, UnregisterKeepsLive, SendToKeepsLive, WriteKeepsLive,
         SetInterestKeepsLive
    <2>2. published' = published
      BY <1>1 DEF OpenSocket, Unregister, SendTo, Write, SetInterest
    <2> QED BY <2>1, <2>2
  <1>2. ASSUME FanOut \/ LookAt \/ Resubscribe \/ Cancel \/ CloseAllClients
        PROVE  LiveInv' /\ published' = published
    <2>1. LiveInv'
      BY <1>2, FanOutKeepsLive, LookAtKeepsLive, ResubscribeKeepsLive, StoppingKeepsLive
    <2>2. published' = published
      BY <1>2 DEF FanOut, LookAt, Resubscribe, Cancel, CloseAllClients
    <2> QED BY <2>1, <2>2
  <1> QED BY <1>1, <1>2 DEF HubNext

LEMMA LiveMoves ==
    ASSUME LiveInv, GameNext \/ UNCHANGED gameVars
    PROVE  \/ UNCHANGED liveVars
           \/ HubNext /\ UNCHANGED pipelineVars
           \/ \E s \in Supports : PublishSupport(s) \/ PublishFlip(s) \/ PublishFeed(s)
           \/ Publish("room", NoFan) /\ UNCHANGED pipelineVars
  <1>1. CASE SupportsNext
    BY <1>1 DEF SupportsNext, PublishNext, effectVars
  <1>2. CASE ServersNext
    BY <1>2 DEF ServersNext
  <1>3. CASE TribesNext /\ UNCHANGED pipelineVars
    BY <1>3 DEF TribesNext
  <1>4. CASE ~SupportsNext /\ ~ServersNext /\ ~TribesNext
    BY <1>4 DEF GameNext, gameVars, effectVars
  <1>5. SupportsNext \/ ServersNext \/ UNCHANGED pipelineVars
    BY DEF GameNext, gameVars
  <1> QED BY <1>1, <1>2, <1>3, <1>4, <1>5

LEMMA LiveStep == ASSUME LiveInv, GameNext \/ UNCHANGED gameVars PROVE LiveInv'
  <1>1. CASE UNCHANGED liveVars
    <2>1. LiveShape' /\ WireInv' /\ RaceInv'
      BY <1>1 DEF liveVars, LiveInv, LiveShape, WireInv, RaceInv, Elems, Rising, IsOpen,
                  PanicsAreRaces, FanRecords
    <2>2. ASSUME NEW c \in Clients PROVE OrderInv(c)' /\ ServedInv(c)'
      <3>1. /\ Elems(Reached(c))' = Elems(Reached(c)) /\ Reached(c)' = Reached(c)
            /\ Elems(wire)' = Elems(wire)
        BY <1>1 DEF liveVars, Elems, Reached
      <3>2. OrderInv(c)'
        BY <1>1, <3>1 DEF liveVars, LiveInv, OrderInv, Older, Rising
      <3>3. \A n : (Due(c, n)' <=> Due(c, n)) /\ (Served(c, n)' <=> Served(c, n))
        BY <1>1, <3>1 DEF liveVars, Due, Served
      <3>4. ServedInv(c)
        BY DEF LiveInv
      <3>5. ServedInv(c)'
        BY <1>1, <3>1, <3>3, <3>4 DEF liveVars, ServedInv, IsOpen
      <3> QED BY <3>2, <3>5
    <2> QED BY <2>1, <2>2 DEF LiveInv
  <1>2. CASE HubNext
    BY <1>2, HubPublishesNothing
  <1>3. ASSUME NEW topic \in Topics, NEW s \in Supports \cup {NoFan}, Publish(topic, s)
        PROVE  LiveInv'
    BY <1>3, PublishKeepsLive
  <1>4. {"support", "flip", "feed", "room"} \subseteq Topics
    BY DEF Topics
  <1> QED BY <1>1, <1>2, <1>3, <1>4, LiveMoves DEF PublishSupport, PublishFlip, PublishFeed
(* The flips: who is called to publish one, and when. *)
LEMMA FlipsAreCalled ==
    ASSUME PipeInv, NEW s \in Supports, CommitSupport(s)
    PROVE  /\ stage'[s] = "flip_event" => s \in flips' /\ "flip_event" \in effects
           /\ Ongoing' \subseteq Ongoing \cup {s} /\ (overlapping' = {} => Ongoing = {})
           /\ effects' = effects /\ (overlapping' = {} => overlapping = {})
           /\ flips \subseteq flips' /\ \A t \in Supports \ {s} : stage'[t] = stage[t]
  <1> PICK calls : calls = CallsOf(Leader([Scores EXCEPT ![SideOf[s]] = @ + Worth[s]])
                                      # Leader(Scores))
    OBVIOUS
  <1>1. /\ stage' = [stage EXCEPT ![s] = First(calls)] /\ effects' = effects
        /\ overlapping' = IF Ongoing = {} THEN overlapping ELSE overlapping \cup Ongoing \cup {s}
    BY DEF CommitSupport
  <1>2. calls = CallsOf(s \in flips)' /\ calls \subseteq Calls_
    BY <1>1, CommitFlips DEF CallsOf, PipeInv, PipeShape
  <1>3. stage'[s] = First(calls) /\ \A t \in Supports \ {s} : stage'[t] = stage[t]
    BY <1>1 DEF PipeInv, PipeShape
  <1>4. stage'[s] = "flip_event" => "flip_event" \in calls
    BY <1>2, <1>3, FirstCall, CallNames
  <1>5. "flip_event" \in calls => s \in flips' /\ "flip_event" \in effects
    BY <1>1, <1>2 DEF CallsOf, FlipOnly
  <1>6. Ongoing' \subseteq Ongoing \cup {s}
    BY <1>3 DEF Ongoing, Committed
  <1>7. flips \subseteq flips'
    <2>1. flips \subseteq Supports
      BY CommitsShaped DEF flips, PipeInv
    <2> QED BY <2>1, CommitFlips
  <1> QED BY <1>1, <1>3, <1>4, <1>5, <1>6, <1>7

LEMMA CallsEnd ==
    ASSUME PipeInv,
           \/ UNCHANGED pipelineVars
           \/ \E s \in Supports : Skip(s) \/ BreakOff(s) \/ \E d \in Calls_ : Pass(s, d)
    PROVE  /\ UNCHANGED <<commits, effects, overlapping>> /\ flips' = flips
           /\ Ongoing' \subseteq Ongoing
           /\ \A s \in Supports :
                 (stage[s] = "flip_event" => s \in flips /\ "flip_event" \in effects) =>
                 (stage'[s] = "flip_event" => s \in flips /\ "flip_event" \in effects)
  <1>1. UNCHANGED <<commits, effects, overlapping>>
    BY DEF pipelineVars, Skip, BreakOff, Pass
  <1>2. flips' = flips
    BY <1>1 DEF flips, Flipped, ScoresAfter, Leader
  <1>3. CASE UNCHANGED pipelineVars
    BY <1>1, <1>2, <1>3 DEF pipelineVars, Ongoing, Committed
  <1>4. ASSUME NEW s \in Supports, BreakOff(s) \/ Skip(s) \/ \E d \in Calls_ : Pass(s, d)
        PROVE  /\ Ongoing' \subseteq Ongoing
               /\ \A t \in Supports :
                     (stage[t] = "flip_event" => t \in flips /\ "flip_event" \in effects) =>
                     (stage'[t] = "flip_event" => t \in flips /\ "flip_event" \in effects)
    <2> PICK next : next = stage'[s]
      OBVIOUS
    <2>1. stage[s] \in Calls_ /\ (stage' = [stage EXCEPT ![s] = First(Behind(s))]
                                  \/ stage' = [stage EXCEPT ![s] = "done"])
      BY <1>4 DEF BreakOff, Skip, Pass, Ongoing, Committed, PipeInv, PipeShape
    <2>2. /\ \A t \in Supports \ {s} : stage'[t] = stage[t]
          /\ next = First(Behind(s)) \/ next = "done"
      BY <2>1 DEF PipeInv, PipeShape
    <2>3. Behind(s) \subseteq Calls_
      BY DEF Behind, CallsOf, PipeInv, PipeShape
    <2>4. next = "flip_event" => "flip_event" \in Behind(s)
      BY <2>2, <2>3, FirstCall, CallNames
    <2>5. "flip_event" \in Behind(s) => s \in flips /\ "flip_event" \in effects
      BY DEF Behind, CallsOf, FlipOnly
    <2>6. s \in Ongoing
      BY <2>1, CallNames DEF Ongoing, Committed
    <2>7. Ongoing' \subseteq Ongoing
      BY <2>2, <2>6 DEF Ongoing, Committed
    <2> QED BY <2>2, <2>4, <2>5, <2>7
  <1> QED BY <1>1, <1>2, <1>3, <1>4
LEMMA FlipMoves ==
    ASSUME PipeInv, LiveInv, GameNext \/ UNCHANGED gameVars
    PROVE  \/ \E s \in Supports : PublishFlip(s)
           \/ /\ \/ UNCHANGED pipelineVars
                 \/ RequestNext
                 \/ \E s \in Supports, d \in Calls_ \ {"flip_event"} : Pass(s, d)
              /\ \/ published' = published
                 \/ \E topic \in Topics \ {"flip"}, s \in Supports \cup {NoFan} : Publish(topic, s)
  <1>1. CASE SupportsNext
    <2>1. CASE RequestNext /\ UNCHANGED effectVars
      BY <2>1 DEF effectVars, liveVars
    <2>2. CASE InvalidateNext /\ UNCHANGED liveVars
      <3>1. Caches \subseteq Calls_ \ {"flip_event"}
        BY CallNames DEF Caches
      <3> QED BY <2>2, <3>1, InvalidatePasses DEF liveVars
    <2>3. CASE ProgressNext /\ UNCHANGED liveVars
      <3>1. {"xp", "streak", "first", "streaks"} \subseteq Calls_ \ {"flip_event"}
        BY CallNames
      <3> QED BY <2>3, <3>1, ProgressPasses DEF liveVars
    <2>4. CASE PostBoards /\ UNCHANGED liveVars
      <3>1. "boards" \in Calls_ \ {"flip_event"}
        BY CallNames
      <3> QED BY <2>4, <3>1, BoardsPass DEF liveVars
    <2>5. CASE DetectNext /\ UNCHANGED liveVars
      <3>1. AlertStages \subseteq Calls_ \ {"flip_event"}
        BY CallNames DEF AlertStages
      <3> QED BY <2>5, <3>1, DetectPasses DEF liveVars
    <2>6. CASE PublishNext
      <3> PICK s \in Supports : PublishSupport(s) \/ PublishFlip(s) \/ PublishFeed(s)
        BY <2>6 DEF PublishNext
      <3>1. {"support_event", "feed"} \subseteq Calls_ \ {"flip_event"}
        BY CallNames
      <3>2. {"support", "feed"} \subseteq Topics \ {"flip"}
        BY DEF Topics
      <3> QED BY <3>1, <3>2 DEF PublishSupport, PublishFeed
    <2> QED BY <1>1, <2>1, <2>2, <2>3, <2>4, <2>5, <2>6 DEF SupportsNext
  <1>2. CASE ~SupportsNext
    <2>1. UNCHANGED pipelineVars
      <3>1. CASE ServersNext
        <4>1. ArchiveNext \/ RankNext => UNCHANGED pipelineVars
          BY DEF ArchiveNext, RankNext
        <4>2. PushNext => UNCHANGED pipelineVars
          BY DEF PushNext
        <4> QED BY <3>1, <4>1, <4>2 DEF ServersNext
      <3> QED BY <1>2, <3>1 DEF GameNext, gameVars
    <2>2. \/ UNCHANGED liveVars \/ HubNext \/ Publish("room", NoFan)
          \/ \E s \in Supports : PublishFlip(s) \/ PublishSupport(s) \/ PublishFeed(s)
      BY LiveMoves
    <2>3. HubNext => published' = published
      BY HubPublishesNothing
    <2>4. "room" \in Topics \ {"flip"} /\ {"support", "feed"} \subseteq Topics \ {"flip"}
      BY DEF Topics
    <2> QED BY <2>1, <2>2, <2>3, <2>4 DEF liveVars, PublishSupport, PublishFeed
  <1> QED BY <1>1, <1>2

(* The messages there are stay, and a new one is at the end. *)
LEMMA MessagesGrow ==
    ASSUME LiveInv, published' = published
                    \/ \E topic \in Topics, s \in Supports \cup {NoFan} : Publish(topic, s)
    PROVE  /\ Len(published) \in Nat
           /\ Len(published') = Len(published) \/ Len(published') = Len(published) + 1
           /\ \A n \in 1..Len(published) : published'[n] = published[n]
  BY PublishAppends DEF LiveInv, LiveShape

LEMMA PublishFlipKeepsFlips ==
    ASSUME PipeInv, LiveInv, FlipInv, NEW s \in Supports, PublishFlip(s) PROVE FlipInv'
  <1> PICK N : N = Len(published)
    OBVIOUS
  <1>1. Pass(s, "flip_event") /\ Publish("flip", s) /\ "flip_event" \in Calls_ /\ "flip" \in Topics
    BY CallNames DEF PublishFlip, Topics
  <1>2. /\ N \in Nat /\ Len(published') = N + 1 /\ Len(published) = N
        /\ \A n \in 1..N : published'[n] = published[n]
        /\ published'[N + 1].topic = "flip" /\ published'[N + 1].by = s
        /\ \A n \in 1..(N + 1) : n \in 1..N \/ n = N + 1
    BY <1>1, PublishAppends DEF LiveInv
  <1>3. /\ UNCHANGED <<commits, effects, overlapping, skipped>> /\ flips' = flips
        /\ Ongoing' \subseteq Ongoing
        /\ \A t \in Supports : stage'[t] = "flip_event" => t \in flips /\ "flip_event" \in effects
    BY <1>1, CallsEnd DEF FlipInv, Pass
  <1>4. stage[s] = "flip_event" /\ s \in flips /\ "flip_event" \in effects /\ s \in Ongoing
    BY <1>1, CallNames DEF Pass, FlipInv, Ongoing, Committed
  <1>5. /\ \A n \in 1..N : \A t : FlipOf(n, t)' <=> FlipOf(n, t)
        /\ \A t : FlipOf(N + 1, t)' <=> t = s
    BY <1>2 DEF FlipOf
  <1>6. \A n \in 1..(N + 1) : published'[n].topic = "flip" =>
           published'[n].by \in flips /\ "flip_event" \in effects
    BY <1>2, <1>4 DEF FlipInv
  <1>7. ASSUME NEW t \in flips, Made(t, "flip_event")'
        PROVE  \E n \in 1..(N + 1) : FlipOf(n, t)'
    <2>1. CASE t = s
      BY <1>2, <1>5, <2>1
    <2>2. CASE t # s
      <3>1. t \in Supports
        BY CommitsShaped DEF flips, PipeInv
      <3>2. /\ \A d \in Supports \ {s} : Passed(d, "flip_event")' <=> Passed(d, "flip_event")
        BY <1>1, <1>3, <1>4, MovesOn DEF Pass
      <3>3. Made(t, "flip_event")
        BY <1>3, <1>7, <2>2, <3>1, <3>2 DEF Made
      <3>4. PICK n \in 1..N : FlipOf(n, t)
        BY <1>2, <1>7, <3>3 DEF FlipInv
      <3> QED BY <1>2, <1>5, <3>4
    <2> QED BY <2>1, <2>2
  <1>8. ASSUME overlapping = {} PROVE LastOnly' /\ InCommitOrder'
    <2>1. LastOnly /\ InCommitOrder
      BY <1>8 DEF FlipInv
    <2>2. LastOnly'
      BY <1>3, <2>1 DEF LastOnly
    <2>3. ASSUME NEW n \in 1..(N + 1), NEW m \in 1..(N + 1),
                 NEW i \in DOMAIN commits, NEW j \in DOMAIN commits, n < m,
                 FlipOf(n, commits[i].by)', FlipOf(m, commits[j].by)'
          PROVE  i <= j
      <3>1. n \in 1..N /\ FlipOf(n, commits[i].by)
        <4>1. n \in 1..N
          BY <1>2, <2>3
        <4> QED BY <1>3, <1>5, <2>3, <4>1 DEF FlipOf
      <3>2. CASE m \in 1..N
        <4>1. FlipOf(m, commits[j].by)
          BY <1>3, <1>5, <2>3, <3>2 DEF FlipOf
        <4> QED BY <1>2, <2>1, <2>3, <3>1, <3>2, <4>1 DEF InCommitOrder
      <3>3. CASE m = N + 1
        <4>1. commits[j].by = s
          BY <1>2, <1>3, <2>3, <3>3 DEF FlipOf
        <4>2. commits # <<>> /\ commits[Len(commits)].by = s
          BY <1>4, <2>1 DEF LastOnly
        <4>3. i \in 1..Len(commits) /\ Len(commits) \in Nat /\ Len(commits) \in DOMAIN commits
          BY CommitsShaped DEF PipeInv, PipeShape
        <4>4. j = Len(commits)
          BY <4>1, <4>2, <4>3 DEF PipeInv, CommitsNamed
        <4> QED BY <4>3, <4>4
      <3> QED BY <1>2, <3>2, <3>3
    <2>4. InCommitOrder'
      BY <1>2, <1>3, <2>3 DEF InCommitOrder, FlipOf
    <2> QED BY <2>2, <2>4
  <1> QED BY <1>2, <1>3, <1>6, <1>7, <1>8 DEF FlipInv
LEMMA OthersKeepFlips ==
    ASSUME PipeInv, PipeInv', LiveInv, FlipInv,
           \/ UNCHANGED pipelineVars
           \/ RequestNext
           \/ \E s \in Supports, d \in Calls_ \ {"flip_event"} : Pass(s, d),
           \/ published' = published
           \/ \E topic \in Topics \ {"flip"}, s \in Supports \cup {NoFan} : Publish(topic, s)
    PROVE  FlipInv'
  <1> PICK N : N = Len(published)
    OBVIOUS
  <1>0. "flip_event" \in Calls_
    BY CallNames
  <1>1. /\ N \in Nat /\ Len(published) = N /\ 1..N \subseteq 1..Len(published')
        /\ \A n \in 1..N : published'[n] = published[n]
        /\ \A n \in 1..Len(published') : n \in 1..N \/ published'[n].topic # "flip"
    <2>1. CASE published' = published
      BY <2>1 DEF LiveInv, LiveShape
    <2>2. ASSUME NEW topic \in Topics \ {"flip"}, NEW s \in Supports \cup {NoFan}, Publish(topic, s)
          PROVE  /\ N \in Nat /\ 1..N \subseteq 1..Len(published')
                 /\ \A n \in 1..N : published'[n] = published[n]
                 /\ \A n \in 1..Len(published') : n \in 1..N \/ published'[n].topic # "flip"
      <3>1. /\ N \in Nat /\ Len(published') = N + 1
            /\ \A n \in 1..N : published'[n] = published[n]
            /\ published'[N + 1].topic = topic
        BY <2>2, PublishAppends DEF LiveInv
      <3>2. \A n \in 1..(N + 1) : n \in 1..N \/ n = N + 1
        BY <3>1
      <3> QED BY <3>1, <3>2
    <2> QED BY <2>1, <2>2
  <1>2. \A n \in 1..N : \A t : FlipOf(n, t)' <=> FlipOf(n, t)
    BY <1>1 DEF FlipOf
  <1>3. \A n \in 1..Len(published') : \A t : FlipOf(n, t)' => n \in 1..N
    BY <1>1 DEF FlipOf
  <1>4. /\ Committed \subseteq Committed' /\ flips \subseteq flips'
        /\ \A t \in Committed : t \in flips' => t \in flips
        /\ \A t \in Committed' :
              Made(t, "flip_event")' /\ "flip_event" \in CallsOf(t \in flips)' =>
                 t \in Committed /\ Made(t, "flip_event")
    BY <1>0, NobodyMakes
  <1>5. ASSUME NEW t \in flips', Made(t, "flip_event")'
        PROVE  \E n \in 1..Len(published') : FlipOf(n, t)'
    <2>1. "flip_event" \in CallsOf(t \in flips)' /\ t \in Committed'
      BY <1>5 DEF Made, Passed, CallsOf
    <2>2. t \in flips /\ Made(t, "flip_event")
      BY <1>4, <1>5, <2>1
    <2>3. PICK n \in 1..N : FlipOf(n, t)
      BY <1>1, <2>2 DEF FlipInv
    <2> QED BY <1>1, <1>2, <2>3
  <1>6. CASE /\ UNCHANGED <<commits, effects, overlapping>> /\ flips' = flips
             /\ Ongoing' \subseteq Ongoing
             /\ \A t \in Supports : stage'[t] = "flip_event" =>
                   t \in flips /\ "flip_event" \in effects
    <2>1. \A n \in 1..Len(published') : published'[n].topic = "flip" =>
             published'[n].by \in flips /\ "flip_event" \in effects
      BY <1>1 DEF FlipInv
    <2>2. ASSUME overlapping = {} PROVE LastOnly' /\ InCommitOrder'
      <3>1. LastOnly'
        BY <1>6, <2>2 DEF FlipInv, LastOnly
      <3>2. ASSUME NEW n \in 1..Len(published'), NEW m \in 1..Len(published'),
                   NEW i \in DOMAIN commits, NEW j \in DOMAIN commits, n < m,
                   FlipOf(n, commits[i].by)', FlipOf(m, commits[j].by)'
            PROVE  i <= j
        <4>1. FlipOf(n, commits[i].by) /\ FlipOf(m, commits[j].by) /\ n \in 1..N /\ m \in 1..N
          BY <1>1, <1>6, <3>2 DEF FlipOf
        <4> QED BY <1>1, <2>2, <3>2, <4>1 DEF FlipInv, InCommitOrder
      <3> QED BY <1>6, <3>1, <3>2 DEF InCommitOrder, FlipOf
    <2> QED BY <1>5, <1>6, <2>1, <2>2 DEF FlipInv
  <1>7. ASSUME NEW s \in Supports, CommitSupport(s) PROVE FlipInv'
    <2>1. /\ stage'[s] = "flip_event" => s \in flips' /\ "flip_event" \in effects
          /\ Ongoing' \subseteq Ongoing \cup {s} /\ (overlapping' = {} => Ongoing = {})
          /\ effects' = effects /\ (overlapping' = {} => overlapping = {})
          /\ flips \subseteq flips' /\ \A t \in Supports \ {s} : stage'[t] = stage[t]
      BY <1>7, FlipsAreCalled
    <2>2. PICK L : L = Len(commits)
      OBVIOUS
    <2>3. /\ L \in Nat /\ Len(commits') = L + 1 /\ commits'[L + 1].by = s
          /\ \A i \in 1..L : commits'[i] = commits[i]
          /\ DOMAIN commits = 1..L /\ DOMAIN commits' = 1..(L + 1)
      <3>1. /\ Len(commits') = L + 1 /\ L \in Nat /\ commits'[L + 1].by = s
            /\ \A i \in 1..L : commits'[i] = commits[i]
            /\ commits' \in Seq([by : Supports, left : [Tribes -> Nat]])
        BY <1>7, <2>2, CommitAppends
      <3>2. commits \in Seq([by : Supports, left : [Tribes -> Nat]])
        BY DEF PipeInv, PipeShape
      <3> QED BY <2>2, <3>1, <3>2
    <2>4. s \notin flips
      BY <1>7, CommitFlips
    <2>5. \A t \in Supports : stage'[t] = "flip_event" => t \in flips' /\ "flip_event" \in effects
      BY <2>1 DEF FlipInv
    <2>6. \A n \in 1..Len(published') : published'[n].topic = "flip" =>
             published'[n].by \in flips /\ "flip_event" \in effects
      BY <1>1 DEF FlipInv
    <2>7. ASSUME overlapping' = {} PROVE LastOnly' /\ InCommitOrder'
      <3>1. LastOnly'
        <4>1. Ongoing' \subseteq {s} /\ commits' # <<>> /\ commits'[Len(commits')].by = s
          BY <2>1, <2>3, <2>7
        <4> QED BY <4>1 DEF LastOnly
      <3>2. ASSUME NEW n \in 1..Len(published'), NEW m \in 1..Len(published'),
                   NEW i \in DOMAIN commits', NEW j \in DOMAIN commits', n < m,
                   published'[n].topic = "flip", published'[n].by = commits'[i].by,
                   published'[m].topic = "flip", published'[m].by = commits'[j].by
            PROVE  i <= j
        <4>1. i \in 1..L /\ j \in 1..L
          <5>1. commits'[i].by # s /\ commits'[j].by # s
            BY <2>4, <2>6, <3>2
          <5> QED BY <2>3, <5>1
        <4>2. n \in 1..N /\ m \in 1..N
          BY <1>1, <3>2
        <4>3. FlipOf(n, commits[i].by) /\ FlipOf(m, commits[j].by)
          BY <1>1, <2>3, <3>2, <4>1, <4>2 DEF FlipOf
        <4> QED BY <1>1, <2>1, <2>3, <2>7, <3>2, <4>1, <4>2, <4>3 DEF FlipInv, InCommitOrder
      <3> QED BY <3>1, <3>2 DEF InCommitOrder, FlipOf
    <2> QED BY <1>5, <2>1, <2>5, <2>6, <2>7 DEF FlipInv
  <1>8. \/ \E s \in Supports : CommitSupport(s)
        \/ UNCHANGED pipelineVars
        \/ \E s \in Supports : Skip(s) \/ BreakOff(s) \/ \E d \in Calls_ : Pass(s, d)
    BY DEF RequestNext
  <1> QED BY <1>6, <1>7, <1>8, CallsEnd DEF FlipInv

LEMMA FlipStep ==
    ASSUME PipeInv, LiveInv, FlipInv, GameNext \/ UNCHANGED gameVars PROVE FlipInv'
  BY PipeStep, FlipMoves, PublishFlipKeepsFlips, OthersKeepFlips

LEMMA FlipStarts ==
    ASSUME NEW acting, NEW supports, PipelineInit(acting, supports), published = <<>>
    PROVE  FlipInv
  <1>1. Committed = {} /\ flips = {}
    BY DEF PipelineInit, Committed, flips
  <1> QED BY <1>1 DEF PipelineInit, FlipInv, Ongoing, LastOnly, InCommitOrder

(* The last flip a client has is the last flip that was published, which is that of *)
(* the last commit that flipped. *)
LEMMA LiveTells == ASSUME PipeInv, LiveInv, FlipInv PROVE ClientsSeeTheHolder
  <1> SUFFICES ASSUME NEW c \in Clients, NEW i \in DOMAIN Reached(c), ToldFlip(c, i), IsOpen(c),
                      hub = "running", wire = <<>>, fan = NoFan, skipped = {}, overlapping = {},
                      lost = {}, dropped = {}, Ongoing = {}
               PROVE  published[Reached(c)[i]].by = LastFlip
    BY DEF ClientsSeeTheHolder
  <1> PICK m : m = Reached(c)[i]
    OBVIOUS
  <1>0. i \in Nat /\ m \in Nat /\ m \in Elems(Reached(c)) /\ Reached(c) \in Seq(Nat)
    <2>1. Reached(c) \in Seq(Nat)
      BY ReachedElems DEF LiveInv
    <2> QED BY <2>1 DEF Elems
  <1>1. m \in 1..Len(published) /\ Len(published) \in Nat /\ published[m].topic = "flip"
    BY <1>0 DEF LiveInv, LiveShape, OrderInv, Older, ToldFlip
  <1>2. ASSUME NEW n \in 1..Len(published), published[n].topic = "flip" PROVE n <= m
    <2> SUFFICES ASSUME m < n PROVE FALSE
      BY <1>1
    <2>1. Due(c, n) /\ "flip" \in ForAll
      BY <1>0, <1>1 DEF Due, ForAll
    <2>2. Elems(wire) = {}
      BY DEF Elems
    <2>3. ServedInv(c)
      BY DEF LiveInv
    <2>4. n \in Elems(Reached(c))
      BY <1>2, <2>1, <2>2, <2>3 DEF ServedInv, Served
    <2>5. PICK j \in DOMAIN Reached(c) : Reached(c)[j] = n
      BY <2>4 DEF Elems
    <2>6. j <= i /\ j \in Nat
      BY <1>0, <1>2, <2>5 DEF ToldFlip
    <2>7. Rising(Reached(c))
      BY DEF LiveInv, OrderInv
    <2>8. j = i \/ n < m
      BY <1>0, <2>5, <2>6, <2>7 DEF Rising
    <2> QED BY <1>1, <2>5, <2>8
  <1> PICK s : s = published[m].by
    OBVIOUS
  <1>3. s \in flips /\ "flip_event" \in effects
    BY <1>1 DEF FlipInv
  <1> PICK at : at = {k \in DOMAIN commits : commits[k].by \in flips}
    OBVIOUS
  <1>4. /\ commits \in Seq([by : Supports, left : [Tribes -> Nat]]) /\ Len(commits) \in Nat
        /\ DOMAIN commits = 1..Len(commits)
    BY DEF PipeInv, PipeShape
  <1>5. PICK k \in at : commits[k].by = s
    BY <1>3 DEF flips
  <1>6. PICK l \in at : \A j \in at : j <= l
    <2> PICK away : away = {Len(commits) - j : j \in at}
      OBVIOUS
    <2>1. away \in SUBSET Nat /\ away # {}
      BY <1>4, <1>5
    <2>2. PICK a \in away : \A b \in away : a <= b
      BY <2>1, LeastNumber
    <2>3. PICK l \in at : a = Len(commits) - l
      BY <2>2
    <2>4. \A j \in at : Len(commits) - l <= Len(commits) - j
      BY <2>2, <2>3
    <2>5. \A j \in at : j <= l
      BY <1>4, <2>4
    <2> QED BY <2>5
  <1>7. LastFlip = commits[l].by
    <2>1. \A j \in at : (\A x \in at : x <= j) => j = l
      BY <1>4, <1>6
    <2> QED BY <1>6, <2>1 DEF LastFlip
  <1>8. Made(commits[l].by, "flip_event")
    <2>1. commits[l].by \in Supports /\ stage[commits[l].by] # "requested"
      BY <1>4, <1>6, CommitsShaped DEF PipeInv, CommitsNamed
    <2>2. stage[commits[l].by] = "done"
      BY <2>1 DEF Ongoing, Committed
    <2> QED BY <1>3, <2>1, <2>2 DEF Made, Passed, Committed
  <1>9. PICK n \in 1..Len(published) : FlipOf(n, commits[l].by)
    BY <1>6, <1>8 DEF FlipInv
  <1>10. n <= m
    BY <1>2, <1>9 DEF FlipOf
  <1>11. CASE n = m
    BY <1>7, <1>9, <1>11 DEF FlipOf
  <1>12. CASE n < m
    <2>1. l <= k
      BY <1>1, <1>4, <1>5, <1>6, <1>9, <1>12 DEF FlipInv, InCommitOrder, FlipOf
    <2>2. k = l
      BY <1>4, <1>5, <1>6, <2>1
    <2> QED BY <1>5, <1>7, <2>2
  <1> QED BY <1>1, <1>9, <1>10, <1>11, <1>12

(* In the whole back end every client has the messages meant for all, once and in the *)
(* order of publication, but for those dropped or lost; the process panics only when a *)
(* client closes in the window of a send; and without overlaps or losses the last flip *)
(* a client was told is the last there was (realtime/hub.go). *)
THEOREM ClientsStayServed == GameSpec => []ClientsAreServed
  <1>1. GameInit => PipeInv /\ LiveInv /\ FlipInv
    <2> SUFFICES ASSUME GameInit PROVE LiveInv /\ FlipInv
      BY GamePipeStarts
    <2> PICK start \in Starts : /\ RealtimeInit(start.sockets)
                                /\ PipelineInit(start.effects, start.asked)
      BY DEF GameInit
    <2>1. published = <<>>
      BY DEF RealtimeInit
    <2> QED BY <2>1, LiveStarts, FlipStarts
  <1>2. PipeInv /\ LiveInv /\ FlipInv /\ [GameNext]_gameVars => (PipeInv /\ LiveInv /\ FlipInv)'
    BY PipeStep, LiveStep, FlipStep
  <1>3. PipeInv /\ LiveInv /\ FlipInv => ClientsAreServed
    BY LiveDelivers, LiveTells DEF ClientsAreServed
  <1> QED BY <1>1, <1>2, <1>3, PTL DEF GameSpec
-----------------------------------------------------------------------------
(* Quests and achievements: what the requests hold between their steps. *)

(* The step a request is at belongs to the call it is in, or is a fresh start. *)
PlaceInv(s) ==
    \/ place[s] = Fresh
    \/ /\ place[s].call \in Calls_ /\ stage[s] # "requested"
       /\ stage[s] = "done" \/ Place(place[s].call) <= Place(stage[s])
Doing(u, q, step) == {s \in SupportsOf(u) : stage[s] = q /\ StepOf(s) = step}

QuestRows == [progress : Nat, completed : BOOLEAN]
RewardShape ==
    /\ xp = [u \in Players |-> [source \in Sources |-> xp[u][source]]]
    /\ quest \in [Players -> [QuestStages -> QuestRows \cup {NoRow}]]
    /\ firsts \subseteq Supports

(* One transaction at a time has a quest's row open, and has read what it holds. *)
RowInv(u, q) ==
    /\ \A s, t \in Doing(u, q, "open") : s = t
    /\ \A s \in Doing(u, q, "open") :
          IF quest[u][q] = NoRow THEN place[s].read = 0
          ELSE ~quest[u][q].completed /\ place[s].read = quest[u][q].progress
    /\ \A s \in Doing(u, q, "insert") : quest[u][q] = NoRow \/ s \in overlapping

(* A completed quest is paid, or about to be by one request, or never will be. *)
PaidInv(u, q) ==
    LET complete == quest[u][q] # NoRow /\ quest[u][q].completed
    IN /\ xp[u][q] \in {0, 1} /\ (xp[u][q] = 1 => complete)
       /\ \A s \in Doing(u, q, "reward") : complete /\ xp[u][q] = 0
       /\ \A s, t \in Doing(u, q, "reward") : s = t
       /\ complete /\ xp[u][q] = 0 =>
             Doing(u, q, "reward") # {} \/ \E s \in SupportsOf(u) : <<s, q>> \in skipped

(* The supports that the count quest has to know of. *)
Counted(u) == {s \in SupportsOf(u) \ collided : Made(s, "xp")}
CountInv(u) ==
    /\ IsFiniteSet(Counted(u))
    /\ IF quest[u]["xp"] = NoRow THEN Earlier[u] = 0 /\ Counted(u) = {}
       ELSE ~quest[u]["xp"].completed =>
               quest[u]["xp"].progress >= Earlier[u] + Cardinality(Counted(u))

(* Requests that run together have overlapped, from the commit of the later on. *)
OverlapInv == \A s, t \in Ongoing : s # t => s \in overlapping

(* The achievement is marked by one support, which found no other. *)
Marking_(s) == s \in firsts \/ (stage[s] = "first" /\ StepOf(s) = "create")
Eldest(u, s) ==
    /\ s \in firsts \/ ~Made(s, "first")
    /\ s \in Ongoing => SupportsOf(u) \cap Committed = {s}
FirstInv(u) ==
    /\ \A s, t \in SupportsOf(u) : Marking_(s) /\ Marking_(t) => s = t
    /\ \A s \in SupportsOf(u) : Marking_(s) => s \in Committed
    /\ Earlier[u] = 0 /\ SupportsOf(u) \cap overlapping = {} /\ SupportsOf(u) \cap Committed # {} =>
          \E s \in SupportsOf(u) \cap Committed : Eldest(u, s)

RewardInv ==
    /\ RewardShape /\ OverlapInv /\ CollisionsAreRaces
    /\ \A s \in Supports : PlaceInv(s)
    /\ \A u \in Players : /\ \A q \in QuestStages : RowInv(u, q) /\ PaidInv(u, q)
                          /\ CountInv(u) /\ FirstInv(u)
(* A step taken within a call, the end of a call, and what others do to the requests. *)
LEMMA StayingAt ==
    ASSUME PipeInv, NEW s \in Supports, stage[s] \in Calls_, \A t \in Supports : PlaceInv(t),
           NEW step, NEW read, NEW new, Stay(s, step, read, new)
    PROVE  /\ UNCHANGED pipelineVars /\ place'[s].read = read
           /\ \A t \in Supports : /\ PlaceInv(t)' /\ stage'[t] = stage[t]
                                  /\ StepOf(t)' = IF t = s THEN step ELSE StepOf(t)
           /\ \A t \in Supports \ {s} : place'[t] = place[t]
  <1> PICK row : row = [call |-> stage[s], step |-> step, read |-> read, new |-> new]
    OBVIOUS
  <1>1. UNCHANGED pipelineVars /\ place' = [place EXCEPT ![s] = row]
    BY DEF Stay
  <1>2. \A t \in Supports : /\ place'[t] = IF t = s THEN row ELSE place[t]
                            /\ stage'[t] = stage[t]
    BY <1>1 DEF PipeInv, pipelineVars
  <1>3. row.call = stage[s] /\ row.step = step /\ row.read = read
    OBVIOUS
  <1>4. PlaceInv(s)'
    BY <1>2, <1>3, Placing, CallNames DEF PlaceInv
  <1>5. \A t \in Supports \ {s} : PlaceInv(t)'
    BY <1>2 DEF PlaceInv, Fresh
  <1> QED BY <1>1, <1>2, <1>3, <1>4, <1>5 DEF StepOf

LEMMA LeavingAt ==
    ASSUME PipeInv, NEW s \in Supports, stage[s] \in Calls_, \A t \in Supports : PlaceInv(t), Leave(s)
    PROVE  /\ Pass(s, stage[s]) /\ stage'[s] # stage[s]
           /\ \A t \in Supports : PlaceInv(t)'
           /\ StepOf(s)' = "start"
           /\ \A t \in Supports \ {s} : /\ place'[t] = place[t] /\ stage'[t] = stage[t]
                                        /\ StepOf(t)' = StepOf(t)
  <1>1. /\ Pass(s, stage[s]) /\ place' = [place EXCEPT ![s] = Fresh]
        /\ stage' = [stage EXCEPT ![s] = First(Behind(s))] /\ UNCHANGED <<commits, effects>>
    BY DEF Leave, Pass
  <1>2. stage'[s] # stage[s] /\ \A t \in Supports \ {s} : stage'[t] = stage[t]
    BY <1>1, MovesOn
  <1>3. \A t \in Supports : place'[t] = IF t = s THEN Fresh ELSE place[t]
    BY <1>1 DEF PipeInv
  <1>4. PlaceInv(s)' /\ \A t \in Supports \ {s} : PlaceInv(t)'
    BY <1>2, <1>3 DEF PlaceInv, Fresh
  <1>5. StepOf(s)' = "start" /\ \A t \in Supports \ {s} : StepOf(t)' = StepOf(t)
    BY <1>2, <1>3 DEF StepOf, Fresh
  <1> QED BY <1>1, <1>2, <1>3, <1>4, <1>5

LEMMA MovingAt ==
    ASSUME PipeInv, NEW s \in Supports, PlaceInv(s), place'[s] = place[s],
           stage'[s] \in Calls_ \cup {"done"},
           \/ stage[s] = "requested"
           \/ stage[s] \in Calls_ /\ stage'[s] = "done"
           \/ stage[s] \in Calls_ /\ stage'[s] \in Calls_ /\ Place(stage'[s]) > Place(stage[s])
    PROVE  PlaceInv(s)' /\ StepOf(s)' = "start"
  <1>1. CASE place[s] = Fresh
    BY <1>1 DEF PlaceInv, StepOf, Fresh
  <1>2. CASE place[s] # Fresh
    <2>1. place[s].call \in Calls_ /\ stage[s] \in Calls_ /\ Place(place[s].call) <= Place(stage[s])
      BY <1>2, CallNames DEF PlaceInv
    <2>2. stage'[s] = "done" \/ Place(place[s].call) < Place(stage'[s])
      BY <2>1, Placing, CallNames
    <2>3. place[s].call # stage'[s]
      BY <2>1, <2>2, Placing, CallNames
    <2> QED BY <2>1, <2>2, <2>3, Placing, CallNames DEF PlaceInv, StepOf
  <1> QED BY <1>1, <1>2

LEMMA OthersMoveAt ==
    ASSUME PipeInv, place' = place, \A t \in Supports : PlaceInv(t), NEW D \in SUBSET Calls_,
           \/ UNCHANGED pipelineVars
           \/ RequestNext
           \/ \E s \in Supports, d \in D : Pass(s, d)
    PROVE  \A t \in Supports :
             /\ PlaceInv(t)'
             /\ \/ stage'[t] = stage[t] /\ StepOf(t)' = StepOf(t)
                \/ StepOf(t)' = "start" /\ stage[t] = "requested"
                \/ StepOf(t)' = "start" /\ <<t, stage[t]>> \in skipped'
                \/ StepOf(t)' = "start" /\ stage[t] \in D
  <1>1. ASSUME NEW t \in Supports, stage'[t] = stage[t]
        PROVE  PlaceInv(t)' /\ StepOf(t)' = StepOf(t)
    BY <1>1 DEF PlaceInv, StepOf, Fresh
  <1>2. ASSUME NEW s \in Supports, CommitSupport(s)
        PROVE  /\ PlaceInv(s)' /\ StepOf(s)' = "start" /\ stage[s] = "requested"
               /\ \A t \in Supports \ {s} : stage'[t] = stage[t]
    <2>1. stage[s] = "requested" /\ stage'[s] \in Calls_ \cup {"done"}
      BY <1>2, CommitSteps DEF CommitSupport, PipeInv, PipeShape
    <2> QED BY <1>2, <2>1, MovingAt, FlipsAreCalled
  <1>3. ASSUME NEW s \in Supports, stage[s] \in Calls_, effects' = effects,
               \/ stage' = [stage EXCEPT ![s] = First(Behind(s))]
               \/ stage' = [stage EXCEPT ![s] = "done"]
        PROVE  /\ PlaceInv(s)' /\ StepOf(s)' = "start"
               /\ \A t \in Supports \ {s} : stage'[t] = stage[t]
    <2>1. /\ stage'[s] = First(Behind(s)) \/ stage'[s] = "done"
          /\ \A t \in Supports \ {s} : stage'[t] = stage[t]
      BY <1>3 DEF PipeInv, PipeShape
    <2>2. /\ stage'[s] \in Calls_ \cup {"done"}
          /\ stage'[s] # "done" => Place(stage'[s]) > Place(stage[s])
      BY <1>3, <2>1, NextCall DEF PipeInv, PipeShape
    <2> QED BY <1>3, <2>1, <2>2, MovingAt
  <1>4. ASSUME NEW s \in Supports, Skip(s) \/ BreakOff(s)
        PROVE  /\ PlaceInv(s)' /\ StepOf(s)' = "start" /\ <<s, stage[s]>> \in skipped'
               /\ \A t \in Supports \ {s} : stage'[t] = stage[t]
    <2>1. /\ stage[s] \in Calls_ /\ effects' = effects /\ <<s, stage[s]>> \in skipped'
          /\ \/ stage' = [stage EXCEPT ![s] = First(Behind(s))]
             \/ stage' = [stage EXCEPT ![s] = "done"]
      BY <1>4 DEF Skip, BreakOff, Ongoing, Committed, PipeInv, PipeShape
    <2> QED BY <1>3, <2>1
  <1>5. ASSUME NEW s \in Supports, NEW d \in D, Pass(s, d)
        PROVE  /\ PlaceInv(s)' /\ StepOf(s)' = "start" /\ stage[s] \in D
               /\ \A t \in Supports \ {s} : stage'[t] = stage[t]
    <2>1. /\ stage[s] = d /\ effects' = effects
          /\ stage' = [stage EXCEPT ![s] = First(Behind(s))]
      BY <1>5 DEF Pass
    <2> QED BY <1>3, <1>5, <2>1
  <1>6. CASE UNCHANGED pipelineVars
    BY <1>1, <1>6 DEF pipelineVars
  <1> QED BY <1>1, <1>2, <1>4, <1>5, <1>6 DEF RequestNext

(* Who makes a call that every request makes. *)
LEMMA OnePasses ==
    ASSUME PipeInv, NEW s \in Supports, NEW e \in Calls_, NEW d \in Calls_ \ FlipOnly, Pass(s, e)
    PROVE  /\ Committed' = Committed /\ overlapping' = overlapping /\ Ongoing' \subseteq Ongoing
           /\ skipped' = skipped
           /\ \A t \in Supports : Made(t, d)' => Made(t, d) \/ (t = s /\ d = e)
  <1>1. /\ stage[s] = e /\ UNCHANGED <<commits, effects, skipped>>
        /\ stage' = [stage EXCEPT ![s] = First(Behind(s))]
    BY DEF Pass
  <1>2. /\ Committed' = Committed
        /\ \A c \in CallsOf(s \in flips) : Passed(s, c)' <=> Passed(s, c) \/ c = stage[s]
        /\ \A c \in Calls_ : \A t \in Supports \ {s} : Passed(t, c)' <=> Passed(t, c)
    BY <1>1, MovesOn
  <1>3. overlapping' = overlapping /\ Ongoing' \subseteq Ongoing
    BY CallsEnd
  <1>4. d \in effects => d \in CallsOf(s \in flips)
    BY DEF CallsOf
  <1> QED BY <1>1, <1>2, <1>3, <1>4 DEF Made

LEMMA OthersMake ==
    ASSUME PipeInv, NEW d \in Calls_ \ FlipOnly,
           \/ UNCHANGED pipelineVars
           \/ RequestNext
           \/ \E s \in Supports, e \in Calls_ \ {d} : Pass(s, e)
    PROVE  /\ Committed \subseteq Committed'
           /\ \A t \in Supports : Made(t, d)' => Made(t, d)
  <1>1. \A t \in Supports : Made(t, d)' => t \in Committed' /\ d \in CallsOf(t \in flips)'
    BY DEF Made, Passed, CallsOf
  <1> QED BY <1>1, NobodyMakes

LEMMA OverlapsStay ==
    ASSUME PipeInv, OverlapInv,
           \/ UNCHANGED pipelineVars
           \/ RequestNext
           \/ \E s \in Supports, d \in Calls_ : Pass(s, d)
    PROVE  OverlapInv' /\ overlapping \subseteq overlapping' /\ skipped \subseteq skipped'
  <1>1. skipped \subseteq skipped'
    BY DEF pipelineVars, RequestNext, CommitSupport, Skip, BreakOff, Pass
  <1>2. ASSUME NEW s \in Supports, CommitSupport(s)
        PROVE  OverlapInv' /\ overlapping \subseteq overlapping'
    <2>1. /\ Ongoing' \subseteq Ongoing \cup {s}
          /\ overlapping' = IF Ongoing = {} THEN overlapping
                            ELSE overlapping \cup Ongoing \cup {s}
      BY <1>2, FlipsAreCalled DEF CommitSupport
    <2> QED BY <2>1 DEF OverlapInv
  <1>3. ASSUME UNCHANGED pipelineVars
               \/ \E s \in Supports : Skip(s) \/ BreakOff(s) \/ \E d \in Calls_ : Pass(s, d)
        PROVE  OverlapInv' /\ overlapping \subseteq overlapping'
    BY <1>3, CallsEnd DEF OverlapInv
  <1> QED BY <1>1, <1>2, <1>3 DEF RequestNext
(* What becomes of a quest that a step does not work on. *)
LEMMA QuestRests ==
    ASSUME NEW u \in Players, NEW q \in QuestStages, RowInv(u, q), PaidInv(u, q),
           quest'[u][q] = quest[u][q], xp'[u][q] = xp[u][q],
           \A step \in {"open", "insert", "reward"} : Doing(u, q, step)' \subseteq Doing(u, q, step),
           \A s \in Doing(u, q, "open")' : place'[s] = place[s],
           overlapping \subseteq overlapping', skipped \subseteq skipped',
           \A s \in Doing(u, q, "reward") :
              s \in Doing(u, q, "reward")' \/ <<s, q>> \in skipped'
    PROVE  RowInv(u, q)' /\ PaidInv(u, q)'
  <1>1. RowInv(u, q)'
    BY DEF RowInv
  <1>2. SupportsOf(u)' = SupportsOf(u) /\ Doing(u, q, "reward") \subseteq SupportsOf(u)
    BY DEF SupportsOf, Doing
  <1>3. PaidInv(u, q)'
    <2> PICK complete \in BOOLEAN : complete <=> quest[u][q] # NoRow /\ quest[u][q].completed
      OBVIOUS
    <2>1. /\ xp[u][q] \in {0, 1} /\ (xp[u][q] = 1 => complete)
          /\ \A s \in Doing(u, q, "reward") : complete /\ xp[u][q] = 0
          /\ \A s, t \in Doing(u, q, "reward") : s = t
          /\ complete /\ xp[u][q] = 0 =>
             Doing(u, q, "reward") # {} \/ \E s \in SupportsOf(u) : <<s, q>> \in skipped
      BY DEF PaidInv
    <2>2. complete /\ xp[u][q] = 0 =>
             Doing(u, q, "reward")' # {} \/ \E s \in SupportsOf(u) : <<s, q>> \in skipped'
      BY <1>2, <2>1
    <2> QED BY <1>2, <2>1, <2>2 DEF PaidInv
  <1> QED BY <1>1, <1>3

LEMMA CountRests ==
    ASSUME NEW u \in Players, CountInv(u), quest'[u]["xp"] = quest[u]["xp"],
           RewardShape, ProgressionAssumption,
           \/ Counted(u)' \subseteq Counted(u)
           \/ /\ quest[u]["xp"] # NoRow /\ quest[u]["xp"].completed
              /\ \E s : Counted(u)' \subseteq Counted(u) \cup {s}
    PROVE  CountInv(u)'
  <1>1. ASSUME Counted(u)' \subseteq Counted(u) PROVE CountInv(u)'
    <2>1. /\ IsFiniteSet(Counted(u)') /\ Cardinality(Counted(u)') <= Cardinality(Counted(u))
          /\ Cardinality(Counted(u)') \in Nat /\ Cardinality(Counted(u)) \in Nat
      BY <1>1, FS_Subset, FS_CardinalityType DEF CountInv
    <2>2. Earlier[u] \in Nat /\ (quest[u]["xp"] # NoRow => quest[u]["xp"].progress \in Nat)
      BY DEF RewardShape, QuestRows, QuestStages, ProgressionAssumption
    <2> QED BY <1>1, <2>1, <2>2 DEF CountInv
  <1>2. ASSUME NEW s, Counted(u)' \subseteq Counted(u) \cup {s},
               quest[u]["xp"] # NoRow, quest[u]["xp"].completed
        PROVE  CountInv(u)'
    <2>1. IsFiniteSet(Counted(u)')
      BY <1>2, FS_AddElement, FS_Subset DEF CountInv
    <2> QED BY <1>2, <2>1 DEF CountInv
  <1> QED BY <1>1, <1>2

(* ... and of a user's first support. *)
LEMMA FirstRests ==
    ASSUME NEW u \in Players, FirstInv(u), firsts' = firsts, Committed' = Committed,
           Ongoing' \subseteq Ongoing, overlapping' = overlapping,
           \A s \in SupportsOf(u) : Marking_(s)' => Marking_(s),
           \A s \in SupportsOf(u) : Made(s, "first")' => Made(s, "first")
    PROVE  FirstInv(u)'
  <1>1. SupportsOf(u)' = SupportsOf(u)
    BY DEF SupportsOf
  <1>2. \A s \in SupportsOf(u) : Eldest(u, s) => Eldest(u, s)'
    BY <1>1 DEF Eldest
  <1> QED BY <1>1, <1>2 DEF FirstInv

LEMMA OthersKeepFirst ==
    ASSUME PipeInv, OverlapInv, NEW u \in Players, FirstInv(u), firsts' = firsts,
           \/ UNCHANGED pipelineVars
           \/ RequestNext
           \/ \E s \in Supports, d \in Calls_ \ {"first"} : Pass(s, d),
           \A s \in SupportsOf(u) : Marking_(s)' => Marking_(s)
    PROVE  FirstInv(u)'
  <1>1. "first" \in Calls_ \ FlipOnly
    BY CallNames DEF FlipOnly
  <1>2. \A s \in SupportsOf(u) : Made(s, "first")' => Made(s, "first")
    BY <1>1, OthersMake DEF SupportsOf
  <1>3. CASE UNCHANGED pipelineVars
             \/ \E s \in Supports : Skip(s) \/ BreakOff(s) \/ \E d \in Calls_ : Pass(s, d)
    <2>1. Committed' = Committed
      <3>1. ASSUME NEW s \in Supports, \E d \in Calls_ : Pass(s, d) PROVE Committed' = Committed
        BY <3>1, <1>1, OnePasses
      <3>2. ASSUME NEW s \in Supports, Skip(s) PROVE Committed' = Committed
        BY <3>2, MovesOn DEF Skip, Ongoing, Committed, PipeInv, PipeShape
      <3>3. ASSUME NEW s \in Supports, BreakOff(s) PROVE Committed' = Committed
        <4>1. \A t \in Supports : stage'[t] = IF t = s THEN "done" ELSE stage[t]
          BY <3>3 DEF BreakOff, PipeInv, PipeShape
        <4> QED BY <3>3, <4>1 DEF BreakOff, Ongoing, Committed
      <3> QED BY <1>3, <3>1, <3>2, <3>3 DEF pipelineVars, Committed
    <2> QED BY <1>2, <1>3, <2>1, CallsEnd, FirstRests
  <1>4. ASSUME NEW s \in Supports, CommitSupport(s) PROVE FirstInv(u)'
    <2>1. /\ Committed' = Committed \cup {s} /\ s \notin Committed /\ effects' = effects
          /\ \A c \in CallsOf(s \in flips)' : stage'[s] # "done" /\ Place(stage'[s]) <= Place(c)
          /\ Ongoing' \subseteq Ongoing \cup {s}
          /\ overlapping' = IF Ongoing = {} THEN overlapping
                            ELSE overlapping \cup Ongoing \cup {s}
      BY <1>4, CommitSteps, FlipsAreCalled DEF CommitSupport
    <2>2. SupportsOf(u)' = SupportsOf(u) /\ Committed \subseteq Supports
      BY DEF SupportsOf, Committed
    <2>3. ASSUME Earlier[u] = 0, SupportsOf(u) \cap overlapping' = {}, 
                 SupportsOf(u) \cap Committed' # {}
          PROVE  \E t \in SupportsOf(u) \cap Committed' : Eldest(u, t)'
      <3>1. SupportsOf(u) \cap overlapping = {}
        BY <2>1, <2>3
      <3>2. CASE SupportsOf(u) \cap Committed # {}
        <4>1. PICK t \in SupportsOf(u) \cap Committed : Eldest(u, t)
          BY <2>3, <3>1, <3>2 DEF FirstInv
        <4>2. t \notin Ongoing
          BY <2>1, <2>3, <4>1
        <4>3. t \notin Ongoing' /\ t # s
          BY <2>1, <4>1, <4>2
        <4>4. Eldest(u, t)'
          BY <1>2, <4>1, <4>3 DEF Eldest
        <4> QED BY <2>1, <4>1, <4>4
      <3>3. CASE SupportsOf(u) \cap Committed = {}
        <4>1. s \in SupportsOf(u) /\ SupportsOf(u) \cap Committed' = {s}
          BY <2>1, <2>3, <3>3
        <4>2. ~Made(s, "first")'
          <5>1. ~Made(s, "first")
            BY <2>1 DEF Made, Passed
          <5> QED BY <1>2, <4>1, <5>1
        <4> QED BY <2>2, <4>1, <4>2 DEF Eldest
      <3> QED BY <3>2, <3>3
    <2> QED BY <2>1, <2>2, <2>3 DEF FirstInv
  <1> QED BY <1>3, <1>4 DEF RequestNext

LEMMA OthersKeepRewards ==
    ASSUME PipeInv, RewardInv, UNCHANGED progressVars,
           \/ UNCHANGED pipelineVars
           \/ RequestNext
           \/ \E s \in Supports, d \in Calls_ \ {"xp", "streak", "first", "streaks"} : Pass(s, d)
    PROVE  RewardInv'
  <1>1. UNCHANGED <<xp, quest, place, collided, firsts>>
    BY DEF progressVars
  <1>2. \/ UNCHANGED pipelineVars
        \/ RequestNext
        \/ \E s \in Supports, d \in Calls_ : Pass(s, d)
    OBVIOUS
  <1>3. \A t \in Supports :
          /\ PlaceInv(t)'
          /\ \/ stage'[t] = stage[t] /\ StepOf(t)' = StepOf(t)
             \/ StepOf(t)' = "start" /\ stage[t] = "requested"
             \/ StepOf(t)' = "start" /\ <<t, stage[t]>> \in skipped'
             \/ /\ StepOf(t)' = "start"
                /\ stage[t] \in Calls_ \ {"xp", "streak", "first", "streaks"}
    BY <1>1, OthersMoveAt DEF RewardInv
  <1>4. OverlapInv' /\ overlapping \subseteq overlapping' /\ skipped \subseteq skipped'
    BY <1>2, OverlapsStay DEF RewardInv
  <1>5. \A u : SupportsOf(u)' = SupportsOf(u) /\ SupportsOf(u) \subseteq Supports
    BY DEF SupportsOf
  <1>6. ASSUME NEW u \in Players, NEW q \in QuestStages PROVE RowInv(u, q)' /\ PaidInv(u, q)'
    <2>1. \A step \in {"open", "insert", "reward"} :
             /\ Doing(u, q, step)' \subseteq Doing(u, q, step)
             /\ \A s \in Doing(u, q, step) : s \in Doing(u, q, step)' \/ <<s, q>> \in skipped'
      BY <1>3, <1>5, CallNames DEF Doing, QuestStages
    <2>2. RowInv(u, q) /\ PaidInv(u, q)
      BY DEF RewardInv
    <2> QED BY <1>1, <1>4, <2>1, <2>2, QuestRests
  <1>7. ASSUME NEW u \in Players PROVE CountInv(u)'
    <2>1. "xp" \in Calls_ \ FlipOnly /\ {"xp", "streak", "first", "streaks"} \subseteq Calls_
      BY CallNames DEF FlipOnly
    <2>2. Counted(u)' \subseteq Counted(u)
      BY <1>1, <1>5, <2>1, OthersMake DEF Counted
    <2> QED BY <1>1, <2>2, CountRests, ProgressionAssumption DEF RewardInv
  <1>8. ASSUME NEW u \in Players PROVE FirstInv(u)'
    <2>1. \A s \in SupportsOf(u) : Marking_(s)' => Marking_(s)
      BY <1>1, <1>3, <1>5 DEF Marking_
    <2> QED BY <1>1, <2>1, OthersKeepFirst DEF RewardInv
  <1>9. RewardShape' /\ CollisionsAreRaces'
    BY <1>1, <1>4 DEF RewardInv, RewardShape, CollisionsAreRaces
  <1> QED BY <1>3, <1>4, <1>6, <1>7, <1>8, <1>9 DEF RewardInv
(* A step of a request on one quest of its user. *)
LEMMA QuestStep ==
    ASSUME PipeInv, RewardInv, NEW s \in Supports, NEW q \in QuestStages, stage[s] = q,
           NEW u \in Players, Supporter[s] = u, UNCHANGED pipelineVars \/ Pass(s, q),
           \A t \in Supports : PlaceInv(t)',
           \A t \in Supports \ {s} : /\ place'[t] = place[t] /\ stage'[t] = stage[t]
                                     /\ StepOf(t)' = StepOf(t),
           stage'[s] = q \/ StepOf(s)' = "start",
           RewardShape', firsts' = firsts, collided \subseteq collided', CollisionsAreRaces',
           \A v \in Players, p \in QuestStages : v # u \/ p # q =>
              quest'[v][p] = quest[v][p] /\ xp'[v][p] = xp[v][p],
           RowInv(u, q)', PaidInv(u, q)', q = "xp" => CountInv(u)'
    PROVE  RewardInv'
  <1>1. {"xp", "streak", "first"} \subseteq Calls_ \ FlipOnly /\ q \in Calls_
    BY CallNames DEF FlipOnly, QuestStages
  <1>2. \A v : SupportsOf(v)' = SupportsOf(v) /\ SupportsOf(v) \subseteq Supports
    BY DEF SupportsOf
  <1>3. OverlapInv' /\ overlapping \subseteq overlapping' /\ skipped \subseteq skipped'
    BY <1>1, OverlapsStay DEF RewardInv
  <1>4. \A v, p : \A step \in {"open", "insert", "reward"} :
           v # u \/ p # q => Doing(v, p, step)' = Doing(v, p, step)
    BY <1>2 DEF Doing, SupportsOf
  <1>5. ASSUME NEW v \in Players, NEW p \in QuestStages PROVE RowInv(v, p)' /\ PaidInv(v, p)'
    <2>1. CASE v = u /\ p = q
      BY <2>1
    <2>2. CASE v # u \/ p # q
      <3>1. RowInv(v, p) /\ PaidInv(v, p)
        BY DEF RewardInv
      <3>2. \A t \in Doing(v, p, "open") : t # s /\ t \in Supports
        BY <1>2, <2>2 DEF Doing, SupportsOf
      <3> QED BY <1>3, <1>4, <2>2, <3>1, <3>2, QuestRests
    <2> QED BY <2>1, <2>2
  <1>6. \A d \in {"xp", "first"} : \A t \in Supports :
           Made(t, d)' => Made(t, d) \/ (t = s /\ d = q)
    <2>1. CASE UNCHANGED pipelineVars
      BY <1>1, <2>1, OthersMake
    <2>2. CASE Pass(s, q)
      BY <1>1, <2>2, OnePasses
    <2> QED BY <2>1, <2>2
  <1>7. ASSUME NEW v \in Players PROVE CountInv(v)'
    <2>1. CASE v = u /\ q = "xp"
      BY <2>1
    <2>2. CASE v # u \/ q # "xp"
      <3>1. Counted(v)' \subseteq Counted(v)
        BY <1>2, <1>6, <2>2 DEF Counted, SupportsOf
      <3>2. quest'[v]["xp"] = quest[v]["xp"]
        BY <2>2 DEF QuestStages
      <3> QED BY <3>1, <3>2, CountRests, ProgressionAssumption DEF RewardInv
    <2> QED BY <2>1, <2>2
  <1>8. ASSUME NEW v \in Players PROVE FirstInv(v)'
    <2>1. Committed' = Committed /\ Ongoing' \subseteq Ongoing /\ overlapping' = overlapping
      <3>1. CASE UNCHANGED pipelineVars
        BY <3>1 DEF pipelineVars, Committed, Ongoing
      <3>2. CASE Pass(s, q)
        BY <1>1, <3>2, OnePasses
      <3> QED BY <3>1, <3>2
    <2>2. \A t \in SupportsOf(v) : Made(t, "first")' => Made(t, "first")
      BY <1>2, <1>6 DEF QuestStages
    <2>3. \A t \in SupportsOf(v) : Marking_(t)' => Marking_(t)
      BY <1>2 DEF Marking_, QuestStages
    <2> QED BY <2>1, <2>2, <2>3, FirstRests DEF RewardInv
  <1> QED BY <1>3, <1>5, <1>7, <1>8 DEF RewardInv

LEMMA AwardXPKeepsRewards ==
    ASSUME PipeInv, RewardInv, NEW s \in Supports, AwardXP(s) PROVE RewardInv'
  <1> PICK q \in QuestStages : q = stage[s]
    BY DEF AwardXP
  <1> PICK u \in Players : u = Supporter[s]
    BY PipelineAssumption
  <1>0. q \in Calls_ /\ QuestStages = {"xp", "streak"}
    BY CallNames DEF QuestStages
  <1>1. /\ StepOf(s) = "start" /\ Stay(s, "select", 0, FALSE)
        /\ UNCHANGED <<quest, collided, firsts>>
    BY DEF AwardXP
  <1>2. /\ UNCHANGED pipelineVars
        /\ \A t \in Supports : /\ PlaceInv(t)' /\ stage'[t] = stage[t]
                               /\ StepOf(t)' = IF t = s THEN "select" ELSE StepOf(t)
        /\ \A t \in Supports \ {s} : place'[t] = place[t]
    BY <1>0, <1>1, StayingAt DEF RewardInv
  <1>3. /\ \A v \in Players, p \in QuestStages : xp'[v][p] = xp[v][p]
        /\ xp' = [v \in Players |-> [source \in Sources |-> xp'[v][source]]]
    <2>1. xp = [v \in Players |-> [source \in Sources |-> xp[v][source]]]
      BY DEF RewardInv, RewardShape
    <2>2. ASSUME NEW source \in {"support_applied", "streak_updated"}, Award(s, source)
          PROVE  /\ \A v \in Players, p \in QuestStages : xp'[v][p] = xp[v][p]
                 /\ xp' = [v \in Players |-> [p \in Sources |-> xp'[v][p]]]
      <3>1. source \notin QuestStages /\ QuestStages \subseteq Sources
        BY <1>0 DEF Sources
      <3>2. xp' = [xp EXCEPT ![u][source] = @ + 1]
        BY <2>2 DEF Award
      <3> QED BY <2>1, <3>1, <3>2
    <2>3. CASE UNCHANGED xp
      <3>1. QuestStages \subseteq Sources
        BY DEF Sources
      <3> QED BY <2>1, <2>3, <3>1
    <2> QED BY <2>2, <2>3 DEF AwardXP
  <1>4. RewardShape' /\ CollisionsAreRaces'
    BY <1>1, <1>2, <1>3 DEF RewardInv, RewardShape, CollisionsAreRaces, pipelineVars
  <1>5. \A step \in {"open", "insert", "reward"} :
           Doing(u, q, step)' = Doing(u, q, step) /\ s \notin Doing(u, q, step)
    BY <1>1, <1>2 DEF Doing, SupportsOf
  <1>6. RowInv(u, q)' /\ PaidInv(u, q)'
    <2>1. RowInv(u, q) /\ PaidInv(u, q) /\ UNCHANGED <<skipped, overlapping>>
      BY <1>2 DEF RewardInv, pipelineVars
    <2>2. \A t \in Doing(u, q, "open") : place'[t] = place[t]
      BY <1>2, <1>5 DEF Doing, SupportsOf
    <2> QED BY <1>1, <1>3, <1>5, <2>1, <2>2, QuestRests
  <1>7. CountInv(u)'
    <2>1. Counted(u)' = Counted(u)
      BY <1>1, <1>2 DEF Counted, SupportsOf, Made, Passed, Committed, pipelineVars
    <2> QED BY <1>1, <2>1, CountRests, ProgressionAssumption DEF RewardInv
  <1> QED BY <1>1, <1>2, <1>3, <1>4, <1>6, <1>7, QuestStep

(* A step a request is at is one of the call it is in. *)
LEMMA StepsBelong ==
    ASSUME PipeInv, NEW s \in Supports
    PROVE  /\ StepOf(s) \in {"select", "insert", "open", "reward"} => stage[s] \in QuestStages
           /\ StepOf(s) = "create" => stage[s] = "first"
  BY DEF StepOf, PipeInv, StepShape

(* A request takes a quest's row, or goes to insert one; or it leaves the quest. *)
LEMMA TakesRow ==
    ASSUME PipeInv, RewardInv, NEW s \in Supports, NEW q \in QuestStages, stage[s] = q,
           NEW u \in Players, Supporter[s] = u, StepOf(s) \in {"select", "insert"},
           NEW step \in {"insert", "open"}, NEW read, NEW new, Stay(s, step, read, new),
           UNCHANGED <<xp, quest, collided, firsts>>,
           step = "insert" => quest[u][q] = NoRow,
           step = "open" => /\ ~Contended(s)
                            /\ IF quest[u][q] = NoRow THEN read = 0
                               ELSE ~quest[u][q].completed /\ read = quest[u][q].progress
    PROVE  RewardInv'
  <1>0. q \in Calls_
    BY CallNames DEF QuestStages
  <1>1. RowInv(u, q) /\ PaidInv(u, q) /\ CountInv(u) /\ RewardShape'
    BY DEF RewardInv, RewardShape
  <1>2. /\ UNCHANGED pipelineVars /\ place'[s].read = read
        /\ \A t \in Supports : /\ PlaceInv(t)' /\ stage'[t] = stage[t]
                               /\ StepOf(t)' = IF t = s THEN step ELSE StepOf(t)
        /\ \A t \in Supports \ {s} : place'[t] = place[t]
    BY <1>0, StayingAt DEF RewardInv
  <1>3. /\ CollisionsAreRaces' /\ UNCHANGED <<skipped, overlapping>>
        /\ Counted(u)' = Counted(u) /\ SupportsOf(u)' = SupportsOf(u)
    BY <1>2 DEF RewardInv, CollisionsAreRaces, Counted, SupportsOf, Made, Passed,
                Committed, pipelineVars
  <1>4. /\ Doing(u, q, "reward")' = Doing(u, q, "reward")
        /\ \A t \in Supports \ {s} : \A p : t \in Doing(u, q, p)' <=> t \in Doing(u, q, p)
        /\ \A p : s \in Doing(u, q, p)' <=> p = step
    BY <1>2 DEF Doing, SupportsOf
  <1>5. PaidInv(u, q)'
    BY <1>1, <1>3, <1>4 DEF PaidInv
  <1>6. \A p : Doing(u, q, p) \subseteq Supports /\ Doing(u, q, p)' \subseteq Supports
    BY DEF Doing, SupportsOf
  <1>7. step = "open" => Doing(u, q, "open") \subseteq {s}
    BY DEF Contended, Doing, SupportsOf
  <1>8. RowInv(u, q)'
    <2>1. \A t1, t2 \in Doing(u, q, "open")' : t1 = t2
      BY <1>1, <1>4, <1>6, <1>7 DEF RowInv
    <2>2. \A t \in Doing(u, q, "open")' :
             IF quest[u][q] = NoRow THEN place'[t].read = 0
             ELSE ~quest[u][q].completed /\ place'[t].read = quest[u][q].progress
      BY <1>1, <1>2, <1>4, <1>6 DEF RowInv
    <2>3. \A t \in Doing(u, q, "insert")' : quest[u][q] = NoRow \/ t \in overlapping
      BY <1>1, <1>4, <1>6 DEF RowInv
    <2> QED BY <1>1, <1>3, <2>1, <2>2, <2>3 DEF RowInv
  <1>9. CountInv(u)'
    BY <1>1, <1>3, CountRests, ProgressionAssumption DEF RewardInv, QuestStages
  <1> QED BY <1>1, <1>2, <1>3, <1>5, <1>8, <1>9, QuestStep

LEMMA LeavesRow ==
    ASSUME PipeInv, RewardInv, NEW s \in Supports, NEW q \in QuestStages, stage[s] = q,
           NEW u \in Players, Supporter[s] = u, StepOf(s) \in {"select", "insert"}, Leave(s),
           UNCHANGED <<xp, quest, firsts>>, collided \subseteq collided',
           \A t \in collided' \ collided : t \in overlapping,
           s \in collided' \/ (quest[u][q] # NoRow /\ quest[u][q].completed)
    PROVE  RewardInv'
  <1>0. q \in Calls_
    BY CallNames DEF QuestStages
  <1>1. RowInv(u, q) /\ PaidInv(u, q) /\ CountInv(u) /\ RewardShape'
    BY DEF RewardInv, RewardShape
  <1>2. /\ Pass(s, q) /\ stage'[s] # q
        /\ \A t \in Supports : PlaceInv(t)'
        /\ StepOf(s)' = "start"
        /\ \A t \in Supports \ {s} : /\ place'[t] = place[t] /\ stage'[t] = stage[t]
                                     /\ StepOf(t)' = StepOf(t)
    BY <1>0, LeavingAt DEF RewardInv
  <1>3. /\ overlapping' = overlapping /\ skipped' = skipped
        /\ "xp" \in Calls_ \ FlipOnly
        /\ \A t \in Supports : Made(t, "xp")' => Made(t, "xp") \/ (t = s /\ q = "xp")
    BY <1>0, <1>2, CallNames, OnePasses DEF FlipOnly
  <1>4. \A step \in {"open", "reward"} :
           Doing(u, q, step)' = Doing(u, q, step) /\ s \notin Doing(u, q, step)
    BY <1>2 DEF Doing, SupportsOf
  <1>5. Doing(u, q, "insert")' \subseteq Doing(u, q, "insert")
    BY <1>2 DEF Doing, SupportsOf
  <1>6. RowInv(u, q)' /\ PaidInv(u, q)'
    <2>1. \A t \in Doing(u, q, "open") : place'[t] = place[t]
      BY <1>2, <1>4 DEF Doing, SupportsOf
    <2> QED BY <1>1, <1>3, <1>4, <1>5, <2>1, QuestRests
  <1>7. q = "xp" => CountInv(u)'
    <2>1. CASE s \in collided'
      <3>1. Counted(u)' \subseteq Counted(u)
        BY <1>3, <2>1 DEF Counted, SupportsOf
      <3> QED BY <1>1, <3>1, CountRests, ProgressionAssumption DEF RewardInv
    <2>2. CASE quest[u][q] # NoRow /\ quest[u][q].completed
      <3>1. Counted(u)' \subseteq Counted(u) \cup {s}
        BY <1>3 DEF Counted, SupportsOf
      <3> QED BY <1>1, <2>2, <3>1, CountRests, ProgressionAssumption DEF RewardInv
    <2> QED BY <2>1, <2>2
  <1>8. CollisionsAreRaces'
    BY <1>3 DEF RewardInv, CollisionsAreRaces
  <1> QED BY <1>1, <1>2, <1>6, <1>7, <1>8, QuestStep

(* SELECT ... FOR UPDATE, and INSERT. *)
LEMMA SelectKeepsRewards ==
    ASSUME PipeInv, RewardInv, NEW s \in Supports, SelectQuest(s) PROVE RewardInv'
  <1> PICK q \in QuestStages : q = stage[s]
    BY DEF SelectQuest
  <1> PICK u \in Players : u = Supporter[s]
    BY PipelineAssumption
  <1>1. /\ StepOf(s) = "select" /\ RowOf(s) = quest[u][q]
        /\ UNCHANGED <<xp, quest, collided, firsts>>
    BY DEF SelectQuest, RowOf
  <1>2. CASE quest[u][q] = NoRow
    BY <1>1, <1>2, TakesRow DEF SelectQuest
  <1>3. CASE quest[u][q] # NoRow /\ quest[u][q].completed
    BY <1>1, <1>3, LeavesRow DEF SelectQuest
  <1>4. CASE quest[u][q] # NoRow /\ ~quest[u][q].completed
    BY <1>1, <1>4, TakesRow DEF SelectQuest
  <1> QED BY <1>2, <1>3, <1>4

LEMMA InsertKeepsRewards ==
    ASSUME PipeInv, RewardInv, NEW s \in Supports, InsertQuest(s) PROVE RewardInv'
  <1> PICK q : q = stage[s]
    OBVIOUS
  <1> PICK u \in Players : u = Supporter[s]
    BY PipelineAssumption
  <1>1. /\ StepOf(s) = "insert" /\ RowOf(s) = quest[u][q] /\ ~Contended(s)
        /\ UNCHANGED <<xp, quest, firsts>>
    BY DEF InsertQuest, RowOf
  <1>2. q \in QuestStages
    BY <1>1, StepsBelong
  <1>3. CASE quest[u][q] = NoRow
    BY <1>1, <1>2, <1>3, TakesRow DEF InsertQuest
  <1>4. CASE quest[u][q] # NoRow
    <2>1. s \in overlapping
      BY <1>1, <1>2, <1>4 DEF RewardInv, RowInv, Doing, SupportsOf
    <2>2. Leave(s) /\ collided' = collided \cup {s}
      BY <1>1, <1>4 DEF InsertQuest
    <2>3. /\ collided \subseteq collided' /\ s \in collided'
          /\ \A t \in collided' \ collided : t \in overlapping
      BY <2>1, <2>2
    <2> QED BY <1>1, <1>2, <2>2, <2>3, LeavesRow
  <1> QED BY <1>3, <1>4
(* UPDATE and commit: the row counts the request, and the request has to pay. *)
LEMMA CommitKeepsRewards ==
    ASSUME PipeInv, RewardInv, NEW s \in Supports, CommitQuest(s) PROVE RewardInv'
  <1> PICK q : q = stage[s]
    OBVIOUS
  <1> PICK u \in Players : u = Supporter[s]
    BY PipelineAssumption
  <1> PICK next : next = ApplyEvent(s, place[s].read)
    OBVIOUS
  <1> PICK complete \in BOOLEAN : complete <=> next >= Target[q]
    OBVIOUS
  <1> PICK row : row = [progress |-> next, completed |-> complete]
    OBVIOUS
  <1>1. /\ StepOf(s) = "open" /\ UNCHANGED <<xp, collided, firsts>>
        /\ quest' = [quest EXCEPT ![u][q] = row]
        /\ IF complete THEN Stay(s, "reward", 0, FALSE) ELSE Leave(s)
    <2>1. complete = (next >= Target[q])
      OBVIOUS
    <2> QED BY <2>1 DEF CommitQuest
  <1>2. q \in QuestStages /\ q \in Calls_ /\ "xp" \in Calls_ \ FlipOnly
    BY <1>1, StepsBelong, CallNames DEF QuestStages, FlipOnly
  <1>3. RowInv(u, q) /\ PaidInv(u, q) /\ CountInv(u) /\ RewardShape /\ OverlapInv
    BY <1>2 DEF RewardInv
  <1>4. s \in Doing(u, q, "open") /\ \A t \in Doing(u, q, "open") : t = s
    <2>1. s \in Doing(u, q, "open")
      BY <1>1 DEF Doing, SupportsOf
    <2> QED BY <1>3, <2>1 DEF RowInv
  <1>5. /\ xp[u][q] = 0 /\ Doing(u, q, "reward") = {}
        /\ quest[u][q] = NoRow => place[s].read = 0
        /\ quest[u][q] # NoRow =>
              ~quest[u][q].completed /\ place[s].read = quest[u][q].progress
    <2>1. /\ quest[u][q] = NoRow => place[s].read = 0
          /\ quest[u][q] # NoRow =>
              ~quest[u][q].completed /\ place[s].read = quest[u][q].progress
      BY <1>3, <1>4 DEF RowInv
    <2> QED BY <1>3, <2>1 DEF PaidInv
  <1>6. /\ place[s].read \in Nat /\ next \in Nat /\ (q = "xp" => next = place[s].read + 1)
        /\ row \in QuestRows /\ row # NoRow /\ row.progress = next /\ row.completed = complete
    <2>1. place[s].read \in Nat
      BY <1>2, <1>3, <1>5 DEF RewardShape, QuestRows
    <2>2. next \in Nat /\ (q = "xp" => next = place[s].read + 1)
      BY <2>1, ProgressionAssumption DEF ApplyEvent
    <2> QED BY <2>1, <2>2, ProgressionAssumption DEF QuestRows
  <1>7. /\ quest'[u][q] = row /\ RewardShape'
        /\ \A v \in Players, p \in QuestStages : v # u \/ p # q =>
              quest'[v][p] = quest[v][p] /\ xp'[v][p] = xp[v][p]
    BY <1>1, <1>2, <1>3, <1>6 DEF RewardShape
  <1>8. /\ \A t \in Supports : PlaceInv(t)'
        /\ \A t \in Supports \ {s} : /\ place'[t] = place[t] /\ stage'[t] = stage[t]
                                     /\ StepOf(t)' = StepOf(t)
        /\ UNCHANGED <<skipped, overlapping>>
        /\ IF complete
           THEN UNCHANGED pipelineVars /\ stage'[s] = q /\ StepOf(s)' = "reward"
           ELSE Pass(s, q) /\ stage'[s] # q /\ StepOf(s)' = "start"
    <2>1. CASE complete
      <3>1. Stay(s, "reward", 0, FALSE)
        BY <1>1, <2>1
      <3>2. \A t \in Supports : /\ PlaceInv(t)' /\ stage'[t] = stage[t]
                                /\ StepOf(t)' = IF t = s THEN "reward" ELSE StepOf(t)
        BY <1>2, <3>1, StayingAt DEF RewardInv
      <3>3. UNCHANGED pipelineVars /\ \A t \in Supports \ {s} : place'[t] = place[t]
        BY <1>2, <3>1, StayingAt DEF RewardInv
      <3> QED BY <2>1, <3>2, <3>3 DEF pipelineVars
    <2>2. CASE ~complete
      <3>1. Leave(s)
        BY <1>1, <2>2
      <3>2. Pass(s, q) /\ UNCHANGED <<skipped, overlapping>>
        BY <3>1 DEF Leave, Pass
      <3> QED BY <1>2, <2>2, <3>1, <3>2, LeavingAt DEF RewardInv
    <2> QED BY <2>1, <2>2
  <1>9. /\ Doing(u, q, "open")' = {} /\ Doing(u, q, "insert")' \subseteq Doing(u, q, "insert")
        /\ Doing(u, q, "reward")' = IF complete THEN {s} ELSE {}
    <2>1. SupportsOf(u)' = SupportsOf(u) /\ SupportsOf(u) \subseteq Supports /\ s \in SupportsOf(u)
      BY DEF SupportsOf
    <2>2. \A p : \A t \in Supports \ {s} : t \in Doing(u, q, p)' <=> t \in Doing(u, q, p)
      BY <1>8, <2>1 DEF Doing
    <2>3. \A p : s \in Doing(u, q, p)' <=> complete /\ p = "reward"
      BY <1>8, <2>1 DEF Doing
    <2>4. \A p : Doing(u, q, p) \subseteq Supports /\ Doing(u, q, p)' \subseteq Supports
      BY <2>1 DEF Doing
    <2> QED BY <1>4, <1>5, <2>2, <2>3, <2>4
  <1>10. RowInv(u, q)'
    <2>1. \A t \in Doing(u, q, "insert") : t \in overlapping
      <3>1. \A t \in Doing(u, q, "insert") : t # s /\ t \in Ongoing
        BY <1>1, <1>2, CallNames DEF Doing, SupportsOf, Ongoing, Committed
      <3>2. s \in Ongoing
        BY <1>2, CallNames DEF Ongoing, Committed
      <3> QED BY <1>3, <3>1, <3>2 DEF OverlapInv
    <2> QED BY <1>8, <1>9, <2>1 DEF RowInv
  <1>11. PaidInv(u, q)'
    <2>1. xp'[u][q] = 0
      BY <1>1, <1>5
    <2>2. (quest'[u][q] # NoRow /\ quest'[u][q].completed) <=> complete
      BY <1>6, <1>7
    <2> QED BY <1>9, <2>1, <2>2 DEF PaidInv
  <1>12. q = "xp" => CountInv(u)'
    <2> SUFFICES ASSUME q = "xp" PROVE CountInv(u)'
      OBVIOUS
    <2>1. Counted(u)' \subseteq Counted(u) \cup {s} /\ (complete => Counted(u)' \subseteq Counted(u))
      <3>1. CASE complete
        <4>1. \A t \in Supports : Made(t, "xp")' => Made(t, "xp")
          BY <1>2, <1>8, <3>1, OthersMake
        <4> QED BY <1>1, <4>1 DEF Counted, SupportsOf
      <3>2. CASE ~complete
        <4>1. \A t \in Supports : Made(t, "xp")' => Made(t, "xp") \/ t = s
          BY <1>2, <1>8, <3>2, OnePasses
        <4> QED BY <1>1, <3>2, <4>1 DEF Counted, SupportsOf
      <3> QED BY <3>1, <3>2
    <2>2. /\ IsFiniteSet(Counted(u)') /\ Cardinality(Counted(u)') \in Nat
          /\ Cardinality(Counted(u)) \in Nat
          /\ Cardinality(Counted(u)') <= Cardinality(Counted(u)) + 1
      <3>1. IsFiniteSet(Counted(u))
        BY <1>3 DEF CountInv
      <3>2. /\ IsFiniteSet(Counted(u) \cup {s})
            /\ Cardinality(Counted(u) \cup {s}) <= Cardinality(Counted(u)) + 1
        <4> PICK count \in Nat : count = Cardinality(Counted(u))
          BY <3>1, FS_CardinalityType
        <4>1. Cardinality(Counted(u) \cup {s}) \in {count, count + 1}
          BY <3>1, FS_AddElement
        <4> QED BY <3>1, <4>1, FS_AddElement
      <3> QED BY <2>1, <3>1, <3>2, FS_Subset, FS_CardinalityType
    <2>3. Earlier[u] \in Nat
      BY ProgressionAssumption
    <2>4. next >= Earlier[u] + Cardinality(Counted(u)')
      <3>1. CASE quest[u][q] = NoRow
        <4>1. Earlier[u] = 0 /\ Counted(u) = {}
          BY <1>3, <3>1 DEF CountInv
        <4> QED BY <1>5, <1>6, <2>2, <3>1, <4>1, FS_EmptySet
      <3>2. CASE quest[u][q] # NoRow
        <4>1. place[s].read >= Earlier[u] + Cardinality(Counted(u))
          BY <1>3, <1>5, <3>2 DEF CountInv
        <4> QED BY <1>6, <2>2, <2>3, <4>1
      <3> QED BY <3>1, <3>2
    <2> QED BY <1>6, <1>7, <2>2, <2>4 DEF CountInv
  <1>13. CollisionsAreRaces'
    BY <1>1, <1>8 DEF RewardInv, CollisionsAreRaces
  <1> QED BY <1>1, <1>2, <1>7, <1>8, <1>10, <1>11, <1>12, <1>13, QuestStep

(* The reward is paid, once. *)
LEMMA RewardKeepsRewards ==
    ASSUME PipeInv, RewardInv, NEW s \in Supports, RewardQuest(s) PROVE RewardInv'
  <1> PICK q : q = stage[s]
    OBVIOUS
  <1> PICK u \in Players : u = Supporter[s]
    BY PipelineAssumption
  <1>1. /\ StepOf(s) = "reward" /\ UNCHANGED <<quest, collided, firsts>>
        /\ xp' = [xp EXCEPT ![u][q] = @ + 1] /\ Leave(s)
    BY DEF RewardQuest, Award
  <1>2. q \in QuestStages /\ q \in Calls_ /\ "xp" \in Calls_ \ FlipOnly
    BY <1>1, StepsBelong, CallNames DEF QuestStages, FlipOnly
  <1>3. RowInv(u, q) /\ PaidInv(u, q) /\ CountInv(u) /\ RewardShape
    BY <1>2 DEF RewardInv
  <1>4. /\ quest[u][q] # NoRow /\ quest[u][q].completed /\ xp[u][q] = 0
        /\ \A t \in Doing(u, q, "reward") : t = s
    <2>1. s \in Doing(u, q, "reward")
      BY <1>1 DEF Doing, SupportsOf
    <2> QED BY <1>3, <2>1 DEF PaidInv
  <1>5. /\ xp'[u][q] = 1 /\ RewardShape'
        /\ \A v \in Players, p \in QuestStages : v # u \/ p # q =>
              quest'[v][p] = quest[v][p] /\ xp'[v][p] = xp[v][p]
    <2>1. xp = [v \in Players |-> [source \in Sources |-> xp[v][source]]]
      BY <1>3 DEF RewardShape
    <2>2. QuestStages \subseteq Sources
      BY DEF Sources
    <2>3. /\ xp'[u][q] = xp[u][q] + 1
          /\ \A v \in Players, p \in QuestStages : v # u \/ p # q => xp'[v][p] = xp[v][p]
          /\ xp' = [v \in Players |-> [source \in Sources |-> xp'[v][source]]]
      BY <1>1, <1>2, <2>1, <2>2
    <2>4. RewardShape'
      BY <1>1, <1>3, <2>3 DEF RewardShape
    <2> QED BY <1>1, <1>4, <2>3, <2>4
  <1>6. /\ Pass(s, q) /\ stage'[s] # q
        /\ \A t \in Supports : PlaceInv(t)'
        /\ StepOf(s)' = "start"
        /\ \A t \in Supports \ {s} : /\ place'[t] = place[t] /\ stage'[t] = stage[t]
                                     /\ StepOf(t)' = StepOf(t)
        /\ UNCHANGED <<skipped, overlapping>>
    BY <1>1, <1>2, LeavingAt DEF RewardInv, Pass
  <1>7. /\ \A p \in {"open", "insert"} : Doing(u, q, p)' = Doing(u, q, p) /\ s \notin Doing(u, q, p)
        /\ Doing(u, q, "reward")' = {}
    <2>1. \A p : Doing(u, q, p)' \subseteq Doing(u, q, p) \ {s} 
      BY <1>6 DEF Doing, SupportsOf
    <2>2. \A p \in {"open", "insert"} :
             Doing(u, q, p) \subseteq Doing(u, q, p)' /\ s \notin Doing(u, q, p)
      BY <1>1, <1>6 DEF Doing, SupportsOf
    <2> QED BY <1>4, <2>1, <2>2
  <1>8. RowInv(u, q)'
    <2>1. \A t \in Doing(u, q, "open") : place'[t] = place[t]
      BY <1>6, <1>7 DEF Doing, SupportsOf
    <2> QED BY <1>1, <1>3, <1>6, <1>7, <2>1 DEF RowInv
  <1>9. PaidInv(u, q)'
    BY <1>1, <1>4, <1>5, <1>7 DEF PaidInv
  <1>10. q = "xp" => CountInv(u)'
    <2> SUFFICES ASSUME q = "xp" PROVE CountInv(u)'
      OBVIOUS
    <2>1. \A t \in Supports : Made(t, "xp")' => Made(t, "xp") \/ t = s
      BY <1>2, <1>6, OnePasses
    <2>2. Counted(u)' \subseteq Counted(u) \cup {s}
      BY <1>1, <2>1 DEF Counted, SupportsOf
    <2> QED BY <1>1, <1>3, <1>4, <2>2, CountRests, ProgressionAssumption
  <1>11. CollisionsAreRaces'
    BY <1>1, <1>6 DEF RewardInv, CollisionsAreRaces
  <1> QED BY <1>1, <1>2, <1>5, <1>6, <1>8, <1>9, <1>10, <1>11, QuestStep
(* A step of a request behind its quests. *)
LEMMA NoQuestStep ==
    ASSUME PipeInv, RewardInv, NEW s \in Supports, NEW d \in {"first", "streaks"}, stage[s] = d,
           UNCHANGED pipelineVars \/ Pass(s, d), UNCHANGED <<xp, quest, collided>>,
           \A t \in Supports : PlaceInv(t)',
           \A t \in Supports \ {s} : /\ place'[t] = place[t] /\ stage'[t] = stage[t]
                                     /\ StepOf(t)' = StepOf(t),
           stage'[s] = d \/ StepOf(s)' = "start",
           firsts' \subseteq Supports, \A u \in Players : FirstInv(u)'
    PROVE  RewardInv'
  <1>1. d \in Calls_ \ FlipOnly /\ d \in Calls_ \ {"xp"} /\ "xp" \in Calls_ \ FlipOnly
    BY CallNames DEF FlipOnly
  <1>2. OverlapInv' /\ overlapping \subseteq overlapping' /\ skipped \subseteq skipped'
    BY <1>1, OverlapsStay DEF RewardInv
  <1>3. ASSUME NEW u \in Players, NEW q \in QuestStages PROVE RowInv(u, q)' /\ PaidInv(u, q)'
    <2>1. SupportsOf(u)' = SupportsOf(u) /\ SupportsOf(u) \subseteq Supports
      BY DEF SupportsOf
    <2>2. \A step \in {"open", "insert", "reward"} :
             Doing(u, q, step)' = Doing(u, q, step) /\ s \notin Doing(u, q, step)
      BY <2>1 DEF Doing, QuestStages
    <2>3. \A t \in Doing(u, q, "open") : place'[t] = place[t]
      BY <2>1, <2>2 DEF Doing
    <2>4. RowInv(u, q) /\ PaidInv(u, q)
      BY DEF RewardInv
    <2> QED BY <1>2, <2>2, <2>3, <2>4, QuestRests
  <1>4. ASSUME NEW u \in Players PROVE CountInv(u)'
    <2>1. \A t \in Supports : Made(t, "xp")' => Made(t, "xp")
      BY <1>1, OthersMake
    <2>2. Counted(u)' \subseteq Counted(u)
      BY <2>1 DEF Counted, SupportsOf
    <2> QED BY <2>2, CountRests, ProgressionAssumption DEF RewardInv
  <1>5. RewardShape' /\ CollisionsAreRaces'
    BY <1>2 DEF RewardInv, RewardShape, CollisionsAreRaces
  <1> QED BY <1>2, <1>3, <1>4, <1>5 DEF RewardInv

(* The count finds another support, or marks the only one. *)
LEMMA CountKeepsRewards ==
    ASSUME PipeInv, RewardInv, NEW s \in Supports, CountSupports(s) PROVE RewardInv'
  <1> PICK u \in Players : u = Supporter[s]
    BY PipelineAssumption
  <1>1. /\ stage[s] = "first" /\ StepOf(s) = "start"
        /\ UNCHANGED <<xp, quest, collided, firsts>>
        /\ "first" \in Calls_ /\ "first" \in Calls_ \ FlipOnly
    BY CallNames DEF CountSupports, FlipOnly
  <1>2. s \in SupportsOf(u) /\ s \in Committed /\ s \in Ongoing
        /\ \A v : SupportsOf(v)' = SupportsOf(v) /\ SupportsOf(v) \subseteq Supports
    BY <1>1 DEF SupportsOf, Committed, Ongoing
  <1>3. ASSUME Earlier[u] > 0 \/ \E t \in Committed \ {s} : Supporter[t] = u, Leave(s)
        PROVE  RewardInv'
    <2>1. /\ Pass(s, "first") /\ stage'[s] # "first" /\ StepOf(s)' = "start"
          /\ \A t \in Supports : PlaceInv(t)'
          /\ \A t \in Supports \ {s} : /\ place'[t] = place[t] /\ stage'[t] = stage[t]
                                       /\ StepOf(t)' = StepOf(t)
      BY <1>1, <1>3, LeavingAt DEF RewardInv
    <2>2. /\ Committed' = Committed /\ overlapping' = overlapping /\ Ongoing' \subseteq Ongoing
          /\ \A t \in Supports : Made(t, "first")' => Made(t, "first") \/ t = s
      BY <1>1, <2>1, OnePasses
    <2>3. \A t \in Supports : Marking_(t)' => Marking_(t)
      BY <1>1, <2>1 DEF Marking_
    <2>4. ASSUME NEW v \in Players PROVE FirstInv(v)'
      <3>1. FirstInv(v)
        BY DEF RewardInv
      <3>2. CASE v # u
        <4>1. s \notin SupportsOf(v)
          BY <3>2 DEF SupportsOf
        <4> QED BY <1>1, <1>2, <2>2, <2>3, <3>1, <4>1, FirstRests
      <3>3. ASSUME v = u, Earlier[u] = 0, SupportsOf(u) \cap overlapping' = {},
                   SupportsOf(u) \cap Committed' # {}
            PROVE  \E t \in SupportsOf(u) \cap Committed' : Eldest(u, t)'
        <4>1. PICK t \in SupportsOf(u) \cap Committed : Eldest(u, t)
          BY <2>2, <3>1, <3>3 DEF FirstInv
        <4>2. PICK r \in Committed \ {s} : r \in SupportsOf(u)
          BY <1>3, <3>3 DEF Committed, SupportsOf
        <4>3. t # s
          BY <1>2, <4>1, <4>2 DEF Eldest
        <4>4. Eldest(u, t)'
          BY <1>1, <1>2, <2>2, <4>1, <4>3 DEF Eldest
        <4> QED BY <2>2, <4>1, <4>4
      <3>4. CASE v = u
        BY <1>2, <2>2, <2>3, <3>1, <3>3, <3>4 DEF FirstInv
      <3> QED BY <3>2, <3>4
    <2>5. firsts' \subseteq Supports
      BY <1>1 DEF RewardInv, RewardShape
    <2> QED BY <1>1, <2>1, <2>4, <2>5, NoQuestStep
  <1>4. ASSUME ~\E t \in Committed \ {s} : Supporter[t] = u, Stay(s, "create", 0, FALSE)
        PROVE  RewardInv'
    <2>1. /\ UNCHANGED pipelineVars
          /\ \A t \in Supports : /\ PlaceInv(t)' /\ stage'[t] = stage[t]
                                 /\ StepOf(t)' = IF t = s THEN "create" ELSE StepOf(t)
          /\ \A t \in Supports \ {s} : place'[t] = place[t]
      BY <1>1, <1>4, StayingAt DEF RewardInv
    <2>2. /\ Committed' = Committed /\ overlapping' = overlapping /\ Ongoing' = Ongoing
          /\ \A t : Made(t, "first")' = Made(t, "first")
      BY <2>1 DEF pipelineVars, Committed, Ongoing, Made, Passed
    <2>3. \A t \in Supports : Marking_(t)' => Marking_(t) \/ t = s
      BY <1>1, <2>1 DEF Marking_
    <2>4. ASSUME NEW v \in Players PROVE FirstInv(v)'
      <3>1. FirstInv(v)
        BY DEF RewardInv
      <3>2. CASE v # u
        <4>1. s \notin SupportsOf(v)
          BY <3>2 DEF SupportsOf
        <4> QED BY <1>1, <1>2, <2>2, <2>3, <3>1, <4>1, FirstRests
      <3>3. CASE v = u
        <4>1. \A t \in SupportsOf(u) : Marking_(t)' => t = s
          <5>1. \A t \in SupportsOf(u) \cap Committed : t = s
            BY <1>4 DEF SupportsOf
          <5> QED BY <1>2, <2>3, <3>1, <3>3, <5>1 DEF FirstInv
        <4>2. \A t \in SupportsOf(u) : Eldest(u, t) => Eldest(u, t)'
          BY <1>1, <1>2, <2>2 DEF Eldest
        <4> QED BY <1>2, <2>2, <3>1, <3>3, <4>1, <4>2 DEF FirstInv
      <3> QED BY <3>2, <3>3
    <2>5. firsts' \subseteq Supports
      BY <1>1 DEF RewardInv, RewardShape
    <2> QED BY <1>1, <2>1, <2>4, <2>5, NoQuestStep
  <1> QED BY <1>3, <1>4 DEF CountSupports

LEMMA CreateKeepsRewards ==
    ASSUME PipeInv, RewardInv, NEW s \in Supports, CreateFirst(s) PROVE RewardInv'
  <1>1. StepOf(s) = "create" /\ Leave(s) /\ UNCHANGED <<xp, quest, collided>>
        /\ firsts' = firsts \cup {s}
    BY DEF CreateFirst
  <1>2. stage[s] = "first" /\ "first" \in Calls_ /\ "first" \in Calls_ \ FlipOnly
    BY <1>1, StepsBelong, CallNames DEF FlipOnly
  <1>3. /\ Pass(s, "first") /\ stage'[s] # "first" /\ StepOf(s)' = "start"
        /\ \A t \in Supports : PlaceInv(t)'
        /\ \A t \in Supports \ {s} : /\ place'[t] = place[t] /\ stage'[t] = stage[t]
                                     /\ StepOf(t)' = StepOf(t)
    BY <1>1, <1>2, LeavingAt DEF RewardInv
  <1>4. /\ Committed' = Committed /\ overlapping' = overlapping /\ Ongoing' \subseteq Ongoing
        /\ \A t \in Supports : Made(t, "first")' => Made(t, "first") \/ t = s
    BY <1>2, <1>3, OnePasses
  <1>5. \A t \in Supports : Marking_(t)' => Marking_(t)
    BY <1>1, <1>2, <1>3 DEF Marking_
  <1>6. ASSUME NEW v \in Players PROVE FirstInv(v)'
    <2>1. FirstInv(v) /\ SupportsOf(v)' = SupportsOf(v) /\ SupportsOf(v) \subseteq Supports
      BY DEF RewardInv, SupportsOf
    <2>2. \A t \in SupportsOf(v) : Eldest(v, t) => Eldest(v, t)'
      BY <1>1, <1>4, <2>1 DEF Eldest
    <2> QED BY <1>4, <1>5, <2>1, <2>2 DEF FirstInv
  <1>7. firsts' \subseteq Supports
    BY <1>1 DEF RewardInv, RewardShape
  <1> QED BY <1>1, <1>2, <1>3, <1>6, <1>7, NoQuestStep

LEMMA MintKeepsRewards ==
    ASSUME PipeInv, RewardInv, NEW s \in Supports, MintStreak(s) PROVE RewardInv'
  <1>1. /\ stage[s] = "streaks" /\ "streaks" \in Calls_ \ {"first"} /\ Leave(s)
        /\ UNCHANGED <<xp, quest, collided, firsts>>
    BY CallNames DEF MintStreak
  <1>2. /\ Pass(s, "streaks") /\ StepOf(s)' = "start"
        /\ \A t \in Supports : PlaceInv(t)'
        /\ \A t \in Supports \ {s} : /\ place'[t] = place[t] /\ stage'[t] = stage[t]
                                     /\ StepOf(t)' = StepOf(t)
    BY <1>1, LeavingAt DEF RewardInv
  <1>3. \A t \in Supports : Marking_(t)' => Marking_(t)
    BY <1>1, <1>2 DEF Marking_
  <1>4. ASSUME NEW v \in Players PROVE FirstInv(v)'
    <2>1. \A t \in SupportsOf(v) : Marking_(t)' => Marking_(t)
      BY <1>3 DEF SupportsOf
    <2> QED BY <1>1, <1>2, <2>1, OthersKeepFirst DEF RewardInv
  <1>5. firsts' \subseteq Supports
    BY <1>1 DEF RewardInv, RewardShape
  <1> QED BY <1>1, <1>2, <1>4, <1>5, NoQuestStep

LEMMA RewardStarts ==
    ASSUME NEW acting, NEW asking, PipelineInit(acting, asking), ProgressInit PROVE RewardInv
  <1> PICK row : row = [progress |-> 1, completed |-> FALSE]
    OBVIOUS
  <1>0. row \in QuestRows /\ row # NoRow /\ row.progress = 1 /\ row.completed = FALSE
    <2>1. row \in QuestRows
      BY DEF QuestRows
    <2>2. NoRow \notin QuestRows
      BY ProgressionAssumption DEF QuestRows
    <2> QED BY <2>1, <2>2
  <1>1. /\ \A s \in Supports : place[s] = Fresh /\ stage[s] = "requested" /\ StepOf(s) = "start"
        /\ Committed = {} /\ Ongoing = {} /\ collided = {} /\ firsts = {}
    BY DEF PipelineInit, ProgressInit, StepOf, Fresh, Committed, Ongoing
  <1>2. \A u \in Players : /\ SupportsOf(u) \subseteq Supports /\ Counted(u) = {}
                           /\ \A q : \A step \in {"insert", "open", "reward"} :
                                 Doing(u, q, step) = {}
    BY <1>1 DEF SupportsOf, Counted, Doing, Made, Passed
  <1>3. /\ xp = [u \in Players |-> [source \in Sources |-> xp[u][source]]]
        /\ \A u \in Players, source \in Sources : xp[u][source] = 0
    BY DEF ProgressInit
  <1>4. \A u \in Players, q \in QuestStages :
           /\ Earlier[u] \in {0, 1}
           /\ quest[u][q] = IF Earlier[u] = 0 THEN NoRow ELSE row
    BY ProgressionAssumption DEF ProgressInit
  <1>5. RewardShape
    <2>1. quest \in [Players -> [QuestStages -> QuestRows \cup {NoRow}]]
      BY <1>0 DEF ProgressInit
    <2> QED BY <1>1, <1>3, <2>1 DEF RewardShape
  <1>6. ASSUME NEW u \in Players, NEW q \in QuestStages PROVE RowInv(u, q) /\ PaidInv(u, q)
    <2>1. RowInv(u, q)
      BY <1>2 DEF RowInv
    <2>2. xp[u][q] = 0 /\ (quest[u][q] # NoRow => ~quest[u][q].completed)
      BY <1>0, <1>3, <1>4 DEF Sources
    <2>3. PaidInv(u, q)
      BY <1>2, <2>2 DEF PaidInv
    <2> QED BY <2>1, <2>3
  <1>7. ASSUME NEW u \in Players PROVE CountInv(u)
    <2>1. IsFiniteSet(Counted(u)) /\ Cardinality(Counted(u)) = 0
      BY <1>2, FS_EmptySet
    <2>2. CASE Earlier[u] = 0
      BY <1>2, <1>4, <2>1, <2>2 DEF CountInv, QuestStages
    <2>3. CASE Earlier[u] = 1
      <3>1. quest[u]["xp"].progress = 1 /\ quest[u]["xp"] # NoRow
        BY <1>0, <1>4, <2>3 DEF QuestStages
      <3> QED BY <2>1, <2>3, <3>1 DEF CountInv
    <2> QED BY <1>4, <2>2, <2>3, ProgressionAssumption
  <1>8. ASSUME NEW u \in Players PROVE FirstInv(u)
    BY <1>1, <1>2 DEF FirstInv, Marking_
  <1>9. OverlapInv /\ CollisionsAreRaces /\ \A s \in Supports : PlaceInv(s)
    BY <1>1 DEF OverlapInv, CollisionsAreRaces, PlaceInv
  <1> QED BY <1>5, <1>6, <1>7, <1>8, <1>9 DEF RewardInv

LEMMA RewardStep ==
    ASSUME PipeInv, RewardInv, GameNext \/ UNCHANGED gameVars PROVE RewardInv'
  <1>1. CASE SupportsNext
    <2>1. CASE RequestNext /\ UNCHANGED effectVars
      BY <2>1, OthersKeepRewards DEF effectVars
    <2>2. CASE InvalidateNext /\ UNCHANGED progressVars
      <3>1. Caches \subseteq Calls_ \ {"xp", "streak", "first", "streaks"}
        BY CallNames DEF Caches
      <3> QED BY <2>2, <3>1, InvalidatePasses, OthersKeepRewards
    <2>3. CASE ProgressNext
      BY <2>3, AwardXPKeepsRewards, SelectKeepsRewards, InsertKeepsRewards, CommitKeepsRewards,
         RewardKeepsRewards, CountKeepsRewards, CreateKeepsRewards, MintKeepsRewards
         DEF ProgressNext
    <2>4. CASE PostBoards /\ UNCHANGED progressVars
      <3>1. "boards" \in Calls_ \ {"xp", "streak", "first", "streaks"}
        BY CallNames
      <3> QED BY <2>4, <3>1, BoardsPass, OthersKeepRewards
    <2>5. CASE DetectNext /\ UNCHANGED progressVars
      <3>1. AlertStages \subseteq Calls_ \ {"xp", "streak", "first", "streaks"}
        BY CallNames DEF AlertStages
      <3> QED BY <2>5, <3>1, DetectPasses, OthersKeepRewards
    <2>6. CASE PublishNext /\ UNCHANGED progressVars
      <3>1. {"support_event", "flip_event", "feed"}
               \subseteq Calls_ \ {"xp", "streak", "first", "streaks"}
        BY CallNames
      <3> QED BY <2>6, <3>1, PublishPasses, OthersKeepRewards
    <2> QED BY <1>1, <2>1, <2>2, <2>3, <2>4, <2>5, <2>6 DEF SupportsNext
  <1>2. CASE ~SupportsNext
    <2>1. UNCHANGED pipelineVars /\ UNCHANGED progressVars
      <3>1. CASE ServersNext
        <4>1. ArchiveNext \/ RankNext => UNCHANGED pipelineVars
          BY DEF ArchiveNext, RankNext
        <4>2. PushNext => UNCHANGED pipelineVars
          BY DEF PushNext
        <4> QED BY <3>1, <4>1, <4>2 DEF ServersNext
      <3> QED BY <1>2, <3>1 DEF GameNext, gameVars, effectVars
    <2> QED BY <2>1, OthersKeepRewards
  <1> QED BY <1>1, <1>2

LEMMA RewardsServe == ASSUME RewardInv PROVE RewardsArePaidOnce
  <1>1. QuestsPayOnce
    <2> SUFFICES ASSUME NEW u \in Players, NEW q \in QuestStages
                 PROVE  /\ xp[u][q] <= 1
                        /\ quest[u][q] # NoRow =>
                           /\ quest[u][q].completed /\ xp[u][q] = 0 =>
                              \E s \in SupportsOf(u) :
                                <<s, q>> \in skipped \/ (stage[s] = q /\ StepOf(s) = "reward")
                           /\ q = "xp" /\ ~quest[u][q].completed =>
                              quest[u][q].progress >= Earlier[u]
                                 + Cardinality({s \in SupportsOf(u) \ collided : Made(s, q)})
      BY DEF QuestsPayOnce
    <2>1. PaidInv(u, q) /\ CountInv(u)
      BY DEF RewardInv
    <2>2. xp[u][q] <= 1
      BY <2>1 DEF PaidInv
    <2>3. quest[u][q] # NoRow /\ quest[u][q].completed /\ xp[u][q] = 0 =>
             \E s \in SupportsOf(u) :
                <<s, q>> \in skipped \/ (stage[s] = q /\ StepOf(s) = "reward")
      BY <2>1 DEF PaidInv, Doing
    <2>4. quest[u][q] # NoRow /\ q = "xp" /\ ~quest[u][q].completed =>
             quest[u][q].progress >= Earlier[u]
                + Cardinality({s \in SupportsOf(u) \ collided : Made(s, q)})
      BY <2>1 DEF CountInv, Counted
    <2> QED BY <2>2, <2>3, <2>4
  <1>2. FirstSupportIsMarked
    <2> SUFFICES ASSUME NEW u \in Players
                 PROVE  /\ Cardinality(firsts \cap SupportsOf(u)) <= 1
                        /\ "first" \in effects /\ Earlier[u] = 0
                             /\ SupportsOf(u) \cap overlapping = {}
                             /\ (\E s \in SupportsOf(u) : s \in Committed)
                             /\ (\A s \in SupportsOf(u) \cap Committed : Made(s, "first"))
                           => firsts \cap SupportsOf(u) # {}
      BY DEF FirstSupportIsMarked
    <2>1. FirstInv(u)
      BY DEF RewardInv
    <2>2. \A s, t \in firsts \cap SupportsOf(u) : s = t
      BY <2>1 DEF FirstInv, Marking_
    <2>3. Cardinality(firsts \cap SupportsOf(u)) <= 1
      <3>1. CASE firsts \cap SupportsOf(u) = {}
        BY <3>1, FS_EmptySet
      <3>2. ASSUME NEW s \in firsts \cap SupportsOf(u)
            PROVE  Cardinality(firsts \cap SupportsOf(u)) <= 1
        <4>1. firsts \cap SupportsOf(u) = {s}
          BY <2>2
        <4> QED BY <4>1, FS_Singleton
      <3> QED BY <3>1, <3>2
    <2>4. ASSUME Earlier[u] = 0, SupportsOf(u) \cap overlapping = {},
                 \E s \in SupportsOf(u) : s \in Committed,
                 \A s \in SupportsOf(u) \cap Committed : Made(s, "first")
          PROVE  firsts \cap SupportsOf(u) # {}
      BY <2>1, <2>4 DEF FirstInv, Eldest
    <2> QED BY <2>3, <2>4
  <1> QED BY <1>1, <1>2 DEF RewardInv, RewardsArePaidOnce

(* In the whole back end every completed quest is paid at most once, and only a request *)
(* that broke off or still runs leaves one unpaid; every support counts but those that *)
(* failed or lost the row to an overlapping request; and a user has at most one first *)
(* support marked, and has it unless requests overlapped (progression/engine.go, *)
(* share/achievements.go). *)
THEOREM RewardsStayPaidOnce == GameSpec => []RewardsArePaidOnce
  <1>1. GameInit => PipeInv /\ RewardInv
    BY GamePipeStarts, RewardStarts DEF GameInit
  <1>2. PipeInv /\ RewardInv /\ [GameNext]_gameVars => (PipeInv /\ RewardInv)'
    BY PipeStep, RewardStep
  <1>3. RewardInv => RewardsArePaidOnce
    BY RewardsServe
  <1> QED BY <1>1, <1>2, <1>3, PTL DEF GameSpec
-----------------------------------------------------------------------------
(* Alerts: each cooldown lets one announcement through, each push window one push. *)

KeyOf(n) == CooldownKey(n[1], n[2])
CooldownKeys == {KeyOf(n) : n \in Notices}
RowsOf(k) == {row \in inbox : KeyOf(row.notice) = k}
Holding(k) == {s \in Supports : won[s] # Free /\ KeyOf(won[s]) = k}
Sending(n) == {w \in PushWorkers : inHand[w] # Free /\ inHand[w].step = "send"
                                   /\ inHand[w].notice = n}

AlertShape ==
    /\ due \in [Supports -> SUBSET Notices] /\ won \in [Supports -> Notices \cup {Free}]
    /\ \A row \in inbox : row = [notice |-> row.notice, by |-> row.by, read |-> row.read]
    /\ inHand = [w \in PushWorkers |-> inHand[w]]
    /\ \A w \in PushWorkers :
          inHand[w] = Free \/ inHand[w] = [notice |-> inHand[w].notice, step |-> inHand[w].step]
    /\ pushed \in [Notices -> Nat]
    /\ expired \in [{"cooldown", "limit"} -> Nat]
    /\ cleared \subseteq Supports /\ IsFiniteSet(cleared)
    /\ \A s \in cleared : Passed(s, "threats")

(* The announcements of a key, made or about to be, have each had the key for themselves. *)
CooldownInv(k) ==
    /\ IsFiniteSet(RowsOf(k)) /\ IsFiniteSet(Holding(k))
    /\ Cardinality(RowsOf(k)) + Cardinality(Holding(k))
         <= expired["cooldown"] + (IF k[1] = LeadLevel THEN 0 ELSE Cardinality(cleared))
              + (IF k \in cooldown THEN 1 ELSE 0)
LimitInv(n) ==
    /\ IsFiniteSet(Sending(n))
    /\ pushed[n] + Cardinality(Sending(n)) <= expired["limit"] + (IF n \in limited THEN 1 ELSE 0)

AlertInv ==
    /\ AlertShape
    /\ \A k \in CooldownKeys : CooldownInv(k)
    /\ \A n \in Notices : LimitInv(n)

(* Counting: a set that gains at most one, loses one, or becomes no larger. *)
LEMMA GainsOne ==
    ASSUME NEW S, NEW T, IsFiniteSet(S), \A y, z \in T : y \in S \/ z \in S \/ y = z
    PROVE  /\ IsFiniteSet(T) /\ Cardinality(T) \in Nat /\ Cardinality(S) \in Nat
           /\ Cardinality(T) <= Cardinality(S) + 1
  <1> PICK count \in Nat : count = Cardinality(S)
    BY FS_CardinalityType
  <1>1. CASE T \subseteq S
    <2>1. IsFiniteSet(T) /\ Cardinality(T) \in Nat /\ Cardinality(T) <= count
      BY <1>1, FS_Subset, FS_CardinalityType
    <2> QED BY <2>1
  <1>2. CASE ~(T \subseteq S)
    <2>1. PICK x \in T : x \notin S
      BY <1>2
    <2>2. PICK U : U = S \cup {x}
      OBVIOUS
    <2>3. IsFiniteSet(U) /\ Cardinality(U) = count + 1
      BY <2>1, <2>2, FS_AddElement
    <2>4. T \subseteq U
      BY <2>1, <2>2
    <2>5. IsFiniteSet(T) /\ Cardinality(T) \in Nat /\ Cardinality(T) <= count + 1
      BY <2>3, <2>4, FS_Subset, FS_CardinalityType
    <2> QED BY <2>5
  <1> QED BY <1>1, <1>2

LEMMA LosesOne ==
    ASSUME NEW S, NEW T, NEW x \in S, IsFiniteSet(S), T \subseteq S \ {x}
    PROVE  /\ IsFiniteSet(T) /\ Cardinality(T) \in Nat /\ Cardinality(S) \in Nat
           /\ Cardinality(T) + 1 <= Cardinality(S)
  <1> PICK count \in Nat : count = Cardinality(S)
    BY FS_CardinalityType
  <1>1. IsFiniteSet(S \ {x}) /\ Cardinality(S \ {x}) = count - 1
    BY FS_RemoveElement
  <1>2. /\ IsFiniteSet(T) /\ Cardinality(T) \in Nat
        /\ Cardinality(T) <= Cardinality(S \ {x})
    BY <1>1, FS_Subset, FS_CardinalityType
  <1> QED BY <1>1, <1>2

LEMMA NoLarger ==
    ASSUME NEW S, NEW T, IsFiniteSet(S), T \subseteq S
    PROVE  /\ IsFiniteSet(T) /\ Cardinality(T) \in Nat /\ Cardinality(S) \in Nat
           /\ Cardinality(T) <= Cardinality(S)
  BY FS_Subset, FS_CardinalityType

(* A step that gives nobody a key, and frees none without counting it. *)
LEMMA CooldownRests ==
    ASSUME AlertShape, AlertShape', NEW k \in CooldownKeys, CooldownInv(k),
           IsFiniteSet(RowsOf(k)'), Cardinality(RowsOf(k)') <= Cardinality(RowsOf(k)),
           Holding(k)' \subseteq Holding(k),
           k \in cooldown => k \in cooldown',
           expired["cooldown"] <= expired'["cooldown"], cleared' = cleared
    PROVE  CooldownInv(k)'
  <1>1. /\ IsFiniteSet(Holding(k)') /\ Cardinality(Holding(k)') \in Nat
        /\ Cardinality(Holding(k)) \in Nat
        /\ Cardinality(Holding(k)') <= Cardinality(Holding(k))
    BY NoLarger DEF CooldownInv
  <1>2. Cardinality(RowsOf(k)) \in Nat /\ Cardinality(RowsOf(k)') \in Nat
    BY FS_CardinalityType DEF CooldownInv
  <1>3. /\ expired["cooldown"] \in Nat /\ expired'["cooldown"] \in Nat
        /\ Cardinality(cleared) \in Nat
    BY FS_CardinalityType DEF AlertShape
  <1> PICK flipped \in Nat : flipped = IF k[1] = LeadLevel THEN 0 ELSE Cardinality(cleared)
    BY <1>3
  <1> PICK set \in {0, 1} : set = IF k \in cooldown THEN 1 ELSE 0
    OBVIOUS
  <1> PICK set2 \in {0, 1} : set2 = IF k \in cooldown' THEN 1 ELSE 0
    OBVIOUS
  <1>4. Cardinality(RowsOf(k)) + Cardinality(Holding(k)) <= expired["cooldown"] + flipped + set
    BY DEF CooldownInv
  <1>5. set <= set2
    OBVIOUS
  <1>6. Cardinality(RowsOf(k)') + Cardinality(Holding(k)')
          <= expired'["cooldown"] + flipped + set2
    BY <1>1, <1>2, <1>3, <1>4, <1>5
  <1> QED BY <1>1, <1>6 DEF CooldownInv

LEMMA LimitRests ==
    ASSUME AlertShape, AlertShape', NEW n \in Notices, LimitInv(n),
           Sending(n)' \subseteq Sending(n), pushed'[n] = pushed[n],
           n \in limited => n \in limited', expired["limit"] <= expired'["limit"]
    PROVE  LimitInv(n)'
  <1>1. /\ IsFiniteSet(Sending(n)') /\ Cardinality(Sending(n)') \in Nat
        /\ Cardinality(Sending(n)) \in Nat
        /\ Cardinality(Sending(n)') <= Cardinality(Sending(n))
    BY NoLarger DEF LimitInv
  <1>2. /\ expired["limit"] \in Nat /\ expired'["limit"] \in Nat
        /\ pushed[n] \in Nat
    BY DEF AlertShape
  <1> PICK set \in {0, 1} : set = IF n \in limited THEN 1 ELSE 0
    OBVIOUS
  <1> PICK set2 \in {0, 1} : set2 = IF n \in limited' THEN 1 ELSE 0
    OBVIOUS
  <1>3. pushed[n] + Cardinality(Sending(n)) <= expired["limit"] + set
    BY DEF LimitInv
  <1>4. pushed'[n] + Cardinality(Sending(n)') <= expired'["limit"] + set2
    BY <1>1, <1>2, <1>3
  <1> QED BY <1>1, <1>4 DEF LimitInv

(* A call that is behind a request stays behind it. *)
LEMMA StaysPassed ==
    ASSUME PipeInv, NEW d \in Calls_,
           \/ UNCHANGED pipelineVars
           \/ RequestNext
           \/ \E s \in Supports, e \in Calls_ : Pass(s, e)
    PROVE  \A t \in Supports : Passed(t, d) => Passed(t, d)'
  <1>1. ASSUME NEW s \in Supports, CommitSupport(s)
        PROVE  \A t \in Supports : Passed(t, d) => Passed(t, d)'
    <2>1. s \notin Committed /\ \A t \in Supports \ {s} : stage'[t] = stage[t]
      BY <1>1, CommitSteps, FlipsAreCalled
    <2> QED BY <2>1 DEF Passed, Committed
  <1>2. ASSUME NEW s \in Supports, Skip(s) \/ \E e \in Calls_ : Pass(s, e)
        PROVE  \A t \in Supports : Passed(t, d) => Passed(t, d)'
    <2>1. /\ stage[s] \in Calls_ /\ stage' = [stage EXCEPT ![s] = First(Behind(s))]
          /\ UNCHANGED <<commits, effects>>
      BY <1>2 DEF Skip, Pass, Ongoing, Committed, PipeInv, PipeShape
    <2> QED BY <2>1, MovesOn
  <1>3. ASSUME NEW s \in Supports, BreakOff(s)
        PROVE  \A t \in Supports : Passed(t, d) => Passed(t, d)'
    <2>1. /\ \A t \in Supports : stage'[t] = IF t = s THEN "done" ELSE stage[t]
          /\ s \in Ongoing
      BY <1>3 DEF BreakOff, PipeInv, PipeShape
    <2> QED BY <2>1 DEF Passed, Committed, Ongoing
  <1>4. CASE UNCHANGED pipelineVars
    BY <1>4 DEF pipelineVars, Passed, Committed
  <1> QED BY <1>1, <1>2, <1>3, <1>4 DEF RequestNext

LEMMA StagePassed ==
    ASSUME PipeInv, NEW s \in Supports, NEW d \in Calls_, Pass(s, d)
    PROVE  Passed(s, d)'
  <1>1. stage[s] = d /\ stage'[s] = First(Behind(s))
    BY DEF Pass, PipeInv, PipeShape
  <1>2. First(Behind(s)) \in Calls_ \cup {"done"}
        /\ (First(Behind(s)) # "done" => Place(First(Behind(s))) > Place(d))
    BY <1>1, NextCall DEF PipeInv, PipeShape
  <1> QED BY <1>1, <1>2, CallNames, Placing DEF Passed, Committed

LEMMA CrossedNotices ==
    ASSUME PipeInv, NEW s \in Supports, NEW d \in AlertStages
    PROVE  Crossed(s, d) \subseteq Notices
  <1>1. Scores[1] \in Nat /\ Scores[2] \in Nat
    BY ScoresShaped DEF PipeInv, Tribes
  <1>2. Second2(Scores) > 0 => Leader(Scores) \in Tribes
    BY <1>1 DEF Second2, Leader, Tribes
  <1>3. \A l \in TensionCrossed(PreScores(s), Scores) : l \in Levels /\ Second2(Scores) > 0
    BY DEF TensionCrossed, TensionReaches, Levels
  <1>4. \A l \in LeadCrossed(PreScores(s), Scores) : l \in Levels /\ Second2(Scores) > 0
    BY DEF LeadCrossed, Levels
  <1> QED BY <1>2, <1>3, <1>4 DEF Crossed, Notices

(* A request's step on its own dues; the workers' part is untouched. *)
LEMMA DuesKeepShape ==
    ASSUME PipeInv, AlertInv, NEW s \in Supports, NEW d \in AlertStages,
           UNCHANGED pipelineVars \/ Pass(s, d), NEW notices \in SUBSET Notices,
           NEW mine \in Notices \cup {Free}, due' = [due EXCEPT ![s] = notices],
           won' = [won EXCEPT ![s] = mine],
           \A row \in inbox' :
              row = [notice |-> row.notice, by |-> row.by, read |-> row.read],
           UNCHANGED <<pushVars, expired, cleared>>
    PROVE  AlertShape' /\ \A n \in Notices : LimitInv(n)'
  <1>1. \A t \in Supports : Passed(t, "threats") => Passed(t, "threats")'
    BY StaysPassed, CallNames DEF AlertStages
  <1>2. AlertShape'
    BY <1>1 DEF AlertInv, AlertShape, pushVars
  <1>3. \A n \in Notices : LimitInv(n)'
    BY DEF AlertInv, LimitInv, Sending, pushVars
  <1> QED BY <1>2, <1>3

LEMMA DetectKeepsAlerts ==
    ASSUME PipeInv, AlertInv, NEW s \in Supports, NEW d \in AlertStages, Detect(s, d)
    PROVE  AlertInv'
  <1> PICK notices \in SUBSET Notices : notices = Crossed(s, d)
    BY CrossedNotices
  <1>1. /\ due' = [due EXCEPT ![s] = notices] /\ won' = [won EXCEPT ![s] = Free]
        /\ UNCHANGED pipelineVars \/ Pass(s, d)
        /\ UNCHANGED <<cooldown, inbox, pushVars, expired, cleared>>
    BY DEF Detect
  <1>2. AlertShape' /\ \A n \in Notices : LimitInv(n)'
    BY <1>1, DuesKeepShape DEF AlertInv, AlertShape
  <1>3. ASSUME NEW k \in CooldownKeys PROVE CooldownInv(k)'
    <2>1. won'[s] = Free /\ \A t \in Supports \ {s} : won'[t] = won[t]
      BY <1>1 DEF AlertInv, AlertShape
    <2>2. Holding(k)' \subseteq Holding(k) /\ RowsOf(k)' = RowsOf(k)
      BY <1>1, <2>1 DEF Holding, RowsOf
    <2>3. CooldownInv(k) /\ AlertShape
      BY DEF AlertInv
    <2>4. /\ IsFiniteSet(RowsOf(k)') /\ Cardinality(RowsOf(k)') <= Cardinality(RowsOf(k))
          /\ expired["cooldown"] <= expired'["cooldown"] /\ cleared' = cleared
      BY <1>1, <2>2, <2>3, FS_CardinalityType DEF CooldownInv, AlertShape
    <2> QED BY <1>1, <1>2, <2>2, <2>3, <2>4, CooldownRests
  <1> QED BY <1>2, <1>3 DEF AlertInv

(* SETNX: the key is taken, or the level passed over. *)
LEMMA TryCooldownKeepsAlerts ==
    ASSUME PipeInv, AlertInv, NEW s \in Supports, NEW d \in AlertStages, TryCooldown(s, d)
    PROVE  AlertInv'
  <1>0. AlertShape /\ \A k \in CooldownKeys : CooldownInv(k)
    BY DEF AlertInv
  <1>1. won[s] = Free /\ UNCHANGED <<inbox, pushVars, expired, cleared>>
    BY DEF TryCooldown
  <1> PICK n \in Todo(s, d) :
        IF KeyOf(n) \in cooldown
        THEN Settle(s, d, due[s] \ {n}) /\ UNCHANGED <<won, cooldown>>
        ELSE /\ won' = [won EXCEPT ![s] = n]
             /\ cooldown' = cooldown \cup {KeyOf(n)}
             /\ UNCHANGED <<pipelineVars, due>>
    BY DEF TryCooldown, KeyOf
  <1>2. n \in Notices /\ due[s] \subseteq Notices /\ KeyOf(n) \in CooldownKeys
    BY <1>0 DEF AlertShape, Todo, CooldownKeys
  <1>3. \A row \in inbox' : row = [notice |-> row.notice, by |-> row.by, read |-> row.read]
    BY <1>0, <1>1 DEF AlertShape
  <1>4. /\ expired["cooldown"] <= expired'["cooldown"] /\ cleared' = cleared
        /\ \A k \in CooldownKeys : /\ RowsOf(k)' = RowsOf(k) /\ IsFiniteSet(RowsOf(k)')
                                   /\ Cardinality(RowsOf(k)') <= Cardinality(RowsOf(k))
    <2>1. \A k \in CooldownKeys : RowsOf(k)' = RowsOf(k) /\ Cardinality(RowsOf(k)) \in Nat
      BY <1>0, <1>1, FS_CardinalityType DEF RowsOf, CooldownInv
    <2> QED BY <1>0, <1>1, <2>1 DEF CooldownInv, AlertShape
  <1>5. CASE KeyOf(n) \in cooldown
    <2> PICK notices \in SUBSET Notices : notices = due[s] \ {n}
      BY <1>2
    <2>1. /\ due' = [due EXCEPT ![s] = notices] /\ UNCHANGED <<won, cooldown>>
          /\ UNCHANGED pipelineVars \/ Pass(s, d)
      BY <1>5 DEF Settle
    <2>2. won' = [won EXCEPT ![s] = Free]
      BY <1>0, <1>1, <2>1 DEF AlertShape
    <2>3. AlertShape' /\ \A m \in Notices : LimitInv(m)'
      BY <1>1, <1>3, <2>1, <2>2, DuesKeepShape
    <2>4. ASSUME NEW k \in CooldownKeys PROVE CooldownInv(k)'
      <3>1. Holding(k)' = Holding(k)
        BY <2>1 DEF Holding
      <3> QED BY <1>0, <1>4, <2>1, <2>3, <3>1, CooldownRests
    <2> QED BY <2>3, <2>4 DEF AlertInv
  <1>6. CASE KeyOf(n) \notin cooldown
    <2>1. /\ won' = [won EXCEPT ![s] = n] /\ cooldown' = cooldown \cup {KeyOf(n)}
          /\ UNCHANGED <<pipelineVars, due>>
      BY <1>6
    <2>2. due' = [due EXCEPT ![s] = due[s]]
      BY <1>0, <2>1 DEF AlertShape
    <2>3. AlertShape' /\ \A m \in Notices : LimitInv(m)'
      BY <1>1, <1>2, <1>3, <2>1, <2>2, DuesKeepShape
    <2>4. won'[s] = n /\ \A t \in Supports \ {s} : won'[t] = won[t]
      BY <1>0, <2>1 DEF AlertShape
    <2>5. ASSUME NEW k \in CooldownKeys, k # KeyOf(n) PROVE CooldownInv(k)'
      <3>1. Holding(k)' \subseteq Holding(k)
        BY <2>4, <2>5 DEF Holding, KeyOf
      <3> QED BY <1>0, <1>4, <2>1, <2>3, <2>5, <3>1, CooldownRests
    <2>6. CooldownInv(KeyOf(n))'
      <3> PICK k \in CooldownKeys : k = KeyOf(n)
        BY <1>2
      <3>1. Holding(k)' \subseteq Holding(k) \cup {s}
        BY <2>4 DEF Holding, KeyOf
      <3>2. /\ IsFiniteSet(Holding(k)') /\ Cardinality(Holding(k)') \in Nat
            /\ Cardinality(Holding(k)) \in Nat
            /\ Cardinality(Holding(k)') <= Cardinality(Holding(k)) + 1
        BY <1>0, <3>1, GainsOne DEF CooldownInv
      <3>3. /\ Cardinality(RowsOf(k)) \in Nat /\ expired["cooldown"] \in Nat
            /\ Cardinality(cleared) \in Nat
        BY <1>0, FS_CardinalityType DEF CooldownInv, AlertShape
      <3> PICK flipped \in Nat : flipped = IF k[1] = LeadLevel THEN 0 ELSE Cardinality(cleared)
        BY <3>3
      <3>4. Cardinality(RowsOf(k)) + Cardinality(Holding(k)) <= expired["cooldown"] + flipped
        BY <1>0, <1>6, <3>2, <3>3 DEF CooldownInv
      <3>5. Cardinality(RowsOf(k)) + Cardinality(Holding(k)')
              <= expired["cooldown"] + flipped + 1
        BY <3>2, <3>3, <3>4
      <3>6. k \in cooldown'
        BY <2>1
      <3> QED BY <1>1, <1>4, <3>2, <3>5, <3>6 DEF CooldownInv, KeyOf
    <2> QED BY <2>3, <2>5, <2>6 DEF AlertInv
  <1> QED BY <1>5, <1>6

LEMMA EnqueueKeepsAlerts ==
    ASSUME PipeInv, AlertInv, NEW s \in Supports, NEW d \in AlertStages, Enqueue(s, d)
    PROVE  AlertInv'
  <1>0. AlertShape /\ \A k \in CooldownKeys : CooldownInv(k)
    BY DEF AlertInv
  <1> PICK n : n = won[s]
    OBVIOUS
  <1> PICK new : new = [notice |-> n, by |-> s, read |-> FALSE]
    OBVIOUS
  <1>1. n \in Notices /\ n # Free /\ KeyOf(n) \in CooldownKeys /\ due[s] \ {n} \in SUBSET Notices
    <2>1. n \in Notices /\ due[s] \subseteq Notices
      BY <1>0 DEF Enqueue, Todo, AlertShape
    <2>2. Free \notin Notices
      BY AlertsAssumption DEF Notices, Levels, Tribes
    <2> QED BY <2>1, <2>2 DEF CooldownKeys
  <1>2. /\ inbox' = inbox \cup {new} /\ won' = [won EXCEPT ![s] = Free]
        /\ due' = [due EXCEPT ![s] = due[s] \ {n}]
        /\ UNCHANGED pipelineVars \/ Pass(s, d)
        /\ UNCHANGED <<cooldown, pushVars, expired, cleared>>
    BY DEF Enqueue, Settle
  <1>3. new.notice = n /\ new = [notice |-> new.notice, by |-> new.by, read |-> new.read]
    OBVIOUS
  <1>4. \A row \in inbox' : row = [notice |-> row.notice, by |-> row.by, read |-> row.read]
    BY <1>0, <1>2, <1>3 DEF AlertShape
  <1>5. AlertShape' /\ \A m \in Notices : LimitInv(m)'
    <2> PICK notices \in SUBSET Notices : notices = due[s] \ {n}
      BY <1>1
    <2> QED BY <1>2, <1>4, DuesKeepShape
  <1>6. won'[s] = Free /\ \A t \in Supports \ {s} : won'[t] = won[t]
    BY <1>0, <1>2 DEF AlertShape
  <1>7. ASSUME NEW k \in CooldownKeys, k # KeyOf(n) PROVE CooldownInv(k)'
    <2>1. RowsOf(k)' = RowsOf(k) /\ Holding(k)' \subseteq Holding(k)
      BY <1>2, <1>3, <1>6, <1>7 DEF RowsOf, Holding, KeyOf
    <2>2. /\ IsFiniteSet(RowsOf(k)') /\ Cardinality(RowsOf(k)') <= Cardinality(RowsOf(k))
          /\ expired["cooldown"] <= expired'["cooldown"] /\ cleared' = cleared
      BY <1>0, <1>2, <2>1, FS_CardinalityType DEF CooldownInv, AlertShape
    <2> QED BY <1>0, <1>2, <1>5, <2>1, <2>2, CooldownRests
  <1>8. CooldownInv(KeyOf(n))'
    <2> PICK k \in CooldownKeys : k = KeyOf(n)
      BY <1>1
    <2>1. CooldownInv(k)
      BY <1>0
    <2>2. RowsOf(k)' \subseteq RowsOf(k) \cup {new}
      BY <1>2 DEF RowsOf
    <2>3. s \in Holding(k) /\ Holding(k)' \subseteq Holding(k) \ {s}
      BY <1>1, <1>6 DEF Holding
    <2>4. /\ IsFiniteSet(RowsOf(k)') /\ Cardinality(RowsOf(k)') \in Nat
          /\ Cardinality(RowsOf(k)) \in Nat
          /\ Cardinality(RowsOf(k)') <= Cardinality(RowsOf(k)) + 1
      <3> PICK S, T : S = RowsOf(k) /\ T = RowsOf(k)'
        OBVIOUS
      <3>1. IsFiniteSet(S) /\ \A y, z \in T : y \in S \/ z \in S \/ y = z
        BY <2>1, <2>2 DEF CooldownInv
      <3>2. /\ IsFiniteSet(T) /\ Cardinality(T) \in Nat /\ Cardinality(S) \in Nat
            /\ Cardinality(T) <= Cardinality(S) + 1
        BY <3>1, GainsOne
      <3> QED BY <3>2
    <2>5. /\ IsFiniteSet(Holding(k)') /\ Cardinality(Holding(k)') \in Nat
          /\ Cardinality(Holding(k)) \in Nat
          /\ Cardinality(Holding(k)') + 1 <= Cardinality(Holding(k))
      BY <2>1, <2>3, LosesOne DEF CooldownInv
    <2>6. expired["cooldown"] \in Nat /\ Cardinality(cleared) \in Nat
      BY <1>0, FS_CardinalityType DEF AlertShape
    <2> PICK bound \in Nat :
          bound = expired["cooldown"] + (IF k[1] = LeadLevel THEN 0 ELSE Cardinality(cleared))
                    + (IF k \in cooldown THEN 1 ELSE 0)
      BY <2>6
    <2>7. Cardinality(RowsOf(k)') + Cardinality(Holding(k)') <= bound
      <3>1. Cardinality(RowsOf(k)) + Cardinality(Holding(k)) <= bound
        BY <2>1 DEF CooldownInv
      <3> QED BY <2>4, <2>5, <3>1
    <2>8. CooldownInv(k)'
      BY <1>2, <2>4, <2>5, <2>7 DEF CooldownInv
    <2> QED BY <2>8 DEF CooldownInv, KeyOf
  <1> QED BY <1>5, <1>7, <1>8 DEF AlertInv

(* DEL of the tension keys, once for each flip. *)
LEMMA ClearKeepsAlerts ==
    ASSUME PipeInv, AlertInv, NEW s \in Supports, ClearCooldown(s)
    PROVE  AlertInv'
  <1>0. AlertShape /\ \A k \in CooldownKeys : CooldownInv(k)
    BY DEF AlertInv
  <1>1. /\ Pass(s, "threats") /\ "threats" \in Calls_ /\ stage[s] = "threats"
        /\ cooldown' = {k \in cooldown : k[1] = LeadLevel} /\ cleared' = cleared \cup {s}
        /\ UNCHANGED <<due, won, inbox, pushVars, expired>>
    BY CallNames DEF ClearCooldown, Pass
  <1>2. s \notin cleared
    BY <1>0, <1>1, Placing, CallNames DEF AlertShape, Passed
  <1>3. AlertShape'
    <2>1. \A t \in cleared' : Passed(t, "threats")'
      <3>1. \A t \in cleared : t \in Supports /\ Passed(t, "threats")
        BY <1>0 DEF AlertShape
      <3> QED BY <1>1, <3>1, StaysPassed, StagePassed
    <2>2. IsFiniteSet(cleared') /\ cleared' \subseteq Supports
      BY <1>0, <1>1, FS_AddElement DEF AlertShape
    <2> QED BY <1>0, <1>1, <2>1, <2>2 DEF AlertShape, pushVars
  <1>4. \A n \in Notices : LimitInv(n)'
    BY <1>1 DEF AlertInv, LimitInv, Sending, pushVars
  <1>5. ASSUME NEW k \in CooldownKeys PROVE CooldownInv(k)'
    <2>1. RowsOf(k)' = RowsOf(k) /\ Holding(k)' = Holding(k) /\ CooldownInv(k)
      BY <1>0, <1>1 DEF RowsOf, Holding
    <2>2. CASE k[1] = LeadLevel
      <3>1. k \in cooldown' <=> k \in cooldown
        BY <1>1, <2>2
      <3> QED BY <1>1, <2>1, <2>2, <3>1 DEF CooldownInv
    <2>3. CASE k[1] # LeadLevel
      <3>1. Cardinality(cleared') = Cardinality(cleared) + 1 /\ Cardinality(cleared) \in Nat
        BY <1>0, <1>1, <1>2, FS_AddElement, FS_CardinalityType DEF AlertShape
      <3>2. k \notin cooldown' /\ expired["cooldown"] \in Nat
        BY <1>0, <1>1, <2>3 DEF AlertShape
      <3> PICK announced : announced = Cardinality(RowsOf(k)) + Cardinality(Holding(k))
        OBVIOUS
      <3>3. announced \in Nat /\ announced <= expired["cooldown"] + Cardinality(cleared) + 1
        <4>1. announced \in Nat
          BY <2>1, FS_CardinalityType DEF CooldownInv
        <4> PICK set \in {0, 1} : set = IF k \in cooldown THEN 1 ELSE 0
          OBVIOUS
        <4>2. announced <= expired["cooldown"] + Cardinality(cleared) + set
          BY <2>1, <2>3 DEF CooldownInv
        <4> QED BY <3>1, <3>2, <4>1, <4>2
      <3>4. announced <= expired["cooldown"] + Cardinality(cleared') + 0
        BY <3>1, <3>2, <3>3
      <3> QED BY <1>1, <2>1, <2>3, <3>2, <3>4 DEF CooldownInv
    <2> QED BY <2>2, <2>3
  <1> QED BY <1>3, <1>4, <1>5 DEF AlertInv

(* What leaves the requests' part alone. *)
LEMMA WorkersKeepAlerts ==
    ASSUME PipeInv, AlertInv, UNCHANGED <<pipelineVars, due, won, inbox, cleared>>,
           inHand' = [w \in PushWorkers |-> inHand'[w]],
           \A w \in PushWorkers : inHand'[w] = Free
              \/ inHand'[w] = [notice |-> inHand'[w].notice, step |-> inHand'[w].step],
           pushed' \in [Notices -> Nat],
           expired' \in [{"cooldown", "limit"} -> Nat],
           expired["cooldown"] <= expired'["cooldown"],
           \A k \in cooldown \ cooldown' : /\ cooldown \ cooldown' = {k}
                                           /\ expired'["cooldown"] = expired["cooldown"] + 1,
           cooldown' \subseteq cooldown
    PROVE  AlertShape' /\ \A k \in CooldownKeys : CooldownInv(k)'
  <1>0. AlertShape /\ \A k \in CooldownKeys : CooldownInv(k)
    BY DEF AlertInv
  <1>1. AlertShape'
    <2>1. \A t \in Supports : Passed(t, "threats")' <=> Passed(t, "threats")
      BY DEF pipelineVars, Passed, Committed
    <2> QED BY <1>0, <2>1 DEF AlertShape
  <1>2. ASSUME NEW k \in CooldownKeys PROVE CooldownInv(k)'
    <2>1. RowsOf(k)' = RowsOf(k) /\ Holding(k)' = Holding(k) /\ CooldownInv(k)
      BY <1>0 DEF RowsOf, Holding
    <2>2. CASE k \in cooldown => k \in cooldown'
      <3>1. IsFiniteSet(RowsOf(k)') /\ Cardinality(RowsOf(k)') <= Cardinality(RowsOf(k))
        BY <2>1, FS_CardinalityType DEF CooldownInv
      <3> QED BY <1>0, <1>1, <2>1, <2>2, <3>1, CooldownRests
    <2>3. CASE k \in cooldown \ cooldown'
      <3>1. /\ expired'["cooldown"] = expired["cooldown"] + 1 /\ expired["cooldown"] \in Nat
            /\ Cardinality(cleared) \in Nat
        BY <1>0, <2>3, FS_CardinalityType DEF AlertShape
      <3> PICK flipped \in Nat : flipped = IF k[1] = LeadLevel THEN 0 ELSE Cardinality(cleared)
        BY <3>1
      <3> PICK announced : announced = Cardinality(RowsOf(k)) + Cardinality(Holding(k))
        OBVIOUS
      <3>2. announced <= expired["cooldown"] + flipped + 1
        BY <2>1, <2>3 DEF CooldownInv
      <3>3. announced <= expired'["cooldown"] + flipped + 0
        <4>1. announced \in Nat
          BY <2>1, FS_CardinalityType DEF CooldownInv
        <4> QED BY <3>1, <3>2, <4>1
      <3> QED BY <2>1, <2>3, <3>3 DEF CooldownInv
    <2> QED BY <2>2, <2>3
  <1> QED BY <1>1, <1>2

LEMMA PopKeepsAlerts ==
    ASSUME PipeInv, AlertInv, UNCHANGED pipelineVars, NEW w \in PushWorkers,
           Pop(w) \/ LosePayload(w)
    PROVE  AlertInv'
  <1>0. AlertShape /\ \A n \in Notices : LimitInv(n)
    BY DEF AlertInv
  <1>1. UNCHANGED <<due, won, inbox, cleared, cooldown, pushed, limited, expired>>
    BY DEF Pop, LosePayload
  <1>2. PICK hand : /\ inHand' = [inHand EXCEPT ![w] = hand]
                    /\ hand = Free \/ hand = [notice |-> Head(queue), step |-> "limit"]
    BY DEF Pop, LosePayload, Drop
  <1>3. /\ inHand' = [v \in PushWorkers |-> inHand'[v]] /\ inHand'[w] = hand
        /\ \A v \in PushWorkers \ {w} : inHand'[v] = inHand[v]
    BY <1>0, <1>2 DEF AlertShape
  <1>4. \A v \in PushWorkers : inHand'[v] = Free
           \/ inHand'[v] = [notice |-> inHand'[v].notice, step |-> inHand'[v].step]
    BY <1>0, <1>2, <1>3 DEF AlertShape
  <1>5. AlertShape' /\ \A k \in CooldownKeys : CooldownInv(k)'
    BY <1>0, <1>1, <1>3, <1>4, WorkersKeepAlerts DEF AlertShape
  <1>6. ASSUME NEW n \in Notices PROVE LimitInv(n)'
    <2>1. Sending(n)' \subseteq Sending(n)
      BY <1>2, <1>3 DEF Sending
    <2> QED BY <1>0, <1>1, <1>5, <2>1, LimitRests DEF AlertShape
  <1> QED BY <1>5, <1>6 DEF AlertInv

LEMMA RateLimitKeepsAlerts ==
    ASSUME PipeInv, AlertInv, UNCHANGED pipelineVars, NEW w \in PushWorkers, TryPushRateLimit(w)
    PROVE  AlertInv'
  <1>0. AlertShape /\ \A n \in Notices : LimitInv(n)
    BY DEF AlertInv
  <1> PICK n : n = inHand[w].notice
    OBVIOUS
  <1> PICK outgoing : outgoing = [notice |-> n, step |-> "send"]
    OBVIOUS
  <1>1. /\ UNCHANGED <<due, won, inbox, cleared, cooldown, pushed, expired>>
        /\ limited' = limited \cup {n} /\ inHand[w] # Free /\ inHand[w].step = "limit"
    BY DEF TryPushRateLimit
  <1>2. PICK hand : /\ inHand' = [inHand EXCEPT ![w] = hand]
                    /\ hand = IF n \in limited THEN Free ELSE outgoing
    <2>1. [inHand[w] EXCEPT !.step = "send"] = outgoing
      BY <1>0, <1>1 DEF AlertShape
    <2> QED BY <2>1 DEF TryPushRateLimit, Drop
  <1>3. /\ inHand' = [v \in PushWorkers |-> inHand'[v]] /\ inHand'[w] = hand
        /\ \A v \in PushWorkers \ {w} : inHand'[v] = inHand[v]
    BY <1>0, <1>2 DEF AlertShape
  <1>4. \A v \in PushWorkers : inHand'[v] = Free
           \/ inHand'[v] = [notice |-> inHand'[v].notice, step |-> inHand'[v].step]
    BY <1>0, <1>2, <1>3 DEF AlertShape
  <1>5. AlertShape' /\ \A k \in CooldownKeys : CooldownInv(k)'
    BY <1>0, <1>1, <1>3, <1>4, WorkersKeepAlerts DEF AlertShape
  <1>6. ASSUME NEW m \in Notices, m # n \/ n \in limited PROVE LimitInv(m)'
    <2>1. Sending(m)' \subseteq Sending(m)
      BY <1>2, <1>3, <1>6 DEF Sending
    <2> QED BY <1>0, <1>1, <1>5, <2>1, LimitRests DEF AlertShape
  <1>7. ASSUME n \in Notices, n \notin limited PROVE LimitInv(n)'
    <2>1. Sending(n)' \subseteq Sending(n) \cup {w}
      BY <1>3 DEF Sending
    <2>2. /\ IsFiniteSet(Sending(n)') /\ Cardinality(Sending(n)') \in Nat
          /\ Cardinality(Sending(n)) \in Nat
          /\ Cardinality(Sending(n)') <= Cardinality(Sending(n)) + 1
      BY <1>0, <1>7, <2>1, GainsOne DEF LimitInv
    <2>3. pushed[n] \in Nat /\ expired["limit"] \in Nat
      BY <1>0, <1>7 DEF AlertShape
    <2>4. pushed[n] + Cardinality(Sending(n)) <= expired["limit"]
      BY <1>0, <1>7, <2>2, <2>3 DEF LimitInv
    <2>5. pushed[n] + Cardinality(Sending(n)') <= expired["limit"] + 1
      BY <2>2, <2>3, <2>4
    <2> QED BY <1>1, <2>2, <2>5 DEF LimitInv
  <1> QED BY <1>5, <1>6, <1>7 DEF AlertInv

LEMMA SendKeepsAlerts ==
    ASSUME PipeInv, AlertInv, UNCHANGED pipelineVars, NEW w \in PushWorkers, Send(w)
    PROVE  AlertInv'
  <1>0. AlertShape /\ \A n \in Notices : LimitInv(n)
    BY DEF AlertInv
  <1> PICK n : n = inHand[w].notice
    OBVIOUS
  <1>1. /\ UNCHANGED <<due, won, inbox, cleared, cooldown, limited, expired>>
        /\ inHand[w] # Free /\ inHand[w].step = "send"
        /\ inHand' = [inHand EXCEPT ![w] = Free]
        /\ pushed' = [pushed EXCEPT ![n] = @ + 1] \/ pushed' = pushed
    BY DEF Send, Drop
  <1>2. /\ inHand' = [v \in PushWorkers |-> inHand'[v]] /\ inHand'[w] = Free
        /\ \A v \in PushWorkers \ {w} : inHand'[v] = inHand[v]
    BY <1>0, <1>1 DEF AlertShape
  <1>3. /\ pushed' \in [Notices -> Nat]
        /\ \A m \in Notices : IF m = n THEN pushed'[m] <= pushed[m] + 1 ELSE pushed'[m] = pushed[m]
    BY <1>0, <1>1 DEF AlertShape
  <1>4. AlertShape' /\ \A k \in CooldownKeys : CooldownInv(k)'
    <2>1. \A v \in PushWorkers : inHand'[v] = Free
             \/ inHand'[v] = [notice |-> inHand'[v].notice, step |-> inHand'[v].step]
      BY <1>0, <1>2 DEF AlertShape
    <2> QED BY <1>0, <1>1, <1>2, <1>3, <2>1, WorkersKeepAlerts DEF AlertShape
  <1>5. ASSUME NEW m \in Notices, m # n PROVE LimitInv(m)'
    <2>1. Sending(m)' \subseteq Sending(m) /\ pushed'[m] = pushed[m]
      BY <1>2, <1>3, <1>5 DEF Sending
    <2> QED BY <1>0, <1>1, <1>4, <2>1, LimitRests DEF AlertShape
  <1>6. ASSUME n \in Notices PROVE LimitInv(n)'
    <2>1. w \in Sending(n) /\ Sending(n)' \subseteq Sending(n) \ {w}
      BY <1>1, <1>2 DEF Sending
    <2>2. /\ IsFiniteSet(Sending(n)') /\ Cardinality(Sending(n)') \in Nat
          /\ Cardinality(Sending(n)) \in Nat
          /\ Cardinality(Sending(n)') + 1 <= Cardinality(Sending(n))
      BY <1>0, <1>6, <2>1, LosesOne DEF LimitInv
    <2>3. pushed[n] \in Nat /\ pushed'[n] \in Nat /\ pushed'[n] <= pushed[n] + 1
      BY <1>0, <1>3, <1>6 DEF AlertShape
    <2> PICK bound : bound = expired["limit"] + (IF n \in limited THEN 1 ELSE 0)
      OBVIOUS
    <2>4. bound \in Nat /\ pushed[n] + Cardinality(Sending(n)) <= bound
      BY <1>0, <1>6 DEF LimitInv, AlertShape
    <2>5. pushed'[n] + Cardinality(Sending(n)') <= bound
      BY <2>2, <2>3, <2>4
    <2> QED BY <1>1, <2>2, <2>5 DEF LimitInv
  <1> QED BY <1>4, <1>5, <1>6 DEF AlertInv

LEMMA ExpireKeepsAlerts ==
    ASSUME PipeInv, AlertInv, UNCHANGED pipelineVars, Expire PROVE AlertInv'
  <1>0. AlertShape /\ \A n \in Notices : LimitInv(n)
    BY DEF AlertInv
  <1>1. UNCHANGED <<due, won, inbox, cleared, inHand, pushed>>
    BY DEF Expire
  <1>2. PICK e \in {"cooldown", "limit"} :
          /\ expired' = [expired EXCEPT ![e] = @ + 1]
          /\ e = "cooldown" => limited' = limited /\ \E k \in cooldown : cooldown' = cooldown \ {k}
          /\ e = "limit" => cooldown' = cooldown /\ \E n \in limited : limited' = limited \ {n}
    BY DEF Expire, CountExpiry
  <1>3. /\ expired' \in [{"cooldown", "limit"} -> Nat]
        /\ \A k \in {"cooldown", "limit"} :
              expired'[k] = IF k = e THEN expired[k] + 1 ELSE expired[k]
    BY <1>0, <1>2 DEF AlertShape
  <1>4. expired["cooldown"] \in Nat /\ expired["limit"] \in Nat
    BY <1>0 DEF AlertShape
  <1>5. AlertShape' /\ \A k \in CooldownKeys : CooldownInv(k)'
    <2>1. cooldown' \subseteq cooldown /\ expired["cooldown"] <= expired'["cooldown"]
      BY <1>2, <1>3, <1>4
    <2>2. \A k \in cooldown \ cooldown' : /\ cooldown \ cooldown' = {k}
                                          /\ expired'["cooldown"] = expired["cooldown"] + 1
      BY <1>2, <1>3
    <2>3. /\ inHand' = [v \in PushWorkers |-> inHand'[v]] /\ pushed' \in [Notices -> Nat]
          /\ \A v \in PushWorkers : inHand'[v] = Free
             \/ inHand'[v] = [notice |-> inHand'[v].notice, step |-> inHand'[v].step]
      BY <1>0, <1>1 DEF AlertShape
    <2> QED BY <1>1, <1>3, <2>1, <2>2, <2>3, WorkersKeepAlerts
  <1>6. ASSUME NEW n \in Notices PROVE LimitInv(n)'
    <2>1. Sending(n)' = Sending(n) /\ LimitInv(n)
      BY <1>0, <1>1 DEF Sending
    <2>2. CASE n \in limited => n \in limited'
      BY <1>0, <1>1, <1>3, <1>4, <1>5, <2>1, <2>2, LimitRests
    <2>3. CASE n \in limited /\ n \notin limited'
      <3>1. expired'["limit"] = expired["limit"] + 1
        BY <1>2, <1>3, <2>3
      <3>2. pushed[n] \in Nat /\ Cardinality(Sending(n)) \in Nat
        BY <1>0, <2>1, FS_CardinalityType DEF LimitInv, AlertShape
      <3>3. pushed[n] + Cardinality(Sending(n)) <= expired["limit"] + 1
        BY <2>1, <2>3 DEF LimitInv
      <3>4. pushed'[n] + Cardinality(Sending(n)') <= expired'["limit"] + 0
        BY <1>1, <1>4, <2>1, <3>1, <3>2, <3>3
      <3> QED BY <2>1, <2>3, <3>4 DEF LimitInv
    <2> QED BY <2>2, <2>3
  <1> QED BY <1>5, <1>6 DEF AlertInv

(* A row that is marked read still announces what it did, and to the same support. *)
LEMMA ReadingKeepsRows ==
    ASSUME AlertShape, NEW rows, MarkRead(rows)
    PROVE  /\ \A row \in inbox : \E new \in inbox' : new.notice = row.notice /\ new.by = row.by
           /\ \A row \in inbox' : row = [notice |-> row.notice, by |-> row.by, read |-> row.read]
           /\ \A k : IsFiniteSet(RowsOf(k)) =>
                 IsFiniteSet(RowsOf(k)') /\ Cardinality(RowsOf(k)') <= Cardinality(RowsOf(k))
  <1>0. PICK seen : seen = TRUE
    OBVIOUS
  <1> DEFINE Dismissed_(row) == IF row \in rows THEN [row EXCEPT !.read = seen] ELSE row
  <1>1. /\ rows \subseteq inbox
        /\ inbox' = (inbox \ rows) \cup {[row EXCEPT !.read = seen] : row \in rows}
    BY <1>0 DEF MarkRead
  <1>2. ASSUME NEW row \in inbox
        PROVE  /\ Dismissed_(row).notice = row.notice /\ Dismissed_(row).by = row.by
               /\ Dismissed_(row) = [notice |-> Dismissed_(row).notice, by |-> Dismissed_(row).by,
                                     read |-> Dismissed_(row).read]
    <2> PICK n, b, r : row = [notice |-> n, by |-> b, read |-> r]
      BY DEF AlertShape
    <2>1. [row EXCEPT !.read = seen] = [notice |-> n, by |-> b, read |-> seen]
      OBVIOUS
    <2>2. \E r2 : Dismissed_(row) = [notice |-> n, by |-> b, read |-> r2]
      BY <2>1
    <2> QED BY <2>2
  <1>3. inbox' = {Dismissed_(row) : row \in inbox}
    BY <1>1
  <1> HIDE DEF Dismissed_
  <1>4. ASSUME NEW k, IsFiniteSet(RowsOf(k))
        PROVE  IsFiniteSet(RowsOf(k)') /\ Cardinality(RowsOf(k)') <= Cardinality(RowsOf(k))
    <2> PICK f : f = [row \in RowsOf(k) |-> Dismissed_(row)]
      OBVIOUS
    <2>1. \A row \in RowsOf(k) : f[row] \in RowsOf(k)'
      BY <1>2, <1>3 DEF RowsOf, KeyOf
    <2>2. \A new \in RowsOf(k)' : \E row \in RowsOf(k) : f[row] = new
      BY <1>2, <1>3 DEF RowsOf, KeyOf
    <2>3. f \in Surjection(RowsOf(k), RowsOf(k)')
      BY <2>1, <2>2 DEF Surjection
    <2> QED BY <1>4, <2>3, FS_Surjection
  <1> QED BY <1>2, <1>3, <1>4

LEMMA ReadKeepsAlerts ==
    ASSUME PipeInv, AlertInv, UNCHANGED pipelineVars, NEW rows, MarkRead(rows) PROVE AlertInv'
  <1>0. AlertShape /\ \A n \in Notices : LimitInv(n)
    BY DEF AlertInv
  <1>1. UNCHANGED <<due, won, cleared, cooldown, pushVars, expired>>
    BY DEF MarkRead
  <1>2. AlertShape'
    <2>1. \A t \in Supports : Passed(t, "threats")' <=> Passed(t, "threats")
      BY DEF pipelineVars, Passed, Committed
    <2>2. \A row \in inbox' : row = [notice |-> row.notice, by |-> row.by, read |-> row.read]
      BY <1>0, ReadingKeepsRows
    <2> QED BY <1>0, <1>1, <2>1, <2>2 DEF AlertShape, pushVars
  <1>3. ASSUME NEW k \in CooldownKeys PROVE CooldownInv(k)'
    <2>1. CooldownInv(k) /\ Holding(k)' = Holding(k) /\ expired["cooldown"] \in Nat
      BY <1>0, <1>1 DEF Holding, AlertInv, AlertShape
    <2>2. IsFiniteSet(RowsOf(k)') /\ Cardinality(RowsOf(k)') <= Cardinality(RowsOf(k))
      BY <1>0, <2>1, ReadingKeepsRows DEF CooldownInv
    <2> QED BY <1>0, <1>1, <1>2, <2>1, <2>2, CooldownRests
  <1>4. ASSUME NEW n \in Notices PROVE LimitInv(n)'
    BY <1>0, <1>1 DEF LimitInv, Sending, pushVars
  <1> QED BY <1>2, <1>3, <1>4 DEF AlertInv

(* The other requests' steps, and the tokens. *)
LEMMA OthersKeepAlerts ==
    ASSUME PipeInv, AlertInv,
           UNCHANGED <<cooldown, due, won, inbox, inHand, pushed, limited, expired, cleared>>,
           \/ UNCHANGED pipelineVars
           \/ RequestNext
           \/ \E s \in Supports, d \in Calls_ : Pass(s, d)
    PROVE  AlertInv'
  <1>1. \A t \in Supports : Passed(t, "threats") => Passed(t, "threats")'
    BY StaysPassed, CallNames
  <1>2. AlertShape'
    BY <1>1 DEF AlertInv, AlertShape
  <1>3. \A k \in CooldownKeys : CooldownInv(k)'
    BY DEF AlertInv, CooldownInv, RowsOf, Holding
  <1>4. \A n \in Notices : LimitInv(n)'
    BY DEF AlertInv, LimitInv, Sending
  <1> QED BY <1>2, <1>3, <1>4 DEF AlertInv

LEMMA AlertStarts == AlertsInit => AlertInv
  <1> SUFFICES ASSUME AlertsInit PROVE AlertInv
    OBVIOUS
  <1>1. AlertShape
    BY FS_EmptySet DEF AlertsInit, AlertShape
  <1>2. ASSUME NEW k \in CooldownKeys PROVE CooldownInv(k)
    <2>1. RowsOf(k) = {} /\ Holding(k) = {} /\ cooldown = {} /\ cleared = {}
      BY DEF AlertsInit, RowsOf, Holding
    <2>2. /\ IsFiniteSet(RowsOf(k)) /\ Cardinality(RowsOf(k)) = 0
          /\ IsFiniteSet(Holding(k)) /\ Cardinality(Holding(k)) = 0
          /\ Cardinality(cleared) = 0 /\ expired["cooldown"] = 0
      BY <2>1, FS_EmptySet DEF AlertsInit
    <2>3. /\ (IF k[1] = LeadLevel THEN 0 ELSE Cardinality(cleared)) = 0
          /\ (IF k \in cooldown THEN 1 ELSE 0) = 0
      BY <2>1, <2>2
    <2> QED BY <2>2, <2>3 DEF CooldownInv
  <1>3. ASSUME NEW n \in Notices PROVE LimitInv(n)
    <2>1. Sending(n) = {} /\ limited = {} /\ pushed[n] = 0 /\ expired["limit"] = 0
      BY DEF AlertsInit, Sending
    <2>2. IsFiniteSet(Sending(n)) /\ Cardinality(Sending(n)) = 0
      BY <2>1, FS_EmptySet
    <2>3. (IF n \in limited THEN 1 ELSE 0) = 0
      BY <2>1
    <2> QED BY <2>1, <2>2, <2>3 DEF LimitInv
  <1> QED BY <1>1, <1>2, <1>3 DEF AlertInv

LEMMA AlertsServe == ASSUME AlertInv PROVE AlertsAreLimited
  <1>1. AlertShape /\ \A k \in CooldownKeys : CooldownInv(k)
    BY DEF AlertInv
  <1>2. expired["cooldown"] \in Nat /\ expired["limit"] \in Nat /\ Cardinality(cleared) \in Nat
    BY <1>1, FS_CardinalityType DEF AlertShape
  <1>3. ASSUME NEW k \in CooldownKeys
        PROVE  /\ IsFiniteSet(RowsOf(k)) /\ Cardinality(RowsOf(k)) \in Nat
               /\ k[1] = LeadLevel => Cardinality(RowsOf(k)) <= 1 + expired["cooldown"]
               /\ Cardinality(RowsOf(k)) <= 1 + expired["cooldown"] + Cardinality(cleared)
    <2>1. Cardinality(RowsOf(k)) \in Nat /\ Cardinality(Holding(k)) \in Nat
      BY <1>1, FS_CardinalityType DEF CooldownInv
    <2> PICK set \in {0, 1} : set = IF k \in cooldown THEN 1 ELSE 0
      OBVIOUS
    <2> PICK flipped \in Nat : flipped = IF k[1] = LeadLevel THEN 0 ELSE Cardinality(cleared)
      BY <1>2
    <2>2. Cardinality(RowsOf(k)) + Cardinality(Holding(k)) <= expired["cooldown"] + flipped + set
      BY <1>1 DEF CooldownInv
    <2>3. IsFiniteSet(RowsOf(k))
      BY <1>1 DEF CooldownInv
    <2> QED BY <1>2, <2>1, <2>2, <2>3
  <1>4. ASSUME NEW l \in TensionLevels
        PROVE  Cardinality(AnnouncedLevel(l)) <= 1 + expired["cooldown"] + Cardinality(cleared)
    <2> PICK k : k = KeyOf(<<l, 1>>)
      OBVIOUS
    <2>1. <<l, 1>> \in Notices /\ l # LeadLevel
      BY AlertsAssumption DEF Notices, Levels, Tribes
    <2>2. k \in CooldownKeys /\ k = <<l, 0>>
      <3>1. k \in CooldownKeys
        BY <2>1 DEF CooldownKeys
      <3> QED BY <2>1, <3>1 DEF KeyOf, CooldownKey
    <2>3. AnnouncedLevel(l) \subseteq RowsOf(k)
      BY <2>1, <2>2 DEF AnnouncedLevel, RowsOf, KeyOf, CooldownKey
    <2>4. /\ Cardinality(AnnouncedLevel(l)) \in Nat
          /\ Cardinality(AnnouncedLevel(l)) <= Cardinality(RowsOf(k))
      BY <1>3, <2>2, <2>3, NoLarger
    <2>5. /\ Cardinality(RowsOf(k)) \in Nat
          /\ Cardinality(RowsOf(k)) <= 1 + expired["cooldown"] + Cardinality(cleared)
      BY <1>3, <2>2
    <2> QED BY <1>2, <2>4, <2>5
  <1>5. ASSUME NEW t \in Tribes
        PROVE  Cardinality(Announced(<<LeadLevel, t>>)) <= 1 + expired["cooldown"]
    <2> PICK k : k = KeyOf(<<LeadLevel, t>>)
      OBVIOUS
    <2>1. <<LeadLevel, t>> \in Notices
      BY DEF Notices, Levels
    <2>2. k \in CooldownKeys /\ k[1] = LeadLevel
      BY <2>1 DEF CooldownKeys, KeyOf, CooldownKey
    <2>3. Announced(<<LeadLevel, t>>) \subseteq RowsOf(k)
      BY DEF Announced, RowsOf
    <2>4. /\ Cardinality(Announced(<<LeadLevel, t>>)) \in Nat
          /\ Cardinality(Announced(<<LeadLevel, t>>)) <= Cardinality(RowsOf(k))
      BY <1>3, <2>2, <2>3, NoLarger
    <2>5. Cardinality(RowsOf(k)) \in Nat /\ Cardinality(RowsOf(k)) <= 1 + expired["cooldown"]
      BY <1>3, <2>2
    <2> QED BY <1>2, <2>4, <2>5
  <1>6. ASSUME NEW n \in Notices PROVE pushed[n] <= 1 + expired["limit"]
    <2> PICK set \in {0, 1} : set = IF n \in limited THEN 1 ELSE 0
      OBVIOUS
    <2>1. pushed[n] + Cardinality(Sending(n)) <= expired["limit"] + set
      BY DEF AlertInv, LimitInv
    <2>2. pushed[n] \in Nat /\ Cardinality(Sending(n)) \in Nat
      BY <1>1, FS_CardinalityType DEF AlertInv, AlertShape, LimitInv
    <2> QED BY <1>2, <2>1, <2>2
  <1> QED BY <1>4, <1>5, <1>6 DEF AlertsAreLimited
-----------------------------------------------------------------------------
(* Crossings: while the requests follow one another, a cooldown that holds has been *)
(* announced since the holder took the city. *)

Last == commits[Len(commits)].by
Backed(l, m) ==
    \E j \in 1..m : /\ \A k \in (j + 1)..m : ~Flipped(k)
                    /\ \E row \in AnnouncedLevel(l) : row.by = commits[j].by
(* The commits whose cooldowns count: those of a flip are still to be cleared. *)
Lasting ==
    IF Len(commits) > 0 /\ Last \in flips /\ ~Passed(Last, "threats") THEN Len(commits) - 1
    ELSE Len(commits)
Announcing(l) ==
    /\ Len(commits) > 0 /\ stage[Last] = "threats"
    /\ won[Last] \in Todo(Last, "threats") /\ won[Last][1] = l

(* The scores before a support are those it left without its own worth. *)
ScoresInv ==
    \A i \in DOMAIN commits :
        commits[i].left = [ScoresAfter(i - 1) EXCEPT ![SideOf[commits[i].by]] =
                             @ + Worth[commits[i].by]]

Orderly == "threats" \in effects /\ overlapping = {} /\ skipped = {}
CrossedAt(i) == TensionCrossed(ScoresAfter(i - 1), ScoresAfter(i))
DuesInv ==
    /\ \A s \in Ongoing : Len(commits) > 0 /\ s = Last
    /\ \A s \in Supports : Todo(s, "threats") # {} => stage[s] = "threats" /\ s \notin flips
KeysInv == \A l \in TensionLevels : <<l, 0>> \in cooldown => Backed(l, Lasting) \/ Announcing(l)
ToldInv ==
    \A i \in DOMAIN commits :
        i < Len(commits) \/ Passed(commits[i].by, "threats") =>
            \A l \in CrossedAt(i) : Backed(l, i)
DueInv ==
    Len(commits) > 0 /\ Todo(Last, "threats") # {} =>
        \A l \in CrossedAt(Len(commits)) :
            <<l, Leader(Scores)>> \in Todo(Last, "threats") \/ Backed(l, Len(commits))

OrderlyInv == DuesInv /\ KeysInv /\ ToldInv /\ DueInv
CrossInv == ScoresInv /\ (Orderly => OrderlyInv)

(* What is to do in a call, by the kind of level. *)
LEMMA TodoSplit ==
    /\ \A s : Todo(s, "threats") = {n \in due[s] : n[1] # LeadLevel}
    /\ \A s : Todo(s, "lead") = {n \in due[s] : n[1] = LeadLevel}
  <1>1. ASSUME NEW s PROVE Todo(s, "threats") = {n \in due[s] : n[1] # LeadLevel}
    BY DEF Todo
  <1>2. ASSUME NEW s PROVE Todo(s, "lead") = {n \in due[s] : n[1] = LeadLevel}
    BY DEF Todo
  <1> QED BY <1>1, <1>2

(* What is backed stays so while rows only change by being read. *)
RowsStay == \A row \in inbox : \E new \in inbox' : new.notice = row.notice /\ new.by = row.by

LEMMA CommitsRest ==
    ASSUME UNCHANGED commits, RowsStay
    PROVE  /\ Last' = Last /\ flips' = flips /\ Scores' = Scores
           /\ \A i : CrossedAt(i)' = CrossedAt(i) /\ (Flipped(i)' <=> Flipped(i))
           /\ \A l, m : Backed(l, m) => Backed(l, m)'
           /\ ScoresInv => ScoresInv'
  <1>1. Last' = Last /\ flips' = flips /\ Scores' = Scores
    BY DEF Last, flips, Flipped, Scores, ScoresAfter, Leader
  <1>2. \A i : ScoresAfter(i)' = ScoresAfter(i)
    BY DEF ScoresAfter
  <1>3. \A i : CrossedAt(i)' = CrossedAt(i) /\ (Flipped(i)' <=> Flipped(i))
    BY <1>2 DEF CrossedAt, TensionCrossed, TensionReaches, Second2, First2, Leader, Flipped
  <1>4. ASSUME NEW l, NEW m, Backed(l, m) PROVE Backed(l, m)'
    <2>1. PICK j \in 1..m : /\ \A k \in (j + 1)..m : ~Flipped(k)
                            /\ \E row \in AnnouncedLevel(l) : row.by = commits[j].by
      BY <1>4 DEF Backed
    <2>2. \E row \in AnnouncedLevel(l)' : row.by = commits[j].by
      BY <2>1 DEF AnnouncedLevel, RowsStay
    <2>3. \A k \in (j + 1)..m : ~Flipped(k)'
      BY <1>3, <2>1
    <2> QED BY <2>2, <2>3 DEF Backed
  <1>5. ScoresInv => ScoresInv'
    BY <1>2 DEF ScoresInv
  <1> QED BY <1>1, <1>3, <1>4, <1>5

(* The last support and its commit. *)
LEMMA LastCommit ==
    ASSUME PipeInv, Len(commits) > 0
    PROVE  /\ Len(commits) \in Nat \ {0} /\ Len(commits) \in DOMAIN commits
           /\ Last \in Supports /\ Last \in Committed
           /\ (Last \in flips <=> Flipped(Len(commits)))
  <1> PICK n : n = Len(commits)
    OBVIOUS
  <1>1. n \in Nat \ {0} /\ n \in DOMAIN commits /\ Last = commits[n].by
    BY DEF PipeInv, PipeShape, Last
  <1>2. Last \in Supports /\ Last \in Committed
    BY <1>1, CommitsShaped DEF PipeInv, CommitsNamed, Committed
  <1>3. Last \in flips <=> Flipped(n)
    BY <1>1 DEF flips, PipeInv, CommitsNamed
  <1> QED BY <1>1, <1>2, <1>3

LEMMA ScoresBefore ==
    ASSUME PipeInv, ScoresInv, Len(commits) > 0
    PROVE  PreScores(Last) = ScoresAfter(Len(commits) - 1) /\ Scores = ScoresAfter(Len(commits))
  <1> PICK n : n = Len(commits)
    OBVIOUS
  <1> PICK pre : pre = ScoresAfter(n - 1)
    OBVIOUS
  <1> PICK s : s = Last
    OBVIOUS
  <1>1. n \in Nat \ {0} /\ n \in DOMAIN commits /\ s \in Supports /\ s = commits[n].by
    BY LastCommit DEF Last
  <1>2. pre \in [Tribes -> Nat]
    <2>1. n - 1 \in 0..n
      BY <1>1
    <2> QED BY <2>1, ScoresShaped DEF PipeInv
  <1>3. Scores = [pre EXCEPT ![SideOf[s]] = @ + Worth[s]]
    BY <1>1 DEF ScoresInv, Scores, ScoresAfter
  <1>4. SideOf[s] \in Tribes /\ Worth[s] \in Nat \ {0}
    BY <1>1, PipelineAssumption DEF Tribes
  <1>5. /\ Scores \in [Tribes -> Nat] /\ Scores[SideOf[s]] = pre[SideOf[s]] + Worth[s]
        /\ \A t \in Tribes : t # SideOf[s] => Scores[t] = pre[t]
    BY <1>2, <1>3, <1>4
  <1>6. (IF Scores[SideOf[s]] > Worth[s] THEN Scores[SideOf[s]] - Worth[s] ELSE 0)
           = pre[SideOf[s]]
    BY <1>2, <1>4, <1>5
  <1>7. PreScores(s) = pre
    <2>1. PreScores(s) = [Scores EXCEPT ![SideOf[s]] = pre[SideOf[s]]]
      BY <1>6 DEF PreScores
    <2>2. /\ PreScores(s) \in [Tribes -> Nat]
          /\ \A t \in Tribes : PreScores(s)[t] = pre[t]
      BY <1>2, <1>4, <1>5, <2>1
    <2> QED BY <1>2, <2>2
  <1> QED BY <1>1, <1>7 DEF Scores
(* A step that has nothing to do with the threats call. *)
LEMMA OthersKeepOrder ==
    ASSUME PipeInv, ScoresInv, Orderly, OrderlyInv, RowsStay,
           \/ UNCHANGED pipelineVars
           \/ \E s \in Supports, d \in Calls_ \ {"threats"} : Pass(s, d),
           \A t \in Supports : Todo(t, "threats")' = Todo(t, "threats"),
           \A t \in Supports : stage[t] = "threats" => won'[t] = won[t],
           \A l \in TensionLevels : <<l, 0>> \in cooldown' => <<l, 0>> \in cooldown
    PROVE  OrderlyInv'
  <1> PICK n : n = Len(commits)
    OBVIOUS
  <1>0. DuesInv /\ KeysInv /\ ToldInv /\ DueInv
    BY DEF OrderlyInv
  <1>1. UNCHANGED <<commits, effects>> /\ Ongoing' \subseteq Ongoing
    BY CallsEnd
  <1>2. /\ Last' = Last /\ flips' = flips /\ Scores' = Scores
        /\ \A i : CrossedAt(i)' = CrossedAt(i)
        /\ \A l, m : Backed(l, m) => Backed(l, m)'
    BY <1>1, CommitsRest
  <1>3. /\ \A t \in Supports : stage[t] = "threats" => stage'[t] = "threats"
        /\ \A t \in Supports : Passed(t, "threats")' <=> Passed(t, "threats")
    <2>1. ASSUME NEW s \in Supports, NEW d \in Calls_ \ {"threats"}, Pass(s, d)
          PROVE  /\ \A t \in Supports : stage[t] = "threats" => stage'[t] = "threats"
                 /\ \A t \in Supports : Passed(t, "threats")' <=> Passed(t, "threats")
      <3>1. /\ stage[s] = d /\ stage' = [stage EXCEPT ![s] = First(Behind(s))]
            /\ UNCHANGED <<commits, effects>>
        BY <2>1 DEF Pass
      <3>2. "threats" \in CallsOf(s \in flips) /\ "threats" \in Calls_
        BY CallNames DEF CallsOf, Orderly, FlipOnly
      <3> QED BY <2>1, <3>1, <3>2, MovesOn
    <2>2. CASE UNCHANGED pipelineVars
      BY <2>2 DEF pipelineVars, Passed, Committed
    <2> QED BY <2>1, <2>2
  <1>4. n > 0 => Last \in Supports
    BY LastCommit
  <1>5. DuesInv'
    BY <1>0, <1>1, <1>2, <1>3 DEF DuesInv
  <1>6. KeysInv'
    <2>1. Lasting' = Lasting
      BY <1>1, <1>2, <1>3, <1>4 DEF Lasting
    <2>2. \A l : Announcing(l) => Announcing(l)'
      BY <1>1, <1>2, <1>3, <1>4 DEF Announcing
    <2> QED BY <1>0, <1>2, <2>1, <2>2 DEF KeysInv
  <1>7. ToldInv'
    <2>1. \A i \in DOMAIN commits : commits[i].by \in Supports
      BY CommitsShaped DEF PipeInv
    <2>2. \A i \in DOMAIN commits : Passed(commits[i].by, "threats")' =>
             Passed(commits[i].by, "threats")
      <3>1. ASSUME NEW i \in DOMAIN commits, Passed(commits[i].by, "threats")'
            PROVE  Passed(commits[i].by, "threats")
        <4> PICK t \in Supports : t = commits[i].by
          BY <2>1
        <4>1. Passed(t, "threats")'
          BY <1>1, <3>1 DEF Passed, Committed
        <4> QED BY <1>3, <4>1
      <3> QED BY <3>1
    <2>3. ASSUME NEW i \in DOMAIN commits, 
                 i < Len(commits) \/ Passed(commits[i].by, "threats")',
                 NEW l \in CrossedAt(i)
          PROVE  Backed(l, i)'
      <3>1. Backed(l, i)
        BY <1>0, <2>2, <2>3 DEF ToldInv
      <3> QED BY <1>2, <3>1
    <2>4. DOMAIN commits' = DOMAIN commits /\ Len(commits') = Len(commits)
      BY <1>1
    <2> QED BY <1>2, <2>3, <2>4 DEF ToldInv
  <1>8. DueInv'
    <2>1. Len(commits') = n /\ (n > 0 => Todo(Last, "threats")' = Todo(Last, "threats"))
      BY <1>1, <1>2, <1>4 DEF Todo
    <2> QED BY <1>0, <1>1, <1>2, <2>1 DEF DueInv
  <1> QED BY <1>5, <1>6, <1>7, <1>8 DEF OrderlyInv
(* The steps of the threats call, all of the last support's request. *)
LEMMA LastOngoing ==
    ASSUME PipeInv, DuesInv, NEW s \in Supports, stage[s] = "threats"
    PROVE  /\ Len(commits) > 0 /\ s = Last /\ "threats" \in Calls_
           /\ ~Passed(s, "threats")
           /\ (s \notin flips => Lasting = Len(commits))
  <1>1. "threats" \in Calls_ /\ s \in Ongoing
    BY CallNames DEF Ongoing, Committed
  <1>2. Len(commits) > 0 /\ s = Last
    BY <1>1 DEF DuesInv
  <1>3. ~Passed(s, "threats")
    BY <1>1, Placing, CallNames DEF Passed
  <1> QED BY <1>1, <1>2, <1>3 DEF Lasting

LEMMA ThreatsKeepOrder ==
    ASSUME PipeInv, ScoresInv, Orderly, OrderlyInv, RowsStay,
           NEW s \in Supports, stage[s] = "threats", UNCHANGED pipelineVars \/ Pass(s, "threats"),
           \A t \in Supports \ {s} : Todo(t, "threats")' = Todo(t, "threats"),
           Todo(s, "threats")' # {} => stage'[s] = "threats" /\ s \notin flips,
           \A l \in TensionLevels : <<l, 0>> \in cooldown' =>
              /\ s \notin flips
              /\ Backed(l, Len(commits))'
                 \/ (UNCHANGED pipelineVars /\ won'[s] \in Todo(s, "threats")' /\ won'[s][1] = l),
           Pass(s, "threats") => \A l \in CrossedAt(Len(commits)) : Backed(l, Len(commits))',
           Todo(s, "threats")' # {} =>
              \A l \in CrossedAt(Len(commits)) :
                 <<l, Leader(Scores)>> \in Todo(s, "threats")' \/ Backed(l, Len(commits))'
    PROVE  OrderlyInv'
  <1> PICK n : n = Len(commits)
    OBVIOUS
  <1>0. DuesInv /\ KeysInv /\ ToldInv /\ DueInv
    BY DEF OrderlyInv
  <1>1. UNCHANGED <<commits, effects>> /\ Ongoing' \subseteq Ongoing /\ "threats" \in Calls_
    BY CallsEnd, CallNames
  <1>2. /\ Last' = Last /\ flips' = flips /\ Scores' = Scores
        /\ \A i : CrossedAt(i)' = CrossedAt(i)
        /\ \A l, m : Backed(l, m) => Backed(l, m)'
    BY <1>1, CommitsRest
  <1>3. n > 0 /\ s = Last /\ ~Passed(s, "threats") /\ n \in Nat \ {0} /\ n \in DOMAIN commits
    BY <1>0, LastOngoing, LastCommit
  <1>4. \A t \in Supports \ {s} : /\ stage'[t] = stage[t]
                                  /\ Passed(t, "threats")' <=> Passed(t, "threats")
    <2>1. CASE UNCHANGED pipelineVars
      BY <2>1 DEF pipelineVars, Passed, Committed
    <2>2. CASE Pass(s, "threats")
      <3>1. stage' = [stage EXCEPT ![s] = First(Behind(s))] /\ UNCHANGED <<commits, effects>>
        BY <2>2 DEF Pass
      <3>2. stage[s] \in Calls_
        BY <1>1
      <3>3. /\ \A t \in Supports \ {s} : stage'[t] = stage[t]
            /\ \A c \in Calls_ : \A t \in Supports \ {s} : Passed(t, c)' <=> Passed(t, c)
        BY <3>1, <3>2, MovesOn
      <3> QED BY <1>1, <3>3
    <2> QED BY <2>1, <2>2
  <1>5. DuesInv'
    BY <1>0, <1>1, <1>2, <1>4 DEF DuesInv
  <1>6. KeysInv'
    <2>1. ASSUME NEW l \in TensionLevels, <<l, 0>> \in cooldown'
          PROVE  Backed(l, Lasting)' \/ Announcing(l)'
      <3>1. s \notin flips
        BY <2>1
      <3>2. Lasting' = n
        BY <1>1, <1>2, <1>3, <3>1 DEF Lasting
      <3>3. CASE Backed(l, Len(commits))'
        <4>1. Backed(l, n)'
          BY <1>1, <3>3 DEF Backed, AnnouncedLevel
        <4> QED BY <3>2, <4>1 DEF Backed, AnnouncedLevel
      <3>4. CASE UNCHANGED pipelineVars /\ won'[s] \in Todo(s, "threats")' /\ won'[s][1] = l
        <4>1. stage'[s] = "threats" /\ Len(commits') > 0
          BY <1>1, <1>3, <3>4 DEF pipelineVars
        <4> QED BY <1>2, <1>3, <3>4, <4>1 DEF Announcing, Todo
      <3> QED BY <2>1, <3>3, <3>4
    <2> QED BY <2>1 DEF KeysInv
  <1>7. ToldInv'
    <2>1. ASSUME NEW i \in DOMAIN commits, 
                 i < Len(commits) \/ Passed(commits[i].by, "threats")',
                 NEW l \in CrossedAt(i)
          PROVE  Backed(l, i)'
      <3>1. CASE i < Len(commits)
        <4>1. Backed(l, i)
          BY <1>0, <2>1, <3>1 DEF ToldInv
        <4> QED BY <1>2, <4>1
      <3>2. CASE ~(i < Len(commits))
        <4>1. i = n /\ commits[i].by = s
          BY <1>3, <3>2 DEF PipeInv, PipeShape, Last
        <4>2. Passed(s, "threats")'
          BY <1>1, <2>1, <3>2, <4>1 DEF Passed, Committed
        <4>3. Pass(s, "threats")
          BY <1>3, <4>2 DEF pipelineVars, Passed, Committed
        <4>4. Backed(l, Len(commits))'
          BY <2>1, <4>1, <4>3
        <4> QED BY <1>1, <4>1, <4>4 DEF Backed, AnnouncedLevel
      <3> QED BY <3>1, <3>2
    <2>2. DOMAIN commits' = DOMAIN commits /\ Len(commits') = Len(commits)
      BY <1>1
    <2> QED BY <1>2, <2>1, <2>2 DEF ToldInv
  <1>8. DueInv'
    <2>1. ASSUME Todo(s, "threats")' # {}, NEW l \in CrossedAt(n)
          PROVE  <<l, Leader(Scores')>> \in Todo(s, "threats")' \/ Backed(l, n)'
      <3>1. <<l, Leader(Scores)>> \in Todo(s, "threats")' \/ Backed(l, Len(commits))'
        BY <2>1
      <3>2. Backed(l, Len(commits))' => Backed(l, n)'
        BY <1>1 DEF Backed, AnnouncedLevel
      <3> QED BY <1>2, <3>1, <3>2
    <2>2. Len(commits') = n /\ Todo(Last, "threats")' = Todo(s, "threats")'
      BY <1>1, <1>2, <1>3 DEF Todo
    <2>3. Leader(Scores)' = Leader(Scores')
      BY DEF Leader
    <2> QED BY <1>2, <2>1, <2>2, <2>3 DEF DueInv
  <1> QED BY <1>5, <1>6, <1>7, <1>8 DEF OrderlyInv
(* The scores are loaded and the crossed levels found. *)
LEMMA DetectKeepsOrder ==
    ASSUME PipeInv, AlertInv, ScoresInv, Orderly, OrderlyInv, NEW s \in Supports,
           Detect(s, "threats")
    PROVE  OrderlyInv'
  <1> PICK notices : notices = Crossed(s, "threats")
    OBVIOUS
  <1>0. DuesInv /\ KeysInv /\ "threats" \in AlertStages
    BY DEF OrderlyInv, AlertStages
  <1>1. /\ stage[s] = "threats" /\ Todo(s, "threats") = {} /\ s \notin flips
        /\ due' = [due EXCEPT ![s] = notices]
        /\ IF notices = {} THEN Pass(s, "threats") ELSE UNCHANGED pipelineVars
        /\ UNCHANGED <<cooldown, inbox>>
    BY DEF Detect
  <1>2. /\ due'[s] = notices /\ \A t \in Supports \ {s} : due'[t] = due[t]
    BY <1>1 DEF AlertInv, AlertShape
  <1>3. Len(commits) > 0 /\ s = Last /\ Lasting = Len(commits)
    BY <1>0, <1>1, LastOngoing
  <1>4. notices = {<<l, Leader(Scores)>> : l \in CrossedAt(Len(commits))}
    BY <1>3, ScoresBefore DEF Crossed, CrossedAt
  <1>5. Todo(s, "threats")' = notices
    <2>1. \A n \in notices : n[1] # LeadLevel
      BY <1>4, AlertsAssumption DEF CrossedAt, TensionCrossed
    <2>2. Todo(s, "threats")' = {n \in due'[s] : n[1] # LeadLevel}
      BY DEF Todo
    <2> QED BY <1>2, <2>1, <2>2
  <1>6. \A t \in Supports \ {s} : Todo(t, "threats")' = Todo(t, "threats")
    BY <1>2 DEF Todo
  <1>7. RowsStay
    BY <1>1 DEF RowsStay
  <1>8. \A l \in TensionLevels : <<l, 0>> \in cooldown' => Backed(l, Len(commits))'
    <2>1. ASSUME NEW l \in TensionLevels, <<l, 0>> \in cooldown PROVE Backed(l, Len(commits))
      BY <1>0, <1>1, <1>3, <2>1 DEF KeysInv, Announcing
    <2>2. UNCHANGED commits
      BY <1>1 DEF Pass, pipelineVars
    <2>3. \A m : Backed(m, Len(commits)) => Backed(m, Len(commits))'
      BY <1>1, <2>2 DEF Backed, AnnouncedLevel, Flipped, ScoresAfter, Leader
    <2> QED BY <1>1, <2>1, <2>3
  <1>9. Pass(s, "threats") => notices = {}
    <2>1. Pass(s, "threats") => stage'[s] # stage[s]
      BY <1>1, MovesOn, CallNames DEF Pass
    <2> QED BY <1>1, <2>1 DEF pipelineVars
  <1>10. notices # {} => stage'[s] = "threats"
    BY <1>1 DEF pipelineVars
  <1>11. UNCHANGED pipelineVars \/ Pass(s, "threats")
    BY <1>1
  <1>12. Pass(s, "threats") => \A l \in CrossedAt(Len(commits)) : Backed(l, Len(commits))'
    BY <1>4, <1>9
  <1>13. \A l \in CrossedAt(Len(commits)) : <<l, Leader(Scores)>> \in Todo(s, "threats")'
    BY <1>4, <1>5
  <1> QED BY <1>1, <1>5, <1>6, <1>7, <1>8, <1>10, <1>11, <1>12, <1>13, ThreatsKeepOrder

(* What the call settles, and what is left for it. *)
LEMMA SettleKeepsOrder ==
    ASSUME PipeInv, AlertInv, ScoresInv, Orderly, OrderlyInv, RowsStay, NEW s \in Supports,
           stage[s] = "threats", NEW n \in Todo(s, "threats"), won' = [won EXCEPT ![s] = Free],
           Settle(s, "threats", due[s] \ {n}), cooldown' = cooldown,
           Backed(n[1], Len(commits))',
           \A l : Announcing(l) => l = n[1]
    PROVE  OrderlyInv'
  <1>0. DuesInv /\ KeysInv /\ DueInv
    BY DEF OrderlyInv
  <1>1. /\ due' = [due EXCEPT ![s] = due[s] \ {n}]
        /\ IF due[s] \ {n} = {} THEN Pass(s, "threats") ELSE UNCHANGED pipelineVars
    BY DEF Settle
  <1>2. /\ due'[s] = due[s] \ {n} /\ \A t \in Supports \ {s} : due'[t] = due[t]
    BY <1>1 DEF AlertInv, AlertShape
  <1>3. Len(commits) > 0 /\ s = Last /\ s \notin flips /\ Lasting = Len(commits)
    BY <1>0, LastOngoing DEF DuesInv
  <1>4. Todo(s, "threats")' = Todo(s, "threats") \ {n}
    BY <1>2 DEF Todo
  <1>5. \A t \in Supports \ {s} : Todo(t, "threats")' = Todo(t, "threats")
    BY <1>2 DEF Todo
  <1>6. UNCHANGED commits
    BY <1>1 DEF Pass, pipelineVars
  <1>7. \A l : Backed(l, Len(commits)) => Backed(l, Len(commits))'
    <2>1. \A l, m : Backed(l, m) => Backed(l, m)'
      BY <1>6, CommitsRest
    <2>2. ASSUME NEW l, Backed(l, Len(commits)) PROVE Backed(l, Len(commits))'
      <3> PICK m : m = Len(commits)
        OBVIOUS
      <3>1. Backed(l, m)'
        BY <2>1, <2>2
      <3> QED BY <1>6, <3>1 DEF Backed, AnnouncedLevel
    <2> QED BY <2>2
  <1>8. \A l \in TensionLevels : <<l, 0>> \in cooldown' => Backed(l, Len(commits))'
    BY <1>0, <1>3, <1>7 DEF KeysInv
  <1>9. \A l \in CrossedAt(Len(commits)) :
           <<l, Leader(Scores)>> \in Todo(s, "threats")' \/ Backed(l, Len(commits))'
    <2>1. ASSUME NEW l \in CrossedAt(Len(commits))
          PROVE  <<l, Leader(Scores)>> \in Todo(s, "threats")' \/ Backed(l, Len(commits))'
      <3>1. <<l, Leader(Scores)>> \in Todo(s, "threats") \/ Backed(l, Len(commits))
        BY <1>0, <1>3 DEF DueInv
      <3>2. CASE <<l, Leader(Scores)>> = n
        <4>1. n[1] = l
          BY <3>2
        <4> QED BY <4>1
      <3> QED BY <1>4, <1>7, <3>1, <3>2
    <2> QED BY <2>1
  <1>10. Pass(s, "threats") => Todo(s, "threats")' = {}
    <2>1. Pass(s, "threats") => stage'[s] # stage[s]
      BY MovesOn, CallNames DEF Pass
    <2>2. Pass(s, "threats") => due[s] \ {n} = {}
      BY <1>1, <2>1 DEF pipelineVars
    <2> QED BY <1>2, <2>2 DEF Todo
  <1>11. UNCHANGED pipelineVars \/ Pass(s, "threats")
    BY <1>1
  <1>12. Todo(s, "threats")' # {} => stage'[s] = "threats"
    BY <1>10, <1>11 DEF pipelineVars
  <1>13. Pass(s, "threats") => \A l \in CrossedAt(Len(commits)) : Backed(l, Len(commits))'
    BY <1>9, <1>10
  <1> QED BY <1>3, <1>5, <1>8, <1>9, <1>11, <1>12, <1>13, ThreatsKeepOrder

LEMMA TryCooldownKeepsOrder ==
    ASSUME PipeInv, AlertInv, ScoresInv, Orderly, OrderlyInv, NEW s \in Supports,
           TryCooldown(s, "threats")
    PROVE  OrderlyInv'
  <1>0. DuesInv /\ KeysInv /\ DueInv
    BY DEF OrderlyInv
  <1>1. stage[s] = "threats" /\ won[s] = Free /\ UNCHANGED inbox
    BY DEF TryCooldown
  <1> PICK n \in Todo(s, "threats") :
        IF KeyOf(n) \in cooldown
        THEN Settle(s, "threats", due[s] \ {n}) /\ UNCHANGED <<won, cooldown>>
        ELSE /\ won' = [won EXCEPT ![s] = n]
             /\ cooldown' = cooldown \cup {KeyOf(n)}
             /\ UNCHANGED <<pipelineVars, due>>
    BY DEF TryCooldown, KeyOf
  <1>2. n[1] \in TensionLevels /\ KeyOf(n) = <<n[1], 0>>
    <2>1. n \in Notices /\ n[1] # LeadLevel
      BY TodoSplit DEF AlertInv, AlertShape
    <2> QED BY <2>1 DEF Notices, Levels, KeyOf, CooldownKey
  <1>3. Len(commits) > 0 /\ s = Last /\ s \notin flips /\ Lasting = Len(commits)
    BY <1>0, <1>1, LastOngoing DEF DuesInv
  <1>4. \A l : ~Announcing(l)
    <2>1. Free \notin Todo(s, "threats")
      <3>1. Free \notin Notices
        BY AlertsAssumption DEF Notices, Levels, Tribes
      <3> QED BY <3>1 DEF Todo, AlertInv, AlertShape
    <2> QED BY <1>1, <1>3, <2>1 DEF Announcing
  <1>5. RowsStay
    BY <1>1 DEF RowsStay
  <1>6. UNCHANGED commits
    BY DEF Pass, pipelineVars, Settle
  <1>7. \A l \in TensionLevels : <<l, 0>> \in cooldown => Backed(l, Len(commits))'
    <2>1. ASSUME NEW l \in TensionLevels, <<l, 0>> \in cooldown PROVE Backed(l, Len(commits))
      BY <1>0, <1>3, <1>4, <2>1 DEF KeysInv
    <2>2. \A m : Backed(m, Len(commits)) => Backed(m, Len(commits))'
      BY <1>1, <1>6 DEF Backed, AnnouncedLevel, Flipped, ScoresAfter, Leader
    <2> QED BY <2>1, <2>2
  <1>8. CASE KeyOf(n) \in cooldown
    <2>1. Settle(s, "threats", due[s] \ {n}) /\ cooldown' = cooldown
      BY <1>8
    <2>2. won' = [won EXCEPT ![s] = Free]
      BY <1>1, <1>8 DEF AlertInv, AlertShape
    <2>3. Backed(n[1], Len(commits))'
      BY <1>2, <1>7, <1>8
    <2> QED BY <1>1, <1>4, <1>5, <2>1, <2>2, <2>3, SettleKeepsOrder
  <1>9. CASE KeyOf(n) \notin cooldown
    <2>1. /\ won' = [won EXCEPT ![s] = n] /\ cooldown' = cooldown \cup {<<n[1], 0>>}
          /\ UNCHANGED <<pipelineVars, due>>
      BY <1>2, <1>9
    <2>2. \A t \in Supports : Todo(t, "threats")' = Todo(t, "threats")
      BY <2>1 DEF Todo
    <2>3. won'[s] = n
      BY <2>1 DEF AlertInv, AlertShape
    <2>4. \A l \in TensionLevels : <<l, 0>> \in cooldown' =>
             /\ s \notin flips
             /\ Backed(l, Len(commits))'
                \/ (UNCHANGED pipelineVars /\ won'[s] \in Todo(s, "threats")' /\ won'[s][1] = l)
      BY <1>3, <1>7, <2>1, <2>2, <2>3
    <2>5. ~Pass(s, "threats") /\ stage'[s] = "threats"
      <3>1. Pass(s, "threats") => stage'[s] # stage[s]
        BY <1>1, MovesOn, CallNames DEF Pass
      <3> QED BY <1>1, <2>1, <3>1 DEF pipelineVars
    <2>6. \A l \in CrossedAt(Len(commits)) :
             <<l, Leader(Scores)>> \in Todo(s, "threats")' \/ Backed(l, Len(commits))'
      <3>1. \A m : Backed(m, Len(commits)) => Backed(m, Len(commits))'
        BY <1>1, <1>6 DEF Backed, AnnouncedLevel, Flipped, ScoresAfter, Leader
      <3> QED BY <1>0, <1>3, <2>2, <3>1 DEF DueInv
    <2> QED BY <1>1, <1>3, <1>5, <2>1, <2>2, <2>4, <2>5, <2>6, ThreatsKeepOrder
  <1> QED BY <1>8, <1>9

LEMMA EnqueueKeepsOrder ==
    ASSUME PipeInv, AlertInv, ScoresInv, Orderly, OrderlyInv, NEW s \in Supports,
           Enqueue(s, "threats")
    PROVE  OrderlyInv'
  <1> PICK n : n = won[s]
    OBVIOUS
  <1> PICK new : new = [notice |-> n, by |-> s, read |-> FALSE]
    OBVIOUS
  <1>0. DuesInv
    BY DEF OrderlyInv
  <1>1. /\ stage[s] = "threats" /\ n \in Todo(s, "threats") /\ inbox' = inbox \cup {new}
        /\ won' = [won EXCEPT ![s] = Free] /\ Settle(s, "threats", due[s] \ {n})
        /\ cooldown' = cooldown
    BY DEF Enqueue
  <1>2. RowsStay
    BY <1>1 DEF RowsStay
  <1>3. Len(commits) > 0 /\ s = Last
    BY <1>0, <1>1, LastOngoing
  <1>4. \A l : Announcing(l) => l = n[1]
    BY <1>3 DEF Announcing
  <1>5. Backed(n[1], Len(commits))'
    <2>1. UNCHANGED commits
      BY <1>1 DEF Pass, pipelineVars, Settle
    <2>2. Len(commits) \in 1..Len(commits) /\ commits[Len(commits)].by = s
          /\ (Len(commits) + 1)..Len(commits) = {}
      BY <1>3, LastCommit DEF Last
    <2>3. new \in AnnouncedLevel(n[1])' /\ new.by = s
      BY <1>1 DEF AnnouncedLevel
    <2> QED BY <2>1, <2>2, <2>3 DEF Backed
  <1> QED BY <1>1, <1>2, <1>4, <1>5, SettleKeepsOrder

(* A flip clears the tension keys. *)
LEMMA ClearKeepsOrder ==
    ASSUME PipeInv, AlertInv, ScoresInv, Orderly, OrderlyInv, NEW s \in Supports,
           ClearCooldown(s)
    PROVE  OrderlyInv'
  <1>0. DuesInv
    BY DEF OrderlyInv
  <1>1. /\ stage[s] = "threats" /\ s \in flips /\ Pass(s, "threats")
        /\ cooldown' = {k \in cooldown : k[1] = LeadLevel} /\ UNCHANGED <<due, inbox>>
    BY DEF ClearCooldown, Pass
  <1>2. RowsStay /\ \A t \in Supports : Todo(t, "threats")' = Todo(t, "threats")
    BY <1>1 DEF RowsStay, Todo
  <1>3. Todo(s, "threats")' = {}
    BY <1>0, <1>1, <1>2 DEF DuesInv
  <1>4. \A l \in TensionLevels : <<l, 0>> \notin cooldown'
    BY <1>1, AlertsAssumption
  <1>5. CrossedAt(Len(commits)) = {}
    <2>1. Len(commits) > 0 /\ s = Last
      BY <1>0, <1>1, LastOngoing
    <2>2. Flipped(Len(commits))
      BY <1>1, <2>1, LastCommit
    <2> QED BY <2>2 DEF Flipped, CrossedAt, TensionCrossed
  <1> QED BY <1>1, <1>2, <1>3, <1>4, <1>5, ThreatsKeepOrder
(* A commit that no request overlaps: everything before it has been announced. *)
LEMMA CommitLengths ==
    ASSUME PipeInv, NEW s \in Supports, CommitSupport(s)
    PROVE  /\ Len(commits) \in Nat /\ Len(commits') = Len(commits) + 1
           /\ DOMAIN commits = 1..Len(commits) /\ DOMAIN commits' = 1..(Len(commits) + 1)
  <1>1. commits \in Seq([by : Supports, left : [Tribes -> Nat]])
    BY DEF PipeInv, PipeShape
  <1>2. /\ commits' \in Seq([by : Supports, left : [Tribes -> Nat]])
        /\ Len(commits') = Len(commits) + 1
    BY CommitAppends
  <1> QED BY <1>1, <1>2

LEMMA CommitKeepsScores ==
    ASSUME PipeInv, ScoresInv, NEW s \in Supports, CommitSupport(s)
    PROVE  /\ ScoresInv' /\ Last' = s
           /\ \A i \in 1..Len(commits) : CrossedAt(i)' = CrossedAt(i)
           /\ inbox' = inbox =>
                 \A m \in 1..Len(commits) : \A l : Backed(l, m) => Backed(l, m)'
  <1> PICK n : n = Len(commits)
    OBVIOUS
  <1>1. /\ n \in Nat /\ Len(commits') = n + 1 /\ DOMAIN commits = 1..n
        /\ DOMAIN commits' = 1..(n + 1)
        /\ \A i \in 1..n : commits'[i] = commits[i]
        /\ commits'[n + 1].by = s
        /\ commits'[n + 1].left = [Scores EXCEPT ![SideOf[s]] = @ + Worth[s]]
    BY CommitLengths, CommitAppends
  <1>2. /\ \A m \in 0..n : ScoresAfter(m)' = ScoresAfter(m)
        /\ \A i \in 1..n : Flipped(i)' <=> Flipped(i)
    BY <1>1, CommitFlips
  <1>3. \A i \in 1..n : ScoresAfter(i - 1)' = ScoresAfter(i - 1)
    <2>1. \A i \in 1..n : i - 1 \in 0..n
      BY <1>1
    <2> QED BY <1>2, <2>1
  <1>4. ScoresInv'
    <2>1. ASSUME NEW i \in 1..(n + 1)
          PROVE  commits'[i].left = [ScoresAfter(i - 1)' EXCEPT ![SideOf[commits'[i].by]] =
                                        @ + Worth[commits'[i].by]]
      <3>1. CASE i \in 1..n
        <4>1. commits[i].left = [ScoresAfter(i - 1) EXCEPT ![SideOf[commits[i].by]] =
                                    @ + Worth[commits[i].by]]
          BY <1>1, <3>1 DEF ScoresInv
        <4> QED BY <1>1, <1>3, <3>1, <4>1
      <3>2. CASE i \notin 1..n
        <4>1. i = n + 1 /\ i - 1 = n /\ n \in 0..n
          BY <1>1, <3>2
        <4>2. ScoresAfter(n)' = Scores
          BY <1>2, <4>1 DEF Scores
        <4>3. ScoresAfter(i - 1)' = ScoresAfter(n)'
          BY <4>1
        <4> QED BY <1>1, <4>1, <4>2, <4>3
      <3> QED BY <3>1, <3>2
    <2> QED BY <1>1, <2>1 DEF ScoresInv
  <1>5. ASSUME NEW i \in 1..n PROVE CrossedAt(i)' = CrossedAt(i)
    <2>1. ScoresAfter(i)' = ScoresAfter(i) /\ ScoresAfter(i - 1)' = ScoresAfter(i - 1)
      BY <1>1, <1>2, <1>3
    <2> QED BY <2>1 DEF CrossedAt, TensionCrossed, TensionReaches, Second2, First2, Leader
  <1>6. ASSUME inbox' = inbox, NEW m \in 1..n, NEW l, Backed(l, m) PROVE Backed(l, m)'
    <2>1. PICK j \in 1..m : /\ \A k \in (j + 1)..m : ~Flipped(k)
                            /\ \E row \in AnnouncedLevel(l) : row.by = commits[j].by
      BY <1>6 DEF Backed
    <2>2. j \in 1..n /\ \A k \in (j + 1)..m : k \in 1..n
      BY <1>1
    <2>3. commits'[j] = commits[j] /\ \A k \in (j + 1)..m : ~Flipped(k)'
      BY <1>1, <1>2, <2>1, <2>2
    <2> QED BY <1>6, <2>1, <2>3 DEF Backed, AnnouncedLevel
  <1> QED BY <1>1, <1>4, <1>5, <1>6 DEF Last

LEMMA CommitKeepsOrder ==
    ASSUME PipeInv, ScoresInv, Orderly => OrderlyInv, NEW s \in Supports, CommitSupport(s),
           UNCHANGED alertVars, Orderly'
    PROVE  OrderlyInv'
  <1> PICK n : n = Len(commits)
    OBVIOUS
  <1>1. /\ n \in Nat /\ Len(commits') = n + 1 /\ DOMAIN commits = 1..n
        /\ DOMAIN commits' = 1..(n + 1)
        /\ \A i \in 1..n : commits'[i] = commits[i]
        /\ commits'[n + 1].by = s
    BY CommitLengths, CommitAppends
  <1>2. Orderly /\ Ongoing = {} /\ Ongoing' \subseteq {s}
    BY FlipsAreCalled, CommitSteps DEF Orderly
  <1>3. DuesInv /\ KeysInv /\ ToldInv
    BY <1>2 DEF OrderlyInv
  <1>4. UNCHANGED <<cooldown, due, inbox>>
    BY DEF alertVars
  <1>5. /\ Last' = s
        /\ \A i \in 1..n : CrossedAt(i)' = CrossedAt(i)
        /\ \A m \in 1..n : \A l : Backed(l, m) => Backed(l, m)'
    BY <1>4, CommitKeepsScores
  <1>6. \A t \in Supports : Todo(t, "threats") = {}
    <2>1. \A t \in Supports : stage[t] = "threats" => t \in Ongoing
      BY DEF Ongoing, Committed
    <2> QED BY <1>2, <1>3, <2>1 DEF DuesInv
  <1>7. \A i \in 1..n : Passed(commits[i].by, "threats")
    <2>1. \A i \in 1..n : commits[i].by \in Supports /\ commits[i].by \in Committed
      BY <1>1, CommitsShaped DEF PipeInv, CommitsNamed, Committed
    <2> QED BY <1>2, <2>1 DEF Ongoing, Passed
  <1>8. ~Passed(s, "threats")'
    <2>1. effects' = effects /\ "threats" \in effects /\ effects \subseteq Calls_
      BY <1>2, CommitSteps DEF Orderly, PipeInv, PipeShape
    <2>2. "threats" \in CallsOf(s \in flips)'
      BY <2>1 DEF CallsOf, FlipOnly
    <2>3. stage'[s] # "done" /\ Place(stage'[s]) <= Place("threats")
      BY <2>2, CommitSteps
    <2>4. stage'[s] \in Calls_ /\ Place(stage'[s]) \in Nat /\ Place("threats") \in Nat
      BY <2>1, <2>3, CommitSteps, Placing
    <2> QED BY <2>3, <2>4 DEF Passed
  <1>9. DuesInv'
    <2>1. \A t \in Supports : Todo(t, "threats")' = {}
      BY <1>4, <1>6 DEF Todo
    <2> QED BY <1>1, <1>2, <1>5, <2>1 DEF DuesInv
  <1>10. KeysInv'
    <2>1. ASSUME NEW l \in TensionLevels, <<l, 0>> \in cooldown PROVE n > 0 /\ Backed(l, n)
      <3>1. Lasting = n
        <4>1. n > 0 => Last = commits[n].by /\ n \in 1..n
          BY <1>1 DEF Last
        <4> QED BY <1>7, <4>1 DEF Lasting
      <3>2. ~Announcing(l)
        <4>1. n > 0 => Last \in Supports
          BY LastCommit
        <4> QED BY <1>6, <4>1 DEF Announcing
      <3>3. Backed(l, n)
        BY <1>3, <2>1, <3>1, <3>2 DEF KeysInv
      <3> QED BY <1>1, <3>3 DEF Backed
    <2>2. ASSUME NEW l \in TensionLevels, <<l, 0>> \in cooldown' PROVE Backed(l, Lasting)'
      <3>1. n \in 1..n /\ Backed(l, n)'
        BY <1>1, <1>4, <1>5, <2>1, <2>2
      <3>2. CASE s \in flips'
        <4>1. Lasting' = n
          BY <1>1, <1>5, <1>8, <3>2 DEF Lasting
        <4> QED BY <3>1, <4>1 DEF Backed, AnnouncedLevel
      <3>3. CASE s \notin flips'
        <4>1. Lasting' = n + 1
          BY <1>1, <1>5, <3>3 DEF Lasting
        <4>2. ~Flipped(n + 1)'
          BY <1>1, <3>3 DEF flips
        <4>3. PICK j \in 1..n : /\ \A k \in (j + 1)..n : ~Flipped(k)'
                                /\ \E row \in AnnouncedLevel(l)' : row.by = commits'[j].by
          BY <3>1 DEF Backed
        <4>4. \A k \in (j + 1)..(n + 1) : k \in (j + 1)..n \/ k = n + 1
          BY <1>1
        <4>5. j \in 1..(n + 1) /\ \A k \in (j + 1)..(n + 1) : ~Flipped(k)'
          BY <1>1, <4>2, <4>3, <4>4
        <4>6. Backed(l, n + 1)'
          BY <4>3, <4>5 DEF Backed
        <4> QED BY <4>1, <4>6 DEF Backed, AnnouncedLevel
      <3> QED BY <3>2, <3>3
    <2> QED BY <2>2 DEF KeysInv
  <1>11. ToldInv'
    <2>1. ASSUME NEW i \in 1..(n + 1), i < n + 1 \/ Passed(commits[i].by, "threats")',
                 NEW l \in CrossedAt(i)'
          PROVE  Backed(l, i)'
      <3>1. i \in 1..n
        <4>1. CASE i = n + 1
          BY <1>1, <1>8, <2>1, <4>1 DEF Passed
        <4> QED BY <1>1, <4>1
      <3> QED BY <1>1, <1>3, <1>5, <1>7, <2>1, <3>1 DEF ToldInv
    <2> QED BY <1>1, <2>1 DEF ToldInv
  <1>12. DueInv'
    <2>1. Todo(s, "threats")' = {}
      BY <1>4, <1>6 DEF Todo
    <2>2. Todo(Last, "threats")' = Todo(s, "threats")'
      BY <1>5 DEF Todo
    <2> QED BY <2>1, <2>2 DEF DueInv
  <1> QED BY <1>9, <1>10, <1>11, <1>12 DEF OrderlyInv
(* The lead call has only lead levels to announce: it leaves the tension levels alone. *)
LEMMA LeadKeepsOrder ==
    ASSUME PipeInv, AlertInv, ScoresInv, Orderly, OrderlyInv, NEW s \in Supports,
           Detect(s, "lead") \/ TryCooldown(s, "lead") \/ Enqueue(s, "lead")
    PROVE  OrderlyInv'
  <1>1. stage[s] = "lead" /\ "lead" \in Calls_ \ {"threats"}
    BY CallNames DEF Detect, TryCooldown, Enqueue
  <1>2. \A n \in due[s] : n[1] = LeadLevel
    <2>1. Todo(s, "threats") = {}
      BY <1>1 DEF OrderlyInv, DuesInv
    <2> QED BY <2>1, TodoSplit
  <1>3. UNCHANGED pipelineVars \/ Pass(s, "lead")
    BY DEF Detect, TryCooldown, Enqueue, Settle
  <1>4. RowsStay
    BY DEF Detect, TryCooldown, Enqueue, RowsStay
  <1>5. \A t \in Supports \ {s} : won'[t] = won[t] /\ due'[t] = due[t]
    BY DEF Detect, TryCooldown, Enqueue, Settle, AlertInv, AlertShape
  <1>6. \A n \in due'[s] : n[1] = LeadLevel
    <2>1. CASE Detect(s, "lead")
      <3>1. due'[s] = Crossed(s, "lead")
        BY <2>1 DEF Detect, AlertInv, AlertShape
      <3> QED BY <3>1 DEF Crossed, LeadCrossed
    <2>2. CASE TryCooldown(s, "lead")
      <3>1. due'[s] \subseteq due[s]
        BY <2>2 DEF TryCooldown, Settle, AlertInv, AlertShape
      <3> QED BY <1>2, <3>1
    <2>3. CASE Enqueue(s, "lead")
      <3>1. due'[s] \subseteq due[s]
        BY <2>3 DEF Enqueue, Settle, AlertInv, AlertShape
      <3> QED BY <1>2, <3>1
    <2> QED BY <2>1, <2>2, <2>3
  <1>7. \A t \in Supports : Todo(t, "threats")' = Todo(t, "threats")
    <2>1. Todo(s, "threats")' = {} /\ Todo(s, "threats") = {}
      BY <1>2, <1>6 DEF Todo
    <2>2. \A t \in Supports \ {s} : Todo(t, "threats")' = Todo(t, "threats")
      BY <1>5 DEF Todo
    <2> QED BY <2>1, <2>2
  <1>8. \A l \in TensionLevels : <<l, 0>> \in cooldown' => <<l, 0>> \in cooldown
    <2>1. CASE TryCooldown(s, "lead")
      <3>1. PICK n \in due[s] : cooldown' = cooldown \/ cooldown' = cooldown \cup {KeyOf(n)}
        BY <2>1 DEF TryCooldown, Todo, KeyOf
      <3>2. KeyOf(n) = <<LeadLevel, n[2]>>
        BY <1>2 DEF KeyOf, CooldownKey
      <3> QED BY <3>1, <3>2, AlertsAssumption
    <2>2. CASE Detect(s, "lead") \/ Enqueue(s, "lead")
      BY <2>2 DEF Detect, Enqueue
    <2> QED BY <2>1, <2>2
  <1> QED BY <1>1, <1>3, <1>4, <1>5, <1>7, <1>8, OthersKeepOrder

(* The scores stand while requests only go on; one that breaks off ends the order. *)
LEMMA CallsKeepScores ==
    ASSUME PipeInv, ScoresInv,
           \/ UNCHANGED pipelineVars
           \/ \E s \in Supports : Skip(s) \/ BreakOff(s) \/ \E d \in Calls_ : Pass(s, d)
    PROVE  ScoresInv'
  <1>1. UNCHANGED commits
    BY CallsEnd
  <1> QED BY <1>1 DEF ScoresInv, ScoresAfter

LEMMA FailuresKeepCrossings ==
    ASSUME PipeInv, CrossInv, NEW s \in Supports, Skip(s) \/ BreakOff(s)
    PROVE  CrossInv'
  <1>1. <<s, stage[s]>> \in skipped'
    BY DEF Skip, BreakOff
  <1>2. ~Orderly'
    BY <1>1 DEF Orderly
  <1> QED BY <1>2, CallsKeepScores DEF CrossInv

(* The steps that have nothing to do with the requests' threats call. *)
LEMMA OthersKeepCrossings ==
    ASSUME PipeInv, CrossInv, RowsStay, UNCHANGED <<due, won>>, cooldown' \subseteq cooldown,
           \/ UNCHANGED pipelineVars
           \/ \E s \in Supports, d \in Calls_ \ {"threats"} : Pass(s, d)
    PROVE  CrossInv'
  <1>1. ScoresInv' /\ (Orderly' => Orderly)
    <2>1. UNCHANGED <<effects, overlapping, skipped>>
      BY DEF pipelineVars, Pass
    <2> QED BY <2>1, CallsKeepScores DEF CrossInv, Orderly
  <1>2. \A t \in Supports : Todo(t, "threats")' = Todo(t, "threats")
    BY DEF Todo
  <1> QED BY <1>1, <1>2, OthersKeepOrder DEF CrossInv

(* Detecting and announcing. *)
LEMMA DetectKeepsCrossings ==
    ASSUME PipeInv, AlertInv, CrossInv, DetectNext PROVE CrossInv'
  <1>1. ScoresInv' /\ (Orderly' => Orderly)
    <2>1. \/ UNCHANGED pipelineVars
          \/ \E s \in Supports, d \in Calls_ : Pass(s, d)
      BY DetectPasses, CallNames DEF AlertStages
    <2>2. UNCHANGED <<effects, overlapping, skipped>>
      BY <2>1 DEF pipelineVars, Pass
    <2> QED BY <2>1, <2>2, CallsKeepScores DEF CrossInv, Orderly
  <1>2. ASSUME Orderly, OrderlyInv PROVE OrderlyInv'
    <2> PICK s \in Supports :
          \/ ClearCooldown(s)
          \/ \E d \in AlertStages : Detect(s, d) \/ TryCooldown(s, d) \/ Enqueue(s, d)
      BY DEF DetectNext
    <2>1. ScoresInv
      BY DEF CrossInv
    <2>2. CASE ClearCooldown(s)
      BY <1>2, <2>1, <2>2, ClearKeepsOrder
    <2>3. CASE Detect(s, "threats") \/ TryCooldown(s, "threats") \/ Enqueue(s, "threats")
      BY <1>2, <2>1, <2>3, DetectKeepsOrder, TryCooldownKeepsOrder, EnqueueKeepsOrder
    <2>4. CASE Detect(s, "lead") \/ TryCooldown(s, "lead") \/ Enqueue(s, "lead")
      BY <1>2, <2>1, <2>4, LeadKeepsOrder
    <2> QED BY <2>2, <2>3, <2>4 DEF AlertStages
  <1> QED BY <1>1, <1>2 DEF CrossInv
LEMMA CrossStarts == ASSUME GameInit PROVE CrossInv
  <1>1. commits = <<>> /\ stage = [s \in Supports |-> "requested"]
    BY DEF GameInit, PipelineInit
  <1>2. cooldown = {} /\ due = [s \in Supports |-> {}]
    BY DEF GameInit, AlertsInit
  <1>3. ScoresInv /\ ToldInv /\ DueInv
    BY <1>1 DEF ScoresInv, ToldInv, DueInv
  <1>4. DuesInv /\ KeysInv
    BY <1>1, <1>2 DEF DuesInv, KeysInv, Todo, Ongoing, Committed
  <1> QED BY <1>3, <1>4 DEF CrossInv, OrderlyInv

LEMMA CrossServes == ASSUME PipeInv, CrossInv PROVE CrossingsAreAnnounced
  <1> SUFFICES ASSUME Orderly, \A s \in Committed : Passed(s, "threats"),
                      NEW i \in DOMAIN commits, NEW l \in CrossedAt(i)
               PROVE  Backed(l, i)
    BY DEF CrossingsAreAnnounced, Orderly, CrossedAt, Backed
  <1>1. Passed(commits[i].by, "threats")
    <2>1. commits[i].by \in Committed
      BY CommitsShaped DEF PipeInv, CommitsNamed, Committed
    <2> QED BY <2>1
  <1> QED BY <1>1 DEF CrossInv, OrderlyInv, ToldInv

(* The push workers and the readers of the inbox leave the requests alone. *)
LEMMA PushKeepsAlerts ==
    ASSUME PipeInv, AlertInv, CrossInv, PushNext PROVE AlertInv' /\ CrossInv'
  <1>1. UNCHANGED <<pipelineVars, due, won>>
    BY DEF PushNext, Pop, TryPushRateLimit, Send, LosePayload, Expire, SetToken, MarkRead
  <1>2. RowsStay /\ cooldown' \subseteq cooldown
    <2>1. ASSUME NEW rows, MarkRead(rows) PROVE RowsStay /\ cooldown' \subseteq cooldown
      BY <2>1, ReadingKeepsRows DEF AlertInv, RowsStay, MarkRead
    <2>2. CASE Expire \/ \E w \in PushWorkers :
                            Pop(w) \/ TryPushRateLimit(w) \/ Send(w) \/ LosePayload(w)
      BY <2>2 DEF Expire, Pop, TryPushRateLimit, Send, LosePayload, RowsStay
    <2>3. CASE \E d \in Devices_, u \in Owners : SetToken(d, u)
      BY <2>3 DEF SetToken, RowsStay
    <2> QED BY <2>1, <2>2, <2>3 DEF PushNext
  <1>3. AlertInv'
    <2>1. CASE \E w \in PushWorkers : Pop(w) \/ TryPushRateLimit(w) \/ Send(w) \/ LosePayload(w)
      BY <1>1, <2>1, PopKeepsAlerts, RateLimitKeepsAlerts, SendKeepsAlerts
    <2>2. CASE Expire
      BY <1>1, <2>2, ExpireKeepsAlerts
    <2>3. CASE \E d \in Devices_, u \in Owners : SetToken(d, u)
      BY <1>1, <2>3, OthersKeepAlerts DEF SetToken
    <2>4. ASSUME NEW rows, MarkRead(rows) PROVE AlertInv'
      BY <1>1, <2>4, ReadKeepsAlerts
    <2> QED BY <2>1, <2>2, <2>3, <2>4 DEF PushNext
  <1> QED BY <1>1, <1>2, <1>3, OthersKeepCrossings

(* The requests' other calls, and everything that is not a request. *)
LEMMA CallsKeepAlerts ==
    ASSUME PipeInv, AlertInv, CrossInv, UNCHANGED alertVars,
           \/ UNCHANGED pipelineVars
           \/ \E s \in Supports, d \in Calls_ \ {"threats"} : Pass(s, d)
    PROVE  AlertInv' /\ CrossInv'
  <1>1. /\ RowsStay
        /\ UNCHANGED <<cooldown, due, won, inbox, inHand, pushed, limited, expired, cleared>>
    BY DEF alertVars, RowsStay
  <1> QED BY <1>1, OthersKeepAlerts, OthersKeepCrossings

LEMMA RequestsKeepAlerts ==
    ASSUME PipeInv, AlertInv, CrossInv, RequestNext, UNCHANGED alertVars
    PROVE  AlertInv' /\ CrossInv'
  <1>1. AlertInv'
    BY OthersKeepAlerts DEF alertVars
  <1>2. ASSUME NEW s \in Supports, CommitSupport(s) PROVE CrossInv'
    BY <1>2, CommitKeepsScores, CommitKeepsOrder DEF CrossInv
  <1> QED BY <1>1, <1>2, FailuresKeepCrossings DEF RequestNext

LEMMA AlertStep ==
    ASSUME PipeInv, AlertInv, CrossInv, GameNext \/ UNCHANGED gameVars
    PROVE  AlertInv' /\ CrossInv'
  <1>1. CASE SupportsNext
    <2>1. CASE RequestNext /\ UNCHANGED effectVars
      BY <2>1, RequestsKeepAlerts DEF effectVars
    <2>2. CASE InvalidateNext /\ UNCHANGED alertVars
      <3>1. Caches \subseteq Calls_ \ {"threats"}
        BY CallNames DEF Caches
      <3> QED BY <2>2, <3>1, InvalidatePasses, CallsKeepAlerts
    <2>3. CASE ProgressNext /\ UNCHANGED alertVars
      <3>1. {"xp", "streak", "first", "streaks"} \subseteq Calls_ \ {"threats"}
        BY CallNames
      <3> QED BY <2>3, <3>1, ProgressPasses, CallsKeepAlerts
    <2>4. CASE PostBoards /\ UNCHANGED alertVars
      <3>1. "boards" \in Calls_ \ {"threats"}
        BY CallNames
      <3> QED BY <2>4, <3>1, BoardsPass, CallsKeepAlerts
    <2>5. CASE DetectNext
      BY <2>5, DetectKeepsCrossings, DetectKeepsAlerts, TryCooldownKeepsAlerts,
         EnqueueKeepsAlerts, ClearKeepsAlerts DEF DetectNext
    <2>6. CASE PublishNext /\ UNCHANGED alertVars
      <3>1. {"support_event", "flip_event", "feed"} \subseteq Calls_ \ {"threats"}
        BY CallNames
      <3> QED BY <2>6, <3>1, PublishPasses, CallsKeepAlerts
    <2> QED BY <1>1, <2>1, <2>2, <2>3, <2>4, <2>5, <2>6 DEF SupportsNext
  <1>2. CASE PushNext
    BY <1>2, PushKeepsAlerts
  <1>3. CASE ~SupportsNext /\ ~PushNext
    <2>1. UNCHANGED pipelineVars /\ UNCHANGED alertVars
      <3>1. CASE ServersNext
        <4>1. ArchiveNext \/ RankNext => UNCHANGED pipelineVars
          BY DEF ArchiveNext, RankNext
        <4> QED BY <1>3, <3>1, <4>1 DEF ServersNext
      <3> QED BY <1>3, <3>1 DEF GameNext, gameVars, effectVars
    <2> QED BY <2>1, CallsKeepAlerts
  <1> QED BY <1>1, <1>2, <1>3

(* In the whole back end a level is announced once per cooldown and pushed once per push *)
(* window; and when no requests overlapped and no call failed, every crossing of a tension *)
(* level has been announced since the holder took the city (threats.go, push.go). *)
THEOREM AlertsStayTrue == GameSpec => []AlertsFollowTension
  <1>1. GameInit => PipeInv /\ AlertInv /\ CrossInv
    BY GamePipeStarts, AlertStarts, CrossStarts DEF GameInit
  <1>2. (PipeInv /\ AlertInv /\ CrossInv) /\ [GameNext]_gameVars
           => (PipeInv /\ AlertInv /\ CrossInv)'
    BY PipeStep, AlertStep
  <1>3. PipeInv /\ AlertInv /\ CrossInv => AlertsFollowTension
    BY AlertsServe, CrossServes DEF AlertsFollowTension
  <1> QED BY <1>1, <1>2, <1>3, PTL DEF GameSpec
-----------------------------------------------------------------------------
(* Types.  GameTypeOK in parts, one per component, each with what its steps need. *)

(* The pipeline: calls that a support skips and the faults met are those there are. *)
LEMMA PipelineTypesStart ==
    ASSUME NEW start \in Starts, PipelineInit(start.effects, start.asked)
    PROVE  PipelineTypeOK
  <1>1. start.effects \subseteq Calls_ /\ start.asked \subseteq Supports
    BY GameAssumption
  <1>2. 0 \in 0..MaxFaults
    BY PipelineAssumption
  <1> QED BY <1>1, <1>2 DEF PipelineInit, PipelineTypeOK

LEMMA PipelineTypesStep ==
    ASSUME PipeInv, PipelineTypeOK, GameNext \/ UNCHANGED gameVars
    PROVE  PipelineTypeOK'
  <1>1. PipeShape'
    BY PipeStep DEF PipeInv
  <1>2. ASSUME NEW s \in Supports, CommitSupport(s) PROVE PipelineTypeOK'
    <2>1. UNCHANGED <<skipped, effects, asked, faults>>
      BY <1>2 DEF CommitSupport
    <2>2. Ongoing \subseteq Supports
      BY DEF Ongoing, Committed
    <2>3. overlapping' = IF Ongoing = {} THEN overlapping ELSE overlapping \cup Ongoing \cup {s}
      BY <1>2 DEF CommitSupport
    <2>4. overlapping' \subseteq Supports
      BY <2>2, <2>3 DEF PipelineTypeOK
    <2> QED BY <1>1, <2>1, <2>4 DEF PipelineTypeOK, PipeShape
  <1>3. ASSUME NEW s \in Ongoing
        PROVE  s \in Supports /\ stage[s] \in Calls_ /\ Behind(s) \subseteq Calls_
    BY <1>3 DEF Ongoing, Committed, PipelineTypeOK, Behind, CallsOf
  <1>4. faults < MaxFaults /\ faults' = faults + 1 => faults' \in 0..MaxFaults
    BY PipelineAssumption DEF PipelineTypeOK
  <1>5. ASSUME NEW s, Skip(s) \/ BreakOff(s) PROVE PipelineTypeOK'
    <2>1. UNCHANGED <<overlapping, effects, asked>> /\ faults' \in 0..MaxFaults /\ s \in Ongoing
      BY <1>4, <1>5 DEF Skip, BreakOff
    <2> PICK calls : calls = {stage[s]} \cup Behind(s)
      OBVIOUS
    <2>2. s \in Supports /\ calls \subseteq Calls_ /\ stage[s] \in Calls_
      BY <1>3, <2>1
    <2>3. skipped' = skipped \cup {<<s, stage[s]>>} \/ skipped' = skipped \cup ({s} \X calls)
      BY <1>5 DEF Skip, BreakOff
    <2>4. skipped' \subseteq Supports \X Calls_
      BY <2>2, <2>3 DEF PipelineTypeOK
    <2> QED BY <1>1, <2>1, <2>4 DEF PipelineTypeOK, PipeShape
  <1>6. ASSUME NEW s, NEW d, Pass(s, d) PROVE PipelineTypeOK'
    BY <1>1, <1>6 DEF Pass, PipelineTypeOK, PipeShape
  <1>7. CASE UNCHANGED pipelineVars
    BY <1>7 DEF pipelineVars, PipelineTypeOK
  <1> QED BY <1>2, <1>5, <1>6, <1>7, PipelineMoves DEF RequestNext

(* The snapshots of the control and momentum caches, and their readers. *)
LEMMA CacheTypesStart == ASSUME CacheInit PROVE CacheTypeOK
  <1>1. 0 \in 0..MaxExpiries
    BY CacheAssumption
  <1> QED BY <1>1 DEF CacheInit, CacheTypeOK, ReaderSteps

LEMMA ReadKeepsCacheTypes ==
    ASSUME CacheTypeOK, ReadNext PROVE CacheTypeOK'
  <1>1. ASSUME NEW r \in Readers, NEW from, NEW to \in ReaderSteps, GoOn(r, from, to)
        PROVE  reader' \in [Readers -> ReaderSteps]
    BY <1>1 DEF GoOn, CacheTypeOK
  <1>2. {"idle", "miss", "wait", "retry", "load", "store", "unlock", "load_unlocked",
         "load_momentum", "store_momentum"} \subseteq ReaderSteps
    BY DEF ReaderSteps
  <1>3. \A c : StoreStep(c) \in ReaderSteps
    BY DEF StoreStep, ReaderSteps
  <1>4. ASSUME NEW r \in Readers, LooksOnly(r) PROVE CacheTypeOK'
    <2>1. reader' \in [Readers -> ReaderSteps]
      <3>1. \E from : \E to \in ReaderSteps : GoOn(r, from, to)
        BY <1>2, <1>4 DEF LooksOnly, Get, Acquire, Wait, LoadUnlocked, Stats, FailRead, FailStats,
                          Unlock
      <3> QED BY <1>1, <3>1
    <2>2. UNCHANGED <<snapshot, loaded, expiries>> /\ lock' \in BOOLEAN
      BY <1>4 DEF LooksOnly, Get, Acquire, Wait, LoadUnlocked, Stats, FailRead, FailStats, Unlock,
                  CacheTypeOK
    <2> QED BY <2>1, <2>2 DEF CacheTypeOK
  <1>5. ASSUME NEW r \in Readers, NEW c \in Caches, Load(r, c) PROVE CacheTypeOK'
    <2>1. reader' \in [Readers -> ReaderSteps]
      BY <1>1, <1>2, <1>5 DEF Load
    <2> PICK n \in 0..Len(commits) : loaded' = [loaded EXCEPT ![r] = ReadAfter(n, c)]
      BY <1>5 DEF Load
    <2> PICK snap : snap = ReadAfter(n, c)
      OBVIOUS
    <2>2. snap \in Snapshots
      BY DEF Snapshots, ReadAfter, Shown, Committed
    <2> QED BY <1>5, <2>1, <2>2 DEF Load, CacheTypeOK
  <1>6. ASSUME NEW r \in Readers, NEW c \in Caches, StoreSnapshot(r, c) \/ FailStore(r, c)
        PROVE  CacheTypeOK'
    <2>1. reader' \in [Readers -> ReaderSteps]
      <3> PICK to : to = AfterStore(c) /\ to \in ReaderSteps
        BY <1>2 DEF AfterStore
      <3> QED BY <1>1, <1>6 DEF StoreSnapshot, FailStore
    <2> QED BY <1>6, <2>1 DEF StoreSnapshot, FailStore, CacheTypeOK
  <1>7. ASSUME NEW e \in {"lock", "snapshot"}, expiries[e] < MaxExpiries,
               expiries' = [expiries EXCEPT ![e] = @ + 1]
        PROVE  expiries' \in [{"lock", "snapshot"} -> 0..MaxExpiries]
    <2> PICK n : n = expiries[e] + 1
      OBVIOUS
    <2>1. n \in 0..MaxExpiries
      BY <1>7, CacheAssumption DEF CacheTypeOK
    <2> QED BY <1>7, <2>1 DEF CacheTypeOK
  <1>8. CASE LockExpires
    BY <1>7, <1>8 DEF LockExpires, CacheTypeOK
  <1>9. ASSUME NEW c \in Caches, SnapshotExpires(c) PROVE CacheTypeOK'
    <2>1. expiries' \in [{"lock", "snapshot"} -> 0..MaxExpiries]
      BY <1>7, <1>9 DEF SnapshotExpires
    <2> QED BY <1>9, <2>1 DEF SnapshotExpires, CacheTypeOK
  <1>10. "control" \in Caches /\ "momentum" \in Caches
    BY DEF Caches
  <1> QED BY <1>4, <1>5, <1>6, <1>8, <1>9, <1>10
          DEF ReadNext, ControlReads, MomentumReads, Fill, LooksOnly

LEMMA InvalidateKeepsCacheTypes ==
    ASSUME CacheTypeOK, InvalidateNext PROVE CacheTypeOK'
  <1> PICK s \in Supports, c \in Caches : Invalidate(s, c)
    BY DEF InvalidateNext
  <1>1. UNCHANGED <<reader, lock, expiries>> /\ snapshot' \in [Caches -> Snapshots \cup {Nil}]
    BY DEF Invalidate, CacheTypeOK
  <1>2. ASSUME NEW r \in Readers PROVE loaded'[r] \in Snapshots \cup {Nil}
    <2>1. CASE loaded'[r] = loaded[r]
      BY <2>1 DEF CacheTypeOK
    <2>2. CASE loaded[r] # Nil /\ loaded'[r] # loaded[r]
      <3>1. loaded[r] \in Snapshots
        BY <2>2 DEF CacheTypeOK
      <3>2. loaded'[r] = [loaded[r] EXCEPT !.missed = @ \cup {s}]
        BY <2>2 DEF Invalidate, Overtaken
      <3> QED BY <3>1, <3>2 DEF Snapshots
    <2>3. loaded[r] = Nil => loaded'[r] = loaded[r]
      BY DEF Invalidate, Overtaken
    <2> QED BY <2>1, <2>2, <2>3
  <1>3. loaded' = [r \in Readers |-> loaded'[r]]
    BY DEF Invalidate, Overtaken
  <1>4. loaded' \in [Readers -> Snapshots \cup {Nil}]
    BY <1>2, <1>3
  <1> QED BY <1>1, <1>4 DEF CacheTypeOK

LEMMA CacheTypesStep ==
    ASSUME CacheTypeOK, GameNext \/ UNCHANGED gameVars PROVE CacheTypeOK'
  <1>1. CASE UNCHANGED cacheVars
    BY <1>1 DEF cacheVars, CacheTypeOK
  <1>2. UNCHANGED cacheVars \/ ReadNext \/ InvalidateNext
    BY DEF GameNext, gameVars, effectVars, SupportsNext, ServersNext, TribesNext, ReadNext
  <1> QED BY <1>1, <1>2, ReadKeepsCacheTypes, InvalidateKeepsCacheTypes

(* Progression: a quest is completed exactly when its progress has come to the *)
(* target, and a call in the middle of a quest or a badge has read what it writes. *)
PlaceRows == [call : Calls_ \cup {"done"}, step : Steps, read : Nat, new : BOOLEAN]
XPTyped == xp \in [Players -> [Sources -> Nat]]
QuestTyped ==
    /\ quest \in [Players -> [QuestStages -> QuestRows \cup {NoRow}]]
    /\ \A u \in Players, q \in QuestStages :
           quest[u][q] # NoRow => (quest[u][q].completed <=> quest[u][q].progress >= Target[q])
PlaceTyped == place \in [Supports -> PlaceRows]
MarksTyped ==
    /\ collided \subseteq Supports /\ firsts \subseteq Supports
    /\ badges \in [Players -> SUBSET Thresholds]

LEMMA ProgressTypesAre == ProgressTypeOK <=> XPTyped /\ QuestTyped /\ PlaceTyped /\ MarksTyped
  BY DEF ProgressTypeOK, XPTyped, QuestTyped, PlaceTyped, MarksTyped, PlaceRows, QuestRows

LEMMA ProgressTypesStart == ASSUME ProgressInit PROVE ProgressTypeOK
  <1>1. XPTyped
    BY DEF ProgressInit, XPTyped
  <1>2. QuestTyped
    <2> DEFINE Row(u) == IF Earlier[u] = 0 THEN NoRow ELSE [progress |-> 1, completed |-> FALSE]
    <2>1. \A u : Row(u) \in QuestRows \cup {NoRow}
      BY DEF QuestRows
    <2>2. ASSUME NEW u, NEW q \in QuestStages, Row(u) # NoRow
          PROVE  Row(u).completed <=> Row(u).progress >= Target[q]
      <3>1. Row(u) = [progress |-> 1, completed |-> FALSE]
        BY <2>2
      <3>2. Target[q] \in Nat /\ ~(1 >= Target[q])
        BY ProgressionAssumption
      <3> HIDE DEF Row
      <3> QED BY <3>1, <3>2
    <2>3. quest = [u \in Players |-> [q \in QuestStages |-> Row(u)]]
      BY DEF ProgressInit
    <2> HIDE DEF Row
    <2> QED BY <2>1, <2>2, <2>3 DEF QuestTyped
  <1>3. Fresh \in PlaceRows
    BY DEF Fresh, PlaceRows, Steps
  <1>4. PlaceTyped /\ MarksTyped
    BY <1>3 DEF ProgressInit, PlaceTyped, MarksTyped
  <1> QED BY <1>1, <1>2, <1>4, ProgressTypesAre

(* One award of experience. *)
LEMMA AwardKeepsTypes ==
    ASSUME XPTyped, NEW s \in Supports, NEW source \in Sources, Award(s, source)
    PROVE  XPTyped'
  <1> PICK u \in Players : u = Supporter[s]
    BY PipelineAssumption
  <1>1. xp' = [xp EXCEPT ![u][source] = @ + 1]
    BY DEF Award
  <1>2. xp[u] \in [Sources -> Nat] /\ xp[u][source] + 1 \in Nat
    BY DEF XPTyped
  <1> DEFINE row == [xp[u] EXCEPT ![source] = @ + 1]
  <1>3. row \in [Sources -> Nat]
    BY <1>2
  <1>4. xp' = [xp EXCEPT ![u] = row]
    BY <1>1 DEF XPTyped
  <1> HIDE DEF row
  <1> QED BY <1>3, <1>4 DEF XPTyped

(* One transaction of a quest: the row it leaves is completed by its target. *)
LEMMA CommitKeepsTypes ==
    ASSUME XPTyped, QuestTyped, PlaceTyped, NEW s \in Supports, stage[s] \in QuestStages,
           CommitQuest(s)
    PROVE  QuestTyped'
  <1> PICK u \in Players : u = Supporter[s]
    BY PipelineAssumption
  <1> PICK next : next = ApplyEvent(s, place[s].read)
    OBVIOUS
  <1>1. place[s].read \in Nat
    BY DEF PlaceTyped, PlaceRows
  <1>2. next \in Nat
    BY <1>1, ProgressionAssumption DEF ApplyEvent
  <1> PICK target \in Nat : target = Target[stage[s]]
    BY ProgressionAssumption
  <1> PICK complete : complete = (next >= target)
    OBVIOUS
  <1>10. complete \in BOOLEAN /\ (complete <=> next >= target)
    <2>1. CASE next >= target
      BY <2>1, Zenon
    <2>2. CASE ~(next >= target)
      <3>1. (next >= target) = FALSE
        BY <2>2
      <3> QED BY <2>2, <3>1, Zenon
    <2> QED BY <2>1, <2>2
  <1> PICK q \in QuestStages : q = stage[s]
    OBVIOUS
  <1> PICK row : row = [progress |-> next, completed |-> complete]
    OBVIOUS
  <1>3. row \in QuestRows /\ (row.completed <=> row.progress >= Target[q])
    BY <1>2, <1>10 DEF QuestRows
  <1>4. quest' = [quest EXCEPT ![u][q] = row]
    BY DEF CommitQuest
  <1> DEFINE rows == [quest[u] EXCEPT ![q] = row]
  <1>5. rows \in [QuestStages -> QuestRows \cup {NoRow}]
    BY <1>3 DEF QuestTyped
  <1>6. \A p \in QuestStages : rows[p] = IF p = q THEN row ELSE quest[u][p]
    BY DEF QuestTyped
  <1>7. quest' = [quest EXCEPT ![u] = rows]
    BY <1>4 DEF QuestTyped
  <1> HIDE DEF rows
  <1>8. quest' \in [Players -> [QuestStages -> QuestRows \cup {NoRow}]]
    BY <1>5, <1>7 DEF QuestTyped
  <1>9. \A v \in Players : quest'[v] = IF v = u THEN rows ELSE quest[v]
    BY <1>7 DEF QuestTyped
  <1> QED BY <1>3, <1>6, <1>8, <1>9 DEF QuestTyped

(* Every call of a request to the progression. *)
LEMMA ProgressKeepsTypes ==
    ASSUME PipeInv, ProgressTypeOK, ProgressNext PROVE ProgressTypeOK'
  <1> PICK s \in Supports :
         \/ AwardXP(s) \/ SelectQuest(s) \/ InsertQuest(s) \/ CommitQuest(s)
         \/ RewardQuest(s) \/ CountSupports(s) \/ CreateFirst(s) \/ MintStreak(s)
    BY DEF ProgressNext
  <1>1. XPTyped /\ QuestTyped /\ PlaceTyped /\ MarksTyped
    BY ProgressTypesAre
  <1>2. Supporter[s] \in Players
    BY PipelineAssumption
  <1>3. Leave(s) => PlaceTyped'
    <2>1. Fresh \in PlaceRows
      BY DEF Fresh, PlaceRows, Steps
    <2> QED BY <1>1, <2>1 DEF Leave, PlaceTyped
  <1>4. ASSUME stage[s] \in Calls_, NEW step \in Steps, NEW read \in Nat, NEW new \in BOOLEAN,
               Stay(s, step, read, new)
        PROVE  PlaceTyped'
    <2> PICK row : row = [call |-> stage[s], step |-> step, read |-> read, new |-> new]
      OBVIOUS
    <2>1. row \in PlaceRows
      BY <1>4 DEF PlaceRows
    <2>2. place' = [place EXCEPT ![s] = row]
      BY <1>4 DEF Stay
    <2> QED BY <1>1, <2>1, <2>2 DEF PlaceTyped
  <1>5. StepShape(place[s])
    BY DEF PipeInv
  <1>6. StepOf(s) \in {"insert", "open", "reward"} => stage[s] \in QuestStages
    BY <1>5 DEF StepOf, StepShape
  <1>7. QuestStages \subseteq Calls_ /\ "first" \in Calls_
    BY CallNames DEF QuestStages
  <1>8. {"start", "select", "insert", "open", "reward", "create"} = Steps
    BY DEF Steps
  <1>9. QuestStages \subseteq Sources /\ {"support_applied", "streak_updated"} \subseteq Sources
    BY DEF Sources
  <1>10. UNCHANGED xp => XPTyped'
    BY <1>1 DEF XPTyped
  <1>11. UNCHANGED quest => QuestTyped'
    BY <1>1 DEF QuestTyped
  <1>12. UNCHANGED <<collided, firsts, badges>> => MarksTyped'
    BY <1>1 DEF MarksTyped
  <1>21. XPTyped' /\ QuestTyped' /\ PlaceTyped' /\ MarksTyped' => ProgressTypeOK'
    BY DEF ProgressTypeOK, XPTyped, QuestTyped, PlaceTyped, MarksTyped, PlaceRows, QuestRows
  <1>13. CASE AwardXP(s)
    <2>1. XPTyped'
      BY <1>1, <1>9, <1>10, <1>13, AwardKeepsTypes DEF AwardXP
    <2>2. Stay(s, "select", 0, FALSE) /\ stage[s] \in Calls_
      BY <1>7, <1>13 DEF AwardXP
    <2>3. PlaceTyped'
      BY <1>4, <1>8, <2>2
    <2> QED BY <1>11, <1>12, <1>13, <2>1, <2>3, <1>21 DEF AwardXP
  <1>14. CASE SelectQuest(s)
    <2>1. Stay(s, "insert", 0, FALSE) \/ Leave(s)
          \/ (RowOf(s) # NoRow /\ Stay(s, "open", RowOf(s).progress, FALSE))
      BY <1>14 DEF SelectQuest
    <2>2. RowOf(s) # NoRow => RowOf(s).progress \in Nat
      <3>1. RowOf(s) \in QuestRows \cup {NoRow}
        BY <1>1, <1>2, <1>14 DEF QuestTyped, SelectQuest, RowOf
      <3> QED BY <3>1 DEF QuestRows
    <2>3. stage[s] \in Calls_
      BY <1>7, <1>14 DEF SelectQuest
    <2>4. PlaceTyped'
      BY <1>3, <1>4, <1>8, <2>1, <2>2, <2>3
    <2> QED BY <1>10, <1>11, <1>12, <1>14, <2>4, <1>21 DEF SelectQuest
  <1>15. CASE InsertQuest(s)
    <2>1. Stay(s, "open", 0, TRUE) \/ Leave(s)
      BY <1>15 DEF InsertQuest
    <2>2. stage[s] \in Calls_
      BY <1>6, <1>7, <1>15 DEF InsertQuest
    <2>3. PlaceTyped'
      BY <1>3, <1>4, <1>8, <2>1, <2>2
    <2>4. MarksTyped'
      BY <1>1, <1>15 DEF InsertQuest, MarksTyped
    <2> QED BY <1>10, <1>11, <1>15, <2>3, <2>4, <1>21 DEF InsertQuest
  <1>16. CASE CommitQuest(s)
    <2>1. Stay(s, "reward", 0, FALSE) \/ Leave(s)
      BY <1>16 DEF CommitQuest
    <2>2. stage[s] \in QuestStages
      BY <1>6, <1>16 DEF CommitQuest
    <2>3. PlaceTyped'
      BY <1>3, <1>4, <1>7, <1>8, <2>1, <2>2
    <2>4. QuestTyped'
      BY <1>1, <1>16, <2>2, CommitKeepsTypes
    <2> QED BY <1>10, <1>12, <1>16, <2>3, <2>4, <1>21 DEF CommitQuest
  <1>17. CASE RewardQuest(s)
    <2>1. XPTyped'
      BY <1>1, <1>6, <1>9, <1>17, AwardKeepsTypes DEF RewardQuest
    <2> QED BY <1>3, <1>11, <1>12, <1>17, <2>1, <1>21 DEF RewardQuest
  <1>18. CASE CountSupports(s)
    <2>1. (Stay(s, "create", 0, FALSE) \/ Leave(s)) /\ stage[s] \in Calls_
      BY <1>7, <1>18 DEF CountSupports
    <2>2. PlaceTyped'
      BY <1>3, <1>4, <1>8, <2>1
    <2> QED BY <1>10, <1>11, <1>12, <1>18, <2>2, <1>21 DEF CountSupports
  <1>19. CASE CreateFirst(s)
    <2>1. MarksTyped'
      BY <1>1, <1>19 DEF CreateFirst, MarksTyped
    <2> QED BY <1>3, <1>10, <1>11, <1>19, <2>1, <1>21 DEF CreateFirst
  <1>20. CASE MintStreak(s)
    <2> PICK u \in Players : u = Supporter[s]
      BY <1>2
    <2> PICK new : new = {StreakOf[s]} \cap Thresholds
      OBVIOUS
    <2>1. badges' = [badges EXCEPT ![u] = @ \cup new] /\ new \subseteq Thresholds
      BY <1>20 DEF MintStreak
    <2>2. MarksTyped'
      BY <1>1, <1>20, <2>1 DEF MintStreak, MarksTyped
    <2> QED BY <1>3, <1>10, <1>11, <1>20, <2>2, <1>21 DEF MintStreak
  <1> QED BY <1>13, <1>14, <1>15, <1>16, <1>17, <1>18, <1>19, <1>20

LEMMA ProgressTypesStep ==
    ASSUME PipeInv, ProgressTypeOK, GameNext \/ UNCHANGED gameVars PROVE ProgressTypeOK'
  <1>1. UNCHANGED progressVars \/ ProgressNext
    BY DEF GameNext, gameVars, effectVars, otherVars, SupportsNext, ServersNext, TribesNext
  <1>2. CASE UNCHANGED progressVars
    BY <1>2 DEF progressVars, ProgressTypeOK
  <1> QED BY <1>1, <1>2, ProgressKeepsTypes

(* Boards: a board counts a support once, except the boot's rank board, which may *)
(* have a support from its request and from the sums of the boot; that bounds the *)
(* counts. *)
Seeded(s) ==
    booted /\ seed.step # "sum" /\ (seed.step = "add" => s \notin seed.sums)
CountedOnce(k, s) ==
    board[k][s] <= (IF Through(s, k) THEN 1 ELSE 0) + (IF k = RankKey /\ Seeded(s) THEN 1 ELSE 0)
BoardsTyped == BoardsTypeOK /\ \A k \in BoardKeys, s \in Supports : CountedOnce(k, s)

JobRows == [step : {"idle", "dump", "insert", "delete"}, todo : SUBSET BoardKeys,
            done : SUBSET BoardKeys, dump : Count, key : BoardKeys]
SeedRows == [step : {"idle", "claim", "sum", "add"}, sums : SUBSET Supports]

LEMMA BoardNames ==
    /\ RankKey \in BoardKeys /\ Zero \in Count /\ NoJob \in JobRows /\ NoSeed \in SeedRows
    /\ NoArchive \notin Count
  <1>1. RankKey \in BoardKeys
    BY BoardsAssumption DEF BoardKeys
  <1>2. Zero \in Count
    BY DEF Zero, Count
  <1>3. NoArchive \notin Count
    <2>1. Count \subseteq [Supports -> Nat]
      BY DEF Count
    <2> QED BY <2>1, BoardsAssumption
  <1> QED BY <1>1, <1>2, <1>3 DEF NoJob, NoSeed, JobRows, SeedRows

LEMMA BoardsTypesStart == ASSUME BoardsInit PROVE BoardsTyped
  <1>1. 0 \in 0..MaxRuns /\ 0 \in 0..Len(Keys_)
    BY BoardsAssumption
  <1>2. BoardsTypeOK
    BY <1>1, BoardNames DEF BoardsInit, BoardsTypeOK, JobRows, SeedRows
  <1>3. ASSUME NEW k \in BoardKeys, NEW s \in Supports PROVE CountedOnce(k, s)
    <2>1. board[k][s] = 0
      BY DEF BoardsInit, Zero
    <2> PICK once \in {0, 1} : once = IF Through(s, k) THEN 1 ELSE 0
      OBVIOUS
    <2> PICK twice \in {0, 1} : twice = IF k = RankKey /\ Seeded(s) THEN 1 ELSE 0
      OBVIOUS
    <2>2. 0 <= once + twice
      OBVIOUS
    <2> QED BY <2>1, <2>2 DEF CountedOnce
  <1> QED BY <1>2, <1>3 DEF BoardsTyped

(* A request adds its support to a key it has not come to before. *)
LEMMA PostingKeepsTypes ==
    ASSUME BoardsTyped, BoardInv, NEW s \in Supports, Incr(s) \/ FailIncr(s)
    PROVE  BoardsTyped'
  <1> PICK next \in BoardKeys : next = NextKey(s)
    BY PostingReaches DEF BoardInv, Incr, FailIncr
  <1>1. /\ ~Through(s, next) /\ posted' \in [Supports -> 0..Len(Keys_)]
        /\ \A k \in BoardKeys, r \in Supports :
              Through(r, k)' <=> Through(r, k) \/ (r = s /\ k = next)
    BY PostingReaches DEF BoardInv, Incr, FailIncr
  <1>2. UNCHANGED <<archive, archiver, runs, seed, booted>>
    BY DEF Incr, FailIncr, archiveVars, seedVars
  <1>3. \A r \in Supports : Seeded(r)' <=> Seeded(r)
    BY <1>2 DEF Seeded
  <1> PICK row \in Count : row = board[next]
    BY DEF BoardsTyped, BoardsTypeOK
  <1> PICK n \in 0..2 : n = row[s]
    BY DEF Count
  <1> PICK twice \in {0, 1} : twice = IF next = RankKey /\ Seeded(s) THEN 1 ELSE 0
    OBVIOUS
  <1>4. n <= twice
    <2>1. CountedOnce(next, s)
      BY DEF BoardsTyped
    <2>2. (IF Through(s, next) THEN 1 ELSE 0) = 0
      BY <1>1
    <2> QED BY <2>1, <2>2 DEF CountedOnce
  <1>5. late' \subseteq BoardKeys \X Supports /\ missed' \subseteq BoardKeys \X Supports
    BY DEF Incr, FailIncr, BoardsTyped, BoardsTypeOK
  <1>6. \/ board' = board
        \/ board' = [board EXCEPT ![next] = [row EXCEPT ![s] = n + 1]]
    BY DEF Incr, FailIncr
  <1>7. n + 1 \in 0..2 /\ [row EXCEPT ![s] = n + 1] \in Count
    BY <1>4 DEF Count
  <1>8. board' \in [BoardKeys -> Count]
    BY <1>6, <1>7 DEF BoardsTyped, BoardsTypeOK
  <1>9. BoardsTypeOK'
    BY <1>1, <1>2, <1>5, <1>8 DEF BoardsTyped, BoardsTypeOK, Count
  <1>10. ASSUME NEW k \in BoardKeys, NEW r \in Supports PROVE CountedOnce(k, r)'
    <2>1. CountedOnce(k, r)
      BY DEF BoardsTyped
    <2> PICK more \in {0, 1} : more = IF k = RankKey /\ Seeded(r) THEN 1 ELSE 0
      OBVIOUS
    <2> PICK once \in {0, 1} : once = IF Through(r, k) THEN 1 ELSE 0
      OBVIOUS
    <2> PICK once2 \in {0, 1} : once2 = IF Through(r, k)' THEN 1 ELSE 0
      OBVIOUS
    <2>2. more = (IF k = RankKey /\ Seeded(r)' THEN 1 ELSE 0) /\ once <= once2
      BY <1>1, <1>3
    <2>3. CASE k = next /\ r = s
      <3>1. board'[k][r] = n \/ board'[k][r] = n + 1
        BY <1>6, <2>3 DEF BoardsTyped, BoardsTypeOK, Count
      <3>2. once2 = 1 /\ more = twice
        BY <1>1, <2>3
      <3>3. board'[k][r] <= once2 + more
        BY <1>4, <3>1, <3>2
      <3> QED BY <2>2, <3>3 DEF CountedOnce
    <2>4. CASE k # next \/ r # s
      <3>1. board'[k][r] = board[k][r] /\ board[k][r] \in 0..2
        BY <1>6, <2>4 DEF BoardsTyped, BoardsTypeOK, Count
      <3>2. board[k][r] <= once + more
        BY <2>1 DEF CountedOnce
      <3>3. board'[k][r] <= once2 + more
        BY <2>2, <3>1, <3>2
      <3> QED BY <2>2, <3>3 DEF CountedOnce
    <2> QED BY <2>3, <2>4
  <1> QED BY <1>9, <1>10 DEF BoardsTyped

(* Steps that leave the boards and the requests' places as they are. *)
LEMMA SameCounts ==
    ASSUME BoardsTyped, UNCHANGED <<board, posted>>,
           \A s \in Supports : Seeded(s) => Seeded(s)'
    PROVE  \A k \in BoardKeys, s \in Supports : CountedOnce(k, s)'
  <1> SUFFICES ASSUME NEW k \in BoardKeys, NEW s \in Supports PROVE CountedOnce(k, s)'
    OBVIOUS
  <1>1. CountedOnce(k, s) /\ board[k][s] \in 0..2
    BY DEF BoardsTyped, BoardsTypeOK, Count
  <1>2. Through(s, k)' <=> Through(s, k)
    BY DEF Through
  <1> PICK once \in {0, 1} : once = IF Through(s, k) THEN 1 ELSE 0
    OBVIOUS
  <1> PICK more \in {0, 1} : more = IF k = RankKey /\ Seeded(s) THEN 1 ELSE 0
    OBVIOUS
  <1> PICK more2 \in {0, 1} : more2 = IF k = RankKey /\ Seeded(s)' THEN 1 ELSE 0
    OBVIOUS
  <1>3. board[k][s] <= once + more /\ more <= more2
    BY <1>1 DEF CountedOnce
  <1>4. board'[k][s] <= once + more2
    BY <1>1, <1>3
  <1> QED BY <1>2, <1>4 DEF CountedOnce

(* The season worker takes boards away or copies them. *)
LEMMA ArchivingKeepsTypes ==
    ASSUME BoardsTyped, ArchiveNext PROVE BoardsTyped'
  <1>0. /\ UNCHANGED <<posted, seed, booted, late, missed>>
        /\ \A s \in Supports : Seeded(s)' <=> Seeded(s)
    <2>1. UNCHANGED <<posted, seed, booted, late, missed>>
      BY DEF ArchiveNext, StartArchive, DumpKey, InsertArchive, DeleteKeys, StopArchive, seedVars
    <2> QED BY <2>1 DEF Seeded
  <1>1. archiver \in JobRows
    BY DEF BoardsTyped, BoardsTypeOK, JobRows
  <1>2. ASSUME archiver' \in JobRows, runs' \in 0..MaxRuns,
               archive' \in [BoardKeys -> Count \cup {NoArchive}], board' = board
        PROVE  BoardsTyped'
    <2>1. BoardsTypeOK'
      BY <1>0, <1>2 DEF BoardsTyped, BoardsTypeOK, JobRows, Count
    <2> QED BY <1>0, <1>2, <2>1, SameCounts DEF BoardsTyped
  <1>3. /\ runs \in 0..MaxRuns /\ archive \in [BoardKeys -> Count \cup {NoArchive}]
        /\ board \in [BoardKeys -> Count]
    BY DEF BoardsTyped, BoardsTypeOK
  <1>4. CASE StartArchive
    <2>1. runs + 1 \in 0..MaxRuns /\ runs' = runs + 1
      BY <1>3, <1>4, BoardsAssumption DEF StartArchive
    <2> PICK todo \in SUBSET BoardKeys : todo = Present
      BY DEF Present
    <2>2. archiver' \in JobRows
      BY <1>4, BoardNames DEF StartArchive, JobRows
    <2> QED BY <1>2, <1>3, <1>4, <2>1, <2>2 DEF StartArchive
  <1>5. CASE DumpKey
    <2>1. PICK k \in archiver.todo :
             archiver' = [archiver EXCEPT !.step = "insert", !.key = k, !.dump = board[k]]
      BY <1>5 DEF DumpKey
    <2>2. k \in BoardKeys /\ board[k] \in Count
      BY <1>1, <1>3 DEF JobRows
    <2>3. archiver' \in JobRows
      BY <1>1, <2>1, <2>2 DEF JobRows
    <2> QED BY <1>2, <1>3, <1>5, <2>3 DEF DumpKey
  <1>6. CASE InsertArchive
    <2> PICK k \in BoardKeys, dump \in Count : k = archiver.key /\ dump = archiver.dump
      BY <1>1 DEF JobRows
    <2> PICK to : to = IF archive[k] = NoArchive THEN dump ELSE archive[k]
      OBVIOUS
    <2>1. to \in Count \cup {NoArchive} /\ archive' = [archive EXCEPT ![k] = to]
      BY <1>3, <1>6 DEF InsertArchive
    <2>2. archive' \in [BoardKeys -> Count \cup {NoArchive}]
      BY <1>3, <2>1
    <2> PICK step \in {"delete", "dump"} : step = AfterInsert
      BY DEF AfterInsert
    <2>3. archiver' \in JobRows
      BY <1>1, <1>6 DEF InsertArchive, JobRows
    <2> QED BY <1>2, <1>3, <1>6, <2>2, <2>3 DEF InsertArchive
  <1>7. CASE StopArchive
    BY <1>2, <1>3, <1>7, BoardNames DEF StopArchive
  <1>8. CASE DeleteKeys
    <2>1. \A k \in BoardKeys : board'[k] = IF k \in archiver.done THEN Zero ELSE board[k]
      BY <1>8 DEF DeleteKeys
    <2>2. board' = [k \in BoardKeys |-> board'[k]]
      BY <1>8 DEF DeleteKeys
    <2>3. \A k \in BoardKeys : board'[k] \in Count
      BY <1>3, <2>1, BoardNames
    <2>4. board' \in [BoardKeys -> Count]
      BY <2>2, <2>3
    <2>5. archiver' \in JobRows /\ UNCHANGED <<archive, runs>>
      BY <1>8, BoardNames DEF DeleteKeys
    <2>6. BoardsTypeOK'
      BY <1>0, <2>4, <2>5 DEF BoardsTyped, BoardsTypeOK, JobRows, Count
    <2>7. ASSUME NEW k \in BoardKeys, NEW s \in Supports PROVE CountedOnce(k, s)'
      <3>1. CountedOnce(k, s) /\ board[k][s] \in 0..2
        BY <1>3 DEF BoardsTyped, Count
      <3>2. board'[k][s] = 0 \/ board'[k][s] = board[k][s]
        BY <2>1 DEF Zero
      <3>3. Through(s, k)' <=> Through(s, k)
        BY <1>0 DEF Through
      <3> PICK once \in {0, 1} : once = IF Through(s, k) THEN 1 ELSE 0
        OBVIOUS
      <3> PICK more \in {0, 1} : more = IF k = RankKey /\ Seeded(s) THEN 1 ELSE 0
        OBVIOUS
      <3>4. board'[k][s] <= once + more
        BY <3>1, <3>2 DEF CountedOnce
      <3> QED BY <1>0, <3>3, <3>4 DEF CountedOnce
    <2> QED BY <2>6, <2>7 DEF BoardsTyped
  <1> QED BY <1>4, <1>5, <1>6, <1>7, <1>8 DEF ArchiveNext

(* The boot adds the sum of a tribe once. *)
LEMMA AddSumsKeepsTypes ==
    ASSUME BoardsTyped, booted, AddSums PROVE BoardsTyped'
  <1>1. RankKey \in BoardKeys
    BY BoardNames
  <1> PICK row \in Count : row = board[RankKey]
    BY <1>1 DEF BoardsTyped, BoardsTypeOK
  <1>a. PICK added \in SUBSET seed.sums :
           /\ board' = [board EXCEPT ![RankKey] =
                           [s \in Supports |-> IF s \in added THEN @[s] + 1 ELSE @[s]]]
           /\ seed' = [seed EXCEPT !.sums = @ \ added]
    BY DEF AddSums
  <1> PICK sums : sums = [s \in Supports |-> IF s \in added THEN row[s] + 1 ELSE row[s]]
    OBVIOUS
  <1>2. /\ UNCHANGED <<posted, archive, archiver, runs, booted, late, missed>>
        /\ board' = [board EXCEPT ![RankKey] = sums] /\ seed.step = "add"
    BY <1>a DEF AddSums, archiveVars
  <1>b. seed' \in SeedRows /\ seed'.step = "add" /\ seed'.sums = seed.sums \ added
    BY <1>a, <1>2 DEF BoardsTyped, BoardsTypeOK, SeedRows
  <1>3. \A s \in Supports : Seeded(s)' <=> Seeded(s) \/ s \in added
    BY <1>2, <1>b DEF Seeded
  <1>4. \A s \in added : ~Seeded(s)
    BY <1>2 DEF Seeded
  <1>5. ASSUME NEW s \in Supports
        PROVE  /\ sums[s] \in 0..2
               /\ sums[s] <= (IF Through(s, RankKey) THEN 1 ELSE 0)
                                 + (IF Seeded(s)' THEN 1 ELSE 0)
    <2> PICK once \in {0, 1} : once = IF Through(s, RankKey) THEN 1 ELSE 0
      OBVIOUS
    <2> PICK more \in {0, 1} : more = IF RankKey = RankKey /\ Seeded(s) THEN 1 ELSE 0
      OBVIOUS
    <2> PICK n \in 0..2 : n = row[s]
      BY DEF Count
    <2>1. n <= once + more
      BY <1>1 DEF BoardsTyped, CountedOnce
    <2>2. CASE s \in added
      <3>1. more = 0 /\ (IF Seeded(s)' THEN 1 ELSE 0) = 1 /\ sums[s] = n + 1
        BY <1>3, <1>4, <2>2
      <3>2. n + 1 \in 0..2 /\ n + 1 <= once + 1
        BY <2>1, <3>1
      <3> QED BY <3>1, <3>2
    <2>3. CASE s \notin added
      <3>1. (IF Seeded(s)' THEN 1 ELSE 0) = more /\ sums[s] = n
        BY <1>3, <2>3
      <3> QED BY <2>1, <3>1
    <2> QED BY <2>2, <2>3
  <1>6. sums \in Count
    BY <1>5 DEF Count
  <1>7. board' \in [BoardKeys -> Count]
    BY <1>2, <1>6 DEF BoardsTyped, BoardsTypeOK
  <1>8. BoardsTypeOK'
    BY <1>2, <1>b, <1>7 DEF BoardsTyped, BoardsTypeOK, SeedRows, Count
  <1>9. ASSUME NEW k \in BoardKeys, NEW s \in Supports PROVE CountedOnce(k, s)'
    <2>1. Through(s, k)' <=> Through(s, k)
      BY <1>2 DEF Through
    <2>2. CASE k = RankKey
      <3>1. board'[k][s] = sums[s]
        BY <1>2, <2>2 DEF BoardsTyped, BoardsTypeOK
      <3>2. (IF k = RankKey /\ Seeded(s)' THEN 1 ELSE 0) = (IF Seeded(s)' THEN 1 ELSE 0)
        BY <2>2
      <3>3. sums[s] <= (IF Through(s, k)' THEN 1 ELSE 0) + (IF Seeded(s)' THEN 1 ELSE 0)
        BY <1>5, <2>1, <2>2
      <3> QED BY <3>1, <3>2, <3>3 DEF CountedOnce
    <2>3. CASE k # RankKey
      <3>1. board'[k][s] = board[k][s]
        BY <1>2, <2>3 DEF BoardsTyped, BoardsTypeOK
      <3>2. CountedOnce(k, s)
        BY DEF BoardsTyped
      <3> QED BY <2>1, <2>3, <3>1, <3>2 DEF CountedOnce
    <2> QED BY <2>2, <2>3
  <1> QED BY <1>8, <1>9 DEF BoardsTyped

(* The boot's claim and sums. *)
LEMMA RankingKeepsTypes ==
    ASSUME BoardsTyped, BoardInv, RankNext PROVE BoardsTyped'
  <1>1. seed \in SeedRows /\ booted \in BOOLEAN /\ (seed.step \in {"sum", "add"} => booted)
    BY DEF BoardsTyped, BoardsTypeOK, SeedRows, BoardInv, BoardShape
  <1>2. ASSUME UNCHANGED <<board, posted, archive, archiver, runs, late, missed>>,
               seed' \in SeedRows, booted' \in BOOLEAN,
               \A s \in Supports : Seeded(s) => Seeded(s)'
        PROVE  BoardsTyped'
    <2>1. BoardsTypeOK'
      BY <1>2 DEF BoardsTyped, BoardsTypeOK, SeedRows, Count
    <2> QED BY <1>2, <2>1, SameCounts DEF BoardsTyped
  <1>3. ASSUME NEW from, NEW to \in {"idle", "claim", "sum", "add"}, Seed(from, to)
        PROVE  seed' \in SeedRows /\ seed'.step = to
    BY <1>1, <1>3 DEF Seed, SeedRows
  <1>4. CASE FindEmpty
    <2> PICK from, to : from = "idle" /\ to = "claim"
      BY Zenon
    <2>1. Seed(from, to) /\ to \in {"idle", "claim", "sum", "add"}
      BY <1>4 DEF FindEmpty
    <2>2. seed' \in SeedRows /\ seed'.step = "claim"
      BY <1>3, <2>1
    <2>3. UNCHANGED <<board, posted, archive, archiver, runs, booted, late, missed>>
      BY <1>4 DEF FindEmpty, archiveVars
    <2>4. \A s \in Supports : Seeded(s) => Seeded(s)'
      BY <2>2, <2>3 DEF Seeded
    <2> QED BY <1>1, <1>2, <2>2, <2>3, <2>4
  <1>5. CASE TakeBoot
    <2> PICK from, to : from = "claim" /\ to = IF booted THEN "idle" ELSE "sum"
      BY Zenon
    <2>1. Seed(from, to) /\ to \in {"idle", "claim", "sum", "add"}
      BY <1>5 DEF TakeBoot
    <2>2. seed' \in SeedRows /\ seed'.step = to
      BY <1>3, <2>1
    <2>3. UNCHANGED <<board, posted, archive, archiver, runs, late, missed>> /\ booted' = TRUE
      BY <1>5 DEF TakeBoot, archiveVars
    <2>4. \A s \in Supports : Seeded(s) => Seeded(s)'
      BY <2>2, <2>3 DEF Seeded
    <2> QED BY <1>2, <2>2, <2>3, <2>4
  <1>6. CASE ReadSums
    <2>1. \A n : Replayed(n) \subseteq Supports
      BY DEF Replayed, Committed
    <2>2. seed' \in SeedRows /\ seed.step = "sum"
      BY <1>6, <2>1 DEF ReadSums, SeedRows
    <2>3. UNCHANGED <<board, posted, archive, archiver, runs, booted, late, missed>>
      BY <1>6 DEF ReadSums, archiveVars
    <2> QED BY <1>1, <1>2, <2>2, <2>3 DEF Seeded
  <1>7. CASE AddSums
    BY <1>1, <1>7, AddSumsKeepsTypes DEF AddSums
  <1>8. CASE EndSeed
    <2>1. seed' \in SeedRows /\ seed'.step = "idle"
      BY <1>8 DEF EndSeed, NoSeed, SeedRows
    <2>2. UNCHANGED <<board, posted, archive, archiver, runs, booted, late, missed>>
      BY <1>8 DEF EndSeed, archiveVars
    <2>3. \A s \in Supports : Seeded(s) => Seeded(s)'
      BY <2>1, <2>2 DEF Seeded
    <2> QED BY <1>1, <1>2, <2>1, <2>2, <2>3
  <1> QED BY <1>4, <1>5, <1>6, <1>7, <1>8 DEF RankNext

LEMMA BoardsTypesStep ==
    ASSUME BoardsTyped, BoardInv, GameNext \/ UNCHANGED gameVars PROVE BoardsTyped'
  <1>1. UNCHANGED boardVars \/ PostBoards \/ ArchiveNext \/ RankNext
    BY DEF GameNext, gameVars, effectVars, otherVars, SupportsNext, ServersNext, TribesNext
  <1>2. CASE UNCHANGED boardVars
    <2>1. BoardsTypeOK'
      BY <1>2 DEF boardVars, BoardsTyped, BoardsTypeOK
    <2> QED BY <1>2, <2>1, SameCounts DEF boardVars, BoardsTyped, Seeded
  <1> QED BY <1>1, <1>2, PostingKeepsTypes, ArchivingKeepsTypes, RankingKeepsTypes DEF PostBoards

(* Alerts: cooldowns, the inbox and the push queue, the workers' notices, and the *)
(* devices' owners. *)
InboxRows == [notice : Notices, by : Supports, read : BOOLEAN]
HandRows == [notice : Notices, step : {"limit", "send"}]
DuesTyped ==
    /\ cooldown \subseteq CooldownKeys
    /\ due \in [Supports -> SUBSET Notices] /\ won \in [Supports -> Notices \cup {Free}]
    /\ cleared \subseteq Supports
RowsTyped_ == inbox \subseteq InboxRows /\ queue \in Seq(Notices)
HandsTyped ==
    /\ inHand \in [PushWorkers -> HandRows \cup {Free}]
    /\ pushed \in [Notices -> Nat] /\ limited \subseteq Notices
OwnersTyped == owner \in [Devices_ -> Owners \cup {Free}]
ExpiriesTyped == expired \in [{"cooldown", "limit"} -> 0..MaxFaults]
AlertsTyped == DuesTyped /\ RowsTyped_ /\ HandsTyped /\ OwnersTyped /\ ExpiriesTyped

LEMMA AlertsTypesAre == AlertsTyped => AlertsTypeOK
  BY DEF AlertsTyped, DuesTyped, RowsTyped_, HandsTyped, OwnersTyped, ExpiriesTyped, AlertsTypeOK,
         CooldownKeys, KeyOf, InboxRows, HandRows

LEMMA AlertsTypesStart == ASSUME AlertsInit PROVE AlertsTyped
  <1>1. 0 \in 0..MaxFaults
    BY PipelineAssumption
  <1> QED BY <1>1 DEF AlertsInit, AlertsTyped, DuesTyped, RowsTyped_, HandsTyped, OwnersTyped,
                      ExpiriesTyped

LEMMA DuesSame ==
    ASSUME DuesTyped, UNCHANGED <<cooldown, due, won, cleared>> PROVE DuesTyped'
  BY DEF DuesTyped, CooldownKeys, KeyOf, CooldownKey
LEMMA RowsSame_ == ASSUME RowsTyped_, UNCHANGED <<inbox, queue>> PROVE RowsTyped_'
  BY DEF RowsTyped_
LEMMA HandsSame == ASSUME HandsTyped, UNCHANGED <<inHand, pushed, limited>> PROVE HandsTyped'
  BY DEF HandsTyped
LEMMA OwnersSame == ASSUME OwnersTyped, UNCHANGED owner PROVE OwnersTyped'
  BY DEF OwnersTyped
LEMMA ExpiriesSame == ASSUME ExpiriesTyped, UNCHANGED expired PROVE ExpiriesTyped'
  BY DEF ExpiriesTyped

(* The calls of a request that look for threats and rivals. *)
LEMMA DetectingKeepsTypes ==
    ASSUME PipeInv, AlertsTyped, DetectNext PROVE AlertsTyped'
  <1>1. PICK s \in Supports : \/ ClearCooldown(s)
                              \/ \E d \in AlertStages :
                                    Detect(s, d) \/ TryCooldown(s, d) \/ Enqueue(s, d)
    BY DEF DetectNext
  <1>2. DuesTyped /\ RowsTyped_ /\ HandsTyped /\ OwnersTyped /\ ExpiriesTyped
    BY DEF AlertsTyped
  <1>3. HandsTyped' /\ OwnersTyped' /\ ExpiriesTyped'
    <2>1. UNCHANGED <<inHand, pushed, limited, owner, expired>>
      BY <1>1 DEF ClearCooldown, Detect, TryCooldown, Enqueue, pushVars
    <2> QED BY <1>2, <2>1, HandsSame, OwnersSame, ExpiriesSame
  <1>4. due[s] \subseteq Notices
    BY <1>2 DEF DuesTyped
  <1>5. CASE ClearCooldown(s)
    <2>1. UNCHANGED <<due, won, inbox, queue>> /\ cooldown' \subseteq cooldown
          /\ cleared' = cleared \cup {s}
      BY <1>5 DEF ClearCooldown
    <2>2. DuesTyped'
      BY <1>2, <2>1 DEF DuesTyped, CooldownKeys, KeyOf, CooldownKey
    <2> QED BY <1>2, <1>3, <2>1, <2>2, RowsSame_ DEF AlertsTyped
  <1>6. ASSUME NEW d \in AlertStages, Detect(s, d) PROVE AlertsTyped'
    <2> PICK notices \in SUBSET Notices : notices = Crossed(s, d)
      BY CrossedNotices
    <2>1. /\ due' = [due EXCEPT ![s] = notices] /\ won' = [won EXCEPT ![s] = Free]
          /\ UNCHANGED <<cooldown, inbox, queue, cleared>>
      BY <1>6 DEF Detect
    <2>2. DuesTyped'
      BY <1>2, <2>1 DEF DuesTyped, CooldownKeys, KeyOf, CooldownKey
    <2> QED BY <1>2, <1>3, <2>1, <2>2, RowsSame_ DEF AlertsTyped
  <1>7. ASSUME NEW d \in AlertStages, TryCooldown(s, d) PROVE AlertsTyped'
    <2>1. PICK n \in Todo(s, d) :
             \/ due' = [due EXCEPT ![s] = due[s] \ {n}] /\ UNCHANGED <<won, cooldown>>
             \/ /\ won' = [won EXCEPT ![s] = n] /\ due' = due
                /\ cooldown' = cooldown \cup {CooldownKey(n[1], n[2])}
      BY <1>7 DEF TryCooldown, Settle
    <2>2. n \in Notices
      BY <1>4 DEF Todo
    <2>3. CooldownKey(n[1], n[2]) \in CooldownKeys
      BY <2>2 DEF CooldownKeys, KeyOf
    <2>4. UNCHANGED <<inbox, queue, cleared>>
      BY <1>7 DEF TryCooldown
    <2>5. CooldownKeys' = CooldownKeys
      BY DEF CooldownKeys, KeyOf, CooldownKey
    <2> PICK left \in SUBSET Notices : left = due[s] \ {n}
      BY <1>4
    <2> PICK taken \in CooldownKeys : taken = CooldownKey(n[1], n[2])
      BY <2>3
    <2>6. DuesTyped'
      BY <1>2, <2>1, <2>2, <2>4, <2>5 DEF DuesTyped
    <2> QED BY <1>2, <1>3, <2>4, <2>6, RowsSame_ DEF AlertsTyped
  <1>8. ASSUME NEW d \in AlertStages, Enqueue(s, d) PROVE AlertsTyped'
    <2>1. won[s] \in Notices
      BY <1>4, <1>8 DEF Enqueue, Todo
    <2> PICK n \in Notices : n = won[s]
      BY <2>1
    <2> PICK left \in SUBSET Notices : left = due[s] \ {n}
      BY <1>4
    <2>2. /\ queue' = Append(queue, n) /\ due' = [due EXCEPT ![s] = left]
          /\ inbox' = inbox \cup {[notice |-> n, by |-> s, read |-> FALSE]}
          /\ won' = [won EXCEPT ![s] = Free] /\ UNCHANGED <<cooldown, cleared>>
      BY <1>8 DEF Enqueue, Settle
    <2>3. DuesTyped'
      BY <1>2, <2>2 DEF DuesTyped, CooldownKeys, KeyOf, CooldownKey
    <2> PICK row : row = [notice |-> n, by |-> s, read |-> FALSE]
      OBVIOUS
    <2>4. row \in InboxRows
      BY DEF InboxRows
    <2>5. RowsTyped_'
      <3> PICK notices \in Seq(Notices) : notices = queue
        BY <1>2 DEF RowsTyped_
      <3>1. Append(notices, n) \in Seq(Notices)
        OBVIOUS
      <3>2. inbox' \subseteq InboxRows
        BY <1>2, <2>2, <2>4 DEF RowsTyped_
      <3> QED BY <2>2, <3>1, <3>2 DEF RowsTyped_
    <2> QED BY <1>3, <2>3, <2>5 DEF AlertsTyped
  <1> QED BY <1>1, <1>5, <1>6, <1>7, <1>8

(* Keys that expire. *)
LEMMA ExpiringKeepsTypes ==
    ASSUME AlertsTyped, Expire PROVE AlertsTyped'
  <1>1. DuesTyped /\ RowsTyped_ /\ HandsTyped /\ OwnersTyped /\ ExpiriesTyped
    BY DEF AlertsTyped
  <1>2. /\ UNCHANGED <<due, won, inbox, queue, inHand, pushed, owner, cleared>>
        /\ cooldown' \subseteq cooldown /\ limited' \subseteq limited
    BY DEF Expire
  <1>3. ExpiriesTyped'
    <2>1. PICK k \in {"cooldown", "limit"} : CountExpiry(k)
      BY DEF Expire
    <2> PICK n : n = expired[k] + 1
      OBVIOUS
    <2>2. n \in 0..MaxFaults
      BY <1>1, <2>1, PipelineAssumption DEF CountExpiry, ExpiriesTyped
    <2> QED BY <1>1, <2>1, <2>2 DEF CountExpiry, ExpiriesTyped
  <1>4. DuesTyped'
    BY <1>1, <1>2 DEF DuesTyped, CooldownKeys, KeyOf, CooldownKey
  <1>5. HandsTyped'
    BY <1>1, <1>2 DEF HandsTyped
  <1> QED BY <1>1, <1>2, <1>3, <1>4, <1>5, RowsSame_, OwnersSame DEF AlertsTyped

(* A push worker. *)
LEMMA PushingKeepsTypes ==
    ASSUME AlertsTyped, NEW w \in PushWorkers,
           Pop(w) \/ TryPushRateLimit(w) \/ Send(w) \/ LosePayload(w)
    PROVE  AlertsTyped'
  <1>1. DuesTyped /\ RowsTyped_ /\ HandsTyped /\ OwnersTyped /\ ExpiriesTyped
    BY DEF AlertsTyped
  <1>2. UNCHANGED <<cooldown, due, won, inbox, owner, expired, cleared>>
    BY DEF Pop, TryPushRateLimit, Send, LosePayload
  <1>3. DuesTyped' /\ OwnersTyped' /\ ExpiriesTyped'
    BY <1>1, <1>2, DuesSame, OwnersSame, ExpiriesSame
  <1>4. ASSUME NEW hand \in HandRows \cup {Free}, inHand' = [inHand EXCEPT ![w] = hand]
        PROVE  inHand' \in [PushWorkers -> HandRows \cup {Free}]
    BY <1>1, <1>4 DEF HandsTyped
  <1>5. inHand[w] # Free => inHand[w] \in HandRows /\ inHand[w].notice \in Notices
    BY <1>1 DEF HandsTyped, HandRows
  <1>6. CASE Pop(w)
    <2>1. PICK rows : rows = queue /\ rows \in Seq(Notices) /\ rows # <<>>
      BY <1>1, <1>6 DEF Pop, RowsTyped_
    <2>2. Head(rows) \in Notices /\ Tail(rows) \in Seq(Notices)
      BY <2>1
    <2> PICK hand : hand = [notice |-> Head(rows), step |-> "limit"]
      OBVIOUS
    <2>3. hand \in HandRows
      BY <2>2 DEF HandRows
    <2>4. inHand' \in [PushWorkers -> HandRows \cup {Free}]
      BY <1>4, <1>6, <2>1, <2>3 DEF Pop
    <2>5. HandsTyped'
      BY <1>1, <1>6, <2>4 DEF Pop, HandsTyped
    <2>6. RowsTyped_'
      BY <1>1, <1>6, <2>1, <2>2 DEF Pop, RowsTyped_
    <2> QED BY <1>3, <2>5, <2>6 DEF AlertsTyped
  <1>7. CASE TryPushRateLimit(w)
    <2> PICK hand : hand = IF inHand[w].notice \in limited THEN Free
                           ELSE [inHand[w] EXCEPT !.step = "send"]
      OBVIOUS
    <2>1. inHand[w] # Free /\ inHand' = [inHand EXCEPT ![w] = hand]
          /\ limited' = limited \cup {inHand[w].notice}
          /\ UNCHANGED <<pushed, queue>>
      <3>1. [inHand EXCEPT ![w].step = "send"]
               = [inHand EXCEPT ![w] = [inHand[w] EXCEPT !.step = "send"]]
        BY <1>1 DEF HandsTyped
      <3> QED BY <1>7, <3>1 DEF TryPushRateLimit, Drop
    <2>2. hand \in HandRows \cup {Free}
      BY <1>5, <2>1 DEF HandRows
    <2>3. HandsTyped'
      BY <1>1, <1>4, <1>5, <2>1, <2>2 DEF HandsTyped
    <2> QED BY <1>1, <1>2, <1>3, <2>1, <2>3, RowsSame_ DEF AlertsTyped
  <1>8. CASE Send(w)
    <2> PICK n \in Notices : n = inHand[w].notice
      BY <1>5, <1>8 DEF Send
    <2>1. /\ inHand' = [inHand EXCEPT ![w] = Free] /\ UNCHANGED <<limited, queue>>
          /\ pushed' = [pushed EXCEPT ![n] = @ + 1] \/ pushed' = pushed
      BY <1>8 DEF Send, Drop
    <2>2. HandsTyped'
      BY <1>1, <2>1 DEF HandsTyped
    <2> QED BY <1>1, <1>2, <1>3, <2>1, <2>2, RowsSame_ DEF AlertsTyped
  <1>9. CASE LosePayload(w)
    <2>1. inHand' = [inHand EXCEPT ![w] = Free] /\ UNCHANGED <<pushed, limited, queue>>
      BY <1>9 DEF LosePayload, Drop
    <2>2. HandsTyped'
      BY <1>1, <2>1 DEF HandsTyped
    <2> QED BY <1>1, <1>2, <1>3, <2>1, <2>2, RowsSame_ DEF AlertsTyped
  <1> QED BY <1>6, <1>7, <1>8, <1>9

(* The inbox marked read. *)
LEMMA MarkingKeepsTypes ==
    ASSUME AlertsTyped, NEW rows, MarkRead(rows) PROVE AlertsTyped'
  <1>1. DuesTyped /\ RowsTyped_ /\ HandsTyped /\ OwnersTyped /\ ExpiriesTyped
    BY DEF AlertsTyped
  <1>2. UNCHANGED <<cooldown, due, won, queue, inHand, pushed, limited, owner, expired, cleared>>
    BY DEF MarkRead, pushVars
  <1>3. \A row \in InboxRows : [row EXCEPT !.read = TRUE] \in InboxRows
    BY DEF InboxRows
  <1>4. rows \subseteq InboxRows
    BY <1>1 DEF MarkRead, RowsTyped_
  <1>5. inbox' \subseteq InboxRows
    BY <1>1, <1>3, <1>4 DEF MarkRead, RowsTyped_
  <1>6. RowsTyped_'
    BY <1>1, <1>2, <1>5 DEF RowsTyped_
  <1> QED BY <1>1, <1>2, <1>6, DuesSame, HandsSame, OwnersSame, ExpiriesSame DEF AlertsTyped

LEMMA PushNextKeepsTypes == ASSUME AlertsTyped, PushNext PROVE AlertsTyped'
  <1>1. ASSUME NEW d \in Devices_, NEW u \in Owners, SetToken(d, u) PROVE AlertsTyped'
    <2>1. DuesTyped /\ RowsTyped_ /\ HandsTyped /\ OwnersTyped /\ ExpiriesTyped
      BY DEF AlertsTyped
    <2>2. UNCHANGED <<cooldown, due, won, inbox, queue, inHand, pushed, limited, expired, cleared>>
      BY <1>1 DEF SetToken
    <2> PICK new : new = IF owner[d] = u THEN Free ELSE u
      OBVIOUS
    <2>3. owner' = [owner EXCEPT ![d] = new] /\ new \in Owners \cup {Free}
      BY <1>1 DEF SetToken
    <2>4. OwnersTyped'
      BY <2>1, <2>3 DEF OwnersTyped
    <2> QED BY <2>1, <2>2, <2>4, DuesSame, RowsSame_, HandsSame, ExpiriesSame DEF AlertsTyped
  <1> QED BY <1>1, PushingKeepsTypes, ExpiringKeepsTypes, MarkingKeepsTypes DEF PushNext

LEMMA AlertsTypesStep ==
    ASSUME PipeInv, AlertsTyped, GameNext \/ UNCHANGED gameVars PROVE AlertsTyped'
  <1>1. UNCHANGED alertVars \/ DetectNext \/ PushNext
    BY DEF GameNext, gameVars, effectVars, otherVars, SupportsNext, ServersNext, TribesNext
  <1>2. CASE UNCHANGED alertVars
    BY <1>2, DuesSame, RowsSame_, HandsSame, OwnersSame, ExpiriesSame DEF AlertsTyped, alertVars
  <1> QED BY <1>1, <1>2, DetectingKeepsTypes, PushNextKeepsTypes

(* The hub: with the order of the messages (LiveInv) no message is on its way, *)
(* arrived, dropped or lost that was not published. *)
ClientRows == [state : {"new", "open", "closed"}, wants : SUBSET (Topics \ ForAll)]
ClientsTyped == client \in [Clients -> ClientRows]
CountsTyped == /\ hub \in {"running", "stopping", "stopped", "panicked"}
               /\ clicks \in 0..MaxClicks /\ closedUnder \in BOOLEAN
HistoryTyped == /\ since \in [Clients -> 0..Len(published)]
                /\ dropped \subseteq Clients \X Messages /\ lost \subseteq Messages
LiveTyped == ClientsTyped /\ CountsTyped /\ HistoryTyped

(* The elements of two sequences are elements of the one they make. *)
LEMMA JoinedElems ==
    ASSUME NEW g \in Seq(Nat), NEW b \in Seq(Nat)
    PROVE  Elems(g) \subseteq Elems(g \o b) /\ Elems(b) \subseteq Elems(g \o b)
  <1>1. /\ g \o b \in Seq(Nat) /\ Len(g) \in Nat /\ Len(b) \in Nat
        /\ Len(g \o b) = Len(g) + Len(b)
    OBVIOUS
  <1>2. ASSUME NEW i \in 1..Len(g) PROVE (g \o b)[i] = g[i] /\ i \in 1..Len(g \o b)
    BY <1>1, <1>2
  <1>3. ASSUME NEW i \in 1..Len(b)
        PROVE  (g \o b)[Len(g) + i] = b[i] /\ Len(g) + i \in 1..Len(g \o b)
    BY <1>1, <1>3
  <1> PICK q : q = g \o b
    OBVIOUS
  <1>4. /\ DOMAIN g = 1..Len(g) /\ DOMAIN b = 1..Len(b) /\ DOMAIN q = 1..Len(q)
        /\ \A i \in 1..Len(g) : q[i] = g[i] /\ i \in 1..Len(q)
        /\ \A i \in 1..Len(b) : q[Len(g) + i] = b[i] /\ Len(g) + i \in 1..Len(q)
    BY <1>1, <1>2, <1>3
  <1>5. Elems(g) \subseteq Elems(q) /\ Elems(b) \subseteq Elems(q)
    BY <1>4 DEF Elems
  <1> QED BY <1>5

LEMMA LiveTypesAre == ASSUME LiveInv, LiveTyped PROVE RealtimeTypeOK
  <1>1. ASSUME NEW rows \in Seq(Nat), Elems(rows) \subseteq Messages PROVE rows \in Seq(Messages)
    BY <1>1 DEF Elems
  <1>2. wire \in Seq(Messages)
    BY <1>1 DEF LiveInv, LiveShape, WireInv, Messages
  <1>3. ASSUME NEW c \in Clients
        PROVE  buffer[c] \in Seq(Messages) /\ got[c] \in Seq(Messages)
    <2> PICK g \in Seq(Nat), b \in Seq(Nat) : g = got[c] /\ b = buffer[c]
      BY DEF LiveInv, LiveShape
    <2>1. Elems(g \o b) \subseteq Messages
      BY DEF LiveInv, OrderInv, Older, Reached, Messages
    <2>5. Elems(g) \subseteq Messages /\ Elems(b) \subseteq Messages
      BY <2>1, JoinedElems
    <2> QED BY <1>1, <2>5
  <1>4. buffer \in [Clients -> Seq(Messages)] /\ got \in [Clients -> Seq(Messages)]
    BY <1>3 DEF LiveInv, LiveShape
  <1>5. fan \in [msg : Messages, left : SUBSET Clients, checked : Clients \cup {NoFan}] \cup {NoFan}
    BY DEF LiveInv, LiveShape, WireInv, FanRecords, Messages
  <1>6. published \in Seq([topic : Topics, by : Supports \cup {NoFan}])
    BY DEF LiveInv, LiveShape
  <1> QED BY <1>2, <1>4, <1>5, <1>6
     DEF RealtimeTypeOK, LiveTyped, ClientsTyped, CountsTyped, HistoryTyped, ClientRows

LEMMA LiveTypesStart ==
    ASSUME NEW start \in Starts, RealtimeInit(start.sockets) PROVE LiveTyped
  <1>1. start.sockets \subseteq Clients
    BY GameAssumption
  <1>2. ClientsTyped
    BY DEF RealtimeInit, ClientsTyped, ClientRows
  <1>3. Len(published) = 0 /\ 0 \in 0..0 /\ 0 \in 0..MaxClicks
    BY RealtimeAssumption DEF RealtimeInit
  <1>4. since = [c \in Clients |-> 0]
    BY DEF RealtimeInit
  <1>5. since \in [Clients -> 0..Len(published)]
    BY <1>3, <1>4
  <1> QED BY <1>2, <1>3, <1>5 DEF RealtimeInit, LiveTyped, CountsTyped, HistoryTyped

(* Steps that leave a part as it is. *)
LEMMA ClientsSame == ASSUME ClientsTyped, client' = client PROVE ClientsTyped'
  BY DEF ClientsTyped

LEMMA CountsSame == ASSUME CountsTyped, UNCHANGED <<hub, clicks, closedUnder>> PROVE CountsTyped'
  BY DEF CountsTyped

LEMMA HistorySame ==
    ASSUME HistoryTyped, UNCHANGED <<published, since, dropped, lost>> PROVE HistoryTyped'
  BY DEF HistoryTyped, Messages

LEMMA ClickCounts ==
    ASSUME CountsTyped, Click, UNCHANGED <<hub, closedUnder>> PROVE CountsTyped'
  <1>1. clicks' \in 0..MaxClicks
    BY RealtimeAssumption DEF Click, CountsTyped
  <1> QED BY <1>1 DEF CountsTyped

(* A client's own steps. *)
LEMMA ClientsKeepTypes ==
    ASSUME LiveInv, LiveTyped, NEW c \in Clients,
           OpenSocket(c) \/ Unregister(c) \/ SendTo(c) \/ Write(c)
           \/ \E topic \in Topics : SetInterest(c, topic)
    PROVE  LiveTyped'
  <1>1. ClientsTyped /\ CountsTyped /\ HistoryTyped
    BY DEF LiveTyped
  <1>2. CASE OpenSocket(c)
    <2> PICK row : row = [client[c] EXCEPT !.state = "open"]
      OBVIOUS
    <2>1. row \in ClientRows /\ client' = [client EXCEPT ![c] = row]
      BY <1>1, <1>2 DEF OpenSocket, ClientsTyped, ClientRows
    <2>2. ClientsTyped'
      BY <1>1, <2>1 DEF ClientsTyped
    <2> PICK n : n = Len(published)
      OBVIOUS
    <2>3. n \in Nat /\ n \in 0..n
      BY DEF LiveInv, LiveShape
    <2>4. since' = [since EXCEPT ![c] = n] /\ UNCHANGED <<published, dropped, lost>>
      BY <1>2 DEF OpenSocket
    <2>5. HistoryTyped'
      BY <1>1, <2>3, <2>4 DEF HistoryTyped, Messages
    <2>6. UNCHANGED <<hub, clicks, closedUnder>>
      BY <1>2 DEF OpenSocket
    <2> QED BY <1>1, <2>2, <2>5, <2>6, CountsSame DEF LiveTyped
  <1>3. CASE Unregister(c)
    <2> PICK row : row = [state |-> "closed", wants |-> {}]
      OBVIOUS
    <2>1. row \in ClientRows /\ client' = [client EXCEPT ![c] = row]
      BY <1>3 DEF Unregister, Closed, ClientRows
    <2>2. ClientsTyped'
      BY <1>1, <2>1 DEF ClientsTyped
    <2>3. closedUnder' \in BOOLEAN /\ UNCHANGED <<hub, clicks>>
      BY <1>3 DEF Unregister
    <2>4. UNCHANGED <<published, since, dropped, lost>>
      BY <1>3 DEF Unregister
    <2>5. CountsTyped'
      BY <1>1, <2>3 DEF CountsTyped
    <2> QED BY <1>1, <2>2, <2>4, <2>5, HistorySame DEF LiveTyped
  <1>4. CASE SendTo(c)
    <2>1. fan # NoFan /\ fan.msg \in Messages
      BY <1>4 DEF SendTo, Deliver, LiveInv, WireInv, Messages
    <2>2. /\ dropped' = dropped \cup {<<c, fan.msg>>} \/ dropped' = dropped
          /\ hub' = "panicked" \/ hub' = hub
          /\ UNCHANGED <<published, client, clicks, since, lost, closedUnder>>
      BY <1>4 DEF SendTo
    <2>3. HistoryTyped'
      BY <1>1, <2>1, <2>2 DEF HistoryTyped, Messages
    <2>4. CountsTyped'
      BY <1>1, <2>2 DEF CountsTyped
    <2> QED BY <1>1, <2>2, <2>3, <2>4, ClientsSame DEF LiveTyped
  <1>5. CASE Write(c)
    BY <1>1, <1>5, ClientsSame, CountsSame, HistorySame DEF Write, LiveTyped
  <1>6. ASSUME NEW topic \in Topics, SetInterest(c, topic) PROVE LiveTyped'
    <2> PICK row : row = [client[c] EXCEPT !.wants =
                             IF topic \in @ THEN @ \ {topic} ELSE @ \cup {topic}]
      OBVIOUS
    <2>1. topic \in Topics \ ForAll
      BY <1>6 DEF SetInterest
    <2>2. row \in ClientRows
      BY <1>1, <2>1 DEF ClientsTyped, ClientRows
    <2>3. client' = [client EXCEPT ![c] = row]
      BY <1>6 DEF SetInterest
    <2>4. ClientsTyped'
      BY <1>1, <2>2, <2>3 DEF ClientsTyped
    <2>5. Click /\ UNCHANGED <<hub, closedUnder, published, since, dropped, lost>>
      BY <1>6 DEF SetInterest
    <2> QED BY <1>1, <2>4, <2>5, ClickCounts, HistorySame DEF LiveTyped
  <1> QED BY <1>2, <1>3, <1>4, <1>5, <1>6

(* The hub's loop. *)
LEMMA HubKeepsTypes ==
    ASSUME LiveInv, LiveTyped, FanOut \/ LookAt \/ Resubscribe \/ Cancel \/ CloseAllClients
    PROVE  LiveTyped'
  <1>1. ClientsTyped /\ CountsTyped /\ HistoryTyped
    BY DEF LiveTyped
  <1>2. CASE FanOut \/ LookAt
    BY <1>1, <1>2, ClientsSame, CountsSame, HistorySame DEF FanOut, LookAt, LiveTyped
  <1>3. CASE Resubscribe
    <2>1. /\ Click /\ lost' = lost \cup Elems(wire)
          /\ UNCHANGED <<published, client, hub, since, dropped, closedUnder>>
      BY <1>3 DEF Resubscribe, Elems
    <2>2. Elems(wire) \subseteq Messages
      BY DEF LiveInv, WireInv, Messages
    <2>3. HistoryTyped'
      BY <1>1, <2>1, <2>2 DEF HistoryTyped, Messages
    <2> QED BY <1>1, <2>1, <2>3, ClientsSame, ClickCounts DEF LiveTyped
  <1>4. CASE Cancel
    <2>1. hub' = "stopping" /\ UNCHANGED <<published, client, clicks, since, dropped, lost, closedUnder>>
      BY <1>4 DEF Cancel
    <2>2. CountsTyped'
      BY <1>1, <2>1 DEF CountsTyped
    <2> QED BY <1>1, <2>1, <2>2, ClientsSame, HistorySame DEF LiveTyped
  <1>5. CASE CloseAllClients
    <2>1. hub' = "stopped" /\ UNCHANGED <<published, clicks, since, dropped, lost, closedUnder>>
      BY <1>5 DEF CloseAllClients
    <2>2. CountsTyped'
      BY <1>1, <2>1 DEF CountsTyped
    <2> PICK row : row = [state |-> "closed", wants |-> {}]
      OBVIOUS
    <2>3. row \in ClientRows
      BY DEF ClientRows
    <2>4. client' = [c \in Clients |-> IF IsOpen(c) THEN row ELSE client[c]]
      BY <1>5 DEF CloseAllClients
    <2>5. ClientsTyped'
      BY <1>1, <2>3, <2>4 DEF ClientsTyped
    <2> QED BY <1>1, <2>1, <2>2, <2>5, HistorySame DEF LiveTyped
  <1> QED BY <1>2, <1>3, <1>4, <1>5

(* A new message makes room for its number. *)
LEMMA PublishKeepsTypes ==
    ASSUME LiveInv, LiveTyped, NEW topic \in Topics, NEW s \in Supports \cup {NoFan},
           Publish(topic, s)
    PROVE  LiveTyped'
  <1>1. ClientsTyped /\ CountsTyped /\ HistoryTyped
    BY DEF LiveTyped
  <1>2. Len(published) \in Nat /\ Len(published') = Len(published) + 1
    BY PublishAppends DEF LiveInv
  <1>3. UNCHANGED <<client, hub, clicks, since, dropped, lost, closedUnder>>
    BY DEF Publish
  <1> PICK N \in Nat : N = Len(published)
    BY <1>2
  <1>4. 0..N \subseteq 0..(N + 1) /\ 1..N \subseteq 1..(N + 1) /\ Len(published') = N + 1
    BY <1>2
  <1>5. HistoryTyped'
    BY <1>1, <1>3, <1>4 DEF HistoryTyped, Messages
  <1> QED BY <1>1, <1>3, <1>5, ClientsSame, CountsSame DEF LiveTyped

LEMMA LiveTypesStep ==
    ASSUME LiveInv, LiveTyped, GameNext \/ UNCHANGED gameVars PROVE LiveTyped'
  <1>1. CASE UNCHANGED liveVars
    BY <1>1, ClientsSame, CountsSame, HistorySame DEF liveVars, LiveTyped
  <1>2. CASE HubNext
    BY <1>2, ClientsKeepTypes, HubKeepsTypes DEF HubNext
  <1>3. ASSUME NEW s \in Supports, PublishSupport(s) \/ PublishFlip(s) \/ PublishFeed(s)
        PROVE  LiveTyped'
    <2>1. \E topic \in Topics : Publish(topic, s)
      BY <1>3 DEF PublishSupport, PublishFlip, PublishFeed, Topics
    <2> QED BY <2>1, PublishKeepsTypes
  <1>4. CASE Publish("room", NoFan)
    BY <1>4, PublishKeepsTypes DEF Topics
  <1> QED BY <1>1, <1>2, <1>3, <1>4, LiveMoves

(* The inbox has its types by the invariant of its argument. *)
LEMMA InboxTypesAre == ASSUME InboxInv PROVE InboxTypeOK
  <1>1. LogRows \subseteq Rows
    BY DEF InboxInv, Logged, LogRows
  <1>2. Rows \cup {0} \subseteq 0..MaxRow /\ Rows \cup {0, MaxRow + 1} \subseteq 0..Idle
    BY InboxAssumption DEF Rows, Idle
  <1>3. cursor \in 0..MaxRow
    BY <1>1, <1>2 DEF InboxInv, Marked
  <1>4. newest \in [MarkAlls -> 0..Idle]
    BY <1>1, <1>2 DEF InboxInv, Marked
  <1> QED BY <1>3, <1>4 DEF InboxInv, Logged, Marked, InboxTypeOK

(* Tribes: what the argument about them leaves open. *)
PostRows == [at : {"new", "checked", "stored", "sent", "done"}, by : Members, to : Clubs]
EditsTyped == overlap \subseteq Clubs /\ reseeded \subseteq Clubs /\ unseated \subseteq Members
CoolingTyped ==
    cooling \subseteq Members /\ \A u \in Members : moves[u].passed \in 0..MaxCooldowns
PostsTyped == post \in [Posts -> PostRows]
SweptTyped == swept \subseteq Sets \X Members /\ beats \in 0..MaxBeats
TribeTyped == CoolingTyped /\ EditsTyped /\ PostsTyped /\ SweptTyped

LEMMA TribeTypesAre == ASSUME Types, TribeTyped PROVE TribeTypeOK
  <1>1. moves \in [Members -> [made : Nat, passed : 0..MaxCooldowns]]
    BY DEF Types, TribeTyped, CoolingTyped
  <1> QED BY <1>1
     DEF Types, TribeTyped, CoolingTyped, EditsTyped, PostsTyped, SweptTyped, PostRows, TribeTypeOK

LEMMA TribeTypesStart == ASSUME NEW home, TribeInit(home) PROVE TribeTyped
  <1>1. 0 \in 0..MaxCooldowns /\ 0 \in 0..MaxBeats
    BY TribeAssumption
  <1>2. (CHOOSE u \in Members : TRUE) \in Members /\ (CHOOSE t \in Clubs : TRUE) \in Clubs
    BY TribeAssumption
  <1>3. Unsent \in PostRows
    BY <1>2 DEF Unsent, PostRows
  <1>4. PostsTyped
    BY <1>3 DEF TribeInit, PostsTyped
  <1> QED BY <1>1, <1>4 DEF TribeInit, TribeTyped, CoolingTyped, EditsTyped, SweptTyped

(* A change of tribe begins a cooldown and passes none. *)
LEMMA MoveKeepsTypes ==
    ASSUME Types, CoolingTyped, NEW u \in Members, NEW t, MoveTo(u, t) PROVE CoolingTyped'
  <1> PICK row : row = [moves[u] EXCEPT !.made = @ + 1]
    OBVIOUS
  <1>1. row.passed = moves[u].passed /\ moves' = [moves EXCEPT ![u] = row]
    BY DEF MoveTo, Types
  <1>2. \A v \in Members : moves'[v].passed = moves[v].passed
    BY <1>1 DEF Types
  <1>3. cooling' \subseteq Members
    BY DEF MoveTo, CoolingTyped
  <1> QED BY <1>2, <1>3 DEF CoolingTyped

LEMMA MembersKeepTypes == ASSUME Types, CoolingTyped, MembershipNext PROVE CoolingTyped'
  <1>1. ASSUME UNCHANGED <<cooling, moves>> PROVE CoolingTyped'
    BY <1>1 DEF CoolingTyped
  <1>2. ASSUME NEW r \in Requests, Join(r) \/ Switch(r) PROVE CoolingTyped'
    <2> PICK u \in Members : u = request[r].by
      BY DEF Types
    <2>1. UNCHANGED <<cooling, moves>> \/ MoveTo(u, request[r].to)
      BY <1>2 DEF Join, Switch
    <2> QED BY <1>1, <2>1, MoveKeepsTypes
  <1>3. ASSUME NEW u \in Members, CooldownPasses(u) PROVE CoolingTyped'
    <2> PICK row : row = [moves[u] EXCEPT !.passed = @ + 1]
      OBVIOUS
    <2>1. row.passed = moves[u].passed + 1 /\ moves' = [moves EXCEPT ![u] = row]
      BY <1>3 DEF CooldownPasses, Types
    <2>2. row.passed \in 0..MaxCooldowns
      BY <1>3, <2>1, TribeAssumption DEF CooldownPasses, CoolingTyped
    <2>3. \A v \in Members : moves'[v].passed \in 0..MaxCooldowns
      BY <2>1, <2>2 DEF Types, CoolingTyped
    <2>4. cooling' \subseteq Members
      BY <1>3 DEF CooldownPasses, CoolingTyped
    <2> QED BY <2>3, <2>4 DEF CoolingTyped
  <1>4. ASSUME NEW r, NEW kind, NEW u, NEW t, RequireActiveTribe(r, kind, u, t)
        PROVE  UNCHANGED <<cooling, moves>>
    BY <1>4 DEF RequireActiveTribe
  <1> QED BY <1>1, <1>2, <1>3, <1>4 DEF MembershipNext

LEMMA ChatKeepsTypes ==
    ASSUME PostsTyped, ChatNext \/ BroadcastNext PROVE PostsTyped'
  <1>1. ASSUME NEW p \in Posts, NEW from, NEW to \in {"stored", "done", "sent"}, Post(p, from, to)
        PROVE  PostsTyped'
    <2> PICK row : row = [post[p] EXCEPT !.at = to]
      OBVIOUS
    <2>1. row \in PostRows
      BY DEF PostsTyped, PostRows
    <2>2. post' = [post EXCEPT ![p] = row]
      BY <1>1 DEF Post
    <2> QED BY <2>1, <2>2 DEF PostsTyped
  <1>2. ASSUME NEW p \in Posts, NEW u \in Members, NEW t \in Clubs, CheckMember(p, u, t)
        PROVE  PostsTyped'
    <2> PICK row : row = [at |-> "checked", by |-> u, to |-> t]
      OBVIOUS
    <2>1. row \in PostRows /\ post' = [post EXCEPT ![p] = row]
      BY <1>2 DEF CheckMember, PostRows
    <2> QED BY <2>1 DEF PostsTyped
  <1> QED BY <1>1, <1>2 DEF ChatNext, BroadcastNext, InsertTribeMessage, BroadcastTribe

(* A prune removes members of the set it has read. *)
LEMMA SweepingKeepsTypes == ASSUME Types, SweptTyped, PresenceNext PROVE SweptTyped'
  <1>1. Beat => beats' \in 0..MaxBeats
    BY TribeAssumption DEF Beat, SweptTyped
  <1>2. ASSUME NEW u \in Members,
               \/ StartHeartbeat(u) \/ FailHeartbeat(u) \/ KeyExpires(u)
               \/ StartClear(u) \/ DelKey(u) \/ FailClear(u)
        PROVE  swept' = swept /\ (beats' = beats \/ Beat)
    BY <1>2 DEF StartHeartbeat, FailHeartbeat, KeyExpires, StartClear, DelKey, FailClear
  <1>3. ASSUME NEW u \in Members, FinishHeartbeat(u) PROVE SweptTyped'
    <2>1. swept' \subseteq swept /\ beats' = beats
      BY <1>3 DEF FinishHeartbeat
    <2> QED BY <2>1 DEF SweptTyped
  <1>4. (\E s \in Sets : ReadSet(s)) \/ FindGhosts => swept' = swept /\ (beats' = beats \/ Beat)
    BY DEF ReadSet, FindGhosts
  <1>5. CASE RemoveGhosts
    <2>1. sweep.set \in Sets /\ sweep.ghosts \subseteq Members
      BY DEF Types
    <2>2. swept' \subseteq swept \cup ({sweep.set} \X sweep.ghosts) /\ beats' = beats
      BY <1>5 DEF RemoveGhosts
    <2> QED BY <2>1, <2>2 DEF SweptTyped
  <1>6. ASSUME swept' = swept, beats' = beats \/ Beat PROVE SweptTyped'
    BY <1>1, <1>6 DEF SweptTyped
  <1>7. ASSUME NEW u \in Members, NEW s \in Sets, RemoveListing(u, s) PROVE SweptTyped'
    <2>1. swept' \subseteq swept \cup {<<s, u>>} /\ beats' = beats
      BY <1>7 DEF RemoveListing
    <2> QED BY <2>1 DEF SweptTyped
  <1> QED BY <1>2, <1>3, <1>4, <1>5, <1>6, <1>7 DEF PresenceNext

LEMMA TribeTypesStep ==
    ASSUME TribeInv, TribeTyped, GameNext \/ UNCHANGED gameVars PROVE TribeTyped'
  <1>1. Types /\ CoolingTyped /\ EditsTyped /\ PostsTyped /\ SweptTyped
    BY DEF TribeInv, TribeTyped
  <1>2. /\ UNCHANGED <<cooling, moves>> => CoolingTyped'
        /\ UNCHANGED <<overlap, seedingVars>> => EditsTyped'
        /\ (UNCHANGED post) => PostsTyped'
        /\ UNCHANGED <<swept, beats>> => SweptTyped'
    BY <1>1 DEF CoolingTyped, EditsTyped, PostsTyped, SweptTyped, seedingVars
  <1>3. CASE /\ MembershipNext \/ EditNext \/ BootNext \/ AnonymizeNext
             /\ UNCHANGED <<post, presenceVars>>
    <2>1. EditNext => UNCHANGED <<cooling, moves>> /\ EditsTyped'
      <3>1. \A a \in Admins : UpdateTribe(a) => UNCHANGED <<cooling, moves, overlap, seedingVars>>
        BY DEF UpdateTribe
      <3>2. \A a \in Admins, t \in Clubs : \A row :
               ReadTribe(a, t, row) =>
                  UNCHANGED <<cooling, moves, unseated>> /\ overlap' \subseteq overlap \cup {t}
        BY DEF ReadTribe
      <3>3. \A a \in Admins, t \in Clubs :
               ReadForName(a, t) \/ (\E active \in BOOLEAN : ReadForActive(a, t, active)) =>
                  /\ \E row : ReadTribe(a, t, row)
                  /\ reseeded' \subseteq reseeded
        BY DEF ReadForName, ReadForActive
      <3> QED BY <1>1, <1>2, <3>1, <3>2, <3>3 DEF EditNext, EditsTyped
    <2>2. MembershipNext => UNCHANGED <<overlap, seedingVars>>
      BY DEF MembershipNext, RequireActiveTribe, Join, Switch, CooldownPasses, editVars
    <2>3. BootNext \/ AnonymizeNext => UNCHANGED <<cooling, moves>> /\ EditsTyped'
      <3>1. \A t \in Clubs : UpsertSeedTribe(t) => UNCHANGED <<cooling, moves>> /\ EditsTyped'
        BY <1>1 DEF UpsertSeedTribe, editVars, EditsTyped
      <3>2. \A u \in Members : \A t : Seat(u, t) => UNCHANGED <<cooling, moves>> /\ EditsTyped'
        BY <1>1 DEF Seat, editVars, EditsTyped
      <3> QED BY <3>1, <3>2, TribeAssumption
              DEF BootNext, AnonymizeNext, SeedPersona, AnonymizeMember
    <2> QED BY <1>1, <1>2, <1>3, <2>1, <2>2, <2>3, MembersKeepTypes DEF presenceVars, TribeTyped
  <1>4. CASE (ChatNext \/ BroadcastNext) /\ UNCHANGED <<membershipVars, presenceVars>>
    BY <1>1, <1>2, <1>4, ChatKeepsTypes DEF membershipVars, editVars, presenceVars, TribeTyped
  <1>5. CASE PresenceNext /\ UNCHANGED <<membershipVars, post>>
    BY <1>1, <1>2, <1>5, SweepingKeepsTypes DEF membershipVars, editVars, TribeTyped
  <1>6. CASE UNCHANGED tribeVars
    BY <1>1, <1>2, <1>6 DEF tribeVars, membershipVars, editVars, presenceVars, TribeTyped
  <1> QED BY <1>3, <1>4, <1>5, <1>6, TribesMoveAlone DEF TribeNext

(* The store of this state has the types its own argument gives it. *)
LEMMA ShopTypesAre ==
    ASSUME ShopProofs!StoreInv, ShopProofs!StoreTyped PROVE Shop!StoreTypeOK
  <1>1. ShopProofs!StoreTypeOK
    BY ShopProofs!StoreTypesAre
  <1> QED BY <1>1 DEF ShopProofs!StoreTypeOK, Shop!StoreTypeOK, ShopProofs!WalletTypeOK,
          Shop!WalletTypeOK, ShopProofs!Row, Shop!Row, ShopProofs!Reasons, Shop!Reasons,
          ShopProofs!BuySteps, Shop!BuySteps, ShopProofs!PromoMaxPercent, Shop!PromoMaxPercent

(* Who acts is settled at the start. *)
LEMMA ActsStay ==
    ASSUME GameNext \/ UNCHANGED gameVars PROVE acts' = acts
  BY AccountsMoveAlone DEF AccountsNext, accountsVars

(* The types, with the invariants their steps need: an erasure's job follows its user's *)
(* sessions and merges, the caches and quests follow the place of a request, and what *)
(* a client has is older than what is on its way. *)
AccountsTyped == MergeInv /\ SessionInv /\ EraseInv /\ AccountsTypes /\ acts \subseteq Components
EffectsTyped ==
    /\ PipeInv /\ BoardInv /\ LiveInv /\ PipelineTypeOK /\ CacheTypeOK /\ ProgressTypeOK
    /\ BoardsTyped /\ AlertsTyped /\ LiveTyped
OthersTyped ==
    InboxInv /\ TribeInv /\ TribeTyped /\ ShopProofs!StoreInv /\ ShopProofs!StoreTyped

LEMMA TypesStart == GameInit => AccountsTyped /\ EffectsTyped /\ OthersTyped
  <1> SUFFICES ASSUME NEW start \in Starts, AccountsInit(start), TribeInit(start.home),
                      RealtimeInit(start.sockets), PipelineInit(start.effects, start.asked),
                      GameInit
               PROVE  AccountsTyped /\ EffectsTyped /\ OthersTyped
    BY DEF GameInit
  <1>1. /\ start.phone \in [Users -> Phones \cup {None}]
        /\ start.opened \in [Calls -> Users \cup {None}]
        /\ start.home \in [Members -> Clubs \cup {NoClub}]
        /\ start.acts \subseteq Components
    BY GameAssumption
  <1>2. AccountsTyped
    <2>1. SignInInit(start.phone, start.opened) /\ ModerationInit /\ ErasureInit /\ acts = start.acts
      BY DEF AccountsInit
    <2>2. MergeInv /\ SessionInv /\ EraseInv
      BY <1>1, <2>1, MergeStart, SessionsStart, ErasureStarts
    <2>3. AccountsTypes
      BY <1>1, AccountsTypesStart
    <2> QED BY <1>1, <2>1, <2>2, <2>3 DEF AccountsTyped
  <1>3. EffectsTyped
    <2>1. CacheInit /\ ProgressInit /\ BoardsInit /\ AlertsInit
      BY DEF GameInit
    <2>2. PipeInv /\ BoardInv /\ LiveInv
      BY <2>1, GamePipeStarts, BoardsStart, LiveStarts
    <2>3. PipelineTypeOK /\ CacheTypeOK /\ ProgressTypeOK
      BY <2>1, PipelineTypesStart, CacheTypesStart, ProgressTypesStart
    <2>4. BoardsTyped /\ AlertsTyped /\ LiveTyped
      BY <2>1, BoardsTypesStart, AlertsTypesStart, LiveTypesStart
    <2> QED BY <2>2, <2>3, <2>4 DEF EffectsTyped
  <1>4. OthersTyped
    <2>1. InboxInit /\ Shop!StoreInit
      BY DEF GameInit
    <2> QED BY <1>1, <2>1, InboxStarts, TribeInitInv, TribeTypesStart, ShopStarts DEF OthersTyped
  <1> QED BY <1>2, <1>3, <1>4

LEMMA AccountsTypesMove ==
    ASSUME AccountsTyped, GameNext \/ UNCHANGED gameVars PROVE AccountsTyped'
  <1>1. AccountsNext \/ UNCHANGED accountsVars
    BY AccountsMoveAlone
  <1>2. MergeInv /\ SessionInv /\ EraseInv /\ AccountsTypes /\ CallShape
    BY DEF AccountsTyped, MergeInv
  <1>3. MergeInv' /\ SessionInv' /\ EraseInv'
    BY <1>1, <1>2, MergesStep, SessionsStep, EraseStep
  <1>4. AccountsTypes'
    BY <1>1, <1>2, AccountsTypesStep
  <1>5. (acts \subseteq Components)'
    BY ActsStay DEF AccountsTyped, Components, AccountComponents
  <1> QED BY <1>3, <1>4, <1>5 DEF AccountsTyped

LEMMA EffectsTypesMove ==
    ASSUME EffectsTyped, GameNext \/ UNCHANGED gameVars PROVE EffectsTyped'
  <1>1. /\ PipeInv /\ BoardInv /\ LiveInv /\ PipelineTypeOK /\ CacheTypeOK /\ ProgressTypeOK
        /\ BoardsTyped /\ AlertsTyped /\ LiveTyped
    BY DEF EffectsTyped
  <1>2. BoardsNext \/ UNCHANGED boardVars
    BY DEF GameNext, gameVars, effectVars, otherVars, SupportsNext, ServersNext, TribesNext,
           BoardsNext
  <1>3. PipeInv' /\ BoardInv' /\ LiveInv'
    BY <1>1, <1>2, PipeStep, BoardsStep, LiveStep
  <1>4. PipelineTypeOK' /\ CacheTypeOK' /\ ProgressTypeOK'
    BY <1>1, PipelineTypesStep, CacheTypesStep, ProgressTypesStep
  <1>5. BoardsTyped' /\ AlertsTyped' /\ LiveTyped'
    BY <1>1, BoardsTypesStep, AlertsTypesStep, LiveTypesStep
  <1> QED BY <1>3, <1>4, <1>5 DEF EffectsTyped

LEMMA OthersTypesMove ==
    ASSUME OthersTyped, GameNext \/ UNCHANGED gameVars PROVE OthersTyped'
  <1>1. InboxInv /\ TribeInv /\ TribeTyped /\ ShopProofs!StoreInv /\ ShopProofs!StoreTyped
    BY DEF OthersTyped
  <1>2. InboxInv'
    <2>1. InboxNext \/ UNCHANGED inboxVars
      BY DEF GameNext, gameVars, otherVars
    <2> QED BY <1>1, <2>1, InboxStep
  <1>3. TribeInv' /\ TribeTyped'
    BY <1>1, TribesMoveAlone, TribeStep, TribeTypesStep
  <1>4. ShopProofs!StoreInv' /\ ShopProofs!StoreTyped'
    BY <1>1, ShopMoves
  <1> QED BY <1>2, <1>3, <1>4 DEF OthersTyped

(* In the whole back end every table, key, queue and message keeps its type, whatever *)
(* acts together: no row names a user, a support or a message that is not there, a *)
(* promotion stays within its bound (pricing.go, ValidPromoPercent), a quest is *)
(* completed exactly when its target is reached (progression/quests.go), and *)
(* what the hub has under way was published before (realtime/hub.go). *)
THEOREM GameTypes == GameSpec => []GameTypeOK
  <1> DEFINE Inv == AccountsTyped /\ EffectsTyped /\ OthersTyped
  <1>1. GameInit => Inv
    BY TypesStart
  <1>2. Inv /\ [GameNext]_gameVars => Inv'
    BY AccountsTypesMove, EffectsTypesMove, OthersTypesMove
  <1>3. Inv => GameTypeOK
    <2> SUFFICES ASSUME Inv PROVE GameTypeOK
      OBVIOUS
    <2>1. AccountsTypeOK /\ acts \subseteq Components
      BY AccountsTypesAre DEF AccountsTyped
    <2>2. PipelineTypeOK /\ CacheTypeOK /\ ProgressTypeOK /\ BoardsTypeOK
      BY DEF EffectsTyped, BoardsTyped
    <2>3. AlertsTypeOK /\ RealtimeTypeOK
      BY AlertsTypesAre, LiveTypesAre DEF EffectsTyped
    <2>4. InboxTypeOK /\ TribeTypeOK /\ Shop!StoreTypeOK
      BY InboxTypesAre, TribeTypesAre, ShopTypesAre DEF OthersTyped, TribeInv
    <2> QED BY <2>1, <2>2, <2>3, <2>4 DEF GameTypeOK
  <1> QED BY <1>1, <1>2, <1>3, PTL DEF GameSpec
=============================================================================
