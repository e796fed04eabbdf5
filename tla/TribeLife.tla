------------------------------ MODULE TribeLife ------------------------------
(***************************************************************************)
(* Tribes and their members: joining and switching, the admin's edits, the seeds  *)
(* of a boot, tribe chat (backend/internal/tribe) and who is online               *)
(* (backend/internal/presence).                                               *)
(*                                                                         *)
(* Join and Switch check that the tribe is active before their transaction      *)
(* locks the user; an edit reads the whole tribe and writes the whole tribe.     *)
(* Every boot writes the embedded tribes and the QA users again, and an erasure   *)
(* takes a user out of its tribe.                                             *)
(* Presence is a Redis key per user, holding the tribe the user had when the     *)
(* key was made, and sets of users that readers prune and an erasure clears.      *)
(***************************************************************************)
EXTENDS Naturals, FiniteSets

CONSTANTS
    Members,        \* users
    Clubs,          \* tribes
    NoClub,         \* tribe_id NULL, and an empty presence key
    Seeds,          \* the tribes of tribes.json
    Personas,       \* Personas[u]: the tribe of a QA user, or none for qa_admin
    Requests,       \* join and switch requests
    Admins,         \* PATCH /v1/admin/tribes requests
    Posts,          \* tribe messages
    MaxCooldowns,   \* bound on elapsed switch cooldowns
    MaxBeats        \* bound on heartbeats, expiries, readers and clears

(* Presence keys and sets name users, tribes, no tribe or nothing.              *)
ASSUME TribeAssumption ==
    /\ NoClub \notin Clubs \cup {"absent"} /\ {"users", "absent"} \cap Clubs = {}
    /\ Members # {} /\ Clubs # {} /\ MaxCooldowns \in Nat /\ MaxBeats \in Nat
    /\ Seeds \subseteq Clubs
    /\ DOMAIN Personas \subseteq Members
    /\ \A u \in DOMAIN Personas : Personas[u] \in Clubs \cup {NoClub}

VARIABLES
    tribe,      \* tribe[t]: is_active, and the name's version
    member,     \* member[u]: users.tribe_id
    cooling,    \* users within the cooldown of tribe_switched_at
    moves,      \* moves[u]: changes of tribe so far, and cooldowns that have passed
    request,    \* request[r]: step, kind, user and target
    patch,      \* patch[a]: step, tribe, what it read and what it sets
    setTo,      \* setTo[t]: is_active as last asked for (history)
    overlap,    \* tribes two edits of which overlapped (history)
    reseeded,   \* tribes a boot wrote after the last request for is_active (history)
    unseated,   \* users whose tribe a boot or an erasure has taken away (history)
    post,       \* post[p]: step, sender and tribe of a message
    key,        \* key[u]: online:{user}: absent, NoClub or a tribe
    online,     \* presence sets: "users" and the tribes'
    beat,       \* beat[u]: what a running heartbeat has read, and when
    sweep,      \* a running prune: the set, its members and the ghosts among them
    clear,      \* clear[u]: a running ClearUser: step and the tribe it has read
    swept,      \* <<set, user>> removed although the key was live (history)
    beats

editVars == <<patch, setTo, overlap>>
seedingVars == <<reseeded, unseated>>
membershipVars == <<tribe, member, cooling, moves, request, editVars, seedingVars>>
presenceVars == <<key, online, beat, sweep, clear, swept, beats>>
tribeVars == <<membershipVars, post, presenceVars>>

Sets == {"users"} \cup Clubs
Absent == "absent"
NoSweep == [at |-> "idle", set |-> "users", members |-> {}, ghosts |-> {}]
Unsent == [at |-> "new", by |-> CHOOSE u \in Members : TRUE, to |-> CHOOSE t \in Clubs : TRUE]
Rows_ == [active : BOOLEAN, name : Admins \cup {NoClub}]

TribeTypeOK ==
    /\ tribe \in [Clubs -> Rows_]
    /\ member \in [Members -> Clubs \cup {NoClub}] /\ cooling \subseteq Members
    /\ moves \in [Members -> [made : Nat, passed : 0..MaxCooldowns]]
    /\ request \in [Requests -> [at : {"new", "join", "switch", "done"},
                                 by : Members, to : Clubs]]
    /\ patch \in [Admins -> [at : {"new", "write", "done"}, on : Clubs, row : Rows_]]
    /\ setTo \in [Clubs -> BOOLEAN] /\ overlap \subseteq Clubs
    /\ reseeded \subseteq Clubs /\ unseated \subseteq Members
    /\ post \in [Posts -> [at : {"new", "checked", "stored", "sent", "done"},
                           by : Members, to : Clubs]]
    /\ key \in [Members -> Clubs \cup {NoClub, Absent}]
    /\ online \in [Sets -> SUBSET Members]
    /\ beat \in [Members -> Clubs \cup {NoClub, Absent}]
    /\ sweep \in [at : {"idle", "read", "remove"}, set : Sets,
                  members : SUBSET Members, ghosts : SUBSET Members]
    /\ clear \in [Members -> [at : {"idle", "del", "users", "tribe"},
                             read : Clubs \cup {NoClub, Absent}]]
    /\ swept \subseteq Sets \X Members /\ beats \in 0..MaxBeats

(* The tribes users are in at the start.                                      *)
TribeInit(home) ==
    /\ tribe = [t \in Clubs |-> [active |-> TRUE, name |-> NoClub]]
    /\ member = home /\ cooling = {}
    /\ moves = [u \in Members |-> [made |-> 0, passed |-> 0]]
    /\ request = [r \in Requests |-> Unsent]
    /\ patch = [a \in Admins |-> [at |-> "new", on |-> Unsent.to,
                                  row |-> [active |-> TRUE, name |-> NoClub]]]
    /\ setTo = [t \in Clubs |-> TRUE] /\ overlap = {} /\ reseeded = {} /\ unseated = {}
    /\ post = [p \in Posts |-> Unsent]
    /\ key = [u \in Members |-> Absent] /\ online = [s \in Sets |-> {}]
    /\ beat = [u \in Members |-> Absent] /\ sweep = NoSweep /\ swept = {} /\ beats = 0
    /\ clear = [u \in Members |-> [at |-> "idle", read |-> Absent]]

-----------------------------------------------------------------------------
(* requireActiveTribe, before the transaction of Join or Switch.               *)
RequireActiveTribe(r, kind, u, t) ==
    /\ request[r].at = "new" /\ tribe[t].active
    /\ request' = [request EXCEPT ![r] = [at |-> kind, by |-> u, to |-> t]]
    /\ UNCHANGED <<tribe, member, cooling, moves, editVars, seedingVars>>

Answer(r) == request' = [request EXCEPT ![r].at = "done"]
MoveTo(u, t) ==
    /\ member' = [member EXCEPT ![u] = t]
    /\ cooling' = cooling \cup {u}
    /\ moves' = [moves EXCEPT ![u].made = @ + 1]

(* The transaction locks the row of the user: Join sets a first tribe ...       *)
Join(r) ==
    LET u == request[r].by
    IN /\ request[r].at = "join" /\ Answer(r)
       /\ IF member[u] = NoClub THEN MoveTo(u, request[r].to)
          ELSE UNCHANGED <<member, cooling, moves>>
       /\ UNCHANGED <<tribe, editVars, seedingVars>>

(* ... Switch another one, once the cooldown is over.                          *)
Switch(r) ==
    LET u == request[r].by
    IN /\ request[r].at = "switch" /\ Answer(r)
       /\ IF member[u] # request[r].to /\ u \notin cooling THEN MoveTo(u, request[r].to)
          ELSE UNCHANGED <<member, cooling, moves>>
       /\ UNCHANGED <<tribe, editVars, seedingVars>>

CooldownPasses(u) ==
    /\ u \in cooling /\ moves[u].passed < MaxCooldowns
    /\ cooling' = cooling \ {u}
    /\ moves' = [moves EXCEPT ![u].passed = @ + 1]
    /\ UNCHANGED <<tribe, member, request, editVars, seedingVars>>

(* Update: read the tribe and fill in what the body sets ...                    *)
ReadTribe(a, t, row) ==
    /\ patch[a].at = "new"
    /\ patch' = [patch EXCEPT ![a] = [at |-> "write", on |-> t, row |-> row]]
    /\ overlap' = IF \E b \in Admins : patch[b].at = "write" /\ patch[b].on = t
                  THEN overlap \cup {t} ELSE overlap
    /\ UNCHANGED <<tribe, member, cooling, moves, request, unseated>>

(* ... a name ...                                                             *)
ReadForName(a, t) ==
    /\ ReadTribe(a, t, [tribe[t] EXCEPT !.name = a])
    /\ UNCHANGED <<setTo, reseeded>>

(* ... or is_active ...                                                        *)
ReadForActive(a, t, active) ==
    /\ ReadTribe(a, t, [tribe[t] EXCEPT !.active = active])
    /\ setTo' = [setTo EXCEPT ![t] = active]
    /\ reseeded' = reseeded \ {t}

(* ... and write every column.                                                *)
UpdateTribe(a) ==
    /\ patch[a].at = "write"
    /\ tribe' = [tribe EXCEPT ![patch[a].on] = patch[a].row]
    /\ patch' = [patch EXCEPT ![a].at = "done"]
    /\ UNCHANGED <<member, cooling, moves, request, setTo, overlap, seedingVars>>

(* EnsureSeeded of a boot, one statement per embedded tribe: the names of the file *)
(* and is_active = true, whatever an admin has set.                             *)
UpsertSeedTribe(t) ==
    /\ tribe' = [tribe EXCEPT ![t] = [active |-> TRUE, name |-> NoClub]]
    /\ reseeded' = reseeded \cup {t}
    /\ UNCHANGED <<member, cooling, moves, request, editVars, unseated>>

(* tribe_id is set without a look at tribe_switched_at, which stays.             *)
Seat(u, t) ==
    /\ member' = [member EXCEPT ![u] = t]
    /\ unseated' = IF t = NoClub THEN unseated \cup {u} ELSE unseated
    /\ UNCHANGED <<tribe, cooling, moves, request, editVars, reseeded>>

(* EnsureQAPersonasSeeded of a boot: the tribe of its slug, and none for qa_admin.  *)
SeedPersona(u) == Seat(u, Personas[u])

(* anonymizeUser, of an erasure.                                               *)
AnonymizeMember(u) == Seat(u, NoClub)

MembershipNext ==
    \/ \E r \in Requests, u \in Members, t \in Clubs, kind \in {"join", "switch"} :
          RequireActiveTribe(r, kind, u, t)
    \/ \E r \in Requests : Join(r) \/ Switch(r)
    \/ \E u \in Members : CooldownPasses(u)

EditNext ==
    \E a \in Admins :
        \/ UpdateTribe(a)
        \/ \E t \in Clubs : \/ ReadForName(a, t)
                            \/ \E active \in BOOLEAN : ReadForActive(a, t, active)

BootNext ==
    \/ \E t \in Seeds : UpsertSeedTribe(t)
    \/ \E u \in DOMAIN Personas : SeedPersona(u)

AnonymizeNext == \E u \in Members : AnonymizeMember(u)

-----------------------------------------------------------------------------
Post(p, from, to) == post[p].at = from /\ post' = [post EXCEPT ![p].at = to]

(* SendTribeMessage: GetMembership and the classifier ...                      *)
CheckMember(p, u, t) ==
    /\ post[p].at = "new" /\ member[u] = t
    /\ post' = [post EXCEPT ![p] = [at |-> "checked", by |-> u, to |-> t]]

(* ... InsertMessage; a flagged message is stored and not sent ...               *)
InsertTribeMessage(p) == Post(p, "checked", "stored") \/ Post(p, "checked", "done")

(* ... broadcastTribe.                                                        *)
BroadcastTribe(p) == Post(p, "stored", "sent")

ChatNext == \E p \in Posts : InsertTribeMessage(p)
                             \/ \E u \in Members, t \in Clubs : CheckMember(p, u, t)
BroadcastNext == \E p \in Posts : BroadcastTribe(p)

-----------------------------------------------------------------------------
Beat == beats < MaxBeats /\ beats' = beats + 1

(* Heartbeat: GET the key; without one look the membership up, which may fail ... *)
StartHeartbeat(u) ==
    /\ Beat /\ beat[u] = Absent
    /\ \E t \in IF key[u] = Absent THEN {member[u], NoClub} ELSE {key[u]} :
          beat' = [beat EXCEPT ![u] = t]
    /\ UNCHANGED <<key, online, sweep, clear, swept>>

Listing(u) == {"users", beat[u]} \cap Sets

(* Mutant: a key that was there is only refreshed.                             *)
FinishHeartbeat_KeyOnly(u) ==
    /\ beat[u] # Absent
    /\ key' = [key EXCEPT ![u] = beat[u]]
    /\ online' = [s \in Sets |-> IF s \in Listing(u) /\ key[u] = Absent
                                 THEN online[s] \cup {u} ELSE online[s]]
    /\ swept' = {e \in swept : e[2] # u}
    /\ beat' = [beat EXCEPT ![u] = Absent]
    /\ UNCHANGED <<sweep, clear, beats>>

(* ... MULTI: SET the key, SADD to the users and to the tribe.                  *)
FinishHeartbeat(u) ==
    /\ beat[u] # Absent
    /\ key' = [key EXCEPT ![u] = beat[u]]
    /\ online' = [s \in Sets |-> IF s \in Listing(u) THEN online[s] \cup {u} ELSE online[s]]
    /\ swept' = {e \in swept : e[2] # u}
    /\ beat' = [beat EXCEPT ![u] = Absent]
    /\ UNCHANGED <<sweep, clear, beats>>

FailHeartbeat(u) ==
    /\ beat[u] # Absent
    /\ beat' = [beat EXCEPT ![u] = Absent]
    /\ UNCHANGED <<key, online, sweep, clear, swept, beats>>

KeyExpires(u) ==
    /\ Beat /\ key[u] # Absent
    /\ key' = [key EXCEPT ![u] = Absent]
    /\ UNCHANGED <<online, beat, sweep, clear, swept>>

IsGhost(u, s) == key[u] = Absent \/ (s \in Clubs /\ key[u] # s)

Clearing(u, from, to) ==
    clear[u].at = from /\ clear' = [clear EXCEPT ![u].at = to]

(* ClearUser, of an erasure: GET the key, then a pipeline that is no transaction:  *)
(* DEL of the key ...                                                         *)
StartClear(u) ==
    /\ Beat /\ clear[u].at = "idle"
    /\ clear' = [clear EXCEPT ![u] = [at |-> "del", read |-> key[u]]]
    /\ UNCHANGED <<key, online, beat, sweep, swept>>

DelKey(u) ==
    /\ Clearing(u, "del", "users")
    /\ key' = [key EXCEPT ![u] = Absent]
    /\ UNCHANGED <<online, beat, sweep, swept, beats>>

(* ... SREM from the users, and from the tribe that was read, whatever a heartbeat  *)
(* has written since.                                                         *)
RemoveListing(u, s) ==
    /\ \/ s = "users" /\ Clearing(u, "users", IF clear[u].read \in Clubs THEN "tribe" ELSE "idle")
       \/ s = clear[u].read /\ Clearing(u, "tribe", "idle")
    /\ online' = [online EXCEPT ![s] = @ \ {u}]
    /\ swept' = IF IsGhost(u, s) THEN swept ELSE swept \cup {<<s, u>>}
    /\ UNCHANGED <<key, beat, sweep, beats>>

FailClear(u) ==
    /\ \E step \in {"del", "users", "tribe"} : Clearing(u, step, "idle")
    /\ UNCHANGED <<key, online, beat, sweep, swept, beats>>

(* pruneSet for OnlineCount or OnlineMembers: SMEMBERS ...                      *)
ReadSet(s) ==
    /\ Beat /\ sweep.at = "idle" /\ online[s] # {}
    /\ sweep' = [at |-> "read", set |-> s, members |-> online[s], ghosts |-> {}]
    /\ UNCHANGED <<key, online, beat, clear, swept>>

(* ... a pipeline of GETs, which sorts out the ghosts ...                       *)
FindGhosts ==
    LET ghosts == {u \in sweep.members : IsGhost(u, sweep.set)}
    IN /\ sweep.at = "read"
       /\ sweep' = IF ghosts = {} THEN NoSweep
                   ELSE [sweep EXCEPT !.at = "remove", !.ghosts = ghosts]
       /\ UNCHANGED <<key, online, beat, clear, swept, beats>>

(* ... and SREM of them, whatever they have become.                            *)
RemoveGhosts ==
    /\ sweep.at = "remove" /\ sweep' = NoSweep
    /\ online' = [online EXCEPT ![sweep.set] = @ \ sweep.ghosts]
    /\ swept' = swept \cup {<<sweep.set, u>> : u \in
                               {v \in sweep.ghosts : ~IsGhost(v, sweep.set)}}
    /\ UNCHANGED <<key, beat, clear, beats>>

PresenceNext ==
    \/ \E u \in Members : \/ StartHeartbeat(u) \/ FinishHeartbeat(u) \/ FailHeartbeat(u)
                          \/ KeyExpires(u) \/ StartClear(u) \/ DelKey(u) \/ FailClear(u)
                          \/ \E s \in Sets : RemoveListing(u, s)
    \/ \E s \in Sets : ReadSet(s)
    \/ FindGhosts \/ RemoveGhosts

-----------------------------------------------------------------------------
TribeNext ==
    \/ /\ MembershipNext \/ EditNext \/ BootNext \/ AnonymizeNext
       /\ UNCHANGED <<post, presenceVars>>
    \/ (ChatNext \/ BroadcastNext) /\ UNCHANGED <<membershipVars, presenceVars>>
    \/ PresenceNext /\ UNCHANGED <<membershipVars, post>>

-----------------------------------------------------------------------------
(* A user changes tribe once per cooldown at most, whatever requests overlap, unless *)
(* a boot or an erasure has taken its tribe away: Join looks at tribe_id and not at  *)
(* tribe_switched_at (store.go Join, Switch; the first tribe counts, Join stamps     *)
(* it too).                                                                   *)
SwitchesAreSpaced == \A u \in Members \ unseated : moves[u].made <= 1 + moves[u].passed

(* A tribe is open or closed as an admin asked last, except when two edits         *)
(* overlapped (an edit of the name writes back the is_active it has read) or a boot  *)
(* has written the tribe of tribes.json since (store.go UpsertSeedTribe).          *)
EditsAreKept ==
    \A t \in Clubs :
        tribe[t].active # setTo[t] =>
            \/ t \in overlap \cup reseeded
            \/ \E a \in Admins : patch[a].at = "write" /\ patch[a].on = t

(* Who is online is listed, in the users and in the tribe of the key, unless a       *)
(* prune took the user for a ghost and then removed it, or a clear removed it after   *)
(* a heartbeat had come between its commands; the next heartbeat lists it again       *)
(* (tracker.go Heartbeat, pruneSet, ClearUser).                                  *)
OnlineAreListed ==
    \A u \in Members : \A s \in Sets :
        key[u] # Absent /\ s \in {"users", key[u]} => u \in online[s] \/ <<s, u>> \in swept

(* Tribes keep their members, and show who of them is there.                     *)
TribesKeepTheirMembers ==
    SwitchesAreSpaced /\ EditsAreKept /\ OnlineAreListed
=============================================================================
