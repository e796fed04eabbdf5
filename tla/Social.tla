------------------------------- MODULE Social -------------------------------
(***************************************************************************)
(* Relations between users, direct messages, reactions and referral rewards   *)
(* (backend/internal/social).                                                *)
(*                                                                         *)
(* user_relations holds friend requests, friendships (a row each way, always  *)
(* written and deleted together), blocks and mutes.  Accepting a request and  *)
(* blocking a user are transactions; creating a request and sending a message  *)
(* are tests followed by an INSERT.  A referral is redeemed in a transaction   *)
(* that pays both sides; its tests come before it.                            *)
(***************************************************************************)
EXTENDS SignIn

CONSTANTS
    Restricted,     \* users under age (auth.IsRestricted)
    Devices,        \* device fingerprints
    Redemptions,    \* POST /v1/referrals/redeem requests (bound)
    MaxMessages     \* bound on the direct messages sent

ASSUME SocialAssumption ==
    /\ Restricted \subseteq Users
    /\ MaxMessages \in Nat
    /\ IsFiniteSet(Redemptions)

VARIABLES
    requests, friends, blocks, mutes,   \* rows of user_relations, by type
    creating,   \* friend requests between their tests and the INSERT
    accepting,  \* requests whose row an accept transaction has locked, and whether
                \* a block of the pair has committed since
    blocking,   \* open block transactions, and the rows their DELETE has found
    raced,      \* friendships made while a block of the pair was open (history)
    sending, messages, reactions,
    device,     \* user_device_fingerprints
    redemption, \* the redeem requests; committed ones are referral_redemptions
    paid        \* referral rows of credit_ledger

friendVars == <<requests, friends, blocks, mutes, creating, accepting, blocking, raced>>
messageVars == <<sending, messages, reactions>>
referralVars == <<device, redemption, paid>>
socialVars == <<friendVars, messageVars, referralVars>>

Directed == {p \in Users \X Users : p[1] # p[2]}
Reverse2(p) == <<p[2], p[1]>>
PairOf(p) == {p[1], p[2]}
RedeemSteps == {"new", "checked", "inserted", "granted", "flagged", "failed", "erased"}

SocialTypeOK ==
    /\ requests \subseteq Directed /\ blocks \subseteq Directed
    /\ mutes \subseteq Directed /\ creating \subseteq Directed
    /\ friends \subseteq {PairOf(p) : p \in Directed} /\ raced \subseteq friends
    /\ accepting \in [Directed -> {"no", "open", "raced"}]
    /\ blocking \in [Directed -> [rows : SUBSET Directed, friends : BOOLEAN] \cup {None}]
    /\ sending \subseteq Directed /\ reactions \subseteq Users
    /\ messages \in [Directed -> 0..MaxMessages]
    /\ device \in [Users -> SUBSET Devices]
    /\ redemption \in [Redemptions ->
           [at : RedeemSteps, referee : Users, referrer : Users, device : Devices,
            suspicious : BOOLEAN, twins : SUBSET Redemptions] \cup {None}]
    /\ paid \in [Users -> Nat]

SocialInit ==
    /\ requests = {} /\ friends = {} /\ blocks = {} /\ mutes = {}
    /\ creating = {} /\ raced = {}
    /\ accepting = [p \in Directed |-> "no"]
    /\ blocking = [p \in Directed |-> None]
    /\ sending = {} /\ reactions = {}
    /\ messages = [p \in Directed |-> 0]
    /\ device = [u \in Users |-> {}]
    /\ redemption = [r \in Redemptions |-> None]
    /\ paid = [u \in Users |-> 0]

-----------------------------------------------------------------------------
IsBlocked(p) == p \in blocks \/ Reverse2(p) \in blocks
AreFriends(p) == PairOf(p) \in friends
Locked == {p \in Directed : accepting[p] # "no"}
Open(p) == blocking[p] # None
BlockOpen(p) == Open(p) \/ Open(Reverse2(p))

(* Rows that go, and those of pair, are gone for the open blocks as well.     *)
RowsGone(rows, pair) ==
    blocking' = [q \in Directed |-> IF blocking[q] = None THEN None ELSE
        [rows |-> blocking[q].rows \ rows,
         friends |-> blocking[q].friends /\ PairOf(q) # pair]]

Accepting(p, how) == accepting' = [accepting EXCEPT ![p] = how]

(* POST /v1/friends/requests: not blocked, not friends ...                    *)
CreateFriendRequest(p) ==
    /\ RequireSession(p[1])
    /\ p \notin creating
    /\ ~IsBlocked(p) /\ ~AreFriends(p)
    /\ creating' = creating \cup {p}
    /\ UNCHANGED <<requests, friends, blocks, mutes, accepting, blocking, raced>>

(* ... then the INSERT, whatever has happened to the pair since.              *)
InsertFriendRequest(p) ==
    /\ p \in creating
    /\ creating' = creating \ {p}
    /\ requests' = requests \cup {p}
    /\ UNCHANGED <<friends, blocks, mutes, accepting, blocking, raced>>

(* Mutant: the block is not tested again when a request is accepted.          *)
AcceptFriendRequest_Unchecked(p) ==
    /\ RequireSession(p[2])
    /\ p \in requests \ Locked
    /\ Accepting(p, "open")
    /\ UNCHANGED <<requests, friends, blocks, mutes, creating, blocking, raced>>

(* SELECT ... FOR UPDATE of the request, and the block test.                   *)
AcceptFriendRequest(p) ==
    /\ RequireSession(p[2])
    /\ p \in requests \ Locked
    /\ ~IsBlocked(p)
    /\ Accepting(p, "open")
    /\ UNCHANGED <<requests, friends, blocks, mutes, creating, blocking, raced>>

(* The request and the reverse one, if any, become a friendship.  An accept of *)
(* the reverse request holds its row, so this one has to wait for it.         *)
CommitAccept(p) ==
    /\ p \in Locked
    /\ Reverse2(p) \notin Locked
    /\ requests' = requests \ {p, Reverse2(p)}
    /\ friends' = friends \cup {PairOf(p)}
    /\ raced' = IF BlockOpen(p) \/ accepting[p] = "raced" THEN raced \cup {PairOf(p)} ELSE raced
    /\ Accepting(p, "no")
    /\ RowsGone({p, Reverse2(p)}, {})
    /\ UNCHANGED <<blocks, mutes, creating>>

(* An error, or the victim of the deadlock of two accepts of one pair.        *)
AbortAccept(p) ==
    /\ p \in Locked
    /\ Accepting(p, "no")
    /\ UNCHANGED <<requests, friends, blocks, mutes, creating, blocking, raced>>

(* Reject by the addressee, Cancel by the sender: one DELETE that waits for a   *)
(* locked row.                                                                *)
DeleteRequest(p) ==
    /\ RequireSession(p[1]) \/ RequireSession(p[2])
    /\ p \in requests \ Locked
    /\ requests' = requests \ {p}
    /\ RowsGone({p}, {})
    /\ UNCHANGED <<friends, blocks, mutes, creating, accepting, raced>>

Unfriend(p) ==
    /\ RequireSession(p[1])
    /\ AreFriends(p)
    /\ friends' = friends \ {PairOf(p)}
    /\ raced' = raced \ {PairOf(p)}
    /\ RowsGone({}, PairOf(p))
    /\ UNCHANGED <<requests, blocks, mutes, creating, accepting>>

(* The DELETE of a block finds the pair's rows as they are when it starts ...  *)
Block(p) ==
    /\ RequireSession(p[1])
    /\ ~Open(p)
    /\ blocking' = [blocking EXCEPT ![p] =
           [rows |-> {p, Reverse2(p)} \cap requests, friends |-> AreFriends(p)]]
    /\ UNCHANGED <<requests, friends, blocks, mutes, creating, accepting, raced>>

(* ... waits for the locked ones, and commits with the INSERT.                *)
CommitBlock(p) ==
    LET ended == IF blocking[p].friends THEN {PairOf(p)} ELSE {}
    IN  /\ Open(p)
        /\ blocking[p].rows \cap Locked = {}
        /\ p \notin blocks
        /\ blocks' = blocks \cup {p}
        /\ requests' = requests \ blocking[p].rows
        /\ mutes' = mutes \ {p, Reverse2(p)}
        /\ friends' = friends \ ended
        /\ raced' = raced \ ended
        /\ accepting' = [q \in Directed |->
               IF q \in Locked /\ PairOf(q) = PairOf(p) THEN "raced" ELSE accepting[q]]
        /\ blocking' = [q \in Directed |->
               IF q = p \/ ~Open(q) THEN None ELSE
               [rows |-> blocking[q].rows \ blocking[p].rows,
                friends |-> blocking[q].friends /\ PairOf(q) \notin ended]]
        /\ UNCHANGED creating

(* An error; the INSERT fails on a user who is blocked already, and with it the *)
(* DELETE.                                                                    *)
AbortBlock(p) ==
    /\ Open(p)
    /\ blocking' = [blocking EXCEPT ![p] = None]
    /\ UNCHANGED <<requests, friends, blocks, mutes, creating, accepting, raced>>

Unblock(p) ==
    /\ RequireSession(p[1])
    /\ p \in blocks
    /\ blocks' = blocks \ {p}
    /\ UNCHANGED <<requests, friends, mutes, creating, accepting, blocking, raced>>

(* Mute and Unmute.                                                           *)
SetMuted(p) ==
    /\ RequireSession(p[1])
    /\ mutes' = IF p \in mutes THEN mutes \ {p} ELSE mutes \cup {p}
    /\ UNCHANGED <<requests, friends, blocks, creating, accepting, blocking, raced>>

FriendNext ==
    \E p \in Directed :
        \/ CreateFriendRequest(p) \/ InsertFriendRequest(p) \/ AcceptFriendRequest(p)
        \/ CommitAccept(p) \/ AbortAccept(p) \/ DeleteRequest(p) \/ Unfriend(p)
        \/ Block(p) \/ CommitBlock(p) \/ AbortBlock(p) \/ Unblock(p) \/ SetMuted(p)

-----------------------------------------------------------------------------
(* SendDM: a restricted user writes to friends only ...                       *)
SendDM(p) ==
    /\ RequireSession(p[1])
    /\ Exists(p[2])
    /\ p \notin sending
    /\ ~IsBlocked(p)
    /\ p[1] \in Restricted => AreFriends(p)
    /\ sending' = sending \cup {p}
    /\ UNCHANGED <<messages, reactions>>

(* ... and the INSERT follows the classifier; both channels get the message.   *)
InsertMessage(p) ==
    /\ p \in sending
    /\ sending' = sending \ {p}
    /\ messages' = IF messages[p] < MaxMessages THEN [messages EXCEPT ![p] = @ + 1]
                   ELSE messages
    /\ UNCHANGED reactions

UpsertReaction(u) ==
    /\ RequireSession(u)
    /\ reactions' = reactions \cup {u}
    /\ UNCHANGED <<sending, messages>>

DeleteReaction(u) ==
    /\ RequireSession(u)
    /\ u \in reactions
    /\ reactions' = reactions \ {u}
    /\ UNCHANGED <<sending, messages>>

MessageNext ==
    \/ \E p \in Directed : SendDM(p) \/ InsertMessage(p)
    \/ \E u \in Users : UpsertReaction(u) \/ DeleteReaction(u)

-----------------------------------------------------------------------------
Stage(r, step) == redemption[r] # None /\ redemption[r].at = step
Redeemed == {r \in Redemptions : Stage(r, "granted") \/ Stage(r, "flagged")}
RedeemStep(r, step) == redemption' = [redemption EXCEPT ![r].at = step]

(* isSameDevice: the referrer's device, or that of an earlier redemption.     *)
IsSameDevice(referrer, d) ==
    d \in device[referrer] \/ \E r \in Redeemed : redemption[r].device = d

(* The tests of Redeem, each a query of its own.  A twin is a redemption that  *)
(* was under way then (history).                                              *)
Redeem(r, referee, referrer, d) ==
    /\ RequireSession(referee)
    /\ redemption[r] = None
    /\ referee # referrer /\ Exists(referrer)
    /\ \A q \in Redeemed : redemption[q].referee # referee
    /\ ~IsBlocked(<<referrer, referee>>)
    /\ redemption' = [redemption EXCEPT ![r] =
           [at |-> "checked", referee |-> referee, referrer |-> referrer, device |-> d,
            suspicious |-> IsSameDevice(referrer, d),
            twins |-> {q \in Redemptions : Stage(q, "checked") \/ Stage(q, "inserted")}]]
    /\ UNCHANGED <<device, paid>>

(* Mutant: a referee may have several rows.                                   *)
InsertRedemption_NotUnique(r) ==
    /\ Stage(r, "checked")
    /\ RedeemStep(r, "inserted")
    /\ UNCHANGED <<device, paid>>

(* The INSERT (referee_id is unique: a second one waits for the first, and      *)
(* fails if that commits), then the referrer's account row is locked.          *)
InsertRedemption(r) ==
    LET mine(q) == redemption[q].referee = redemption[r].referee
        holds(q) == redemption[q].referrer = redemption[r].referrer
    IN  /\ Stage(r, "checked")
        /\ \A q \in Redemptions : Stage(q, "inserted") => ~mine(q)
        /\ IF \E q \in Redeemed : mine(q) THEN RedeemStep(r, "failed")
           ELSE /\ redemption[r].suspicious \/
                       \A q \in Redemptions : Stage(q, "inserted") /\ ~redemption[q].suspicious
                                              => ~holds(q)
                /\ RedeemStep(r, "inserted")
        /\ UNCHANGED <<device, paid>>

(* A suspicious redemption is flagged for moderation and pays nothing; any      *)
(* other locks the referee's account too, which a redemption the other way     *)
(* round holds as its referrer's, and pays both.                              *)
CommitRedemption(r) ==
    LET row == redemption[r]
    IN  /\ Stage(r, "inserted")
        /\ device' = [device EXCEPT ![row.referee] = @ \cup {row.device}]
        /\ IF row.suspicious
           THEN RedeemStep(r, "flagged") /\ UNCHANGED paid
           ELSE /\ \A q \in Redemptions : Stage(q, "inserted") /\ ~redemption[q].suspicious
                                          => redemption[q].referrer # row.referee
                /\ RedeemStep(r, "granted")
                /\ paid' = [paid EXCEPT ![row.referrer] = @ + 1, ![row.referee] = @ + 1]

(* An error, or the victim of the deadlock of two mutual redemptions.         *)
AbortRedemption(r) ==
    /\ Stage(r, "inserted")
    /\ RedeemStep(r, "failed")
    /\ UNCHANGED <<device, paid>>

ReferralNext ==
    \E r \in Redemptions :
        \/ \E referee, referrer \in Users, d \in Devices : Redeem(r, referee, referrer, d)
        \/ InsertRedemption(r) \/ CommitRedemption(r) \/ AbortRedemption(r)

(* The erasure cascade deletes the user's rows of every table above.          *)
DeleteSocialOf(u) ==
    /\ \A p \in Locked : u \notin PairOf(p)
    /\ \A r \in Redemptions : Stage(r, "inserted") =>
           u \notin {redemption[r].referee, redemption[r].referrer}
    /\ requests' = {p \in requests : u \notin PairOf(p)}
    /\ friends' = {f \in friends : u \notin f}
    /\ raced' = {f \in raced : u \notin f}
    /\ blocks' = {p \in blocks : u \notin PairOf(p)}
    /\ mutes' = {p \in mutes : u \notin PairOf(p)}
    /\ messages' = [p \in Directed |-> IF u \in PairOf(p) THEN 0 ELSE messages[p]]
    /\ reactions' = reactions \ {u}
    /\ device' = [device EXCEPT ![u] = {}]
    /\ paid' = [paid EXCEPT ![u] = 0]
    /\ redemption' = [r \in Redemptions |->
           IF r \in Redeemed /\ u \in {redemption[r].referee, redemption[r].referrer}
           THEN [redemption[r] EXCEPT !.at = "erased"] ELSE redemption[r]]
    /\ UNCHANGED <<creating, accepting, blocking, sending>>

-----------------------------------------------------------------------------
(* Two users of whom one blocks the other are not friends, except when the      *)
(* block and the accept of a request were transactions at the same time        *)
(* (friends.go Block: deletes friendships and requests of both directions).   *)
BlockingEndsFriendship ==
    \A p \in blocks : AreFriends(p) => PairOf(p) \in raced

(* A referee is rewarded by one redemption, which pays both sides or neither;   *)
(* one device earns two rewards only when the two redemptions were tested at    *)
(* the same time (referral.go: "same-device fraud checks").                   *)
ReferralsPayOnce ==
    LET granted == {r \in Redemptions : Stage(r, "granted")}
    IN  /\ \A r, q \in granted : r # q =>
               /\ redemption[r].referee # redemption[q].referee
               /\ redemption[r].device = redemption[q].device =>
                      q \in redemption[r].twins \/ r \in redemption[q].twins
        /\ \A u \in Users :
               paid[u] >= Cardinality({r \in granted : u \in {redemption[r].referee,
                                                             redemption[r].referrer}})
=============================================================================
