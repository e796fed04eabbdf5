------------------------------- MODULE SignIn -------------------------------
(***************************************************************************)
(* Signing in (backend/internal/auth, admin/impersonate.go): one-time codes,  *)
(* registration, login, social login with its OTP-confirmed merge, and the    *)
(* opaque session tokens.                                                    *)
(*                                                                         *)
(* users and social_identities are in PostgreSQL; codes, verified markers,    *)
(* merge tokens and sessions are in Redis, each read or written by a command  *)
(* of its own.  A call is one HTTP request; its steps are where other calls   *)
(* get in between.  The OTP cooldown only spaces requests in time, so a new   *)
(* code may be requested at any moment; the caller who was sent a code sends  *)
(* it back (a wrong one changes nothing).                                    *)
(***************************************************************************)
EXTENDS Naturals, FiniteSets

CONSTANTS
    Users,          \* users.id
    Phones,         \* E.164 numbers
    Emails,
    Identities,     \* (provider, subject) of Google and Apple accounts
    ClaimedPhone, ClaimedEmail,     \* verified claims of each identity's token
    Calls,          \* requests that may open a session (bound)
    Revokers,       \* processes that run RevokeAll
    None,           \* NULL, redis.Nil
    MaxCodes        \* bound on the codes sent per phone

ASSUME SignInAssumption ==
    /\ ClaimedPhone \in [Identities -> Phones \cup {None}]
    /\ ClaimedEmail \in [Identities -> Emails \cup {None}]
    /\ None \notin Users \cup Phones \cup Emails \cup Identities
    /\ MaxCodes \in Nat

VARIABLES
    user,       \* rows of users: status, phone, email; "none" before the INSERT
    firstPhone, \* the phone a user registered with (a history variable)
    link,       \* social_identities: the user of each identity
    mergedBy,   \* the phone whose marker a merge consumed (history)
    code, sent, \* otp:{phone}, and the number of codes sent
    verified,   \* otp_verified:{phone}
    proofs, uses, \* successful verifications and consumptions (history)
    mergeToken, \* merge:{token}, named by the call that stored it
    session,    \* session:{token} and its place in user_sessions:{user},
                \* named by the call that opened it
    call,       \* progress of each request
    revoking    \* RevokeAll in progress: the user and the tokens listed

accountVars == <<user, firstPhone, link, mergedBy>>
otpVars == <<code, sent, verified, proofs, uses>>
sessionVars == <<session, revoking>>
signInVars == <<accountVars, otpVars, sessionVars, mergeToken, call>>

UserStatuses == {"none", "active", "banned", "shadow_banned", "erased"}
CallSteps == {"new", "verify", "login", "register", "create", "link", "merge",
              "take", "mergeLink", "session", "done"}

SignInTypeOK ==
    /\ user \in [Users -> [status : UserStatuses, phone : Phones \cup {None},
                           email : Emails \cup {None}]]
    /\ firstPhone \in [Users -> Phones \cup {None}]
    /\ link \in [Identities -> Users \cup {None}]
    /\ mergedBy \in [Identities -> Phones \cup {None}]
    /\ code \in [Phones -> 0..MaxCodes] /\ sent \in [Phones -> 0..MaxCodes]
    /\ verified \in [Phones -> BOOLEAN]
    /\ proofs \in [Phones -> Nat] /\ uses \in [Phones -> Nat]
    /\ mergeToken \in [Calls -> [user : Users, ident : Identities] \cup {None}]
    /\ session \in [Calls -> [user : Users, indexed : BOOLEAN, raced : BOOLEAN]
                             \cup {None}]
    /\ call \in [Calls -> [at : CallSteps, phone : Phones \cup {None},
                           ident : Identities \cup {None}, user : Users \cup {None},
                           token : Calls \cup {None}]]
    /\ revoking \in [Revokers -> [user : Users, listed : SUBSET Calls] \cup {None}]

(* The users registered by phone, and the calls that have opened a session: the *)
(* initial state of the database, or one some registrations later.            *)
SignInInit(phone, opened) ==
    /\ user = [u \in Users |->
           [status |-> IF phone[u] = None THEN "none" ELSE "active",
            phone |-> phone[u], email |-> None]]
    /\ firstPhone = phone
    /\ link = [i \in Identities |-> None] /\ mergedBy = [i \in Identities |-> None]
    /\ code = [p \in Phones |-> 0] /\ sent = [p \in Phones |-> 0]
    /\ verified = [p \in Phones |-> FALSE]
    /\ proofs = [p \in Phones |-> 0] /\ uses = [p \in Phones |-> 0]
    /\ mergeToken = [c \in Calls |-> None]
    /\ session = [c \in Calls |-> IF opened[c] = None THEN None
                   ELSE [user |-> opened[c], indexed |-> TRUE, raced |-> FALSE]]
    /\ call = [c \in Calls |-> [at |-> IF opened[c] = None THEN "new" ELSE "done",
                   phone |-> None, ident |-> None, user |-> opened[c], token |-> None]]
    /\ revoking = [r \in Revokers |-> None]

-----------------------------------------------------------------------------
Exists(u) == user[u].status # "none"

FindByPhone(p) == {u \in Users : user[u].phone = p}

FindByEmail(e) == {u \in Users : user[u].email = e}

(* The account a social login would collide with: by email, then by phone.   *)
FindMatchingUser(i) ==
    LET byEmail == IF ClaimedEmail[i] = None THEN {} ELSE FindByEmail(ClaimedEmail[i])
        byPhone == IF ClaimedPhone[i] = None THEN {} ELSE FindByPhone(ClaimedPhone[i])
    IN  IF byEmail # {} THEN byEmail ELSE byPhone

(* The middleware of every signed-in route; it lets all but banned users in.  *)
RequireSession(u) ==
    /\ \E c \in Calls : session[c] # None /\ session[c].user = u
    /\ user[u].status # "banned"

At(c, step) == call[c].at = step
Step(c, step) == call' = [call EXCEPT ![c].at = step]

RequestOTP(p) ==
    /\ sent[p] < MaxCodes
    /\ sent' = [sent EXCEPT ![p] = @ + 1]
    /\ code' = [code EXCEPT ![p] = sent[p] + 1]
    /\ UNCHANGED <<accountVars, verified, proofs, uses, sessionVars, mergeToken, call>>

(* A code or a marker reaches its TTL.                                        *)
ExpireOTP(p) ==
    /\ \/ code[p] # 0 /\ code' = [code EXCEPT ![p] = 0] /\ UNCHANGED verified
       \/ verified[p] /\ verified' = [verified EXCEPT ![p] = FALSE] /\ UNCHANGED code
    /\ UNCHANGED <<accountVars, sent, proofs, uses, sessionVars, mergeToken, call>>

(* VerifyOTP reads and compares the code ...                                  *)
ReadCode(c, p) ==
    /\ At(c, "new")
    /\ code[p] # 0
    /\ call' = [call EXCEPT ![c].at = "verify", ![c].phone = p]
    /\ UNCHANGED <<accountVars, otpVars, sessionVars, mergeToken>>

(* ... then deletes it and marks the phone verified.                          *)
MarkVerified(c) ==
    LET p == call[c].phone
    IN  /\ At(c, "verify")
        /\ code' = [code EXCEPT ![p] = 0]
        /\ verified' = [verified EXCEPT ![p] = TRUE]
        /\ proofs' = [proofs EXCEPT ![p] = @ + 1]
        /\ Step(c, "done")
        /\ UNCHANGED <<accountVars, sent, uses, sessionVars, mergeToken>>

(* Mutant: the marker is looked up but stays until it expires.                *)
ConsumeVerified_Peek(p) ==
    /\ verified[p]
    /\ uses' = [uses EXCEPT ![p] = @ + 1]
    /\ UNCHANGED <<verified, code, sent, proofs>>

(* One DEL: of several calls for one marker, one gets it.                     *)
ConsumeVerified(p) ==
    /\ verified[p]
    /\ verified' = [verified EXCEPT ![p] = FALSE]
    /\ uses' = [uses EXCEPT ![p] = @ + 1]
    /\ UNCHANGED <<code, sent, proofs>>

Register(c, p) ==
    /\ At(c, "new")
    /\ ConsumeVerified(p)
    /\ call' = [call EXCEPT ![c].at = "register", ![c].phone = p]
    /\ UNCHANGED <<accountVars, sessionVars, mergeToken>>

(* INSERT INTO users; phone and email are unique.                             *)
CreateUser(u, p, e) ==
    /\ ~Exists(u)
    /\ user' = [user EXCEPT ![u] = [status |-> "active", phone |-> p, email |-> e]]
    /\ firstPhone' = [firstPhone EXCEPT ![u] = p]
    /\ UNCHANGED <<link, mergedBy>>

Taken(p, e) ==
    \/ p # None /\ FindByPhone(p) # {}
    \/ e # None /\ FindByEmail(e) # {}

CreateRegistered(c, u) ==
    LET p == call[c].phone
    IN  /\ At(c, "register")
        /\ IF Taken(p, None)
           THEN Step(c, "done") /\ UNCHANGED accountVars
           ELSE /\ CreateUser(u, p, None)
                /\ call' = [call EXCEPT ![c].at = "session", ![c].user = u]
        /\ UNCHANGED <<otpVars, sessionVars, mergeToken>>

(* Login finds the account before it consumes the marker.                     *)
Login(c, p) ==
    /\ At(c, "new")
    /\ \E u \in FindByPhone(p) :
           call' = [call EXCEPT ![c].at = "login", ![c].phone = p, ![c].user = u]
    /\ UNCHANGED <<accountVars, otpVars, sessionVars, mergeToken>>

LoginVerified(c) ==
    /\ At(c, "login")
    /\ \/ ConsumeVerified(call[c].phone) /\ Step(c, "session")
       \/ ~verified[call[c].phone] /\ Step(c, "done") /\ UNCHANGED otpVars
    /\ UNCHANGED <<accountVars, sessionVars, mergeToken>>

(* Mutant: the token is stored but not added to the user's index.             *)
CreateSession_NotIndexed(c) ==
    LET u == call[c].user
    IN  /\ session' = [session EXCEPT ![c] =
              [user |-> u, indexed |-> FALSE,
               raced |-> \E r \in Revokers : revoking[r] # None /\ revoking[r].user = u]]
        /\ UNCHANGED revoking

(* SET session, SADD index and EXPIRE in one MULTI; the index lives as long as *)
(* its newest token.                                                          *)
CreateSession(c) ==
    LET u == call[c].user
    IN  /\ session' = [session EXCEPT ![c] =
              [user |-> u, indexed |-> TRUE,
               raced |-> \E r \in Revokers : revoking[r] # None /\ revoking[r].user = u]]
        /\ UNCHANGED revoking

OpenSession(c) ==
    /\ At(c, "session")
    /\ CreateSession(c)
    /\ Step(c, "done")
    /\ UNCHANGED <<accountVars, otpVars, mergeToken>>

ExpireSession(c) ==
    /\ session[c] # None
    /\ session' = [session EXCEPT ![c] = None]
    /\ UNCHANGED <<accountVars, otpVars, mergeToken, call, revoking>>

(* An administrator opens a session of any existing user.                     *)
Impersonate(c, u) ==
    /\ At(c, "new")
    /\ Exists(u)
    /\ call' = [call EXCEPT ![c].at = "session", ![c].user = u]
    /\ UNCHANGED <<accountVars, otpVars, sessionVars, mergeToken>>

(* A linked identity signs in; one whose email or phone belongs to an account *)
(* gets a merge token; any other one registers.                              *)
SocialLogin(c, i) ==
    /\ At(c, "new")
    /\ \/ /\ link[i] # None
          /\ call' = [call EXCEPT ![c].at = "session", ![c].user = link[i]]
          /\ UNCHANGED mergeToken
       \/ /\ link[i] = None
          /\ \E u \in FindMatchingUser(i) :
                 mergeToken' = [mergeToken EXCEPT ![c] = [user |-> u, ident |-> i]]
          /\ Step(c, "done")
       \/ /\ link[i] = None /\ FindMatchingUser(i) = {}
          /\ call' = [call EXCEPT ![c].at = "create", ![c].ident = i]
          /\ UNCHANGED mergeToken
    /\ UNCHANGED <<accountVars, otpVars, sessionVars>>

CreateSocial(c, u) ==
    LET i == call[c].ident
    IN  /\ At(c, "create")
        /\ IF Taken(ClaimedPhone[i], ClaimedEmail[i])
           THEN Step(c, "done") /\ UNCHANGED accountVars
           ELSE /\ CreateUser(u, ClaimedPhone[i], ClaimedEmail[i])
                /\ call' = [call EXCEPT ![c].at = "link", ![c].user = u]
        /\ UNCHANGED <<otpVars, sessionVars, mergeToken>>

(* The identity is unique in social_identities.                               *)
LinkSocialIdentity(i, u, p) ==
    /\ link[i] = None
    /\ link' = [link EXCEPT ![i] = u]
    /\ mergedBy' = [mergedBy EXCEPT ![i] = p]

LinkCreated(c) ==
    LET i == call[c].ident
    IN  /\ At(c, "link")
        /\ \/ LinkSocialIdentity(i, call[c].user, None) /\ Step(c, "session")
           \/ link[i] # None /\ Step(c, "done") /\ UNCHANGED <<link, mergedBy>>
        /\ UNCHANGED <<user, firstPhone, otpVars, sessionVars, mergeToken>>

(* Merge: the phone's marker, then the token, then the phone's account, which *)
(* must be the account the token was made for.                                *)
Merge(c, p, t) ==
    /\ At(c, "new")
    /\ ConsumeVerified(p)
    /\ call' = [call EXCEPT ![c].at = "merge", ![c].phone = p, ![c].token = t]
    /\ UNCHANGED <<accountVars, sessionVars, mergeToken>>

ReadMergeToken(c) ==
    LET t == call[c].token
    IN  /\ At(c, "merge")
        /\ IF mergeToken[t] = None THEN Step(c, "done")
           ELSE call' = [call EXCEPT ![c].at = "take", ![c].user = mergeToken[t].user,
                                     ![c].ident = mergeToken[t].ident]
        /\ UNCHANGED <<accountVars, otpVars, sessionVars, mergeToken>>

(* Mutant: any account may own the verified phone.                            *)
TakeMergeToken_AnyPhone(c) ==
    /\ At(c, "take")
    /\ mergeToken' = [mergeToken EXCEPT ![call[c].token] = None]
    /\ Step(c, "mergeLink")
    /\ UNCHANGED <<accountVars, otpVars, sessionVars>>

TakeMergeToken(c) ==
    /\ At(c, "take")
    /\ mergeToken' = [mergeToken EXCEPT ![call[c].token] = None]
    /\ Step(c, IF call[c].user \in FindByPhone(call[c].phone) THEN "mergeLink" ELSE "done")
    /\ UNCHANGED <<accountVars, otpVars, sessionVars>>

(* The email is set only where there is none; the link may meet another one.  *)
LinkMerged(c) ==
    LET i == call[c].ident
        u == call[c].user
        e == ClaimedEmail[i]
    IN  /\ At(c, "mergeLink")
        /\ user' = IF user[u].email = None /\ ~Taken(None, e)
                   THEN [user EXCEPT ![u].email = e] ELSE user
        /\ \/ LinkSocialIdentity(i, u, call[c].phone) /\ Step(c, "session")
           \/ link[i] # None /\ Step(c, "done") /\ UNCHANGED <<link, mergedBy>>
        /\ UNCHANGED <<firstPhone, otpVars, sessionVars, mergeToken>>

(* RevokeAll lists the tokens of the index ...                                *)
ListTokens(r, u) ==
    /\ revoking[r] = None
    /\ revoking' = [revoking EXCEPT ![r] = [user |-> u,
           listed |-> {c \in Calls : session[c] # None /\ session[c].user = u
                                                       /\ session[c].indexed}]]
    /\ UNCHANGED session

(* ... then deletes the tokens it listed, and the whole index.                *)
DeleteTokens(r) ==
    /\ revoking[r] # None
    /\ session' = [c \in Calls |->
           IF c \in revoking[r].listed THEN None
           ELSE IF session[c] # None /\ session[c].user = revoking[r].user
           THEN [session[c] EXCEPT !.indexed = FALSE] ELSE session[c]]
    /\ revoking' = [revoking EXCEPT ![r] = None]

CodeNext ==
    \/ \E p \in Phones : RequestOTP(p) \/ ExpireOTP(p)
    \/ \E c \in Calls : MarkVerified(c) \/ \E p \in Phones : ReadCode(c, p)

AccountNext ==
    \E c \in Calls :
        \/ \E p \in Phones : Register(c, p) \/ Login(c, p)
        \/ \E u \in Users : CreateRegistered(c, u) \/ CreateSocial(c, u)
        \/ \E i \in Identities : SocialLogin(c, i)
        \/ \E p \in Phones, t \in Calls : Merge(c, p, t)
        \/ LoginVerified(c) \/ LinkCreated(c) \/ ReadMergeToken(c) \/ TakeMergeToken(c)
        \/ LinkMerged(c)

SessionNext ==
    \E c \in Calls :
        \/ OpenSession(c) \/ ExpireSession(c)
        \/ \E u \in Users : Impersonate(c, u)

-----------------------------------------------------------------------------
(* A verified marker opens at most one registration, login or merge, however  *)
(* the calls of ConsumeVerified overlap (otp.go: "deletes the verified marker *)
(* if present").                                                             *)
VerificationsAreSpentOnce == \A p \in Phones : uses[p] <= proofs[p]

(* A merge links an identity only to the account that registered the phone    *)
(* whose code was verified, however stale the token is (social.go: "confirms  *)
(* linking after OTP verification on the existing phone account").            *)
MergesFollowThePhone ==
    \A i \in Identities :
        mergedBy[i] # None => link[i] = None \/ firstPhone[link[i]] = mergedBy[i]

(* A live session that no later revocation can find was opened while another  *)
(* revocation of its user was between its two steps.                          *)
SessionsAreRevocable ==
    \A c \in Calls : session[c] # None => session[c].indexed \/ session[c].raced
=============================================================================
