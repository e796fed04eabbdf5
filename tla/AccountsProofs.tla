---------------------------- MODULE AccountsProofs ----------------------------
(***************************************************************************)
(* The account modules for any number of users, calls, workers and moderators:    *)
(* markers are spent once, sessions stay within reach of a revocation, a merge     *)
(* links the account of the verified phone, a block ends a friendship, an erasure   *)
(* leaves nothing, the audit log explains the decisions, and a referral pays once.  *)
(* The types of the account tables come last.                                    *)
(***************************************************************************)
EXTENDS Accounts, FiniteSetTheorems, TLAPS

-----------------------------------------------------------------------------
(* Who moves which part of the state.                                         *)

LEMMA ErasureFrame ==
    ASSUME ErasureStep PROVE UNCHANGED otpVars
  <1>1. ASSUME NEW j \in Jobs, NEW u \in Users, Request(j, u) PROVE UNCHANGED otpVars
    BY <1>1 DEF Request, signInVars
  <1>2. ASSUME NEW w \in Workers, EraseRows(w) \/ EraseUser(w) PROVE UNCHANGED otpVars
    BY <1>2 DEF EraseRows, EraseUser, DeletePostgresCascade, AnonymizeUser
  <1>3. ASSUME NEW w \in Workers,
               ClaimNext(w) \/ RunOtherStep(w) \/ MarkStepDone(w) \/ MarkCompleted(w)
        PROVE UNCHANGED otpVars
    BY <1>3 DEF ClaimNext, RunOtherStep, MarkStepDone, MarkCompleted, signInVars
  <1>4. ASSUME NEW w \in Workers,
               StartRedisCleanup(w) \/ FinishRedisCleanup(w) \/ FailStep(w) \/ Crash(w)
        PROVE UNCHANGED otpVars
    BY <1>4 DEF StartRedisCleanup, FinishRedisCleanup, FailStep, Crash
  <1> QED BY <1>1, <1>2, <1>3, <1>4 DEF ErasureStep

LEMMA ModerationFrame ==
    ASSUME QueueNext \/ StatusNext PROVE UNCHANGED <<otpVars, sessionVars>>
  <1>1. ASSUME NEW m \in Moderators, NEW i \in Items, NEW to \in Verdicts,
               ResolveAppeal(m, i, to) \/ ResolveReport(m, i, to) \/ ResolveFlag(m, i, to)
        PROVE UNCHANGED <<otpVars, sessionVars>>
    BY <1>1 DEF ResolveAppeal, ResolveReport, ResolveFlag, signInVars
  <1>2. ASSUME NEW m \in Moderators, CommitItem(m) \/ CommitStatus(m) \/ RollBack(m)
        PROVE UNCHANGED <<otpVars, sessionVars>>
    BY <1>2 DEF CommitItem, CommitStatus, RollBack, signInVars
  <1>3. ASSUME NEW m \in Moderators, NEW u \in Users, NEW to \in SetStatuses, SetStatus(m, u, to)
        PROVE UNCHANGED <<otpVars, sessionVars>>
    BY <1>3 DEF SetStatus, signInVars
  <1>4. ASSUME UNCHANGED signInVars PROVE UNCHANGED <<otpVars, sessionVars>>
    BY <1>4 DEF signInVars
  <1> QED BY <1>1, <1>2, <1>3, <1>4 DEF QueueNext, StatusNext

LEMMA ConsentFrame ==
    ASSUME ConsentNext PROVE UNCHANGED <<otpVars, sessionVars>>
  BY DEF ConsentNext, GrantConsent, Withdraw, StopTracking, signInVars

-----------------------------------------------------------------------------
(* A marker that is there has a verification that was not used yet.            *)
MarkerInv ==
    /\ verified \in [Phones -> BOOLEAN]
    /\ proofs \in [Phones -> Nat] /\ uses \in [Phones -> Nat]
    /\ \A p \in Phones : /\ uses[p] <= proofs[p]
                         /\ verified[p] => uses[p] < proofs[p]

LEMMA MarkersStart ==
    ASSUME NEW phone, NEW opened, SignInInit(phone, opened) PROVE MarkerInv
  BY DEF SignInInit, MarkerInv

LEMMA ConsumeKeepsMarkers ==
    ASSUME MarkerInv, NEW p, ConsumeVerified(p) PROVE MarkerInv'
  <1>1. CASE p \in Phones
    BY <1>1 DEF MarkerInv, ConsumeVerified
  <1>2. CASE p \notin Phones
    <2>1. verified' = verified /\ uses' = uses /\ proofs' = proofs
      BY <1>2 DEF MarkerInv, ConsumeVerified
    <2> QED BY <2>1 DEF MarkerInv
  <1> QED BY <1>1, <1>2

LEMMA CodesKeepMarkers ==
    ASSUME MarkerInv, CodeNext PROVE MarkerInv'
  <1>1. ASSUME NEW p \in Phones, RequestOTP(p) PROVE MarkerInv'
    BY <1>1 DEF MarkerInv, RequestOTP
  <1>2. ASSUME NEW p \in Phones, ExpireOTP(p) PROVE MarkerInv'
    BY <1>2 DEF MarkerInv, ExpireOTP
  <1>3. ASSUME NEW c \in Calls, MarkVerified(c) PROVE MarkerInv'
    <2>1. CASE call[c].phone \in Phones
      BY <1>3, <2>1 DEF MarkerInv, MarkVerified
    <2>2. CASE call[c].phone \notin Phones
      <3>1. verified' = verified /\ uses' = uses /\ proofs' = proofs
        BY <1>3, <2>2 DEF MarkerInv, MarkVerified
      <3> QED BY <3>1 DEF MarkerInv
    <2> QED BY <2>1, <2>2
  <1>4. ASSUME NEW c \in Calls, NEW p \in Phones, ReadCode(c, p) PROVE MarkerInv'
    BY <1>4 DEF MarkerInv, ReadCode, otpVars
  <1> QED BY <1>1, <1>2, <1>3, <1>4 DEF CodeNext

LEMMA AccountsMoveMarkers ==
    ASSUME AccountNext
    PROVE  UNCHANGED otpVars \/ \E p : ConsumeVerified(p)
  <1> DEFINE G == UNCHANGED otpVars \/ \E p : ConsumeVerified(p)
  <1>1. ASSUME NEW c \in Calls, NEW p \in Phones, Register(c, p) \/ Login(c, p) PROVE G
    BY <1>1 DEF Register, Login
  <1>2. ASSUME NEW c \in Calls, NEW u \in Users, CreateRegistered(c, u) \/ CreateSocial(c, u)
        PROVE G
    BY <1>2 DEF CreateRegistered, CreateSocial
  <1>3. ASSUME NEW c \in Calls, NEW i \in Identities, SocialLogin(c, i) PROVE G
    BY <1>3 DEF SocialLogin
  <1>4. ASSUME NEW c \in Calls, NEW p \in Phones, NEW t \in Calls, Merge(c, p, t) PROVE G
    BY <1>4 DEF Merge
  <1>5. ASSUME NEW c \in Calls, LoginVerified(c) PROVE G
    BY <1>5 DEF LoginVerified
  <1>6. ASSUME NEW c \in Calls,
               LinkCreated(c) \/ ReadMergeToken(c) \/ TakeMergeToken(c) \/ LinkMerged(c)
        PROVE G
    BY <1>6 DEF LinkCreated, ReadMergeToken, TakeMergeToken, LinkMerged
  <1> QED BY <1>1, <1>2, <1>3, <1>4, <1>5, <1>6 DEF AccountNext

LEMMA MarkersStep ==
    ASSUME MarkerInv, AccountsNext \/ UNCHANGED accountsVars PROVE MarkerInv'
  <1>1. ASSUME UNCHANGED otpVars PROVE MarkerInv'
    BY <1>1 DEF MarkerInv, otpVars
  <1>2. CASE CodeNext
    BY <1>2, CodesKeepMarkers
  <1>3. CASE AccountNext
    BY <1>1, <1>3, AccountsMoveMarkers, ConsumeKeepsMarkers
  <1>4. CASE SessionNext
    BY <1>1, <1>4 DEF SessionNext, OpenSession, ExpireSession, Impersonate
  <1>5. CASE ConsentNext \/ ErasureStep \/ QueueNext \/ StatusNext
    BY <1>1, <1>5, ConsentFrame, ErasureFrame, ModerationFrame
  <1>6. CASE UNCHANGED signInVars
    BY <1>1, <1>6 DEF signInVars
  <1>7. CASE UNCHANGED accountsVars
    BY <1>6, <1>7 DEF accountsVars
  <1> QED BY <1>2, <1>3, <1>4, <1>5, <1>6, <1>7 DEF AccountsNext

LEMMA MarkersKeep == MarkerInv => VerificationsAreSpentOnce
  BY DEF MarkerInv, VerificationsAreSpentOnce

-----------------------------------------------------------------------------
(* Between the two steps of a revocation, a session of its user that it has not  *)
(* listed was opened meanwhile, or was out of reach before and had raced then.   *)
SessionShape ==
    /\ session = [c \in Calls |-> session[c]]
    /\ revoking = [r \in Revokers |-> revoking[r]]
    /\ \A c \in Calls : session[c] # None =>
          /\ session[c] = [user |-> session[c].user, indexed |-> session[c].indexed,
                           raced |-> session[c].raced]
          /\ session[c].indexed \in BOOLEAN /\ session[c].raced \in BOOLEAN

Unlisted(r, c) ==
    /\ revoking[r] # None /\ session[c] # None
    /\ session[c].user = revoking[r].user /\ c \notin revoking[r].listed

SessionInv ==
    /\ SessionShape
    /\ SessionsAreRevocable
    /\ \A r \in Revokers, c \in Calls : Unlisted(r, c) => session[c].raced

LEMMA SessionsStart ==
    ASSUME NEW phone, NEW opened, SignInInit(phone, opened) PROVE SessionInv
  BY DEF SignInInit, SessionInv, SessionShape, Unlisted, SessionsAreRevocable

LEMMA SessionsUnchanged ==
    ASSUME SessionInv, UNCHANGED sessionVars PROVE SessionInv'
  BY DEF sessionVars, SessionInv, SessionShape, Unlisted, SessionsAreRevocable

LEMMA OpenKeepsSessions ==
    ASSUME SessionInv, NEW c \in Calls, CreateSession(c) PROVE SessionInv'
  <1> DEFINE u == call[c].user
  <1>1. PICK race \in BOOLEAN :
            /\ session' = [session EXCEPT ![c] = [user |-> u, indexed |-> TRUE, raced |-> race]]
            /\ race <=> \E r \in Revokers : revoking[r] # None /\ revoking[r].user = u
    BY DEF CreateSession
  <1>2. revoking' = revoking
    BY DEF CreateSession
  <1>3. /\ session'[c] = [user |-> u, indexed |-> TRUE, raced |-> race]
        /\ \A d \in Calls \ {c} : session'[d] = session[d]
        /\ session' = [d \in Calls |-> session'[d]]
    BY <1>1 DEF SessionInv, SessionShape
  <1>4. SessionShape'
    <2>1. revoking' = [r \in Revokers |-> revoking'[r]]
      BY <1>2 DEF SessionInv, SessionShape
    <2>2. ASSUME NEW d \in Calls, session'[d] # None
          PROVE  /\ session'[d] = [user |-> session'[d].user, indexed |-> session'[d].indexed,
                                   raced |-> session'[d].raced]
                 /\ session'[d].indexed \in BOOLEAN /\ session'[d].raced \in BOOLEAN
      <3>1. CASE d = c
        <4>1. session'[d] = [user |-> u, indexed |-> TRUE, raced |-> race]
          BY <1>3, <3>1
        <4>2. race \in BOOLEAN
          BY <1>1
        <4> QED BY <4>1, <4>2
      <3>2. CASE d # c
        BY <1>3, <2>2, <3>2 DEF SessionInv, SessionShape
      <3> QED BY <3>1, <3>2
    <2> QED BY <1>3, <2>1, <2>2 DEF SessionShape
  <1>5. SessionsAreRevocable'
    BY <1>3 DEF SessionInv, SessionsAreRevocable
  <1>6. ASSUME NEW r \in Revokers, NEW d \in Calls, Unlisted(r, d)' PROVE session'[d].raced
    <2>1. CASE d = c
      BY <1>1, <1>2, <1>3, <1>6, <2>1 DEF Unlisted
    <2>2. CASE d # c
      BY <1>2, <1>3, <1>6, <2>2 DEF Unlisted, SessionInv
    <2> QED BY <2>1, <2>2
  <1> QED BY <1>4, <1>5, <1>6 DEF SessionInv

LEMMA ExpiryKeepsSessions ==
    ASSUME SessionInv, NEW c \in Calls, ExpireSession(c) PROVE SessionInv'
  BY DEF ExpireSession, SessionInv, SessionShape, Unlisted, SessionsAreRevocable

(* A revocation that lists: what is out of reach for it has raced before.       *)
LEMMA ListKeepsSessions ==
    ASSUME SessionInv, NEW w \in Revokers, NEW u, ListTokens(w, u) PROVE SessionInv'
  <1>1. /\ session' = session
        /\ revoking'[w] = [user |-> u, listed |->
                {c \in Calls : session[c] # None /\ session[c].user = u /\ session[c].indexed}]
        /\ \A r \in Revokers \ {w} : revoking'[r] = revoking[r]
        /\ revoking' = [r \in Revokers |-> revoking'[r]]
    BY DEF ListTokens, SessionInv, SessionShape
  <1>2. SessionShape' /\ SessionsAreRevocable'
    BY <1>1 DEF SessionInv, SessionShape, SessionsAreRevocable
  <1>3. ASSUME NEW r \in Revokers, NEW c \in Calls, Unlisted(r, c)' PROVE session'[c].raced
    <2>1. CASE r = w
      BY <1>1, <1>3, <2>1 DEF Unlisted, SessionInv, SessionsAreRevocable
    <2>2. CASE r # w
      BY <1>1, <1>3, <2>2 DEF Unlisted, SessionInv
    <2> QED BY <2>1, <2>2
  <1> QED BY <1>2, <1>3 DEF SessionInv

(* A revocation that deletes: what it takes out of the index has raced.         *)
LEMMA DeleteKeepsSessions ==
    ASSUME SessionInv, NEW w \in Revokers, DeleteTokens(w) PROVE SessionInv'
  <1>1. /\ revoking[w] # None /\ revoking'[w] = None
        /\ \A r \in Revokers \ {w} : revoking'[r] = revoking[r]
        /\ revoking' = [r \in Revokers |-> revoking'[r]]
        /\ session' = [c \in Calls |-> session'[c]]
    BY DEF DeleteTokens, SessionInv, SessionShape
  <1>2. \A c \in Calls :
            \/ session'[c] = None
            \/ /\ Unlisted(w, c)
               /\ session'[c] = [user |-> session[c].user, indexed |-> FALSE,
                                 raced |-> session[c].raced]
            \/ session'[c] = session[c]
    <2> SUFFICES ASSUME NEW c \in Calls, session'[c] # None, session'[c] # session[c]
                 PROVE  /\ Unlisted(w, c)
                        /\ session'[c] = [user |-> session[c].user, indexed |-> FALSE,
                                          raced |-> session[c].raced]
      OBVIOUS
    <2>1. Unlisted(w, c) /\ session'[c] = [session[c] EXCEPT !.indexed = FALSE]
      BY DEF DeleteTokens, Unlisted
    <2>2. session[c] = [user |-> session[c].user, indexed |-> session[c].indexed,
                        raced |-> session[c].raced]
      BY <2>1 DEF SessionInv, SessionShape, Unlisted
    <2> QED BY <2>1, <2>2
  <1>3. ASSUME NEW c \in Calls, session'[c] # None
        PROVE  /\ session[c] # None
               /\ session'[c].user = session[c].user /\ session'[c].raced = session[c].raced
               /\ session'[c] = session[c] \/ session'[c].raced
    <2>1. CASE session'[c] = session[c]
      BY <1>3, <2>1
    <2>2. CASE session'[c] # session[c]
      <3>1. Unlisted(w, c)
        BY <1>2, <1>3, <2>2
      <3>2. session[c] # None /\ session[c].raced
        BY <3>1 DEF SessionInv, Unlisted
      <3>3. session'[c] = [user |-> session[c].user, indexed |-> FALSE, raced |-> session[c].raced]
        BY <1>2, <1>3, <2>2
      <3> QED BY <3>2, <3>3
    <2> QED BY <2>1, <2>2
  <1>4. SessionShape'
    <2>1. ASSUME NEW c \in Calls, session'[c] # None
          PROVE  /\ session'[c] = [user |-> session'[c].user, indexed |-> session'[c].indexed,
                                   raced |-> session'[c].raced]
                 /\ session'[c].indexed \in BOOLEAN /\ session'[c].raced \in BOOLEAN
      <3>1. CASE session'[c] = session[c]
        BY <2>1, <3>1 DEF SessionInv, SessionShape
      <3>2. CASE session'[c] # session[c]
        <4>1. session'[c] = [user |-> session[c].user, indexed |-> FALSE,
                             raced |-> session[c].raced]
          BY <1>2, <2>1, <3>2
        <4>2. session[c].raced \in BOOLEAN
          BY <1>3, <2>1 DEF SessionInv, SessionShape
        <4> QED BY <4>1, <4>2
      <3> QED BY <3>1, <3>2
    <2> QED BY <1>1, <2>1 DEF SessionShape
  <1>5. SessionsAreRevocable'
    BY <1>3 DEF SessionInv, SessionsAreRevocable
  <1>6. ASSUME NEW r \in Revokers, NEW c \in Calls, Unlisted(r, c)' PROVE session'[c].raced
    BY <1>1, <1>3, <1>6 DEF Unlisted, SessionInv
  <1> QED BY <1>4, <1>5, <1>6 DEF SessionInv

(* A worker that fails or stops leaves its revocation behind.                  *)
LEMMA DropKeepsSessions ==
    ASSUME SessionInv, NEW w, session' = session,
           revoking' = [revoking EXCEPT ![w] = None]
    PROVE  SessionInv'
  BY DEF SessionInv, SessionShape, Unlisted, SessionsAreRevocable

LEMMA AccountsKeepSessions ==
    ASSUME CodeNext \/ AccountNext PROVE UNCHANGED sessionVars
  BY DEF CodeNext, AccountNext, RequestOTP, ExpireOTP, MarkVerified, ReadCode, Register, Login,
         CreateRegistered, CreateSocial, SocialLogin, Merge, LoginVerified, LinkCreated,
         ReadMergeToken, TakeMergeToken, LinkMerged

LEMMA ErasureKeepsSessions ==
    ASSUME SessionInv, ErasureStep PROVE SessionInv'
  <1>1. ASSUME UNCHANGED signInVars PROVE SessionInv'
    BY <1>1, SessionsUnchanged DEF signInVars
  <1>2. ASSUME NEW j \in Jobs, NEW u \in Users, Request(j, u) PROVE SessionInv'
    BY <1>1, <1>2 DEF Request
  <1>3. ASSUME NEW w \in Workers, EraseRows(w) \/ EraseUser(w) PROVE SessionInv'
    BY <1>3, SessionsUnchanged
       DEF EraseRows, EraseUser, DeletePostgresCascade, AnonymizeUser
  <1>4. ASSUME NEW w \in Workers,
               ClaimNext(w) \/ RunOtherStep(w) \/ MarkStepDone(w) \/ MarkCompleted(w)
        PROVE SessionInv'
    BY <1>1, <1>4 DEF ClaimNext, RunOtherStep, MarkStepDone, MarkCompleted
  <1>5. ASSUME NEW w \in Workers, StartRedisCleanup(w) \/ FinishRedisCleanup(w)
        PROVE SessionInv'
    <2>1. w \in Revokers
      BY ErasureAssumption
    <2> QED BY <1>5, <2>1, ListKeepsSessions, DeleteKeepsSessions
            DEF StartRedisCleanup, FinishRedisCleanup
  <1>6. ASSUME NEW w \in Workers, FailStep(w) \/ Crash(w) PROVE SessionInv'
    BY <1>6, DropKeepsSessions DEF FailStep, Crash
  <1> QED BY <1>2, <1>3, <1>4, <1>5, <1>6 DEF ErasureStep

LEMMA SessionsStep ==
    ASSUME SessionInv, AccountsNext \/ UNCHANGED accountsVars PROVE SessionInv'
  <1>1. CASE SessionNext
    <2>1. ASSUME NEW c \in Calls, OpenSession(c) PROVE SessionInv'
      BY <2>1, OpenKeepsSessions DEF OpenSession
    <2>2. ASSUME NEW c \in Calls, ExpireSession(c) PROVE SessionInv'
      BY <2>2, ExpiryKeepsSessions
    <2>3. ASSUME NEW c \in Calls, NEW u \in Users, Impersonate(c, u) PROVE SessionInv'
      BY <2>3, SessionsUnchanged DEF Impersonate
    <2> QED BY <1>1, <2>1, <2>2, <2>3 DEF SessionNext
  <1>2. CASE ErasureStep
    BY <1>2, ErasureKeepsSessions
  <1>3. CASE CodeNext \/ AccountNext \/ ConsentNext \/ QueueNext \/ StatusNext
    BY <1>3, AccountsKeepSessions, ConsentFrame, ModerationFrame, SessionsUnchanged
  <1>4. CASE UNCHANGED signInVars
    BY <1>4, SessionsUnchanged DEF signInVars
  <1>5. CASE UNCHANGED accountsVars
    BY <1>4, <1>5 DEF accountsVars
  <1> QED BY <1>1, <1>2, <1>3, <1>4, <1>5 DEF AccountsNext

-----------------------------------------------------------------------------
(* Whoever is linked exists; a user's phone is the first one or none; a call that  *)
(* is about to link a merge has verified the first phone of its user.           *)
UserShape ==
    /\ user = [u \in Users |-> user[u]] /\ firstPhone = [u \in Users |-> firstPhone[u]]
    /\ \A u \in Users :
          user[u] = [status |-> user[u].status, phone |-> user[u].phone, email |-> user[u].email]

LinkShape ==
    /\ link = [i \in Identities |-> link[i]]
    /\ mergedBy = [i \in Identities |-> mergedBy[i]]

CallShape ==
    /\ call = [c \in Calls |-> call[c]]
    /\ \A c \in Calls :
          call[c] = [at |-> call[c].at, phone |-> call[c].phone, ident |-> call[c].ident,
                     user |-> call[c].user, token |-> call[c].token]

DecisionShape ==
    /\ decision = [m \in Moderators |-> decision[m]]
    /\ \A m \in Moderators : Deciding(m) => decision[m].to # "none"

Known(u) == u \in Users /\ Exists(u)

PhonesAreFirst ==
    \A u \in Users : user[u].phone # None => user[u].phone = firstPhone[u] /\ Exists(u)

CallKnows(c) ==
    /\ call[c].at \in {"link", "mergeLink"} => Known(call[c].user)
    /\ call[c].at \in {"merge", "take"} => call[c].phone # None
    /\ call[c].at = "mergeLink" => firstPhone[call[c].user] = call[c].phone

LinkKnown(i) ==
    link[i] # None => /\ Known(link[i])
                      /\ mergedBy[i] # None => mergedBy[i] = firstPhone[link[i]]

MergeInv ==
    /\ UserShape /\ LinkShape /\ CallShape /\ DecisionShape
    /\ PhonesAreFirst
    /\ \A c \in Calls : CallKnows(c)
    /\ \A i \in Identities : LinkKnown(i)

LEMMA MergeStart ==
    ASSUME NEW phone \in [Users -> Phones \cup {None}], NEW opened,
           SignInInit(phone, opened), ModerationInit
    PROVE  MergeInv
  BY DEF SignInInit, ModerationInit, MergeInv, UserShape, LinkShape, CallShape, DecisionShape,
         PhonesAreFirst, CallKnows, LinkKnown, Deciding, Exists

LEMMA MergesFollow == MergeInv => MergesFollowThePhone
  BY DEF MergeInv, LinkKnown, MergesFollowThePhone

(* Users only come, and keep their first phone: what is known stays known.       *)
UsersStay ==
    \A u \in Users : Exists(u) => Exists(u)' /\ firstPhone'[u] = firstPhone[u]

LEMMA Moves ==
    ASSUME MergeInv, UserShape', LinkShape', CallShape', DecisionShape', PhonesAreFirst',
           UsersStay,
           \A c \in Calls : call'[c] = call[c] \/ CallKnows(c)',
           \A i \in Identities :
               (link'[i] = link[i] /\ mergedBy'[i] = mergedBy[i]) \/ LinkKnown(i)'
    PROVE  MergeInv'
  <1>1. ASSUME NEW u, Known(u) PROVE Known(u)' /\ firstPhone'[u] = firstPhone[u]
    BY <1>1 DEF Known, UsersStay
  <1>2. ASSUME NEW c \in Calls PROVE CallKnows(c)'
    BY <1>1 DEF MergeInv, CallKnows
  <1>3. ASSUME NEW i \in Identities PROVE LinkKnown(i)'
    BY <1>1 DEF MergeInv, LinkKnown
  <1> QED BY <1>2, <1>3 DEF MergeInv

(* A call moves on, and nothing else.                                         *)
LEMMA CallMoves ==
    ASSUME MergeInv, UNCHANGED <<accountVars, decision>>, CallShape',
           \A c \in Calls : call'[c] = call[c] \/ CallKnows(c)'
    PROVE  MergeInv'
  <1>1. UserShape' /\ LinkShape' /\ DecisionShape' /\ PhonesAreFirst' /\ UsersStay
    BY DEF MergeInv, accountVars, UserShape, LinkShape, DecisionShape, PhonesAreFirst, UsersStay,
           Exists, Deciding
  <1> QED BY <1>1, Moves DEF accountVars

LEMMA MergeUnchanged ==
    ASSUME MergeInv, UNCHANGED <<accountVars, call, decision>> PROVE MergeInv'
  BY CallMoves DEF MergeInv, CallShape

(* The call moves to step a, with this phone, identity, user and token.         *)
Goes(c, a, p, i, u, t) ==
    /\ call' = [d \in Calls |-> call'[d]]
    /\ call'[c] = [at |-> a, phone |-> p, ident |-> i, user |-> u, token |-> t]
    /\ \A d \in Calls \ {c} : call'[d] = call[d]

LEMMA CallPasses ==
    ASSUME MergeInv, UNCHANGED <<accountVars, decision>>, NEW c \in Calls,
           NEW a, NEW p, NEW i, NEW u, NEW t, Goes(c, a, p, i, u, t),
           a \in {"link", "mergeLink"} => Known(u),
           a \in {"merge", "take"} => p # None,
           a = "mergeLink" => firstPhone[u] = p
    PROVE  MergeInv'
  <1> DEFINE k == [at |-> a, phone |-> p, ident |-> i, user |-> u, token |-> t]
  <1>1. /\ call'[c] = k /\ \A d \in Calls \ {c} : call'[d] = call[d]
        /\ call' = [d \in Calls |-> call'[d]]
    BY DEF MergeInv, CallShape, Goes
  <1>2. CallShape'
    BY <1>1 DEF MergeInv, CallShape
  <1>3. CallKnows(c)'
    BY <1>1 DEF CallKnows, Known, Exists, accountVars
  <1> QED BY <1>1, <1>2, <1>3, CallMoves

(* The step a call moves to is one of those that promise nothing.              *)
Plain(s) == s \notin {"link", "merge", "take", "mergeLink"}

CallIs(c) ==
    /\ call = [d \in Calls |-> call[d]]
    /\ call[c] = [at |-> call[c].at, phone |-> call[c].phone, ident |-> call[c].ident,
                  user |-> call[c].user, token |-> call[c].token]

LEMMA CallHasShape ==
    ASSUME MergeInv, NEW c \in Calls PROVE CallIs(c)
  BY DEF MergeInv, CallShape, CallIs

LEMMA PlainStep ==
    ASSUME MergeInv, UNCHANGED <<accountVars, decision>>, NEW c \in Calls,
           NEW a, NEW p, NEW i, NEW u, NEW t, Goes(c, a, p, i, u, t), Plain(a)
    PROVE  MergeInv'
  BY CallPasses DEF Plain, Goes

LEMMA Stepped ==
    ASSUME MergeInv, UNCHANGED <<accountVars, decision>>, NEW c \in Calls, NEW s,
           Step(c, s), Plain(s)
    PROVE  MergeInv'
  <1>0. CallIs(c)
    BY CallHasShape
  <1>1. Goes(c, s, call[c].phone, call[c].ident, call[c].user, call[c].token)
    BY <1>0 DEF CallIs, Goes, Step
  <1> QED BY <1>1, PlainStep DEF Goes

LEMMA CodesKeepMerges ==
    ASSUME MergeInv, CodeNext, UNCHANGED decision PROVE MergeInv'
  <1>1. ASSUME NEW p \in Phones, RequestOTP(p) \/ ExpireOTP(p) PROVE MergeInv'
    BY <1>1, MergeUnchanged DEF RequestOTP, ExpireOTP
  <1>2. ASSUME NEW c \in Calls, MarkVerified(c) PROVE MergeInv'
    BY <1>2, Stepped DEF MarkVerified, Plain
  <1>3. ASSUME NEW c \in Calls, NEW p \in Phones, ReadCode(c, p) PROVE MergeInv'
    <2>0. CallIs(c)
      BY CallHasShape
    <2>1. Goes(c, "verify", p, call[c].ident, call[c].user, call[c].token)
      BY <1>3, <2>0 DEF CallIs, Goes, ReadCode
    <2>2. UNCHANGED accountVars
      BY <1>3 DEF ReadCode
    <2>3. Plain("verify")
      BY DEF Plain
    <2> QED BY <2>1, <2>2, <2>3, PlainStep DEF Goes
  <1> QED BY <1>1, <1>2, <1>3 DEF CodeNext

LEMMA SessionsKeepMerges ==
    ASSUME MergeInv, SessionNext, UNCHANGED decision PROVE MergeInv'
  <1>1. ASSUME NEW c \in Calls, OpenSession(c) PROVE MergeInv'
    BY <1>1, Stepped DEF OpenSession, Plain
  <1>2. ASSUME NEW c \in Calls, ExpireSession(c) PROVE MergeInv'
    BY <1>2, MergeUnchanged DEF ExpireSession
  <1>3. ASSUME NEW c \in Calls, NEW u \in Users, Impersonate(c, u) PROVE MergeInv'
    <2>0. CallIs(c)
      BY CallHasShape
    <2>1. Goes(c, "session", call[c].phone, call[c].ident, u, call[c].token)
      BY <1>3, <2>0 DEF CallIs, Goes, Impersonate
    <2>2. UNCHANGED accountVars
      BY <1>3 DEF Impersonate
    <2>3. Plain("session")
      BY DEF Plain
    <2> QED BY <2>1, <2>2, <2>3, PlainStep DEF Goes
  <1> QED BY <1>1, <1>2, <1>3 DEF SessionNext

(* Of the account requests, the ones that write no row.                        *)
LEMMA LoginsKeepMerges ==
    ASSUME MergeInv, UNCHANGED decision, NEW c \in Calls, NEW p \in Phones,
           Register(c, p) \/ Login(c, p) \/ LoginVerified(c)
    PROVE  MergeInv'
  <1>1. CASE Register(c, p)
    <2>0. CallIs(c)
      BY CallHasShape
    <2>1. Goes(c, "register", p, call[c].ident, call[c].user, call[c].token)
      BY <1>1, <2>0 DEF CallIs, Goes, Register
    <2>2. UNCHANGED accountVars
      BY <1>1 DEF Register
    <2>3. Plain("register")
      BY DEF Plain
    <2> QED BY <2>1, <2>2, <2>3, PlainStep DEF Goes
  <1>2. CASE Login(c, p)
    <2>1. PICK u \in FindByPhone(p) :
              call' = [call EXCEPT ![c].at = "login", ![c].phone = p, ![c].user = u]
      BY <1>2 DEF Login
    <2>0. CallIs(c)
      BY CallHasShape
    <2>2. Goes(c, "login", p, call[c].ident, u, call[c].token)
      BY <2>1, <2>0 DEF CallIs, Goes
    <2>3. UNCHANGED accountVars
      BY <1>2 DEF Login
    <2>4. Plain("login")
      BY DEF Plain
    <2> QED BY <2>2, <2>3, <2>4, PlainStep DEF Goes
  <1>3. CASE LoginVerified(c)
    BY <1>3, Stepped DEF LoginVerified, Plain
  <1> QED BY <1>1, <1>2, <1>3

LEMMA SocialKeepsMerges ==
    ASSUME MergeInv, UNCHANGED decision, NEW c \in Calls, NEW i \in Identities,
           SocialLogin(c, i)
    PROVE  MergeInv'
  <1>1. UNCHANGED accountVars
    BY DEF SocialLogin
  <1>2. CASE Step(c, "done")
    BY <1>1, <1>2, Stepped DEF Plain
  <1>3. CASE call' = [call EXCEPT ![c].at = "session", ![c].user = link[i]]
    <2>0. CallIs(c)
      BY CallHasShape
    <2>1. Goes(c, "session", call[c].phone, call[c].ident, link[i], call[c].token)
      BY <1>3, <2>0 DEF CallIs, Goes
    <2>2. Plain("session")
      BY DEF Plain
    <2> QED BY <1>1, <2>1, <2>2, PlainStep DEF Goes
  <1>4. CASE call' = [call EXCEPT ![c].at = "create", ![c].ident = i]
    <2>0. CallIs(c)
      BY CallHasShape
    <2>1. Goes(c, "create", call[c].phone, i, call[c].user, call[c].token)
      BY <1>4, <2>0 DEF CallIs, Goes
    <2>2. Plain("create")
      BY DEF Plain
    <2> QED BY <1>1, <2>1, <2>2, PlainStep DEF Goes
  <1> QED BY <1>2, <1>3, <1>4 DEF SocialLogin

(* A merge up to its token: the phone it verified is one, and the account it is   *)
(* let through for owns that phone.                                          *)
LEMMA TokensKeepMerges ==
    ASSUME MergeInv, UNCHANGED decision, NEW c \in Calls,
           \/ \E p \in Phones, t \in Calls : Merge(c, p, t)
           \/ ReadMergeToken(c) \/ TakeMergeToken(c)
    PROVE  MergeInv'
  <1>1. ASSUME NEW p \in Phones, NEW t \in Calls, Merge(c, p, t) PROVE MergeInv'
    <2>0. CallIs(c)
      BY CallHasShape
    <2>1. Goes(c, "merge", p, call[c].ident, call[c].user, t)
      BY <1>1, <2>0 DEF CallIs, Goes, Merge
    <2>2. UNCHANGED accountVars
      BY <1>1 DEF Merge
    <2>3. p # None
      BY SignInAssumption
    <2> QED BY <2>1, <2>2, <2>3, CallPasses DEF Goes
  <1>2. CASE ReadMergeToken(c)
    <2>1. UNCHANGED accountVars /\ call[c].at = "merge"
      BY <1>2 DEF ReadMergeToken, At
    <2>2. CASE Step(c, "done")
      BY <2>1, <2>2, Stepped DEF Plain
    <2>3. CASE ~Step(c, "done")
      <3> DEFINE m == mergeToken[call[c].token]
      <3>1. call' = [call EXCEPT ![c].at = "take", ![c].user = m.user, ![c].ident = m.ident]
        BY <1>2, <2>3 DEF ReadMergeToken
      <3>0. CallIs(c)
        BY CallHasShape
      <3>2. Goes(c, "take", call[c].phone, m.ident, m.user, call[c].token)
        BY <3>1, <3>0 DEF CallIs, Goes
      <3>3. call[c].phone # None
        BY <2>1 DEF MergeInv, CallKnows
      <3> QED BY <2>1, <3>2, <3>3, CallPasses DEF Goes
    <2> QED BY <2>2, <2>3
  <1>3. CASE TakeMergeToken(c)
    <2>1. UNCHANGED accountVars /\ call[c].at = "take"
      BY <1>3 DEF TakeMergeToken, At
    <2>2. CASE call[c].user \in FindByPhone(call[c].phone)
      <3>0. CallIs(c)
        BY CallHasShape
      <3>1. Goes(c, "mergeLink", call[c].phone, call[c].ident, call[c].user, call[c].token)
        BY <1>3, <2>2, <3>0 DEF CallIs, Goes, TakeMergeToken, Step
      <3>2. call[c].phone # None
        BY <2>1 DEF MergeInv, CallKnows
      <3>3. Known(call[c].user) /\ firstPhone[call[c].user] = call[c].phone
        BY <2>2, <3>2 DEF FindByPhone, MergeInv, PhonesAreFirst, Known
      <3> QED BY <2>1, <3>1, <3>3, CallPasses DEF Goes
    <2>3. CASE call[c].user \notin FindByPhone(call[c].phone)
      BY <1>3, <2>1, <2>3, Stepped DEF TakeMergeToken, Plain
    <2> QED BY <2>2, <2>3
  <1> QED BY <1>1, <1>2, <1>3

(* A new user has the phone it registered with, if any.                        *)
LEMMA CreateKeeps ==
    ASSUME MergeInv, NEW u \in Users, NEW p, NEW e, CreateUser(u, p, e)
    PROVE  UserShape' /\ LinkShape' /\ PhonesAreFirst' /\ UsersStay /\ Known(u)'
  <1>1. /\ user'[u] = [status |-> "active", phone |-> p, email |-> e]
        /\ firstPhone'[u] = p
        /\ \A v \in Users \ {u} : user'[v] = user[v] /\ firstPhone'[v] = firstPhone[v]
        /\ user' = [v \in Users |-> user'[v]] /\ firstPhone' = [v \in Users |-> firstPhone'[v]]
    BY DEF CreateUser, MergeInv, UserShape
  <1>2. ~Exists(u) /\ UNCHANGED <<link, mergedBy>>
    BY DEF CreateUser
  <1>3. UserShape'
    BY <1>1 DEF MergeInv, UserShape
  <1>4. LinkShape'
    BY <1>2 DEF MergeInv, LinkShape
  <1>5. PhonesAreFirst' /\ UsersStay /\ Known(u)'
    BY <1>1, <1>2 DEF MergeInv, PhonesAreFirst, UsersStay, Known, Exists
  <1> QED BY <1>3, <1>4, <1>5

LEMMA CreatesKeepMerges ==
    ASSUME MergeInv, UNCHANGED decision, NEW c \in Calls, NEW u \in Users,
           CreateRegistered(c, u) \/ CreateSocial(c, u)
    PROVE  MergeInv'
  <1>1. CASE Step(c, "done") /\ UNCHANGED accountVars
    BY <1>1, Stepped DEF Plain
  <1>2. ASSUME NEW a \in {"session", "link"}, NEW p, NEW e, CreateUser(u, p, e),
               call' = [call EXCEPT ![c].at = a, ![c].user = u]
        PROVE MergeInv'
    <2>1. UserShape' /\ LinkShape' /\ PhonesAreFirst' /\ UsersStay /\ Known(u)'
      BY <1>2, CreateKeeps
    <2>2. CallIs(c)
      BY CallHasShape
    <2>3. Goes(c, a, call[c].phone, call[c].ident, u, call[c].token)
      BY <1>2, <2>2 DEF CallIs, Goes
    <2>4. CallShape' /\ CallKnows(c)'
      BY <2>1, <2>3 DEF Goes, CallKnows, MergeInv, CallShape
    <2>5. DecisionShape'
      BY DEF MergeInv, DecisionShape, Deciding
    <2>6. \A d \in Calls : call'[d] = call[d] \/ CallKnows(d)'
      BY <2>3, <2>4 DEF Goes
    <2>7. UNCHANGED <<link, mergedBy>>
      BY <1>2 DEF CreateUser
    <2> QED BY <2>1, <2>4, <2>5, <2>6, <2>7, Moves
  <1>3. CASE CreateRegistered(c, u)
    BY <1>1, <1>2, <1>3 DEF CreateRegistered
  <1>4. CASE CreateSocial(c, u)
    BY <1>1, <1>2, <1>4 DEF CreateSocial
  <1> QED BY <1>3, <1>4

(* A link that is made is one the call knows to be right.                       *)
LEMMA LinksKeepMerges ==
    ASSUME MergeInv, UNCHANGED decision, NEW c \in Calls, LinkCreated(c) \/ LinkMerged(c)
    PROVE  MergeInv'
  <1> DEFINE i == call[c].ident
             u == call[c].user
  <1>1. Known(u)
    BY DEF LinkCreated, LinkMerged, At, MergeInv, CallKnows
  <1>2. PICK s \in {"session", "done"} : Step(c, s)
    BY DEF LinkCreated, LinkMerged
  <1>3. CallIs(c)
    BY CallHasShape
  <1>4. Goes(c, s, call[c].phone, call[c].ident, call[c].user, call[c].token)
    BY <1>2, <1>3 DEF CallIs, Goes, Step
  <1>5. CallShape' /\ \A d \in Calls : call'[d] = call[d] \/ CallKnows(d)'
    BY <1>4 DEF Goes, CallKnows, MergeInv, CallShape
  <1>6. /\ firstPhone' = firstPhone
        /\ \A v \in Users : /\ user'[v].status = user[v].status
                            /\ user'[v].phone = user[v].phone
                            /\ user'[v] = [status |-> user'[v].status, phone |-> user'[v].phone,
                                           email |-> user'[v].email]
        /\ user' = [v \in Users |-> user'[v]]
    <2>1. CASE user' = user
      BY <2>1 DEF LinkCreated, LinkMerged, MergeInv, UserShape
    <2>2. CASE user' # user
      <3> DEFINE e == ClaimedEmail[i]
      <3>1. user' = [user EXCEPT ![u].email = e] /\ firstPhone' = firstPhone
        BY <2>2 DEF LinkCreated, LinkMerged
      <3>2. u \in Users
        BY <1>1 DEF Known
      <3>3. /\ user[u] = [status |-> user[u].status, phone |-> user[u].phone,
                          email |-> user[u].email]
            /\ user = [v \in Users |-> user[v]]
        BY <3>2 DEF MergeInv, UserShape
      <3>4. /\ user'[u] = [status |-> user[u].status, phone |-> user[u].phone, email |-> e]
            /\ \A v \in Users \ {u} : user'[v] = user[v]
            /\ user' = [v \in Users |-> user'[v]]
        BY <3>1, <3>2, <3>3
      <3>5. ASSUME NEW v \in Users
            PROVE  /\ user'[v].status = user[v].status /\ user'[v].phone = user[v].phone
                   /\ user'[v] = [status |-> user'[v].status, phone |-> user'[v].phone,
                                  email |-> user'[v].email]
        <4>1. CASE v = u
          BY <3>4, <4>1
        <4>2. CASE v # u
          BY <3>4, <4>2 DEF MergeInv, UserShape
        <4> QED BY <4>1, <4>2
      <3>6. firstPhone' = firstPhone
        BY <3>1
      <3>7. user' = [v \in Users |-> user'[v]]
        BY <3>4
      <3> QED BY <3>5, <3>6, <3>7
    <2> QED BY <2>1, <2>2
  <1>7. UserShape' /\ PhonesAreFirst' /\ UsersStay
    BY <1>6 DEF MergeInv, UserShape, PhonesAreFirst, UsersStay, Exists
  <1>8. DecisionShape'
    BY DEF MergeInv, DecisionShape, Deciding
  <1>9. u \in Users /\ user'[u].status # "none" /\ firstPhone'[u] = firstPhone[u]
    BY <1>1, <1>7 DEF Known, UsersStay, Exists
  <1>10. LinkShape' /\ \A j \in Identities :
            (link'[j] = link[j] /\ mergedBy'[j] = mergedBy[j]) \/ LinkKnown(j)'
    <2>1. CASE UNCHANGED <<link, mergedBy>>
      BY <2>1 DEF MergeInv, LinkShape
    <2>2. ASSUME NEW p, LinkSocialIdentity(i, u, p), p = None \/ p = firstPhone[u]
          PROVE LinkShape' /\ \A j \in Identities :
                    (link'[j] = link[j] /\ mergedBy'[j] = mergedBy[j]) \/ LinkKnown(j)'
      <3>1. /\ link' = [link EXCEPT ![i] = u] /\ mergedBy' = [mergedBy EXCEPT ![i] = p]
            /\ link = [j \in Identities |-> link[j]]
            /\ mergedBy = [j \in Identities |-> mergedBy[j]]
        BY <2>2 DEF LinkSocialIdentity, MergeInv, LinkShape
      <3>2. LinkShape'
        BY <3>1 DEF LinkShape
      <3>3. ASSUME NEW j \in Identities, j # i
            PROVE link'[j] = link[j] /\ mergedBy'[j] = mergedBy[j]
        BY <3>1, <3>3
      <3>4. ASSUME NEW j \in Identities, j = i PROVE LinkKnown(j)'
        <4>1. link'[j] = u /\ mergedBy'[j] = p
          BY <3>1, <3>4
        <4> QED BY <1>9, <2>2, <4>1 DEF LinkKnown, Known, Exists
      <3> QED BY <3>2, <3>3, <3>4
    <2>3. CASE LinkCreated(c)
      BY <2>1, <2>2, <2>3 DEF LinkCreated
    <2>4. CASE LinkMerged(c)
      <3>1. call[c].phone = firstPhone[u]
        BY <2>4 DEF LinkMerged, At, MergeInv, CallKnows
      <3> QED BY <2>1, <2>2, <2>4, <3>1 DEF LinkMerged
    <2> QED BY <2>3, <2>4
  <1> QED BY <1>5, <1>7, <1>8, <1>10, Moves

LEMMA RequestsKeepMerges ==
    ASSUME MergeInv, AccountNext, UNCHANGED decision PROVE MergeInv'
  <1>1. ASSUME NEW c \in Calls, NEW p \in Phones, Register(c, p) \/ Login(c, p)
        PROVE MergeInv'
    BY <1>1, LoginsKeepMerges
  <1>2. ASSUME NEW c \in Calls, NEW u \in Users, CreateRegistered(c, u) \/ CreateSocial(c, u)
        PROVE MergeInv'
    BY <1>2, CreatesKeepMerges
  <1>3. ASSUME NEW c \in Calls, NEW i \in Identities, SocialLogin(c, i) PROVE MergeInv'
    BY <1>3, SocialKeepsMerges
  <1>4. ASSUME NEW c \in Calls, NEW p \in Phones, NEW t \in Calls, Merge(c, p, t)
        PROVE MergeInv'
    BY <1>4, TokensKeepMerges
  <1>5. ASSUME NEW c \in Calls, LoginVerified(c) PROVE MergeInv'
    BY <1>5, Stepped DEF LoginVerified, Plain
  <1>6. ASSUME NEW c \in Calls, ReadMergeToken(c) \/ TakeMergeToken(c) PROVE MergeInv'
    BY <1>6, TokensKeepMerges
  <1>7. ASSUME NEW c \in Calls, LinkCreated(c) \/ LinkMerged(c) PROVE MergeInv'
    BY <1>7, LinksKeepMerges
  <1> QED BY <1>1, <1>2, <1>3, <1>4, <1>5, <1>6, <1>7 DEF AccountNext

(* An erasure takes links and phones away; a user it anonymized still exists.     *)
LEMMA EraseRowsKeepsMerges ==
    ASSUME MergeInv, NEW w \in Workers, EraseRows(w) PROVE MergeInv'
  <1>1. /\ link' = [i \in Identities |-> IF link[i] = WorkerUser(w) THEN None ELSE link[i]]
        /\ UNCHANGED <<user, firstPhone, mergedBy, call, decision>>
    BY DEF EraseRows, DeletePostgresCascade, DeleteItemsOf
  <1>2. UserShape' /\ LinkShape' /\ CallShape' /\ DecisionShape' /\ PhonesAreFirst' /\ UsersStay
    BY <1>1 DEF MergeInv, UserShape, LinkShape, CallShape, DecisionShape, PhonesAreFirst,
                UsersStay, Exists, Deciding
  <1>3. ASSUME NEW i \in Identities
        PROVE (link'[i] = link[i] /\ mergedBy'[i] = mergedBy[i]) \/ LinkKnown(i)'
    BY <1>1 DEF LinkKnown
  <1> QED BY <1>1, <1>2, <1>3, Moves

LEMMA EraseUserKeepsMerges ==
    ASSUME MergeInv, NEW w \in Workers, EraseUser(w) PROVE MergeInv'
  <1> DEFINE u == WorkerUser(w)
             row == [status |-> "erased", phone |-> None, email |-> None]
  <1>1. /\ user' = [user EXCEPT ![u] = row]
        /\ UNCHANGED <<firstPhone, link, mergedBy, call, decision>>
    BY DEF EraseUser, AnonymizeUser, moderationVars
  <1>2. /\ \A v \in Users : user'[v] = user[v] \/ user'[v] = row
        /\ user' = [v \in Users |-> user'[v]]
    BY <1>1 DEF MergeInv, UserShape
  <1>3. UserShape' /\ PhonesAreFirst' /\ UsersStay
    BY <1>1, <1>2 DEF MergeInv, UserShape, PhonesAreFirst, UsersStay, Exists
  <1>4. LinkShape' /\ CallShape' /\ DecisionShape'
    BY <1>1 DEF MergeInv, LinkShape, CallShape, DecisionShape, Deciding
  <1> QED BY <1>1, <1>3, <1>4, Moves

LEMMA ErasureKeepsMerges ==
    ASSUME MergeInv, ErasureStep PROVE MergeInv'
  <1>1. ASSUME NEW w \in Workers, EraseRows(w) \/ EraseUser(w) PROVE MergeInv'
    BY <1>1, EraseRowsKeepsMerges, EraseUserKeepsMerges
  <1>2. ASSUME NEW j \in Jobs, NEW u \in Users, Request(j, u), UNCHANGED moderationVars
        PROVE MergeInv'
    BY <1>2, MergeUnchanged DEF Request, signInVars, moderationVars
  <1>3. ASSUME NEW w \in Workers, UNCHANGED moderationVars,
               ClaimNext(w) \/ RunOtherStep(w) \/ MarkStepDone(w) \/ MarkCompleted(w)
        PROVE MergeInv'
    BY <1>3, MergeUnchanged
       DEF ClaimNext, RunOtherStep, MarkStepDone, MarkCompleted, signInVars, moderationVars
  <1>4. ASSUME NEW w \in Workers, UNCHANGED moderationVars,
               StartRedisCleanup(w) \/ FinishRedisCleanup(w) \/ FailStep(w) \/ Crash(w)
        PROVE MergeInv'
    BY <1>4, MergeUnchanged
       DEF StartRedisCleanup, FinishRedisCleanup, FailStep, Crash, moderationVars
  <1> QED BY <1>1, <1>2, <1>3, <1>4 DEF ErasureStep

(* A moderator's transaction sets a status that an existing row may have.         *)
LEMMA DecidingKeepsMerges ==
    ASSUME MergeInv, UNCHANGED signInVars, NEW m \in Moderators, NEW d,
           decision' = [decision EXCEPT ![m] = d],
           d \in {None, Done} \/ d.to # "none"
    PROVE  MergeInv'
  <1>1. DecisionShape'
    BY DEF MergeInv, DecisionShape, Deciding
  <1>2. UserShape' /\ LinkShape' /\ CallShape' /\ PhonesAreFirst' /\ UsersStay
    BY DEF MergeInv, signInVars, accountVars, UserShape, LinkShape, CallShape, PhonesAreFirst,
           UsersStay, Exists
  <1> QED BY <1>1, <1>2, Moves DEF signInVars, accountVars

LEMMA CommitKeepsMerges ==
    ASSUME MergeInv, NEW m \in Moderators, CommitStatus(m) PROVE MergeInv'
  <1> DEFINE u == decision[m].on
             to == decision[m].to
  <1>1. /\ u \in Users /\ to # "none"
        /\ user' = [user EXCEPT ![u].status = to]
        /\ UNCHANGED <<firstPhone, link, mergedBy, call>>
        /\ decision' = [decision EXCEPT ![m] = Done]
    BY DEF CommitStatus, MergeInv, DecisionShape
  <1>2. /\ user = [v \in Users |-> user[v]]
        /\ user[u] = [status |-> user[u].status, phone |-> user[u].phone, email |-> user[u].email]
    BY <1>1 DEF MergeInv, UserShape
  <1>3. /\ user'[u] = [status |-> to, phone |-> user[u].phone, email |-> user[u].email]
        /\ \A v \in Users \ {u} : user'[v] = user[v]
        /\ user' = [v \in Users |-> user'[v]]
    BY <1>1, <1>2
  <1>4. DecisionShape'
    BY <1>1 DEF MergeInv, DecisionShape, Deciding
  <1>5. UNCHANGED <<firstPhone, link, mergedBy, call>>
    BY <1>1
  <1>6. ASSUME NEW v \in Users
        PROVE  /\ user'[v].phone = user[v].phone
               /\ Exists(v) => user'[v].status # "none"
               /\ user'[v] = [status |-> user'[v].status, phone |-> user'[v].phone,
                              email |-> user'[v].email]
    <2>1. CASE v = u
      BY <1>1, <1>3, <2>1
    <2>2. CASE v # u
      BY <1>3, <2>2 DEF MergeInv, UserShape, Exists
    <2> QED BY <2>1, <2>2
  <1>7. user' = [v \in Users |-> user'[v]]
    BY <1>3
  <1>8. UserShape' /\ PhonesAreFirst' /\ UsersStay
    <2>1. UserShape'
      BY <1>5, <1>6, <1>7 DEF MergeInv, UserShape
    <2>2. PhonesAreFirst'
      BY <1>5, <1>6 DEF MergeInv, PhonesAreFirst, Exists
    <2>3. UsersStay
      BY <1>5, <1>6 DEF UsersStay, Exists
    <2> QED BY <2>1, <2>2, <2>3
  <1>9. LinkShape' /\ CallShape'
    BY <1>5 DEF MergeInv, LinkShape, CallShape
  <1> QED BY <1>4, <1>5, <1>8, <1>9, Moves

LEMMA ModerationKeepsMerges ==
    ASSUME MergeInv, QueueNext \/ StatusNext PROVE MergeInv'
  <1>1. ASSUME NEW i \in Items, UNCHANGED signInVars,
               \/ TestAppeal(i) \/ FileAppeal(i) \/ FileReport(i)
               \/ TestAnomaly(i) \/ InsertFlag(i)
        PROVE MergeInv'
    BY <1>1, MergeUnchanged
       DEF TestAppeal, FileAppeal, FileReport, TestAnomaly, InsertFlag, File, signInVars
  <1>2. ASSUME NEW m \in Moderators, NEW i \in Items, NEW to \in Verdicts,
               ResolveAppeal(m, i, to) \/ ResolveReport(m, i, to) \/ ResolveFlag(m, i, to)
        PROVE MergeInv'
    <2> DEFINE d == [on |-> i, from |-> "pending", to |-> to]
    <2>1. decision' = [decision EXCEPT ![m] = d] /\ UNCHANGED signInVars
      BY <1>2 DEF ResolveAppeal, ResolveReport, ResolveFlag, LockItem
    <2>2. d.to # "none"
      BY DEF Verdicts
    <2> QED BY <2>1, <2>2, DecidingKeepsMerges
  <1>3. ASSUME NEW m \in Moderators, CommitItem(m) \/ RollBack(m) PROVE MergeInv'
    BY <1>3, DecidingKeepsMerges DEF CommitItem, RollBack
  <1>4. ASSUME NEW m \in Moderators, NEW u \in Users, NEW to \in SetStatuses, SetStatus(m, u, to)
        PROVE MergeInv'
    <2> DEFINE d == [on |-> u, from |-> user[u].status, to |-> to]
    <2>1. decision' = [decision EXCEPT ![m] = d] /\ UNCHANGED signInVars
      BY <1>4 DEF SetStatus
    <2>2. d.to # "none"
      BY DEF SetStatuses
    <2> QED BY <2>1, <2>2, DecidingKeepsMerges
  <1>5. ASSUME NEW m \in Moderators, CommitStatus(m) PROVE MergeInv'
    BY <1>5, CommitKeepsMerges
  <1> QED BY <1>1, <1>2, <1>3, <1>4, <1>5 DEF QueueNext, StatusNext

LEMMA MergesStep ==
    ASSUME MergeInv, AccountsNext \/ UNCHANGED accountsVars PROVE MergeInv'
  <1>1. ASSUME CodeNext \/ AccountNext \/ SessionNext, UNCHANGED moderationVars
        PROVE MergeInv'
    BY <1>1, CodesKeepMerges, RequestsKeepMerges, SessionsKeepMerges DEF moderationVars
  <1>2. ASSUME UNCHANGED <<signInVars, moderationVars>> PROVE MergeInv'
    BY <1>2, MergeUnchanged DEF signInVars, moderationVars
  <1>3. ASSUME ConsentNext, UNCHANGED moderationVars PROVE MergeInv'
    <2>1. UNCHANGED signInVars
      BY <1>3 DEF ConsentNext, GrantConsent, Withdraw, StopTracking
    <2> QED BY <1>2, <1>3, <2>1
  <1>4. CASE ErasureStep
    BY <1>4, ErasureKeepsMerges
  <1>5. CASE QueueNext \/ StatusNext
    BY <1>5, ModerationKeepsMerges
  <1>6. CASE UNCHANGED accountsVars
    BY <1>2, <1>6 DEF accountsVars
  <1> QED BY <1>1, <1>2, <1>3, <1>4, <1>5, <1>6 DEF AccountsNext
-----------------------------------------------------------------------------
(* Friends and blocks.                                                       *)

(* A blocked pair has no accept open that does not know of the block, and what   *)
(* an open block has not found to delete became a friendship while it was open.  *)
PairBlocked(p) == IsBlocked(p) => accepting[p] \in {"no", "raced"}

BlockFinds(p) ==
    Open(p) => /\ blocking[p].friends \in BOOLEAN
               /\ AreFriends(p) => blocking[p].friends = TRUE \/ PairOf(p) \in raced

FriendInv ==
    /\ accepting = [p \in Directed |-> accepting[p]]
    /\ blocking = [p \in Directed |-> blocking[p]]
    /\ blocks \subseteq Directed /\ requests \subseteq Directed
    /\ BlockingEndsFriendship
    /\ \A p \in Directed : PairBlocked(p) /\ BlockFinds(p)

LEMMA PairsOfDirected ==
    ASSUME NEW p \in Directed
    PROVE  /\ Reverse2(p) \in Directed /\ Reverse2(Reverse2(p)) = p
           /\ PairOf(Reverse2(p)) = PairOf(p) /\ PairOf(p) # {}
           /\ \A q \in Directed : PairOf(q) = PairOf(p) => q = p \/ q = Reverse2(p)
  <1>1. p = <<p[1], p[2]>> /\ p[1] \in Users /\ p[2] \in Users /\ p[1] # p[2]
    BY DEF Directed
  <1>2. Reverse2(p) \in Directed /\ Reverse2(Reverse2(p)) = p
    BY <1>1 DEF Directed, Reverse2
  <1>3. PairOf(Reverse2(p)) = PairOf(p) /\ PairOf(p) # {}
    BY <1>1 DEF Reverse2, PairOf
  <1>4. ASSUME NEW q \in Directed, PairOf(q) = PairOf(p) PROVE q = p \/ q = Reverse2(p)
    <2>1. q = <<q[1], q[2]>> /\ q[1] # q[2]
      BY DEF Directed
    <2>2. (q[1] = p[1] /\ q[2] = p[2]) \/ (q[1] = p[2] /\ q[2] = p[1])
      BY <1>1, <1>4, <2>1 DEF PairOf
    <2> QED BY <1>1, <2>1, <2>2 DEF Reverse2
  <1> QED BY <1>2, <1>3, <1>4

LEMMA FriendsStart == SocialInit => FriendInv
  BY DEF SocialInit, FriendInv, BlockingEndsFriendship, PairBlocked, BlockFinds, Open

(* A step that opens no accept and no block, and makes no friends.              *)
LEMMA QuietFriends ==
    ASSUME FriendInv, blocks' \subseteq blocks, requests' \subseteq Directed,
           friends' \subseteq friends,
           accepting' = [p \in Directed |-> accepting'[p]],
           blocking' = [p \in Directed |-> blocking'[p]],
           \A p \in Directed :
               /\ accepting'[p] \in {accepting[p], "no"}
               /\ AreFriends(p)' => (PairOf(p) \in raced => PairOf(p) \in raced')
               /\ Open(p)' => /\ Open(p) /\ blocking'[p].friends \in BOOLEAN
                              /\ AreFriends(p)' /\ blocking[p].friends = TRUE
                                     => blocking'[p].friends = TRUE
    PROVE  FriendInv'
  <1>1. \A p \in Directed : AreFriends(p)' => AreFriends(p)
    BY DEF AreFriends
  <1>2. BlockingEndsFriendship'
    BY <1>1 DEF FriendInv, BlockingEndsFriendship
  <1>3. \A p \in Directed : PairBlocked(p)'
    BY DEF FriendInv, PairBlocked, IsBlocked
  <1>4. \A p \in Directed : BlockFinds(p)'
    BY <1>1 DEF FriendInv, BlockFinds
  <1> QED BY <1>2, <1>3, <1>4 DEF FriendInv

LEMMA CreateKeepsFriends ==
    ASSUME FriendInv, NEW p \in Directed,
           \/ CreateFriendRequest(p) \/ InsertFriendRequest(p) \/ AbortAccept(p)
           \/ Unblock(p) \/ SetMuted(p) \/ AbortBlock(p)
    PROVE  FriendInv'
  <1>1. /\ friends' = friends /\ raced' = raced /\ blocks' \subseteq blocks
        /\ requests' \subseteq Directed
    BY DEF CreateFriendRequest, InsertFriendRequest, AbortAccept, Unblock, SetMuted,
           AbortBlock, FriendInv
  <1>2. /\ accepting' = [q \in Directed |-> accepting'[q]]
        /\ \A q \in Directed : accepting'[q] \in {accepting[q], "no"}
    BY DEF CreateFriendRequest, InsertFriendRequest, AbortAccept, Unblock, SetMuted,
           AbortBlock, FriendInv, Accepting
  <1>3. /\ blocking' = [q \in Directed |-> blocking'[q]]
        /\ \A q \in Directed : blocking'[q] \in {blocking[q], None}
    BY DEF CreateFriendRequest, InsertFriendRequest, AbortAccept, Unblock, SetMuted,
           AbortBlock, FriendInv
  <1>4. \A q \in Directed : Open(q)' => Open(q) /\ blocking'[q] = blocking[q]
    BY <1>3 DEF Open
  <1>5. \A q \in Directed : Open(q) => blocking[q].friends \in BOOLEAN
    BY DEF FriendInv, BlockFinds
  <1> QED BY <1>1, <1>2, <1>3, <1>4, <1>5, QuietFriends

LEMMA AcceptKeepsFriends ==
    ASSUME FriendInv, NEW p \in Directed, AcceptFriendRequest(p) PROVE FriendInv'
  <1>1. /\ UNCHANGED <<requests, friends, blocks, blocking, raced>> /\ ~IsBlocked(p)
        /\ accepting' = [accepting EXCEPT ![p] = "open"]
    BY DEF AcceptFriendRequest, Accepting
  <1>2. \A q \in Directed : PairBlocked(q)'
    BY <1>1 DEF FriendInv, PairBlocked, IsBlocked
  <1>3. \A q \in Directed : BlockFinds(q)'
    BY <1>1 DEF FriendInv, BlockFinds, Open, AreFriends
  <1> QED BY <1>1, <1>2, <1>3 DEF FriendInv, BlockingEndsFriendship, AreFriends

(* What RowsGone does to the open blocks.                                     *)
LEMMA RowsGoneShape ==
    ASSUME FriendInv, NEW rows, NEW pair, RowsGone(rows, pair)
    PROVE  /\ blocking' = [q \in Directed |-> blocking'[q]]
           /\ \A q \in Directed : Open(q)' =>
                 /\ Open(q) /\ blocking'[q].friends \in BOOLEAN
                 /\ blocking[q].friends = TRUE /\ PairOf(q) # pair => blocking'[q].friends = TRUE
  <1>1. blocking' = [q \in Directed |-> blocking'[q]]
    BY DEF RowsGone
  <1>2. ASSUME NEW q \in Directed, Open(q)'
        PROVE  /\ Open(q) /\ blocking'[q].friends \in BOOLEAN
               /\ blocking[q].friends = TRUE /\ PairOf(q) # pair => blocking'[q].friends = TRUE
    <2>1. Open(q) /\ blocking'[q] = [rows |-> blocking[q].rows \ rows,
                                     friends |-> blocking[q].friends /\ PairOf(q) # pair]
      BY <1>2 DEF RowsGone, Open
    <2>2. blocking'[q].friends = (blocking[q].friends /\ PairOf(q) # pair)
      BY <2>1
    <2> QED BY <2>1, <2>2
  <1> QED BY <1>1, <1>2

LEMMA LessKeepsFriends ==
    ASSUME FriendInv, NEW p \in Directed, DeleteRequest(p) \/ Unfriend(p) PROVE FriendInv'
  <1>1. CASE DeleteRequest(p)
    <2>1. /\ friends' = friends /\ raced' = raced /\ blocks' = blocks
          /\ requests' \subseteq Directed /\ accepting' = accepting /\ RowsGone({p}, {})
      BY <1>1 DEF DeleteRequest, FriendInv
    <2>2. \A q \in Directed : PairOf(q) # {}
      BY PairsOfDirected
    <2>3. accepting' = [q \in Directed |-> accepting'[q]]
      BY <2>1 DEF FriendInv
    <2> QED BY <2>1, <2>2, <2>3, RowsGoneShape, QuietFriends
  <1>2. CASE Unfriend(p)
    <2>1. /\ friends' = friends \ {PairOf(p)} /\ raced' = raced \ {PairOf(p)}
          /\ blocks' = blocks /\ requests' = requests /\ accepting' = accepting
          /\ RowsGone({}, PairOf(p))
      BY <1>2 DEF Unfriend
    <2>2. \A q \in Directed : AreFriends(q)' => PairOf(q) # PairOf(p)
      BY <2>1 DEF AreFriends
    <2>3. /\ accepting' = [q \in Directed |-> accepting'[q]] /\ requests' \subseteq Directed
          /\ friends' \subseteq friends
      BY <2>1 DEF FriendInv
    <2>4. \A q \in Directed : AreFriends(q)' => (PairOf(q) \in raced => PairOf(q) \in raced')
      BY <2>1, <2>2
    <2> QED BY <2>1, <2>2, <2>3, <2>4, RowsGoneShape, QuietFriends
  <1> QED BY <1>1, <1>2

(* A pair that becomes friends while it is blocked, or a block is open, raced.   *)
LEMMA CommitAcceptKeepsFriends ==
    ASSUME FriendInv, NEW p \in Directed, CommitAccept(p) PROVE FriendInv'
  <1>1. /\ requests' \subseteq Directed /\ friends' = friends \cup {PairOf(p)}
        /\ accepting' = [accepting EXCEPT ![p] = "no"] /\ blocks' = blocks
        /\ raced \subseteq raced'
        /\ BlockOpen(p) \/ accepting[p] = "raced" => PairOf(p) \in raced'
        /\ accepting[p] # "no"
    BY DEF CommitAccept, FriendInv, Accepting, Locked
  <1>2. /\ blocking' = [q \in Directed |-> blocking'[q]]
        /\ \A q \in Directed : Open(q)' =>
              /\ Open(q) /\ blocking'[q].friends \in BOOLEAN
              /\ blocking[q].friends = TRUE => blocking'[q].friends = TRUE
    <2>1. RowsGone({p, Reverse2(p)}, {})
      BY DEF CommitAccept
    <2>2. \A q \in Directed : PairOf(q) # {}
      BY PairsOfDirected
    <2> QED BY <2>1, <2>2, RowsGoneShape
  <1>3. ASSUME NEW q \in Directed, AreFriends(q)', IsBlocked(q) \/ Open(q),
               ~AreFriends(q) PROVE PairOf(q) \in raced'
    <2>1. PairOf(q) = PairOf(p)
      BY <1>1, <1>3 DEF AreFriends
    <2>2. q = p \/ q = Reverse2(p)
      BY <2>1, PairsOfDirected
    <2>3. IsBlocked(q) => IsBlocked(p)
      BY <2>2, PairsOfDirected DEF IsBlocked
    <2>4. IsBlocked(p) => accepting[p] = "raced"
      BY <1>1 DEF FriendInv, PairBlocked
    <2>5. Open(q) => BlockOpen(p)
      BY <2>2 DEF BlockOpen
    <2> QED BY <1>1, <1>3, <2>1, <2>3, <2>4, <2>5
  <1>4. BlockingEndsFriendship'
    <2> SUFFICES ASSUME NEW q \in blocks', AreFriends(q)' PROVE PairOf(q) \in raced'
      BY DEF BlockingEndsFriendship
    <2>1. q \in Directed /\ q \in blocks /\ IsBlocked(q)
      BY <1>1 DEF FriendInv, IsBlocked
    <2>2. AreFriends(q) => PairOf(q) \in raced
      BY <2>1 DEF FriendInv, BlockingEndsFriendship
    <2> QED BY <1>1, <1>3, <2>1, <2>2
  <1>5. \A q \in Directed : PairBlocked(q)'
    BY <1>1 DEF FriendInv, PairBlocked, IsBlocked
  <1>6. \A q \in Directed : BlockFinds(q)'
    <2> SUFFICES ASSUME NEW q \in Directed, Open(q)', AreFriends(q)', blocking'[q].friends # TRUE
                 PROVE  PairOf(q) \in raced'
      BY <1>2 DEF BlockFinds
    <2>1. Open(q) /\ blocking[q].friends # TRUE
      BY <1>2
    <2>2. AreFriends(q) => PairOf(q) \in raced
      BY <2>1 DEF FriendInv, BlockFinds
    <2> QED BY <1>1, <1>3, <2>1, <2>2
  <1> QED BY <1>1, <1>2, <1>4, <1>5, <1>6 DEF FriendInv

LEMMA BlockKeepsFriends ==
    ASSUME FriendInv, NEW p \in Directed, Block(p) PROVE FriendInv'
  <1>1. /\ UNCHANGED <<requests, friends, blocks, accepting, raced>>
        /\ blocking' = [q \in Directed |-> blocking'[q]]
        /\ blocking'[p] = [rows |-> {p, Reverse2(p)} \cap requests, friends |-> AreFriends(p)]
        /\ \A q \in Directed \ {p} : blocking'[q] = blocking[q]
    BY DEF Block, FriendInv
  <1>2. ASSUME NEW q \in Directed PROVE BlockFinds(q)'
    <2>1. CASE q = p
      <3>1. blocking'[q].friends = AreFriends(q) /\ AreFriends(q)' = AreFriends(q)
        BY <1>1, <2>1 DEF AreFriends
      <3>2. AreFriends(q) \in BOOLEAN
        BY DEF AreFriends
      <3> QED BY <3>1, <3>2 DEF BlockFinds
    <2>2. CASE q # p
      BY <1>1, <2>2 DEF FriendInv, BlockFinds, Open, AreFriends
    <2> QED BY <2>1, <2>2
  <1> QED BY <1>1, <1>2
          DEF FriendInv, BlockingEndsFriendship, PairBlocked, IsBlocked, AreFriends

LEMMA CommitBlockKeepsFriends ==
    ASSUME FriendInv, NEW p \in Directed, CommitBlock(p) PROVE FriendInv'
  <1> DEFINE ended == IF blocking[p].friends THEN {PairOf(p)} ELSE {}
  <1>0. blocking[p].friends \in BOOLEAN /\ (AreFriends(p) => blocking[p].friends = TRUE
                                                           \/ PairOf(p) \in raced)
    BY DEF FriendInv, BlockFinds, CommitBlock
  <1>1. /\ blocks' = blocks \cup {p} /\ requests' \subseteq Directed
        /\ friends' = friends \ ended /\ raced' = raced \ ended
        /\ accepting' = [q \in Directed |->
               IF q \in Locked /\ PairOf(q) = PairOf(p) THEN "raced" ELSE accepting[q]]
        /\ blocking' = [q \in Directed |->
               IF q = p \/ ~Open(q) THEN None ELSE
               [rows |-> blocking[q].rows \ blocking[p].rows,
                friends |-> blocking[q].friends /\ PairOf(q) \notin ended]]
    BY DEF CommitBlock, FriendInv
  <1>2. ended = IF blocking[p].friends = TRUE THEN {PairOf(p)} ELSE {}
    BY <1>0
  <1> HIDE DEF ended
  <1>3. \A q \in Directed : AreFriends(q)' => AreFriends(q) /\ PairOf(q) \notin ended
    BY <1>1 DEF AreFriends
  <1>4. BlockingEndsFriendship'
    <2> SUFFICES ASSUME NEW q \in blocks', AreFriends(q)' PROVE PairOf(q) \in raced'
      BY DEF BlockingEndsFriendship
    <2>1. q \in Directed
      BY <1>1 DEF FriendInv
    <2>2. CASE q \in blocks
      BY <1>1, <1>3, <2>1, <2>2 DEF FriendInv, BlockingEndsFriendship
    <2>3. CASE q = p
      BY <1>0, <1>1, <1>2, <1>3, <2>1, <2>3
    <2> QED BY <1>1, <2>2, <2>3
  <1>5. ASSUME NEW q \in Directed PROVE PairBlocked(q)'
    <2> SUFFICES ASSUME IsBlocked(q)' PROVE accepting'[q] \in {"no", "raced"}
      BY DEF PairBlocked
    <2>1. CASE PairOf(q) = PairOf(p)
      <3>1. accepting'[q] = IF q \in Locked THEN "raced" ELSE accepting[q]
        BY <1>1, <2>1
      <3> QED BY <3>1 DEF Locked
    <2>2. CASE PairOf(q) # PairOf(p)
      <3>1. accepting'[q] = accepting[q] /\ q # p /\ Reverse2(q) # p
        BY <1>1, <2>2, PairsOfDirected
      <3>2. IsBlocked(q)
        BY <1>1, <3>1 DEF IsBlocked
      <3> QED BY <3>1, <3>2 DEF FriendInv, PairBlocked
    <2> QED BY <2>1, <2>2
  <1>6. ASSUME NEW q \in Directed PROVE BlockFinds(q)'
    <2> SUFFICES ASSUME Open(q)'
                 PROVE  /\ blocking'[q].friends \in BOOLEAN
                        /\ AreFriends(q)' => blocking'[q].friends = TRUE \/ PairOf(q) \in raced'
      BY DEF BlockFinds
    <2>1. Open(q) /\ blocking'[q] = [rows |-> blocking[q].rows \ blocking[p].rows,
                                     friends |-> blocking[q].friends /\ PairOf(q) \notin ended]
      BY <1>1 DEF Open
    <2>2. blocking'[q].friends = (blocking[q].friends /\ PairOf(q) \notin ended)
      BY <2>1
    <2>3. AreFriends(q)' => blocking[q].friends = TRUE \/ PairOf(q) \in raced
      BY <1>3, <2>1 DEF FriendInv, BlockFinds
    <2> QED BY <1>1, <1>3, <2>2, <2>3
  <1>7. accepting' = [q \in Directed |-> accepting'[q]] /\ blocking' = [q \in Directed |-> blocking'[q]]
    BY <1>1
  <1> QED BY <1>1, <1>4, <1>5, <1>6, <1>7 DEF FriendInv

LEMMA EraseKeepsFriends ==
    ASSUME FriendInv, NEW u, DeleteSocialOf(u) PROVE FriendInv'
  <1>1. /\ requests' \subseteq requests /\ blocks' \subseteq blocks
        /\ friends' = {f \in friends : u \notin f} /\ raced' = {f \in raced : u \notin f}
        /\ UNCHANGED <<accepting, blocking>>
    BY DEF DeleteSocialOf
  <1>2. \A q \in Directed : AreFriends(q)' => (PairOf(q) \in raced => PairOf(q) \in raced')
    BY <1>1 DEF AreFriends
  <1>3. \A q \in Directed : Open(q)' => Open(q) /\ blocking'[q].friends \in BOOLEAN
    BY <1>1 DEF Open, FriendInv, BlockFinds
  <1>4. /\ requests' \subseteq Directed /\ friends' \subseteq friends
        /\ accepting' = [q \in Directed |-> accepting'[q]]
        /\ blocking' = [q \in Directed |-> blocking'[q]]
    BY <1>1 DEF FriendInv
  <1> QED BY <1>1, <1>2, <1>3, <1>4, QuietFriends

(* Relations and rewards are moved by their users, and by an erasure.           *)
LEMMA ErasureMovesSocial ==
    ASSUME ErasureStep PROVE UNCHANGED socialVars \/ \E u : DeleteSocialOf(u)
  <1>1. ASSUME NEW w, EraseRows(w) PROVE \E u : DeleteSocialOf(u)
    BY <1>1 DEF EraseRows
  <1>2. ASSUME NEW w, EraseUser(w) PROVE UNCHANGED socialVars
    BY <1>2 DEF EraseUser
  <1> QED BY <1>1, <1>2 DEF ErasureStep

LEMMA FriendsStep ==
    ASSUME FriendInv, AccountsNext \/ UNCHANGED accountsVars PROVE FriendInv'
  <1>1. ASSUME UNCHANGED friendVars PROVE FriendInv'
    BY <1>1 DEF friendVars, FriendInv, BlockingEndsFriendship, PairBlocked, BlockFinds,
                IsBlocked, AreFriends, Open
  <1>2. ASSUME FriendNext PROVE FriendInv'
    <2>1. PICK p \in Directed :
              \/ CreateFriendRequest(p) \/ InsertFriendRequest(p) \/ AcceptFriendRequest(p)
              \/ CommitAccept(p) \/ AbortAccept(p) \/ DeleteRequest(p) \/ Unfriend(p)
              \/ Block(p) \/ CommitBlock(p) \/ AbortBlock(p) \/ Unblock(p) \/ SetMuted(p)
      BY <1>2 DEF FriendNext
    <2> QED BY <2>1, CreateKeepsFriends, AcceptKeepsFriends, CommitAcceptKeepsFriends,
               LessKeepsFriends, BlockKeepsFriends, CommitBlockKeepsFriends
  <1>3. CASE ErasureStep
    BY <1>1, <1>3, ErasureMovesSocial, EraseKeepsFriends DEF socialVars
  <1> QED BY <1>1, <1>2, <1>3 DEF AccountsNext, accountsVars, socialVars
-----------------------------------------------------------------------------
(* Erasure.                                                                  *)

(* A call that has opened a session is done, and a call that is done stays so:    *)
(* no session comes back.                                                    *)
SessionsAreOpenedLast == \A c \in Calls : session[c] # None => At(c, "done")

SessionsOnlyGo ==
    \A c \in Calls :
        /\ At(c, "done") => At(c, "done")'
        /\ session'[c] # None =>
              /\ At(c, "done")'
              /\ \/ ~At(c, "done")
                 \/ /\ session[c] # None /\ session'[c].user = session[c].user
                    /\ session[c].raced => session'[c].raced

LEMMA SameSessions ==
    ASSUME SessionsAreOpenedLast, session' = session, \A c \in Calls : At(c, "done") => At(c, "done")'
    PROVE  SessionsOnlyGo
  BY DEF SessionsAreOpenedLast, SessionsOnlyGo

LEMMA DoneStays ==
    ASSUME CallShape, CodeNext \/ AccountNext, NEW c \in Calls, At(c, "done") PROVE At(c, "done")'
  <1> SUFFICES call'[c] = call[c]
    BY DEF At
  <1>1. ASSUME NEW d \in Calls, NEW x, ~At(d, "done"), call' = [call EXCEPT ![d] = x]
        PROVE  call'[c] = call[c]
    BY <1>1 DEF CallShape
  <1>2. ASSUME NEW d \in Calls, NEW s, Step(d, s), ~At(d, "done") PROVE call'[c] = call[c]
    BY <1>2 DEF Step, CallShape
  <1>3. ASSUME NEW p \in Phones, RequestOTP(p) \/ ExpireOTP(p) PROVE call'[c] = call[c]
    BY <1>3 DEF RequestOTP, ExpireOTP
  <1>4. ASSUME NEW d \in Calls, MarkVerified(d) \/ \E p \in Phones : ReadCode(d, p)
        PROVE  call'[c] = call[c]
    BY <1>2, <1>4 DEF MarkVerified, ReadCode, At, CallShape
  <1>5. ASSUME NEW d \in Calls, NEW p \in Phones, NEW t \in Calls,
               Register(d, p) \/ Login(d, p) \/ LoginVerified(d) \/ Merge(d, p, t)
        PROVE  call'[c] = call[c]
    BY <1>2, <1>5 DEF Register, Login, LoginVerified, Merge, At, CallShape
  <1>6. ASSUME NEW d \in Calls, NEW u \in Users, CreateRegistered(d, u) \/ CreateSocial(d, u)
        PROVE  call'[c] = call[c]
    BY <1>2, <1>6 DEF CreateRegistered, CreateSocial, At, CallShape
  <1>7. ASSUME NEW d \in Calls, NEW i \in Identities, SocialLogin(d, i) PROVE call'[c] = call[c]
    BY <1>2, <1>7 DEF SocialLogin, At, CallShape
  <1>8. ASSUME NEW d \in Calls, ReadMergeToken(d) \/ TakeMergeToken(d) PROVE call'[c] = call[c]
    BY <1>2, <1>8 DEF ReadMergeToken, TakeMergeToken, At, CallShape
  <1>9. ASSUME NEW d \in Calls, LinkCreated(d) \/ LinkMerged(d) PROVE call'[c] = call[c]
    BY <1>2, <1>9 DEF LinkCreated, LinkMerged, At
  <1>10. CASE CodeNext
    BY <1>3, <1>4, <1>10 DEF CodeNext
  <1>11. CASE AccountNext
    <2>1. PICK d \in Calls :
              \/ \E p \in Phones : Register(d, p) \/ Login(d, p)
              \/ \E u \in Users : CreateRegistered(d, u) \/ CreateSocial(d, u)
              \/ \E i \in Identities : SocialLogin(d, i)
              \/ \E p \in Phones, t \in Calls : Merge(d, p, t)
              \/ LoginVerified(d) \/ LinkCreated(d) \/ ReadMergeToken(d) \/ TakeMergeToken(d)
              \/ LinkMerged(d)
      BY <1>11 DEF AccountNext
    <2>2. ASSUME LoginVerified(d) PROVE call'[c] = call[c]
      BY <1>2, <2>2 DEF LoginVerified, At
    <2> QED BY <1>5, <1>6, <1>7, <1>8, <1>9, <2>1, <2>2
  <1> QED BY <1>10, <1>11

(* A session that a revocation deletes is gone, any other one only leaves the    *)
(* index.                                                                    *)
LEMMA DeleteOnlyTakes ==
    ASSUME SessionShape, SessionsAreOpenedLast, UNCHANGED call, NEW w, DeleteTokens(w)
    PROVE  SessionsOnlyGo
  <1>1. ASSUME NEW c \in Calls, session'[c] # None
        PROVE  /\ session[c] # None /\ session'[c].user = session[c].user
               /\ session'[c].raced = session[c].raced
    <2>1. session'[c] = session[c] \/ (session[c] # None
                                       /\ session'[c] = [session[c] EXCEPT !.indexed = FALSE])
      BY <1>1 DEF DeleteTokens
    <2>2. CASE session'[c] = session[c]
      BY <1>1, <2>2
    <2>3. CASE session'[c] # session[c]
      <3>1. session[c] = [user |-> session[c].user, indexed |-> session[c].indexed,
                          raced |-> session[c].raced]
        BY <2>1, <2>3 DEF SessionShape
      <3> QED BY <2>1, <2>3, <3>1
    <2> QED BY <2>2, <2>3
  <1> QED BY <1>1 DEF SessionsOnlyGo, SessionsAreOpenedLast, At

LEMMA SessionsOnlyGoStep ==
    ASSUME CallShape, SessionShape, SessionsAreOpenedLast,
           AccountsNext \/ UNCHANGED accountsVars
    PROVE  SessionsOnlyGo
  <1>1. ASSUME UNCHANGED <<session, call>> PROVE SessionsOnlyGo
    BY <1>1, SameSessions DEF At
  <1>2. CASE CodeNext \/ AccountNext
    <2>1. session' = session
      BY <1>2, AccountsKeepSessions DEF sessionVars
    <2> QED BY <1>2, <2>1, DoneStays, SameSessions
  <1>3. CASE SessionNext
    <2>1. ASSUME NEW c \in Calls, OpenSession(c) PROVE SessionsOnlyGo
      <3>1. /\ ~At(c, "done") /\ call'[c].at = "done"
            /\ \A d \in Calls \ {c} : call'[d] = call[d] /\ session'[d] = session[d]
        BY <2>1 DEF OpenSession, CreateSession, Step, CallShape, SessionShape, At
      <3> QED BY <3>1 DEF SessionsOnlyGo, SessionsAreOpenedLast, At
    <2>2. ASSUME NEW c \in Calls, ExpireSession(c) PROVE SessionsOnlyGo
      <3>1. /\ call' = call /\ \A d \in Calls : session'[d] \in {None, session[d]}
        BY <2>2 DEF ExpireSession, SessionShape
      <3> QED BY <3>1 DEF SessionsOnlyGo, SessionsAreOpenedLast, At
    <2>3. ASSUME NEW c \in Calls, NEW u \in Users, Impersonate(c, u) PROVE SessionsOnlyGo
      <3>1. session' = session /\ \A d \in Calls : At(d, "done") => At(d, "done")'
        BY <2>3 DEF Impersonate, sessionVars, CallShape, At
      <3> QED BY <3>1, SameSessions
    <2> QED BY <1>3, <2>1, <2>2, <2>3 DEF SessionNext
  <1>4. CASE ErasureStep
    <2>1. ASSUME NEW j \in Jobs, NEW u \in Users, Request(j, u) PROVE SessionsOnlyGo
      BY <1>1, <2>1 DEF Request, signInVars, sessionVars
    <2>2. ASSUME NEW w \in Workers, EraseRows(w) \/ EraseUser(w) PROVE SessionsOnlyGo
      BY <1>1, <2>2 DEF EraseRows, EraseUser, DeletePostgresCascade, AnonymizeUser, sessionVars
    <2>3. ASSUME NEW w \in Workers,
                 ClaimNext(w) \/ RunOtherStep(w) \/ MarkStepDone(w) \/ MarkCompleted(w)
          PROVE SessionsOnlyGo
      BY <1>1, <2>3 DEF ClaimNext, RunOtherStep, MarkStepDone, MarkCompleted, signInVars,
                        sessionVars
    <2>4. ASSUME NEW w \in Workers, StartRedisCleanup(w) \/ FailStep(w) \/ Crash(w)
          PROVE SessionsOnlyGo
      BY <1>1, <2>4 DEF StartRedisCleanup, FailStep, Crash, ListTokens
    <2>5. ASSUME NEW w \in Workers, FinishRedisCleanup(w) PROVE SessionsOnlyGo
      BY <2>5, DeleteOnlyTakes DEF FinishRedisCleanup
    <2> QED BY <1>4, <2>1, <2>2, <2>3, <2>4, <2>5 DEF ErasureStep
  <1>5. CASE QueueNext \/ StatusNext
    <2>1. UNCHANGED session
      BY <1>5, ModerationFrame DEF sessionVars
    <2>2. ASSUME UNCHANGED signInVars PROVE UNCHANGED call
      BY <2>2 DEF signInVars
    <2>3. ASSUME NEW m \in Moderators, NEW i \in Items, NEW to \in Verdicts,
                 ResolveAppeal(m, i, to) \/ ResolveReport(m, i, to) \/ ResolveFlag(m, i, to)
          PROVE UNCHANGED call
      BY <2>2, <2>3 DEF ResolveAppeal, ResolveReport, ResolveFlag
    <2>4. ASSUME NEW m \in Moderators, CommitItem(m) \/ CommitStatus(m) \/ RollBack(m)
          PROVE UNCHANGED call
      BY <2>2, <2>4 DEF CommitItem, CommitStatus, RollBack
    <2>5. ASSUME NEW m \in Moderators, NEW u \in Users, NEW to \in SetStatuses,
                 SetStatus(m, u, to)
          PROVE UNCHANGED call
      BY <2>2, <2>5 DEF SetStatus
    <2>6. UNCHANGED call
      BY <1>5, <2>2, <2>3, <2>4, <2>5 DEF QueueNext, StatusNext
    <2> QED BY <1>1, <2>1, <2>6
  <1>6. CASE ConsentNext
    <2>1. UNCHANGED <<session, call>>
      BY <1>6 DEF ConsentNext, GrantConsent, Withdraw, StopTracking, signInVars, sessionVars
    <2> QED BY <1>1, <2>1
  <1>7. ASSUME UNCHANGED signInVars PROVE SessionsOnlyGo
    BY <1>1, <1>7 DEF signInVars, sessionVars
  <1>8. CASE UNCHANGED accountsVars
    BY <1>7, <1>8 DEF accountsVars
  <1> QED BY <1>2, <1>3, <1>4, <1>5, <1>6, <1>7, <1>8 DEF AccountsNext
(* What a job has recorded as done has been removed for its user, and a completed *)
(* job has nothing left; a worker is never behind its job: what it has done, and   *)
(* the step it is about to mark, is removed.  Of the sessions older than a job      *)
(* whose session step has run, those that live have raced.                      *)
EraseShape ==
    /\ job = [j \in Jobs |-> job[j]]
    /\ worker = [w \in Workers |-> worker[w]]
    /\ remains = [j \in Jobs |-> remains[j]]
    /\ oldSessions = [j \in Jobs |-> oldSessions[j]]
    /\ \A j \in Jobs : /\ job[j] = [user |-> job[j].user, status |-> job[j].status,
                                    steps |-> job[j].steps]
                       /\ remains[j] \subseteq Kinds /\ oldSessions[j] \subseteq Calls
    /\ \A w \in Workers : worker[w] # None =>
           /\ worker[w] = [job |-> worker[w].job, at |-> worker[w].at,
                           steps |-> worker[w].steps]
           /\ worker[w].job \in Jobs

OldSession(j, c) ==
    /\ At(c, "done")
    /\ session[c] # None => /\ session[c].user = job[j].user
                            /\ session[c].raced \/ "redis_cleanup" \in remains[j]

JobRight(j) ==
    /\ job[j].steps \cap remains[j] = {}
    /\ job[j].status = "none" => job[j].steps = {}
    /\ job[j].status = "completed" => remains[j] = {}
    /\ \A c \in oldSessions[j] : OldSession(j, c)

WorkerRight(w) ==
    worker[w] # None =>
        /\ job[worker[w].job].status # "none"
        /\ worker[w].steps \cap remains[worker[w].job] = {}
        /\ worker[w].at = "mark" => NextStep(w) \notin remains[worker[w].job]
        /\ worker[w].at = "revoke" =>
               /\ NextStep(w) = "redis_cleanup"
               /\ revoking[w] # None => revoking[w].user = WorkerUser(w)

EraseInv ==
    /\ EraseShape /\ SessionsAreOpenedLast
    /\ \A j \in Jobs : JobRight(j)
    /\ \A w \in Workers : WorkerRight(w)

(* The step that follows those done.                                          *)
StepAfter(done) ==
    OrderedSteps[CHOOSE n \in DOMAIN OrderedSteps :
        /\ OrderedSteps[n] \notin done
        /\ \A k \in 1..(n-1) : OrderedSteps[k] \in done]

LEMMA NextIsAfter ==
    ASSUME NEW w PROVE NextStep(w) = StepAfter(worker[w].steps)
  BY DEF NextStep, StepAfter

LEMMA NextIsAfterPrimed ==
    ASSUME NEW w PROVE NextStep(w)' = StepAfter(worker'[w].steps)
  BY DEF NextStep, StepAfter

LEMMA ErasureStarts ==
    ASSUME NEW phone, NEW opened, SignInInit(phone, opened), ErasureInit PROVE EraseInv
  <1>1. SessionsAreOpenedLast
    BY DEF SignInInit, SessionsAreOpenedLast, At
  <1>2. EraseShape
    BY DEF ErasureInit, EraseShape
  <1>3. \A j \in Jobs : JobRight(j)
    BY DEF ErasureInit, JobRight
  <1>4. \A w \in Workers : WorkerRight(w)
    BY DEF ErasureInit, WorkerRight
  <1> QED BY <1>1, <1>2, <1>3, <1>4 DEF EraseInv

LEMMA OldSessionsStay ==
    ASSUME EraseInv, SessionsOnlyGo, NEW j \in Jobs, oldSessions'[j] = oldSessions[j],
           job'[j].user = job[j].user,
           "redis_cleanup" \in remains[j] => "redis_cleanup" \in remains'[j]
    PROVE  \A c \in oldSessions'[j] : OldSession(j, c)'
  <1> SUFFICES ASSUME NEW c \in oldSessions[j] PROVE OldSession(j, c)'
    OBVIOUS
  <1>1. c \in Calls /\ OldSession(j, c)
    BY DEF EraseInv, EraseShape, JobRight
  <1> QED BY <1>1 DEF OldSession, SessionsOnlyGo, At

(* A step outside the erasure.                                                *)
LEMMA QuietErasure ==
    ASSUME EraseInv, SessionsOnlyGo, UNCHANGED <<job, remains, oldSessions, worker, revoking>>
    PROVE  EraseInv'
  <1>1. EraseShape'
    BY DEF EraseInv, EraseShape
  <1>2. SessionsAreOpenedLast'
    BY DEF SessionsOnlyGo, SessionsAreOpenedLast
  <1>3. \A j \in Jobs : JobRight(j)'
    BY OldSessionsStay DEF EraseInv, JobRight
  <1>4. \A w \in Workers : WorkerRight(w)'
    BY DEF EraseInv, WorkerRight, WorkerUser, NextStep
  <1> QED BY <1>1, <1>2, <1>3, <1>4 DEF EraseInv

(* A worker whose entry, revocation and job do not move.                        *)
LEMMA WorkerStays ==
    ASSUME EraseInv, NEW w \in Workers, worker'[w] = worker[w], revoking'[w] = revoking[w],
           worker[w] # None =>
               /\ job'[worker[w].job].user = job[worker[w].job].user
               /\ job[worker[w].job].status # "none" => job'[worker[w].job].status # "none"
               /\ remains'[worker[w].job] \subseteq remains[worker[w].job]
    PROVE  WorkerRight(w)'
  BY DEF EraseInv, WorkerRight, WorkerUser, NextStep

LEMMA RequestKeeps ==
    ASSUME EraseInv, SessionsOnlyGo, NEW j \in Jobs, NEW u \in Users, Request(j, u)
    PROVE  EraseInv'
  <1>1. /\ job[j].status = "none" /\ UNCHANGED <<worker, session, call, revoking>>
        /\ job' = [job EXCEPT ![j].user = u, ![j].status = "pending"]
        /\ remains' = [remains EXCEPT ![j] = Kinds]
        /\ oldSessions' = [oldSessions EXCEPT ![j] =
               {c \in Calls : session[c] # None /\ session[c].user = u}]
    BY DEF Request, signInVars, sessionVars
  <1>2. /\ job'[j] = [user |-> u, status |-> "pending", steps |-> job[j].steps]
        /\ \A k \in Jobs \ {j} : job'[k] = job[k]
        /\ job' = [k \in Jobs |-> job'[k]]
    <2>1. job[j] = [user |-> job[j].user, status |-> job[j].status, steps |-> job[j].steps]
      BY DEF EraseInv, EraseShape
    <2> QED BY <1>1, <2>1 DEF EraseInv, EraseShape
  <1>3. /\ remains'[j] = Kinds /\ \A k \in Jobs \ {j} : remains'[k] = remains[k]
        /\ remains' = [k \in Jobs |-> remains'[k]]
        /\ oldSessions'[j] = {c \in Calls : session[c] # None /\ session[c].user = u}
        /\ \A k \in Jobs \ {j} : oldSessions'[k] = oldSessions[k]
        /\ oldSessions' = [k \in Jobs |-> oldSessions'[k]]
    BY <1>1 DEF EraseInv, EraseShape
  <1>4. EraseShape'
    <2>1. ASSUME NEW k \in Jobs
          PROVE  /\ job'[k] = [user |-> job'[k].user, status |-> job'[k].status,
                               steps |-> job'[k].steps]
                 /\ remains'[k] \subseteq Kinds /\ oldSessions'[k] \subseteq Calls
      <3>1. CASE k = j
        BY <1>2, <1>3, <3>1
      <3>2. CASE k # j
        BY <1>2, <1>3, <3>2 DEF EraseInv, EraseShape
      <3> QED BY <3>1, <3>2
    <2> QED BY <1>1, <1>2, <1>3, <2>1 DEF EraseInv, EraseShape
  <1>5. SessionsAreOpenedLast'
    BY DEF SessionsOnlyGo, SessionsAreOpenedLast
  <1>6. ASSUME NEW k \in Jobs PROVE JobRight(k)'
    <2>1. CASE k = j
      <3>1. job[j].steps = {}
        BY <1>1 DEF EraseInv, JobRight
      <3>2. ASSUME NEW c \in oldSessions'[j] PROVE OldSession(j, c)'
        <4>1. "redis_cleanup" \in Kinds
          BY DEF Kinds
        <4> QED BY <1>1, <1>2, <1>3, <3>2, <4>1
                DEF OldSession, EraseInv, SessionsAreOpenedLast, At
      <3> QED BY <1>2, <1>3, <2>1, <3>1, <3>2 DEF JobRight
    <2>2. CASE k # j
      <3>1. \A c \in oldSessions'[k] : OldSession(k, c)'
        BY <1>2, <1>3, <2>2, OldSessionsStay
      <3> QED BY <1>2, <1>3, <2>2, <3>1 DEF EraseInv, JobRight
    <2> QED BY <2>1, <2>2
  <1>7. ASSUME NEW w \in Workers PROVE WorkerRight(w)'
    <2>1. worker[w] # None => worker[w].job \in Jobs \ {j}
      BY <1>1 DEF EraseInv, EraseShape, WorkerRight
    <2> QED BY <1>1, <1>2, <1>3, <2>1, WorkerStays
  <1> QED BY <1>4, <1>5, <1>6, <1>7 DEF EraseInv

(* A step that moves a job to another status or records a step, and its worker.   *)
LEMMA JobMoves ==
    ASSUME EraseInv, SessionsOnlyGo, UNCHANGED <<remains, oldSessions>>,
           NEW j \in Jobs, NEW to, to # "none", NEW steps,
           job' = [job EXCEPT ![j] = [user |-> job[j].user, status |-> to, steps |-> steps]],
           steps \cap remains[j] = {}, to = "completed" => remains[j] = {},
           NEW w \in Workers, NEW x, worker' = [worker EXCEPT ![w] = x],
           \A v \in Workers \ {w} : revoking'[v] = revoking[v],
           x # None => /\ x = [job |-> j, at |-> "run", steps |-> x.steps]
                       /\ x.steps \cap remains[j] = {}
    PROVE  EraseInv'
  <1>1. /\ job'[j] = [user |-> job[j].user, status |-> to, steps |-> steps]
        /\ \A k \in Jobs \ {j} : job'[k] = job[k]
        /\ job' = [k \in Jobs |-> job'[k]]
        /\ worker'[w] = x /\ \A v \in Workers \ {w} : worker'[v] = worker[v]
        /\ worker' = [v \in Workers |-> worker'[v]]
    BY DEF EraseInv, EraseShape
  <1>2. EraseShape'
    <2>1. ASSUME NEW k \in Jobs
          PROVE  job'[k] = [user |-> job'[k].user, status |-> job'[k].status,
                            steps |-> job'[k].steps]
      <3>1. CASE k = j
        BY <1>1, <3>1
      <3>2. CASE k # j
        BY <1>1, <3>2 DEF EraseInv, EraseShape
      <3> QED BY <3>1, <3>2
    <2>2. ASSUME NEW v \in Workers, worker'[v] # None
          PROVE  /\ worker'[v] = [job |-> worker'[v].job, at |-> worker'[v].at,
                                  steps |-> worker'[v].steps]
                 /\ worker'[v].job \in Jobs
      <3>1. CASE v = w
        <4>1. x = [job |-> j, at |-> "run", steps |-> x.steps] /\ worker'[v] = x
          BY <1>1, <2>2, <3>1
        <4>2. x.job = j /\ x.at = "run"
          BY <4>1
        <4> QED BY <4>1, <4>2
      <3>2. CASE v # w
        BY <1>1, <2>2, <3>2 DEF EraseInv, EraseShape
      <3> QED BY <3>1, <3>2
    <2> QED BY <1>1, <2>1, <2>2 DEF EraseInv, EraseShape
  <1>3. SessionsAreOpenedLast'
    BY DEF SessionsOnlyGo, SessionsAreOpenedLast
  <1>4. ASSUME NEW k \in Jobs PROVE job'[k].user = job[k].user
    BY <1>1
  <1>5. ASSUME NEW k \in Jobs PROVE JobRight(k)'
    <2>1. \A c \in oldSessions'[k] : OldSession(k, c)'
      BY <1>4, OldSessionsStay
    <2>2. CASE k = j
      BY <1>1, <2>1, <2>2 DEF JobRight
    <2>3. CASE k # j
      BY <1>1, <2>1, <2>3 DEF EraseInv, JobRight
    <2> QED BY <2>2, <2>3
  <1>6. ASSUME NEW v \in Workers PROVE WorkerRight(v)'
    <2>1. CASE v # w
      <3>1. worker[v] # None => worker[v].job \in Jobs
        BY DEF EraseInv, EraseShape
      <3> QED BY <1>1, <1>4, <2>1, <3>1, WorkerStays
    <2>2. CASE v = w
      <3> SUFFICES ASSUME x # None
                   PROVE  /\ job'[x.job].status # "none"
                          /\ x.steps \cap remains'[x.job] = {} /\ x.at = "run"
        BY <1>1, <2>2 DEF WorkerRight
      <3>1. x.job = j /\ x.at = "run"
        OBVIOUS
      <3> QED BY <1>1, <3>1
    <2> QED BY <2>1, <2>2
  <1> QED BY <1>2, <1>3, <1>5, <1>6 DEF EraseInv

(* A step that removes what it is about, for all jobs of the user.               *)
LEMMA RemoveKeeps ==
    ASSUME EraseInv, SessionsOnlyGo, NEW w \in Workers, worker[w] # None,
           NEW kind, kind = NextStep(w), Remove(WorkerUser(w), kind), WorkerGoes(w, "mark"),
           UNCHANGED <<job, oldSessions>>,
           \A v \in Workers \ {w} : revoking'[v] = revoking[v],
           kind = "redis_cleanup" =>
               \A c \in Calls : session'[c] # None /\ session'[c].user = WorkerUser(w)
                                /\ At(c, "done") => session'[c].raced
    PROVE  EraseInv'
  <1> DEFINE u == WorkerUser(w)
  <1>1. /\ remains' = [j \in Jobs |-> remains'[j]]
        /\ \A j \in Jobs : IF job[j].user = u THEN remains'[j] = remains[j] \ {kind}
                                              ELSE remains'[j] = remains[j]
    BY DEF Remove
  <1>2. /\ worker'[w] = [job |-> worker[w].job, at |-> "mark", steps |-> worker[w].steps]
        /\ \A v \in Workers \ {w} : worker'[v] = worker[v]
        /\ worker' = [v \in Workers |-> worker'[v]] /\ worker[w].job \in Jobs
    <2>1. /\ worker[w] = [job |-> worker[w].job, at |-> worker[w].at, steps |-> worker[w].steps]
          /\ worker[w].job \in Jobs
      BY DEF EraseInv, EraseShape
    <2> QED BY <2>1 DEF WorkerGoes, EraseInv, EraseShape
  <1>3. EraseShape'
    <2>1. ASSUME NEW v \in Workers, worker'[v] # None
          PROVE  /\ worker'[v] = [job |-> worker'[v].job, at |-> worker'[v].at,
                                  steps |-> worker'[v].steps]
                 /\ worker'[v].job \in Jobs
      <3>1. CASE v = w
        BY <1>2, <3>1
      <3>2. CASE v # w
        BY <1>2, <2>1, <3>2 DEF EraseInv, EraseShape
      <3> QED BY <3>1, <3>2
    <2>2. \A j \in Jobs : remains'[j] \subseteq Kinds
      BY <1>1 DEF EraseInv, EraseShape
    <2> QED BY <1>1, <1>2, <2>1, <2>2 DEF EraseInv, EraseShape
  <1>4. SessionsAreOpenedLast'
    BY DEF SessionsOnlyGo, SessionsAreOpenedLast
  <1>5. ASSUME NEW j \in Jobs PROVE JobRight(j)'
    <2>1. \A c \in oldSessions'[j] : OldSession(j, c)'
      <3>1. CASE "redis_cleanup" \in remains[j] => "redis_cleanup" \in remains'[j]
        BY <3>1, OldSessionsStay
      <3>2. CASE "redis_cleanup" \in remains[j] /\ "redis_cleanup" \notin remains'[j]
        <4>1. job[j].user = u /\ kind = "redis_cleanup"
          BY <1>1, <3>2
        <4> SUFFICES ASSUME NEW c \in oldSessions[j] PROVE OldSession(j, c)'
          OBVIOUS
        <4>2. c \in Calls /\ OldSession(j, c)
          BY DEF EraseInv, EraseShape, JobRight
        <4>3. /\ At(c, "done")'
              /\ session'[c] # None => session'[c].user = job[j].user
          BY <4>2 DEF OldSession, SessionsOnlyGo
        <4>4. session'[c] # None => session'[c].raced
          BY <4>1, <4>2, <4>3 DEF OldSession
        <4> QED BY <4>3, <4>4 DEF OldSession
      <3> QED BY <3>1, <3>2
    <2> QED BY <1>1, <2>1 DEF EraseInv, JobRight
  <1>6. ASSUME NEW v \in Workers PROVE WorkerRight(v)'
    <2>1. CASE v # w
      <3>1. worker[v] # None => worker[v].job \in Jobs
        BY DEF EraseInv, EraseShape
      <3> QED BY <1>1, <1>2, <2>1, <3>1, WorkerStays
    <2>2. CASE v = w
      <3>1. NextStep(v)' = kind
        <4>1. worker'[v].steps = worker[w].steps
          BY <1>2, <2>2
        <4> QED BY <4>1, NextIsAfter, NextIsAfterPrimed
      <3>2. kind \notin remains'[worker[w].job]
        BY <1>1, <1>2 DEF WorkerUser
      <3>3. worker[w].steps \cap remains'[worker[w].job] = {}
            /\ job[worker[w].job].status # "none"
        BY <1>1, <1>2 DEF EraseInv, WorkerRight
      <3> QED BY <1>2, <2>2, <3>1, <3>2, <3>3 DEF WorkerRight
    <2> QED BY <2>1, <2>2
  <1> QED BY <1>3, <1>4, <1>5, <1>6 DEF EraseInv

(* The session step begins: its revocation is of the job's user.                 *)
LEMMA StartCleanupKeeps ==
    ASSUME EraseInv, SessionsOnlyGo, NEW w \in Workers, StartRedisCleanup(w),
           revoking = [r \in Revokers |-> revoking[r]]
    PROVE  EraseInv'
  <1>0. w \in Revokers
    BY ErasureAssumption
  <1>1. /\ worker[w] # None /\ NextStep(w) = "redis_cleanup"
        /\ UNCHANGED <<job, remains, oldSessions>>
    BY DEF StartRedisCleanup, Running
  <1>2. /\ worker'[w] = [job |-> worker[w].job, at |-> "revoke", steps |-> worker[w].steps]
        /\ \A v \in Workers \ {w} : worker'[v] = worker[v]
        /\ worker' = [v \in Workers |-> worker'[v]] /\ worker[w].job \in Jobs
    <2>1. /\ worker[w] = [job |-> worker[w].job, at |-> worker[w].at, steps |-> worker[w].steps]
          /\ worker[w].job \in Jobs
      BY <1>1 DEF EraseInv, EraseShape
    <2> QED BY <2>1 DEF StartRedisCleanup, WorkerGoes, EraseInv, EraseShape
  <1>3. /\ revoking'[w].user = WorkerUser(w)
        /\ \A v \in Workers \ {w} : revoking'[v] = revoking[v]
    BY <1>0 DEF StartRedisCleanup, ListTokens
  <1>4. EraseShape'
    <2>1. ASSUME NEW v \in Workers, worker'[v] # None
          PROVE  /\ worker'[v] = [job |-> worker'[v].job, at |-> worker'[v].at,
                                  steps |-> worker'[v].steps]
                 /\ worker'[v].job \in Jobs
      <3>1. CASE v = w
        BY <1>2, <3>1
      <3>2. CASE v # w
        BY <1>2, <2>1, <3>2 DEF EraseInv, EraseShape
      <3> QED BY <3>1, <3>2
    <2> QED BY <1>1, <1>2, <2>1 DEF EraseInv, EraseShape
  <1>5. SessionsAreOpenedLast'
    BY DEF SessionsOnlyGo, SessionsAreOpenedLast
  <1>6. \A j \in Jobs : JobRight(j)'
    BY <1>1, OldSessionsStay DEF EraseInv, JobRight
  <1>7. ASSUME NEW v \in Workers PROVE WorkerRight(v)'
    <2>1. CASE v # w
      BY <1>1, <1>2, <1>3, <2>1, WorkerStays
    <2>2. CASE v = w
      <3>1. NextStep(v)' = NextStep(v) /\ WorkerUser(v)' = WorkerUser(v)
        <4>1. worker'[v].steps = worker[v].steps /\ worker'[v].job = worker[v].job
          BY <1>2, <2>2
        <4>2. NextStep(v)' = NextStep(v)
          BY <4>1, NextIsAfter, NextIsAfterPrimed
        <4> QED BY <1>1, <4>1, <4>2 DEF WorkerUser
      <3>2. /\ job[worker[w].job].status # "none"
            /\ worker[w].steps \cap remains[worker[w].job] = {}
        BY <1>1 DEF EraseInv, WorkerRight
      <3> QED BY <1>1, <1>2, <1>3, <2>2, <3>1, <3>2 DEF WorkerRight
    <2> QED BY <2>1, <2>2
  <1> QED BY <1>4, <1>5, <1>6, <1>7 DEF EraseInv

(* The session step ends: what lives on of its user's sessions has raced, since   *)
(* it was not listed.                                                        *)
LEMMA FinishCleanupKeeps ==
    ASSUME EraseInv, SessionsOnlyGo, SessionInv, NEW w \in Workers, FinishRedisCleanup(w)
    PROVE  EraseInv'
  <1>0. w \in Revokers
    BY ErasureAssumption
  <1>1. /\ worker[w] # None /\ worker[w].at = "revoke" /\ revoking[w] # None
        /\ DeleteTokens(w) /\ Remove(WorkerUser(w), "redis_cleanup") /\ WorkerGoes(w, "mark")
        /\ UNCHANGED <<job, oldSessions, call>>
    BY DEF FinishRedisCleanup, DeleteTokens
  <1>2. NextStep(w) = "redis_cleanup" /\ revoking[w].user = WorkerUser(w)
    BY <1>1 DEF EraseInv, WorkerRight
  <1>3. \A v \in Workers \ {w} : revoking'[v] = revoking[v]
    BY <1>0, <1>1 DEF DeleteTokens
  <1>4. ASSUME NEW c \in Calls, session'[c] # None, session'[c].user = WorkerUser(w),
               At(c, "done")
        PROVE  session'[c].raced
    <2>1. /\ session[c] # None /\ session'[c].user = session[c].user
          /\ session[c].raced => session'[c].raced
      BY <1>4 DEF SessionsOnlyGo
    <2>2. c \notin revoking[w].listed
      BY <1>1, <1>4 DEF DeleteTokens
    <2> QED BY <1>0, <1>1, <1>2, <1>4, <2>1, <2>2 DEF SessionInv, Unlisted
  <1> QED BY <1>1, <1>2, <1>3, <1>4, RemoveKeeps

LEMMA RemovingKeeps ==
    ASSUME EraseInv, SessionsOnlyGo, NEW w \in Workers,
           EraseRows(w) \/ EraseUser(w) \/ RunOtherStep(w)
    PROVE  EraseInv'
  <1>1. PICK kind : /\ Running(w, kind) /\ Remove(WorkerUser(w), kind)
                    /\ kind # "redis_cleanup"
    BY DEF EraseRows, EraseUser, RunOtherStep, DeletePostgresCascade, AnonymizeUser
  <1>2. WorkerGoes(w, "mark") /\ UNCHANGED <<job, oldSessions, revoking>>
    BY DEF EraseRows, EraseUser, RunOtherStep, DeletePostgresCascade, AnonymizeUser,
           signInVars, sessionVars
  <1> QED BY <1>1, <1>2, RemoveKeeps DEF Running

LEMMA ClaimKeeps ==
    ASSUME EraseInv, SessionsOnlyGo, NEW w \in Workers, ClaimNext(w) PROVE EraseInv'
  <1>1. PICK j \in Jobs :
            /\ job' = [job EXCEPT ![j].status = "running"]
            /\ worker' = [worker EXCEPT ![w] = [job |-> j, at |-> "run", steps |-> job[j].steps]]
    BY DEF ClaimNext
  <1>2. UNCHANGED <<remains, oldSessions, revoking>>
    BY DEF ClaimNext, signInVars, sessionVars
  <1>3. job' = [job EXCEPT ![j] = [user |-> job[j].user, status |-> "running",
                                   steps |-> job[j].steps]]
    <2>1. job[j] = [user |-> job[j].user, status |-> job[j].status, steps |-> job[j].steps]
      BY DEF EraseInv, EraseShape
    <2>2. [job[j] EXCEPT !.status = "running"] = [user |-> job[j].user, status |-> "running",
                                                  steps |-> job[j].steps]
      BY <2>1
    <2> QED BY <1>1, <2>2
  <1>4. job[j].steps \cap remains[j] = {}
    BY DEF EraseInv, JobRight
  <1>5. PICK x : x = [job |-> j, at |-> "run", steps |-> job[j].steps]
    OBVIOUS
  <1>6. x = [job |-> j, at |-> "run", steps |-> x.steps] /\ x.steps = job[j].steps
    BY <1>5
  <1>7. worker' = [worker EXCEPT ![w] = x]
    BY <1>1, <1>5
  <1>8. PICK to : to = "running" /\ to # "none" /\ to # "completed"
    OBVIOUS
  <1>9. job' = [job EXCEPT ![j] = [user |-> job[j].user, status |-> to, steps |-> job[j].steps]]
    BY <1>3, <1>8
  <1> QED BY <1>2, <1>4, <1>6, <1>7, <1>8, <1>9, JobMoves

(* A failed step leaves the job, a marked one is recorded, and a worker that has   *)
(* done all steps completes the job.                                          *)
LEMMA WorkedKeeps ==
    ASSUME EraseInv, SessionsOnlyGo, NEW w \in Workers,
           FailStep(w) \/ MarkStepDone(w) \/ MarkCompleted(w),
           revoking = [r \in Revokers |-> revoking[r]]
    PROVE  EraseInv'
  <1> DEFINE j == worker[w].job
  <1>1. /\ worker[w] # None /\ j \in Jobs
        /\ worker[w] = [job |-> j, at |-> worker[w].at, steps |-> worker[w].steps]
        /\ job[j] = [user |-> job[j].user, status |-> job[j].status, steps |-> job[j].steps]
        /\ UNCHANGED <<remains, oldSessions>>
    BY DEF FailStep, MarkStepDone, MarkCompleted, EraseInv, EraseShape
  <1>2. \A v \in Workers \ {w} : revoking'[v] = revoking[v]
    <2>1. revoking' = revoking \/ revoking' = [revoking EXCEPT ![w] = None]
      BY DEF FailStep, MarkStepDone, MarkCompleted, signInVars, sessionVars
    <2> QED BY <2>1, ErasureAssumption
  <1>3. /\ job[j].steps \cap remains[j] = {} /\ remains[j] \subseteq Kinds
        /\ worker[w].steps \cap remains[j] = {}
        /\ worker[w].at = "mark" => NextStep(w) \notin remains[j]
    BY <1>1 DEF EraseInv, EraseShape, JobRight, WorkerRight
  <1>4. CASE FailStep(w)
    <2>1. job' = [job EXCEPT ![j].status = "partial_failure"]
          /\ worker' = [worker EXCEPT ![w] = None]
      BY <1>4 DEF FailStep
    <2>2. [job[j] EXCEPT !.status = "partial_failure"] =
              [user |-> job[j].user, status |-> "partial_failure", steps |-> job[j].steps]
      BY <1>1
    <2>3. job' = [job EXCEPT ![j] = [user |-> job[j].user, status |-> "partial_failure",
                                     steps |-> job[j].steps]]
      BY <2>1, <2>2
    <2>4. PICK x : x = None
      OBVIOUS
    <2>5. worker' = [worker EXCEPT ![w] = x]
      BY <2>1, <2>4
    <2>6. PICK to : to = "partial_failure" /\ to # "none" /\ to # "completed"
      OBVIOUS
    <2>7. job' = [job EXCEPT ![j] = [user |-> job[j].user, status |-> to,
                                     steps |-> job[j].steps]]
      BY <2>3, <2>6
    <2> HIDE DEF j
    <2> QED BY <1>1, <1>2, <1>3, <2>4, <2>5, <2>6, <2>7, JobMoves
  <1>5. CASE MarkStepDone(w)
    <2> DEFINE s == NextStep(w)
               x == [job |-> j, at |-> "run", steps |-> worker[w].steps \cup {s}]
    <2>1. /\ job' = [job EXCEPT ![j].steps = @ \cup {s}] /\ worker[w].at = "mark"
          /\ worker' = [worker EXCEPT ![w].steps = @ \cup {s}, ![w].at = "run"]
      BY <1>5 DEF MarkStepDone
    <2> HIDE DEF s
    <2>2. [job[j] EXCEPT !.steps = @ \cup {s}] =
              [user |-> job[j].user, status |-> job[j].status, steps |-> job[j].steps \cup {s}]
      <3> HIDE DEF j
      <3>1. PICK done : done = job[j].steps \cup {s}
        OBVIOUS
      <3>2. [job[j] EXCEPT !.steps = done] =
                [user |-> job[j].user, status |-> job[j].status, steps |-> done]
        BY <1>1
      <3> QED BY <3>1, <3>2
    <2>3. job' = [job EXCEPT ![j] = [user |-> job[j].user, status |-> job[j].status,
                                     steps |-> job[j].steps \cup {s}]]
      BY <2>1, <2>2
    <2>4. worker' = [worker EXCEPT ![w] = x]
      <3>1. PICK done : done = worker[w].steps \cup {s}
        OBVIOUS
      <3>2. worker' = [worker EXCEPT ![w] = [worker[w] EXCEPT !.steps = done, !.at = "run"]]
        BY <2>1, <3>1
      <3> HIDE DEF j
      <3>3. PICK y : y = worker[w]
        OBVIOUS
      <3>4. PICK a, b : y = [job |-> j, at |-> a, steps |-> b]
        BY <1>1, <3>3
      <3>5. PICK z : z = [y EXCEPT !.steps = done, !.at = "run"]
        OBVIOUS
      <3>6. z = [job |-> j, at |-> "run", steps |-> done]
        BY <3>4, <3>5
      <3> QED BY <3>1, <3>2, <3>3, <3>5, <3>6
    <2>5. s \notin remains[j] /\ job[j].status # "none"
      BY <1>1, <1>3, <2>1 DEF s, EraseInv, WorkerRight
    <2>6. job[j].status = "completed" => remains[j] = {}
      BY <1>1 DEF EraseInv, JobRight
    <2>7. x = [job |-> j, at |-> "run", steps |-> x.steps] /\ x.steps = worker[w].steps \cup {s}
      OBVIOUS
    <2>8. x.steps \cap remains[j] = {} /\ (job[j].steps \cup {s}) \cap remains[j] = {}
      BY <1>3, <2>5, <2>7
    <2> HIDE DEF j, x
    <2> QED BY <1>1, <1>2, <2>3, <2>4, <2>5, <2>6, <2>7, <2>8, JobMoves
  <1>6. CASE MarkCompleted(w)
    <2>1. /\ job' = [job EXCEPT ![j].status = "completed"] /\ ~Unfinished(w)
          /\ worker' = [worker EXCEPT ![w] = None]
      BY <1>6 DEF MarkCompleted
    <2>2. [job[j] EXCEPT !.status = "completed"] =
              [user |-> job[j].user, status |-> "completed", steps |-> job[j].steps]
      BY <1>1
    <2>3. job' = [job EXCEPT ![j] = [user |-> job[j].user, status |-> "completed",
                                     steps |-> job[j].steps]]
      BY <2>1, <2>2
    <2>4. Kinds \subseteq worker[w].steps
      <3>1. \A k \in Kinds : \E n \in DOMAIN OrderedSteps : OrderedSteps[n] = k
        <4>1. DOMAIN OrderedSteps = 1..6
          BY DEF OrderedSteps
        <4>2. /\ OrderedSteps[1] = "postgres_cascade" /\ OrderedSteps[2] = "redis_cleanup"
              /\ OrderedSteps[3] = "object_storage" /\ OrderedSteps[4] = "anonymize_user"
              /\ OrderedSteps[5] = "payments"
          BY DEF OrderedSteps
        <4> QED BY <4>1, <4>2 DEF Kinds
      <3> QED BY <2>1, <3>1 DEF Unfinished
    <2>5. remains[j] = {}
      BY <1>3, <2>4
    <2>6. PICK x : x = None
      OBVIOUS
    <2>7. worker' = [worker EXCEPT ![w] = x]
      BY <2>1, <2>6
    <2> HIDE DEF j
    <2> QED BY <1>1, <1>2, <1>3, <2>3, <2>5, <2>6, <2>7, JobMoves
  <1> QED BY <1>4, <1>5, <1>6

LEMMA CrashKeeps ==
    ASSUME EraseInv, SessionsOnlyGo, NEW w \in Workers, Crash(w),
           revoking = [r \in Revokers |-> revoking[r]]
    PROVE  EraseInv'
  <1>1. /\ UNCHANGED <<job, remains, oldSessions>>
        /\ worker'[w] = None /\ worker' = [v \in Workers |-> worker'[v]]
        /\ \A v \in Workers \ {w} : worker'[v] = worker[v] /\ revoking'[v] = revoking[v]
    <2>1. UNCHANGED <<job, remains, oldSessions>> /\ worker' = [worker EXCEPT ![w] = None]
          /\ revoking' = [revoking EXCEPT ![w] = None]
      BY DEF Crash
    <2> QED BY <2>1, ErasureAssumption DEF EraseInv, EraseShape
  <1>2. EraseShape'
    BY <1>1 DEF EraseInv, EraseShape
  <1>3. SessionsAreOpenedLast'
    BY DEF SessionsOnlyGo, SessionsAreOpenedLast
  <1>4. \A j \in Jobs : JobRight(j)'
    BY <1>1, OldSessionsStay DEF EraseInv, JobRight
  <1>5. ASSUME NEW v \in Workers PROVE WorkerRight(v)'
    <2>1. CASE v # w
      BY <1>1, <2>1, WorkerStays
    <2>2. CASE v = w
      BY <1>1, <2>2 DEF WorkerRight
    <2> QED BY <2>1, <2>2
  <1> QED BY <1>2, <1>3, <1>4, <1>5 DEF EraseInv

LEMMA EraseStep ==
    ASSUME EraseInv, SessionInv, CallShape, AccountsNext \/ UNCHANGED accountsVars
    PROVE  EraseInv'
  <1>0. SessionsOnlyGo
    BY SessionsOnlyGoStep DEF EraseInv, SessionInv
  <1>1. ASSUME UNCHANGED erasureVars, UNCHANGED sessionVars PROVE EraseInv'
    BY <1>0, <1>1, QuietErasure DEF erasureVars, jobVars, sessionVars
  <1>2. CASE ErasureStep
    <2>1. revoking = [r \in Revokers |-> revoking[r]]
      BY DEF SessionInv, SessionShape
    <2>2. ASSUME NEW j \in Jobs, NEW u \in Users, Request(j, u) PROVE EraseInv'
      BY <1>0, <2>2, RequestKeeps
    <2>3. ASSUME NEW w \in Workers, EraseRows(w) \/ EraseUser(w) \/ RunOtherStep(w)
          PROVE EraseInv'
      BY <1>0, <2>3, RemovingKeeps
    <2>4. ASSUME NEW w \in Workers, StartRedisCleanup(w) \/ FinishRedisCleanup(w)
          PROVE EraseInv'
      BY <1>0, <2>1, <2>4, StartCleanupKeeps, FinishCleanupKeeps
    <2>5. ASSUME NEW w \in Workers, ClaimNext(w) \/ Crash(w) PROVE EraseInv'
      BY <1>0, <2>1, <2>5, ClaimKeeps, CrashKeeps
    <2>6. ASSUME NEW w \in Workers, FailStep(w) \/ MarkStepDone(w) \/ MarkCompleted(w)
          PROVE EraseInv'
      BY <1>0, <2>1, <2>6, WorkedKeeps
    <2> QED BY <1>2, <2>2, <2>3, <2>4, <2>5, <2>6 DEF ErasureStep
  <1>3. ASSUME CodeNext \/ AccountNext \/ SessionNext, UNCHANGED erasureVars PROVE EraseInv'
    <2>1. SessionNext => revoking' = revoking
      BY DEF SessionNext, OpenSession, CreateSession, ExpireSession, Impersonate, sessionVars
    <2>2. CodeNext \/ AccountNext => revoking' = revoking
      BY AccountsKeepSessions DEF sessionVars
    <2> QED BY <1>0, <1>3, <2>1, <2>2, QuietErasure DEF erasureVars, jobVars
  <1>4. CASE ConsentNext
    <2>1. UNCHANGED <<job, remains, oldSessions, worker, revoking>>
      BY <1>4 DEF ConsentNext, GrantConsent, Withdraw, StopTracking, signInVars, sessionVars,
                  jobVars
    <2> QED BY <1>0, <2>1, QuietErasure
  <1>5. ASSUME QueueNext \/ StatusNext, UNCHANGED erasureVars PROVE EraseInv'
    BY <1>1, <1>5, ModerationFrame
  <1>6. ASSUME UNCHANGED <<signInVars, erasureVars>> PROVE EraseInv'
    BY <1>1, <1>6 DEF signInVars
  <1>7. CASE UNCHANGED accountsVars
    BY <1>6, <1>7 DEF accountsVars
  <1> QED BY <1>2, <1>3, <1>4, <1>5, <1>6, <1>7 DEF AccountsNext

LEMMA EraseInvErases == EraseInv => ErasureLeavesNothing
  <1> SUFFICES ASSUME EraseInv, NEW j \in Jobs, job[j].status = "completed"
               PROVE  /\ remains[j] = {}
                      /\ \A c \in oldSessions[j] : session[c] # None => session[c].raced
    BY DEF ErasureLeavesNothing
  <1>1. remains[j] = {} /\ \A c \in oldSessions[j] : OldSession(j, c)
    BY DEF EraseInv, JobRight
  <1> QED BY <1>1 DEF OldSession
-----------------------------------------------------------------------------
(* Moderation.                                                               *)

(* A chain of audited changes that ends at a status.                           *)
Change == [from : UserStatuses, to : SetStatuses]
LastOf(log, k) == IF k = 1 THEN "active" ELSE log[k-1].to
Explains(log, status) ==
    /\ \A k \in DOMAIN log : log[k].from \in {LastOf(log, k), "erased"}
    /\ status \in {LastOf(log, Len(log) + 1), "erased"}

LEMMA AuditByUser ==
    AuditExplainsStatus <=> \A u \in Users : Exists(u) => Explains(statusLog[u], user[u].status)
  BY DEF AuditExplainsStatus, Explains, LastOf

LEMMA AppendExplains ==
    ASSUME NEW log \in Seq(Change), NEW status \in UserStatuses, NEW to \in SetStatuses,
           Explains(log, status)
    PROVE  /\ Append(log, [from |-> status, to |-> to]) \in Seq(Change)
           /\ Explains(Append(log, [from |-> status, to |-> to]), to)
  <1> DEFINE e == [from |-> status, to |-> to]
             new == Append(log, e)
             n == Len(log)
  <1>1. e \in Change /\ e.from = status /\ e.to = to
    BY DEF Change
  <1> HIDE DEF e
  <1>2. /\ new \in Seq(Change) /\ n \in Nat /\ DOMAIN log = 1..n /\ DOMAIN new = 1..(n + 1)
        /\ Len(new) = n + 1 /\ new[n + 1] = e /\ \A k \in 1..n : new[k] = log[k]
    BY <1>1
  <1> HIDE DEF new
  <1>3. \A k \in 1..(n + 1) : LastOf(new, k) = LastOf(log, k)
    BY <1>2 DEF LastOf
  <1>4. ASSUME NEW k \in 1..(n + 1) PROVE new[k].from \in {LastOf(new, k), "erased"}
    <2>1. CASE k = n + 1
      BY <1>1, <1>2, <1>3, <2>1 DEF Explains
    <2>2. CASE k # n + 1
      <3>1. k \in 1..n
        BY <1>2, <2>2
      <3> QED BY <1>2, <1>3, <3>1 DEF Explains
    <2> QED BY <2>1, <2>2
  <1>5. LastOf(new, Len(new) + 1) = to
    <2>1. Len(new) + 1 # 1 /\ (Len(new) + 1) - 1 = n + 1
      BY <1>2
    <2> QED BY <1>1, <1>2, <2>1 DEF LastOf
  <1>6. Explains(new, to)
    BY <1>2, <1>4, <1>5 DEF Explains
  <1> QED BY <1>2, <1>6 DEF new, e

(* Whoever decides holds the row, as it was when it was read.                   *)
LockRight(m) ==
    Deciding(m) =>
        \/ /\ decision[m].on \in Items /\ decision[m].to \in Verdicts
           /\ item[decision[m].on] = "pending"
        \/ /\ decision[m].on \in Users /\ decision[m].to \in SetStatuses
           /\ Exists(decision[m].on) /\ decision[m].from = user[decision[m].on].status

LocksAreHeld ==
    \A m, n \in Moderators :
        Deciding(m) /\ Deciding(n) /\ decision[m].on = decision[n].on => m = n

LogRight(u) ==
    /\ statusLog[u] \in Seq(Change) /\ user[u].status \in UserStatuses
    /\ ~Exists(u) => statusLog[u] = <<>>
    /\ Exists(u) => Explains(statusLog[u], user[u].status)

(* Of a user one appeal is pending, and of the flags tested on their own one is    *)
(* there.                                                                    *)
Same(i, k, kind) ==
    ItemUser[i] = ItemUser[k] /\ ItemKind[i] = kind /\ ItemKind[k] = kind

AppealsRight ==
    \A i, k \in Items : Same(i, k, "appeal") /\ item[i] = "pending" /\ item[k] = "pending" => i = k

FlagsRight ==
    \A i, k \in Items :
        /\ Same(i, k, "flag") /\ i \notin twin /\ k \notin twin
        /\ item[i] \in {"tested", "pending"} /\ item[k] \in {"tested", "pending"}
        => i = k

CountRight(i) == decisions[i] = IF item[i] \in Verdicts THEN 1 ELSE 0

QueueShape ==
    /\ item = [i \in Items |-> item[i]] /\ decisions = [i \in Items |-> decisions[i]]
    /\ decision = [m \in Moderators |-> decision[m]]
    /\ statusLog = [u \in Users |-> statusLog[u]]

AuditInv ==
    /\ QueueShape
    /\ \A m \in Moderators : LockRight(m)
    /\ LocksAreHeld
    /\ \A u \in Users : LogRight(u)
    /\ AppealsRight /\ FlagsRight
    /\ \A i \in Items : CountRight(i)

LEMMA AuditStarts ==
    ASSUME NEW phone, NEW opened, SignInInit(phone, opened), ModerationInit PROVE AuditInv
  <1>1. QueueShape /\ LocksAreHeld /\ AppealsRight /\ FlagsRight
    BY DEF ModerationInit, QueueShape, LocksAreHeld, AppealsRight, FlagsRight, Deciding
  <1>2. \A m \in Moderators : LockRight(m)
    BY DEF ModerationInit, LockRight, Deciding
  <1>3. \A i \in Items : CountRight(i)
    BY DEF ModerationInit, CountRight, Verdicts
  <1>4. ASSUME NEW u \in Users PROVE LogRight(u)
    <2>1. statusLog[u] = <<>> /\ user[u].status \in {"none", "active"}
      BY DEF ModerationInit, SignInInit
    <2>2. Explains(<<>>, "active")
      BY DEF Explains, LastOf
    <2> QED BY <2>1, <2>2 DEF LogRight, Exists, UserStatuses
  <1> QED BY <1>1, <1>2, <1>3, <1>4 DEF AuditInv

(* What may happen to a status outside moderation.                             *)
StatusMoves ==
    \A u \in Users : \/ user'[u].status = user[u].status
                     \/ ~Exists(u) /\ user'[u].status = "active"
                     \/ RowFree(u) /\ user'[u].status = "erased"

LEMMA QuietAudit ==
    ASSUME AuditInv, StatusMoves, UNCHANGED moderationVars PROVE AuditInv'
  <1>1. QueueShape' /\ LocksAreHeld' /\ AppealsRight' /\ FlagsRight'
    BY DEF AuditInv, moderationVars, QueueShape, LocksAreHeld, AppealsRight, FlagsRight, Deciding
  <1>2. ASSUME NEW m \in Moderators PROVE LockRight(m)'
    <2>1. decision' = decision /\ item' = item /\ (Deciding(m)' <=> Deciding(m)) /\ LockRight(m)
      BY DEF moderationVars, Deciding, AuditInv
    <2>2. ASSUME Deciding(m), decision[m].on \in Users, Exists(decision[m].on)
          PROVE  user'[decision[m].on].status = user[decision[m].on].status
      BY <2>2 DEF StatusMoves, RowFree
    <2> QED BY <2>1, <2>2 DEF LockRight, Exists
  <1>3. \A i \in Items : CountRight(i)'
    BY DEF AuditInv, moderationVars, CountRight
  <1>4. ASSUME NEW u \in Users PROVE LogRight(u)'
    <2>1. statusLog'[u] = statusLog[u] /\ LogRight(u)
      BY DEF moderationVars, AuditInv
    <2>2. CASE user'[u].status = user[u].status
      BY <2>1, <2>2 DEF LogRight, Exists
    <2>3. CASE ~Exists(u) /\ user'[u].status = "active"
      <3>1. Explains(<<>>, "active")
        BY DEF Explains, LastOf
      <3> QED BY <2>1, <2>3, <3>1 DEF LogRight, Exists, UserStatuses
    <2>4. CASE user'[u].status = "erased"
      <3>1. Explains(<<>>, "erased")
        BY DEF Explains, LastOf
      <3>2. Explains(statusLog[u], "erased")
        BY <2>1, <3>1 DEF LogRight, Explains
      <3> QED BY <2>1, <2>4, <3>2 DEF LogRight, Exists, UserStatuses
    <2> QED BY <2>2, <2>3, <2>4 DEF StatusMoves
  <1> QED BY <1>1, <1>2, <1>3, <1>4 DEF AuditInv

(* A row that is filed, or has been tested: nobody decides on it yet.            *)
LEMMA FilingKeepsAudit ==
    ASSUME AuditInv, UNCHANGED signInVars, NEW i \in Items,
           \/ TestAppeal(i) \/ FileAppeal(i) \/ FileReport(i) \/ TestAnomaly(i) \/ InsertFlag(i)
    PROVE  AuditInv'
  <1>1. PICK s : /\ item' = [item EXCEPT ![i] = s]
                 /\ s \in {"tested", "pending", "refused"} /\ item[i] \in {"none", "tested"}
    BY DEF TestAppeal, FileAppeal, FileReport, TestAnomaly, InsertFlag, File
  <1>2. /\ UNCHANGED <<decisions, statusLog, decision, user>> /\ twin \subseteq twin'
    BY DEF TestAppeal, FileAppeal, FileReport, TestAnomaly, InsertFlag, File, signInVars, accountVars
  <1>3. item'[i] = s /\ (\A k \in Items \ {i} : item'[k] = item[k])
        /\ item' = [k \in Items |-> item'[k]]
    BY <1>1 DEF AuditInv, QueueShape
  <1>4. QueueShape' /\ LocksAreHeld'
    BY <1>2, <1>3 DEF AuditInv, QueueShape, LocksAreHeld, Deciding
  <1>5. \A m \in Moderators : LockRight(m)'
    BY <1>1, <1>2, <1>3 DEF AuditInv, LockRight, Deciding, Exists
  <1>6. \A u \in Users : LogRight(u)'
    BY <1>2 DEF AuditInv, LogRight, Exists
  <1>7. \A k \in Items : CountRight(k)'
    BY <1>1, <1>2, <1>3 DEF AuditInv, CountRight, Verdicts
  <1>8. AppealsRight'
    <2>1. s = "pending" /\ ItemKind[i] = "appeal" => PendingOf(ItemUser[i], "appeal") = {}
      BY <1>1, <1>3 DEF TestAppeal, FileAppeal, FileReport, TestAnomaly, InsertFlag, File
    <2> QED BY <1>3, <2>1 DEF AuditInv, AppealsRight, Same, PendingOf
  <1>9. FlagsRight'
    <2>1. CASE ItemKind[i] # "flag"
      BY <1>2, <1>3, <2>1 DEF AuditInv, FlagsRight, Same
    <2>2. CASE ItemKind[i] = "flag" /\ item[i] = "tested"
      BY <1>2, <1>3, <2>2 DEF AuditInv, FlagsRight, Same
    <2>3. CASE ItemKind[i] = "flag" /\ item[i] # "tested"
      <3>1. TestAnomaly(i)
        BY <2>3 DEF TestAppeal, FileAppeal, FileReport, InsertFlag
      <3>2. ASSUME NEW k \in Items \ {i}, Same(i, k, "flag"), i \notin twin',
                   item[k] \in {"tested", "pending"}
            PROVE  FALSE
        <4>1. item[k] # "pending"
          BY <3>1, <3>2 DEF TestAnomaly, PendingOf, Same
        <4>2. item[k] # "tested"
          BY <3>1, <3>2 DEF TestAnomaly, Same
        <4> QED BY <3>2, <4>1, <4>2
      <3> SUFFICES ASSUME NEW a \in Items, NEW b \in Items, Same(a, b, "flag"),
                          a \notin twin', b \notin twin',
                          item'[a] \in {"tested", "pending"}, item'[b] \in {"tested", "pending"},
                          a # b
                   PROVE  FALSE
        BY DEF FlagsRight, Same
      <3>3. CASE a = i
        BY <1>3, <3>2, <3>3
      <3>4. CASE b = i
        BY <1>3, <3>2, <3>4 DEF Same
      <3>5. CASE a # i /\ b # i
        BY <1>2, <1>3, <3>5 DEF AuditInv, FlagsRight
      <3> QED BY <3>3, <3>4, <3>5
    <2> QED BY <2>1, <2>2, <2>3
  <1> QED BY <1>4, <1>5, <1>6, <1>7, <1>8, <1>9 DEF AuditInv

(* A moderator's transaction that takes its lock, or ends.                       *)
LEMMA LockKeepsAudit ==
    ASSUME AuditInv, UNCHANGED <<item, twin, decisions, statusLog, user>>,
           NEW m \in Moderators, NEW d, decision' = [decision EXCEPT ![m] = d],
           d \in {None, Done} \/
               /\ RowFree(d.on)
               /\ \/ d.on \in Items /\ d.to \in Verdicts /\ item[d.on] = "pending"
                  \/ /\ d.on \in Users /\ d.to \in SetStatuses
                     /\ Exists(d.on) /\ d.from = user[d.on].status
    PROVE  AuditInv'
  <1>1. /\ decision'[m] = d /\ \A n \in Moderators \ {m} : decision'[n] = decision[n]
        /\ decision' = [n \in Moderators |-> decision'[n]]
    BY DEF AuditInv, QueueShape
  <1>2. QueueShape' /\ AppealsRight' /\ FlagsRight'
    BY <1>1 DEF AuditInv, QueueShape, AppealsRight, FlagsRight
  <1>3. LocksAreHeld'
    <2>1. \A n \in Moderators \ {m} : Deciding(n)' <=> Deciding(n)
      BY <1>1 DEF Deciding
    <2>2. \A n \in Moderators \ {m} : Deciding(m)' /\ Deciding(n)' => decision'[n].on # d.on
      BY <1>1, <2>1 DEF Deciding, RowFree
    <2> QED BY <1>1, <2>1, <2>2 DEF AuditInv, LocksAreHeld
  <1>4. ASSUME NEW n \in Moderators PROVE LockRight(n)'
    <2>1. CASE n = m
      BY <1>1, <2>1 DEF LockRight, Deciding, Exists
    <2>2. CASE n # m
      BY <1>1, <2>2 DEF AuditInv, LockRight, Deciding, Exists
    <2> QED BY <2>1, <2>2
  <1>5. (\A u \in Users : LogRight(u)') /\ (\A i \in Items : CountRight(i)')
    BY DEF AuditInv, LogRight, Exists, CountRight
  <1> QED BY <1>2, <1>3, <1>4, <1>5 DEF AuditInv

LEMMA CommitItemKeepsAudit ==
    ASSUME AuditInv, NEW m \in Moderators, CommitItem(m) PROVE AuditInv'
  <1>1. PICK i \in Items : i = decision[m].on
    BY DEF CommitItem
  <1>2. Deciding(m) /\ item[i] = "pending" /\ decision[m].to \in Verdicts
    BY <1>1, ModerationAssumption DEF CommitItem, AuditInv, LockRight
  <1>3. /\ item'[i] \in Verdicts /\ \A k \in Items \ {i} : item'[k] = item[k]
        /\ item' = [k \in Items |-> item'[k]]
        /\ decisions'[i] = decisions[i] + 1
        /\ \A k \in Items \ {i} : decisions'[k] = decisions[k]
        /\ decisions' = [k \in Items |-> decisions'[k]]
        /\ UNCHANGED <<twin, statusLog, user>>
    BY <1>1, <1>2 DEF CommitItem, AuditInv, QueueShape, signInVars, accountVars
  <1>4. /\ decision'[m] = Done /\ \A n \in Moderators \ {m} : decision'[n] = decision[n]
        /\ decision' = [n \in Moderators |-> decision'[n]]
    BY DEF CommitItem, AuditInv, QueueShape
  <1>5. QueueShape' /\ LocksAreHeld'
    BY <1>3, <1>4 DEF AuditInv, QueueShape, LocksAreHeld, Deciding
  <1>6. ASSUME NEW n \in Moderators PROVE LockRight(n)'
    <2>1. CASE n = m
      BY <1>4, <2>1 DEF LockRight, Deciding
    <2>2. CASE n # m
      <3>1. Deciding(n) => decision[n].on # i
        BY <1>1, <1>2, <2>2 DEF AuditInv, LocksAreHeld
      <3> QED BY <1>3, <1>4, <2>2, <3>1 DEF AuditInv, LockRight, Deciding, Exists
    <2> QED BY <2>1, <2>2
  <1>7. \A u \in Users : LogRight(u)'
    BY <1>3 DEF AuditInv, LogRight, Exists
  <1>8. AppealsRight' /\ FlagsRight'
    <2>1. item'[i] \notin {"tested", "pending"}
      BY <1>3 DEF Verdicts
    <2> QED BY <1>3, <2>1 DEF AuditInv, AppealsRight, FlagsRight
  <1>9. \A k \in Items : CountRight(k)'
    <2>1. decisions[i] = 0
      BY <1>2 DEF AuditInv, CountRight, Verdicts
    <2> QED BY <1>3, <2>1 DEF AuditInv, CountRight
  <1> QED BY <1>5, <1>6, <1>7, <1>8, <1>9 DEF AuditInv

(* A status changes with its audit row, from what the row says.                  *)
LEMMA CommitStatusKeepsAudit ==
    ASSUME AuditInv, UserShape, NEW m \in Moderators, CommitStatus(m) PROVE AuditInv'
  <1>1. PICK u \in Users : u = decision[m].on
    BY DEF CommitStatus
  <1>2. PICK to \in SetStatuses : to = decision[m].to
    BY <1>1, ModerationAssumption DEF CommitStatus, AuditInv, LockRight
  <1>3. PICK status : status = user[u].status
    OBVIOUS
  <1>4. Deciding(m) /\ Exists(u) /\ decision[m].from = status
    BY <1>1, <1>3, ModerationAssumption DEF CommitStatus, AuditInv, LockRight
  <1>5. /\ user'[u].status = to /\ \A v \in Users \ {u} : user'[v] = user[v]
        /\ statusLog'[u] = Append(statusLog[u], [from |-> status, to |-> to])
        /\ \A v \in Users \ {u} : statusLog'[v] = statusLog[v]
        /\ statusLog' = [v \in Users |-> statusLog'[v]]
        /\ UNCHANGED <<item, twin, decisions>>
    <2>1. user' = [user EXCEPT ![u].status = to]
      BY <1>1, <1>2 DEF CommitStatus
    <2>2. user = [v \in Users |-> user[v]]
          /\ user[u] = [status |-> user[u].status, phone |-> user[u].phone, email |-> user[u].email]
      BY DEF UserShape
    <2>3. user'[u].status = to /\ \A v \in Users \ {u} : user'[v] = user[v]
      BY <2>1, <2>2
    <2>4. statusLog' = [statusLog EXCEPT ![u] = Append(@, [from |-> status, to |-> to])]
      BY <1>1, <1>2, <1>4 DEF CommitStatus
    <2>5. UNCHANGED <<item, twin, decisions>>
      BY DEF CommitStatus
    <2> QED BY <2>3, <2>4, <2>5 DEF AuditInv, QueueShape
  <1>6. /\ decision'[m] = Done /\ \A n \in Moderators \ {m} : decision'[n] = decision[n]
        /\ decision' = [n \in Moderators |-> decision'[n]]
    BY DEF CommitStatus, AuditInv, QueueShape
  <1>7. QueueShape' /\ LocksAreHeld'
    BY <1>5, <1>6 DEF AuditInv, QueueShape, LocksAreHeld, Deciding
  <1>8. ASSUME NEW n \in Moderators PROVE LockRight(n)'
    <2>1. CASE n = m
      BY <1>6, <2>1 DEF LockRight, Deciding
    <2>2. CASE n # m
      <3>1. Deciding(n) => decision[n].on # u
        BY <1>1, <1>4, <2>2 DEF AuditInv, LocksAreHeld
      <3> QED BY <1>5, <1>6, <2>2, <3>1 DEF AuditInv, LockRight, Deciding, Exists
    <2> QED BY <2>1, <2>2
  <1>9. ASSUME NEW v \in Users PROVE LogRight(v)'
    <2>1. CASE v # u
      BY <1>5, <2>1 DEF AuditInv, LogRight, Exists
    <2>2. CASE v = u
      <3>1. /\ statusLog[u] \in Seq(Change) /\ status \in UserStatuses
            /\ Explains(statusLog[u], status)
        BY <1>3, <1>4 DEF AuditInv, LogRight
      <3>2. statusLog'[u] \in Seq(Change) /\ Explains(statusLog'[u], to)
        BY <1>5, <3>1, AppendExplains
      <3>3. to \in UserStatuses /\ to # "none"
        BY DEF SetStatuses, UserStatuses
      <3> QED BY <1>5, <2>2, <3>2, <3>3 DEF LogRight, Exists
    <2> QED BY <2>1, <2>2
  <1>10. AppealsRight' /\ FlagsRight' /\ \A i \in Items : CountRight(i)'
    BY <1>5 DEF AuditInv, AppealsRight, FlagsRight, CountRight
  <1> QED BY <1>7, <1>8, <1>9, <1>10 DEF AuditInv

(* An erasure takes the user's rows that nobody decides on.                      *)
LEMMA EraseItemsKeepsAudit ==
    ASSUME AuditInv, UNCHANGED user, NEW u, DeleteItemsOf(u) PROVE AuditInv'
  <1>1. /\ item' = [i \in Items |-> IF ItemUser[i] = u /\ item[i] \notin {"none", "tested"}
                                    THEN "refused" ELSE item[i]]
        /\ decisions' = [i \in Items |-> IF ItemUser[i] = u THEN 0 ELSE decisions[i]]
        /\ UNCHANGED <<twin, statusLog, decision>>
        /\ \A i \in Items : ItemUser[i] = u => RowFree(i)
    BY DEF DeleteItemsOf
  <1>2. QueueShape' /\ LocksAreHeld'
    BY <1>1 DEF AuditInv, QueueShape, LocksAreHeld, Deciding
  <1>3. \A m \in Moderators : LockRight(m)'
    BY <1>1 DEF AuditInv, LockRight, Deciding, Exists, RowFree
  <1>4. \A v \in Users : LogRight(v)'
    BY <1>1 DEF AuditInv, LogRight, Exists
  <1>5. \A i \in Items : item'[i] \in {"tested", "pending"} => item'[i] = item[i]
    BY <1>1
  <1>6. AppealsRight' /\ FlagsRight'
    BY <1>1, <1>5 DEF AuditInv, AppealsRight, FlagsRight
  <1>7. \A i \in Items : CountRight(i)'
    BY <1>1 DEF AuditInv, CountRight, Verdicts
  <1> QED BY <1>2, <1>3, <1>4, <1>6, <1>7 DEF AuditInv

(* A sign-in makes users, and gives them an email, never another status.          *)
LEMMA AccountsMoveStatuses ==
    ASSUME UserShape, AccountNext PROVE StatusMoves
  <1>1. ASSUME UNCHANGED user PROVE StatusMoves
    BY <1>1 DEF StatusMoves
  <1>2. ASSUME NEW u \in Users, NEW p, NEW e, CreateUser(u, p, e) PROVE StatusMoves
    BY <1>2 DEF CreateUser, StatusMoves, UserShape
  <1>3. ASSUME NEW c \in Calls, NEW u \in Users, CreateRegistered(c, u) \/ CreateSocial(c, u)
        PROVE StatusMoves
    BY <1>1, <1>2, <1>3 DEF CreateRegistered, CreateSocial, accountVars
  <1>4. ASSUME NEW c \in Calls, LinkMerged(c) PROVE StatusMoves
    <2>1. CASE user' = user
      BY <1>1, <2>1
    <2>2. CASE user' # user
      <3>1. PICK u, e : user' = [user EXCEPT ![u].email = e]
        BY <1>4, <2>2 DEF LinkMerged
      <3>2. ASSUME NEW v \in Users PROVE user'[v].status = user[v].status
        <4>1. user = [w \in Users |-> user[w]]
              /\ user[v] = [status |-> user[v].status, phone |-> user[v].phone, email |-> user[v].email]
          BY DEF UserShape
        <4>2. CASE v = u
          <5>1. user'[v] = [user[v] EXCEPT !.email = e]
            BY <3>1, <4>1, <4>2
          <5> QED BY <4>1, <5>1
        <4>3. CASE v # u
          BY <3>1, <4>1, <4>3
        <4> QED BY <4>2, <4>3
      <3> QED BY <3>2 DEF StatusMoves
    <2> QED BY <2>1, <2>2
  <1>5. ASSUME NEW c \in Calls, NEW p \in Phones, NEW t \in Calls,
               Register(c, p) \/ Login(c, p) \/ Merge(c, p, t)
        PROVE StatusMoves
    BY <1>1, <1>5 DEF Register, Login, Merge, accountVars
  <1>6. ASSUME NEW c \in Calls,
               \/ LoginVerified(c) \/ LinkCreated(c) \/ ReadMergeToken(c) \/ TakeMergeToken(c)
        PROVE StatusMoves
    BY <1>1, <1>6 DEF LoginVerified, LinkCreated, ReadMergeToken, TakeMergeToken, accountVars
  <1>7. ASSUME NEW c \in Calls, NEW i \in Identities, SocialLogin(c, i) PROVE StatusMoves
    BY <1>1, <1>7 DEF SocialLogin, accountVars
  <1> QED BY <1>3, <1>4, <1>5, <1>6, <1>7 DEF AccountNext

LEMMA ErasureKeepsAudit ==
    ASSUME AuditInv, UserShape, ErasureStep PROVE AuditInv'
  <1>1. ASSUME UNCHANGED <<user, moderationVars>> PROVE AuditInv'
    BY <1>1, QuietAudit DEF StatusMoves
  <1>2. ASSUME NEW w \in Workers, EraseRows(w) PROVE AuditInv'
    BY <1>2, EraseItemsKeepsAudit DEF EraseRows, DeletePostgresCascade
  <1>3. ASSUME NEW w \in Workers, EraseUser(w) PROVE AuditInv'
    <2>1. /\ RowFree(WorkerUser(w)) /\ UNCHANGED moderationVars
          /\ user' = [user EXCEPT ![WorkerUser(w)] =
                        [status |-> "erased", phone |-> None, email |-> None]]
      BY <1>3 DEF EraseUser, AnonymizeUser
    <2>2. StatusMoves
      BY <2>1 DEF StatusMoves, UserShape
    <2> QED BY <2>1, <2>2, QuietAudit
  <1>4. ASSUME NEW j \in Jobs, NEW u \in Users, Request(j, u), UNCHANGED moderationVars
        PROVE AuditInv'
    BY <1>1, <1>4 DEF Request, signInVars, accountVars
  <1>5. ASSUME NEW w \in Workers, UNCHANGED moderationVars,
               ClaimNext(w) \/ RunOtherStep(w) \/ MarkStepDone(w) \/ MarkCompleted(w)
        PROVE AuditInv'
    BY <1>1, <1>5 DEF ClaimNext, RunOtherStep, MarkStepDone, MarkCompleted, signInVars, accountVars
  <1>6. ASSUME NEW w \in Workers, UNCHANGED moderationVars,
               StartRedisCleanup(w) \/ FinishRedisCleanup(w) \/ FailStep(w) \/ Crash(w)
        PROVE AuditInv'
    BY <1>1, <1>6 DEF StartRedisCleanup, FinishRedisCleanup, FailStep, Crash, accountVars
  <1> QED BY <1>2, <1>3, <1>4, <1>5, <1>6 DEF ErasureStep

LEMMA ModerationKeepsAudit ==
    ASSUME AuditInv, UserShape, QueueNext \/ StatusNext PROVE AuditInv'
  <1>1. ASSUME NEW i \in Items, UNCHANGED signInVars,
               \/ TestAppeal(i) \/ FileAppeal(i) \/ FileReport(i)
               \/ TestAnomaly(i) \/ InsertFlag(i)
        PROVE AuditInv'
    BY <1>1, FilingKeepsAudit
  <1>2. ASSUME NEW m \in Moderators, NEW i \in Items, NEW to \in Verdicts,
               ResolveAppeal(m, i, to) \/ ResolveReport(m, i, to) \/ ResolveFlag(m, i, to)
        PROVE AuditInv'
    <2>1. PICK d : d = [on |-> i, from |-> "pending", to |-> to]
      OBVIOUS
    <2>2. /\ decision' = [decision EXCEPT ![m] = d] /\ RowFree(i) /\ item[i] = "pending"
          /\ UNCHANGED <<item, twin, decisions, statusLog, user>>
      BY <1>2, <2>1 DEF ResolveAppeal, ResolveReport, ResolveFlag, LockItem, signInVars, accountVars
    <2>3. d.on = i /\ d.to = to
      BY <2>1
    <2> QED BY <2>2, <2>3, LockKeepsAudit
  <1>3. ASSUME NEW m \in Moderators, RollBack(m) PROVE AuditInv'
    <2>1. /\ decision' = [decision EXCEPT ![m] = Done]
          /\ UNCHANGED <<item, twin, decisions, statusLog, user>>
      BY <1>3 DEF RollBack, signInVars, accountVars
    <2> QED BY <2>1, LockKeepsAudit
  <1>4. ASSUME NEW m \in Moderators, NEW u \in Users, NEW to \in SetStatuses, SetStatus(m, u, to)
        PROVE AuditInv'
    <2>1. PICK d : d = [on |-> u, from |-> user[u].status, to |-> to]
      OBVIOUS
    <2>2. /\ decision' = [decision EXCEPT ![m] = d] /\ RowFree(u) /\ Exists(u)
          /\ UNCHANGED <<item, twin, decisions, statusLog, user>>
      BY <1>4, <2>1 DEF SetStatus, signInVars, accountVars
    <2>3. d.on = u /\ d.to = to /\ d.from = user[u].status
      BY <2>1
    <2> QED BY <2>2, <2>3, LockKeepsAudit
  <1>5. ASSUME NEW m \in Moderators, CommitItem(m) \/ CommitStatus(m) PROVE AuditInv'
    BY <1>5, CommitItemKeepsAudit, CommitStatusKeepsAudit
  <1> QED BY <1>1, <1>2, <1>3, <1>4, <1>5 DEF QueueNext, StatusNext

LEMMA AuditStep ==
    ASSUME AuditInv, UserShape, AccountsNext \/ UNCHANGED accountsVars PROVE AuditInv'
  <1>1. ASSUME UNCHANGED <<user, moderationVars>> PROVE AuditInv'
    BY <1>1, QuietAudit DEF StatusMoves
  <1>2. ASSUME AccountNext, UNCHANGED moderationVars PROVE AuditInv'
    BY <1>2, AccountsMoveStatuses, QuietAudit
  <1>3. ASSUME CodeNext \/ SessionNext, UNCHANGED moderationVars PROVE AuditInv'
    <2>1. UNCHANGED user
      BY <1>3 DEF CodeNext, RequestOTP, ExpireOTP, MarkVerified, ReadCode,
                  SessionNext, OpenSession, ExpireSession, Impersonate, accountVars
    <2> QED BY <1>1, <1>3, <2>1
  <1>4. ASSUME ConsentNext, UNCHANGED moderationVars PROVE AuditInv'
    <2>1. UNCHANGED user
      BY <1>4 DEF ConsentNext, GrantConsent, Withdraw, StopTracking, signInVars, accountVars
    <2> QED BY <1>1, <1>4, <2>1
  <1>5. CASE ErasureStep
    BY <1>5, ErasureKeepsAudit
  <1>6. CASE QueueNext \/ StatusNext
    BY <1>6, ModerationKeepsAudit
  <1>7. ASSUME UNCHANGED <<signInVars, moderationVars>> PROVE AuditInv'
    BY <1>1, <1>7 DEF signInVars, accountVars
  <1>8. CASE UNCHANGED accountsVars
    BY <1>7, <1>8 DEF accountsVars
  <1> QED BY <1>2, <1>3, <1>4, <1>5, <1>6, <1>7, <1>8 DEF AccountsNext

LEMMA OneOrNone ==
    ASSUME NEW S, \A i, k \in S : i = k PROVE Cardinality(S) <= 1
  <1>1. CASE S = {}
    BY <1>1, FS_EmptySet
  <1>2. CASE S # {}
    <2>1. PICK i \in S : TRUE
      BY <1>2
    <2>2. S = {i}
      BY <2>1
    <2>3. Cardinality({i}) = 1
      BY FS_Singleton
    <2> QED BY <2>2, <2>3
  <1> QED BY <1>1, <1>2

LEMMA AuditDecides == AuditInv => DecisionsAreAudited
  <1> SUFFICES ASSUME AuditInv PROVE DecisionsAreAudited
    OBVIOUS
  <1>1. AuditExplainsStatus
    BY AuditByUser DEF AuditInv, LogRight
  <1>2. \A i \in Items : decisions[i] = IF item[i] \in Verdicts THEN 1 ELSE 0
    BY DEF AuditInv, CountRight
  <1>3. ASSUME NEW u \in Users PROVE Cardinality(PendingOf(u, "appeal")) <= 1
    <2>1. \A i, k \in PendingOf(u, "appeal") : i = k
      BY DEF PendingOf, AuditInv, AppealsRight, Same
    <2> QED BY <2>1, OneOrNone
  <1>4. ASSUME NEW u \in Users PROVE Cardinality(PendingOf(u, "flag") \ twin) <= 1
    <2>1. \A i, k \in PendingOf(u, "flag") \ twin : i = k
      BY DEF PendingOf, AuditInv, FlagsRight, Same
    <2> QED BY <2>1, OneOrNone
  <1> QED BY <1>1, <1>2, <1>3, <1>4 DEF DecisionsAreAudited, QueueIsDecidedOnce
-----------------------------------------------------------------------------
(* Referrals.                                                                *)

(* A referee has one redemption that can still be paid or has been, and two      *)
(* unsuspicious redemptions by one device were under way at the same time.       *)
Active(r) == Stage(r, "inserted") \/ r \in Redeemed
Paid(r) == Stage(r, "granted")
Payable(r) == Stage(r, "checked") \/ Stage(r, "inserted") \/ Stage(r, "granted")
PaidFor(u) == {r \in Redemptions : Paid(r) /\ u \in {redemption[r].referee, redemption[r].referrer}}

RowShape(row) ==
    /\ row = [at |-> row.at, referee |-> row.referee, referrer |-> row.referrer,
              device |-> row.device, suspicious |-> row.suspicious, twins |-> row.twins]
    /\ row.referee \in Users /\ row.referrer \in Users /\ row.referee # row.referrer
    /\ row.at = "granted" => row.suspicious = FALSE

RedemptionShape ==
    /\ redemption = [r \in Redemptions |-> redemption[r]]
    /\ \A r \in Redemptions : redemption[r] # None => RowShape(redemption[r])
    /\ paid \in [Users -> Nat]

RefereesOnce ==
    \A r, q \in Redemptions :
        Active(r) /\ Active(q) /\ redemption[r].referee = redemption[q].referee => r = q

DevicesOnce ==
    \A r, q \in Redemptions :
        /\ r # q /\ Payable(r) /\ Payable(q)
        /\ redemption[r].suspicious = FALSE /\ redemption[q].suspicious = FALSE
        /\ redemption[r].device = redemption[q].device
        => q \in redemption[r].twins \/ r \in redemption[q].twins

PayInv ==
    /\ RedemptionShape /\ RefereesOnce /\ DevicesOnce
    /\ \A u \in Users : Cardinality(PaidFor(u)) <= paid[u]

LEMMA ReferralsStart == SocialInit => PayInv
  <1> SUFFICES ASSUME SocialInit PROVE PayInv
    OBVIOUS
  <1>1. \A r \in Redemptions : redemption[r] = None
    BY DEF SocialInit
  <1>2. RedemptionShape /\ RefereesOnce /\ DevicesOnce
    BY <1>1 DEF SocialInit, RedemptionShape, RefereesOnce, DevicesOnce, Active, Payable,
                Redeemed, Stage
  <1>3. ASSUME NEW u \in Users PROVE Cardinality(PaidFor(u)) <= paid[u]
    <2>1. PaidFor(u) = {} /\ paid[u] = 0
      BY <1>1 DEF PaidFor, Paid, Stage, SocialInit
    <2> QED BY <2>1, FS_EmptySet
  <1> QED BY <1>2, <1>3 DEF PayInv

LEMMA PayInvPays == PayInv => ReferralsPayOnce
  <1> SUFFICES ASSUME PayInv PROVE ReferralsPayOnce
    OBVIOUS
  <1> DEFINE granted == {r \in Redemptions : Stage(r, "granted")}
  <1>1. ASSUME NEW r \in granted, NEW q \in granted, r # q
        PROVE  /\ redemption[r].referee # redemption[q].referee
               /\ redemption[r].device = redemption[q].device =>
                      q \in redemption[r].twins \/ r \in redemption[q].twins
    <2>1. Active(r) /\ Active(q) /\ Payable(r) /\ Payable(q)
      BY DEF Active, Payable, Redeemed
    <2>2. redemption[r].suspicious = FALSE /\ redemption[q].suspicious = FALSE
      BY DEF PayInv, RedemptionShape, RowShape, Stage
    <2> QED BY <1>1, <2>1, <2>2 DEF PayInv, RefereesOnce, DevicesOnce
  <1>2. ASSUME NEW u \in Users
        PROVE  paid[u] >= Cardinality({r \in granted : u \in {redemption[r].referee,
                                                             redemption[r].referrer}})
    <2>1. {r \in granted : u \in {redemption[r].referee, redemption[r].referrer}} = PaidFor(u)
      BY DEF PaidFor, Paid
    <2>2. IsFiniteSet(PaidFor(u))
      BY SocialAssumption, FS_Subset DEF PaidFor
    <2>3. Cardinality(PaidFor(u)) \in Nat /\ paid[u] \in Nat
      BY <2>2, FS_CardinalityType DEF PayInv, RedemptionShape
    <2> QED BY <2>1, <2>3 DEF PayInv
  <1> QED BY <1>1, <1>2 DEF ReferralsPayOnce

(* A row at another step.                                                     *)
RowAt(row, to) ==
    [at |-> to, referee |-> row.referee, referrer |-> row.referrer,
     device |-> row.device, suspicious |-> row.suspicious, twins |-> row.twins]

LEMMA RowMoves ==
    ASSUME NEW row, RowShape(row), NEW to
    PROVE  /\ [row EXCEPT !.at = to] = RowAt(row, to)
           /\ to # "granted" \/ row.suspicious = FALSE => RowShape(RowAt(row, to))
           /\ RowAt(row, to).at = to
           /\ RowAt(row, to).referee = row.referee /\ RowAt(row, to).referrer = row.referrer
           /\ RowAt(row, to).device = row.device /\ RowAt(row, to).twins = row.twins
           /\ RowAt(row, to).suspicious = row.suspicious
  BY DEF RowShape, RowAt

(* What one redemption does: r comes to a step, and no row of another changes.    *)
Comes(r, to) ==
    /\ \A q \in Redemptions \ {r} : redemption'[q] = redemption[q]
    /\ redemption'[r] = RowAt(redemption[r], to)
    /\ redemption' = [q \in Redemptions |-> redemption'[q]]

LEMMA StepComes ==
    ASSUME RedemptionShape, NEW r \in Redemptions, redemption[r] # None, NEW to, RedeemStep(r, to)
    PROVE  Comes(r, to)
  <1>1. redemption' = [redemption EXCEPT ![r].at = to]
    BY DEF RedeemStep
  <1>2. redemption' = [q \in Redemptions |-> IF q = r THEN [redemption[r] EXCEPT !.at = to]
                                             ELSE redemption[q]]
    BY <1>1 DEF RedemptionShape
  <1>3. [redemption[r] EXCEPT !.at = to] = RowAt(redemption[r], to)
    <2>1. PICK row : row = redemption[r]
      OBVIOUS
    <2>2. RowShape(row)
      BY <2>1 DEF RedemptionShape
    <2>3. [row EXCEPT !.at = to] = RowAt(row, to)
      BY <2>2 DEF RowShape, RowAt
    <2> QED BY <2>1, <2>3
  <1> QED BY <1>2, <1>3 DEF Comes

(* A redemption that comes to a step which pays nothing.                         *)
LEMMA UnpaidStepKeepsPay ==
    ASSUME PayInv, NEW r \in Redemptions, NEW to \in {"failed", "flagged", "inserted"},
           Comes(r, to), UNCHANGED paid,
           Stage(r, "checked") \/ Stage(r, "inserted"),
           to = "flagged" => Stage(r, "inserted"),
           to = "inserted" =>
              \A q \in Redemptions : Active(q) => redemption[q].referee # redemption[r].referee
    PROVE  PayInv'
  <1>1. /\ \A q \in Redemptions : /\ redemption'[q].referee = redemption[q].referee \/ q = r
                                  /\ q # r => redemption'[q] = redemption[q]
        /\ redemption'[r].at = to /\ redemption'[r].referee = redemption[r].referee
        /\ redemption'[r].device = redemption[r].device
        /\ redemption'[r].suspicious = redemption[r].suspicious
        /\ redemption'[r].twins = redemption[r].twins
    <2>2. redemption'[r] = RowAt(redemption[r], to)
      BY DEF Comes
    <2>3. \A q \in Redemptions : q # r => redemption'[q] = redemption[q]
      BY DEF Comes
    <2> QED BY <2>2, <2>3 DEF RowAt
  <1>2. RedemptionShape'
    <2>1. ASSUME NEW q \in Redemptions, redemption'[q] # None
          PROVE  RowShape(redemption'[q])
      <3>1. RowShape(redemption[r])
        BY DEF Stage, PayInv, RedemptionShape
      <3>2. RowShape(RowAt(redemption[r], to))
        BY <3>1, RowMoves
      <3> QED BY <2>1, <3>2 DEF Comes, PayInv, RedemptionShape
    <2> QED BY <2>1 DEF Comes, PayInv, RedemptionShape
  <1>3. ASSUME NEW q \in Redemptions, Active(q)'
        PROVE  /\ redemption'[q].referee = redemption[q].referee
               /\ Active(q) \/ (q = r /\ to = "inserted")
    BY <1>1, <1>3 DEF Active, Redeemed, Stage
  <1>4. RefereesOnce'
    BY <1>3 DEF RefereesOnce, PayInv
  <1>5. ASSUME NEW q \in Redemptions, Payable(q)'
        PROVE  /\ Payable(q) /\ redemption'[q].device = redemption[q].device
               /\ redemption'[q].suspicious = redemption[q].suspicious
               /\ redemption'[q].twins = redemption[q].twins
    BY <1>1, <1>5 DEF Payable, Stage
  <1>6. DevicesOnce'
    BY <1>5 DEF DevicesOnce, PayInv
  <1>7. ASSUME NEW u \in Users PROVE Cardinality(PaidFor(u)') <= paid'[u]
    <2>1. PaidFor(u)' = PaidFor(u)
      BY <1>1 DEF PaidFor, Paid, Stage
    <2> QED BY <2>1 DEF PayInv
  <1> QED BY <1>2, <1>4, <1>6, <1>7 DEF PayInv

LEMMA PayKeepsPay ==
    ASSUME PayInv, NEW r \in Redemptions, Comes(r, "granted"), Stage(r, "inserted"),
           redemption[r].suspicious = FALSE, NEW x \in Users, NEW y \in Users,
           x = redemption[r].referrer, y = redemption[r].referee, x # y,
           paid' = [paid EXCEPT ![x] = @ + 1, ![y] = @ + 1]
    PROVE  PayInv'
  <1>1. /\ \A q \in Redemptions : q # r => redemption'[q] = redemption[q]
        /\ redemption'[r].at = "granted" /\ redemption'[r].referee = y
        /\ redemption'[r].referrer = x
        /\ redemption'[r].device = redemption[r].device
        /\ redemption'[r].suspicious = redemption[r].suspicious
        /\ redemption'[r].twins = redemption[r].twins
    <2>2. redemption'[r] = RowAt(redemption[r], "granted")
      BY DEF Comes
    <2>3. \A q \in Redemptions : q # r => redemption'[q] = redemption[q]
      BY DEF Comes
    <2> QED BY <2>2, <2>3 DEF RowAt
  <1>2. paid' \in [Users -> Nat] /\ \A u \in Users : paid'[u] >= paid[u] + IF u \in {x, y} THEN 1 ELSE 0
    <2>1. \A u \in Users : paid'[u] = IF u \in {x, y} THEN paid[u] + 1 ELSE paid[u]
      BY DEF PayInv, RedemptionShape
    <2>2. paid' \in [Users -> Nat]
      BY DEF PayInv, RedemptionShape
    <2> QED BY <2>1, <2>2 DEF PayInv, RedemptionShape
  <1>3. RedemptionShape'
    <2>1. ASSUME NEW q \in Redemptions, redemption'[q] # None
          PROVE  RowShape(redemption'[q])
      <3>1. RowShape(redemption[r])
        BY DEF Stage, PayInv, RedemptionShape
      <3>2. RowShape(RowAt(redemption[r], "granted"))
        BY <3>1, RowMoves
      <3> QED BY <2>1, <3>2 DEF Comes, PayInv, RedemptionShape
    <2> QED BY <1>2, <2>1 DEF Comes, PayInv, RedemptionShape
  <1>4. ASSUME NEW q \in Redemptions, Active(q)'
        PROVE  redemption'[q].referee = redemption[q].referee /\ Active(q)
    BY <1>1, <1>4 DEF Active, Redeemed, Stage
  <1>5. RefereesOnce'
    BY <1>4 DEF RefereesOnce, PayInv
  <1>6. ASSUME NEW q \in Redemptions, Payable(q)'
        PROVE  /\ Payable(q) /\ redemption'[q].device = redemption[q].device
               /\ redemption'[q].suspicious = redemption[q].suspicious
               /\ redemption'[q].twins = redemption[q].twins
    BY <1>1, <1>6 DEF Payable, Stage
  <1>7. DevicesOnce'
    BY <1>6 DEF DevicesOnce, PayInv
  <1>8. ASSUME NEW u \in Users PROVE Cardinality(PaidFor(u)') <= paid'[u]
    <2>1. \/ PaidFor(u)' = PaidFor(u)
          \/ u \in {x, y} /\ PaidFor(u)' = PaidFor(u) \cup {r}
      <3>1. \A q \in Redemptions \ {r} : q \in PaidFor(u)' <=> q \in PaidFor(u)
        BY <1>1 DEF PaidFor, Paid, Stage
      <3>2. r \in PaidFor(u)' => u \in {x, y}
        BY <1>1 DEF PaidFor
      <3>3. r \notin PaidFor(u)
        BY DEF PaidFor, Paid, Stage
      <3>4. PaidFor(u)' \subseteq Redemptions /\ PaidFor(u) \subseteq Redemptions
        BY DEF PaidFor
      <3> QED BY <3>1, <3>2, <3>3, <3>4
    <2>2. IsFiniteSet(PaidFor(u)) /\ r \notin PaidFor(u)
      BY SocialAssumption, FS_Subset DEF PaidFor, Paid, Stage
    <2>3. Cardinality(PaidFor(u)) \in Nat /\ Cardinality(PaidFor(u) \cup {r}) = Cardinality(PaidFor(u)) + 1
      BY <2>2, FS_CardinalityType, FS_AddElement
    <2>4. Cardinality(PaidFor(u)) <= paid[u] /\ paid[u] \in Nat /\ paid'[u] \in Nat
      BY <1>2 DEF PayInv, RedemptionShape
    <2> QED BY <1>2, <2>1, <2>3, <2>4
  <1> QED BY <1>3, <1>5, <1>7, <1>8 DEF PayInv
LEMMA RedeemKeepsPay ==
    ASSUME PayInv, NEW r \in Redemptions, NEW referee \in Users, NEW referrer \in Users, NEW d,
           Redeem(r, referee, referrer, d)
    PROVE  PayInv'
  <1> PICK suspicious \in BOOLEAN : suspicious = IsSameDevice(referrer, d)
    BY DEF IsSameDevice
  <1> PICK twins : twins = {q \in Redemptions : Stage(q, "checked") \/ Stage(q, "inserted")}
    OBVIOUS
  <1> PICK row : row = [at |-> "checked", referee |-> referee, referrer |-> referrer,
                        device |-> d, suspicious |-> suspicious, twins |-> twins]
    OBVIOUS
  <1>1. redemption' = [redemption EXCEPT ![r] = row] /\ redemption[r] = None /\ UNCHANGED paid
    BY DEF Redeem
  <1>2. \A q \in Redemptions : redemption'[q] = IF q = r THEN row ELSE redemption[q]
    BY <1>1 DEF PayInv, RedemptionShape
  <1>3. RedemptionShape'
    <2>1. redemption' = [q \in Redemptions |-> redemption'[q]] /\ paid' \in [Users -> Nat]
      BY <1>1 DEF PayInv, RedemptionShape
    <2>2. ASSUME NEW q \in Redemptions, redemption'[q] # None
          PROVE  RowShape(redemption'[q])
      <3>1. RowShape(row)
        BY DEF RowShape, Redeem
      <3> QED BY <1>2, <2>2, <3>1 DEF PayInv, RedemptionShape
    <2> QED BY <2>1, <2>2 DEF RedemptionShape
  <1>4. \A q \in Redemptions \ {r} : /\ Active(q)' <=> Active(q)
                                     /\ Payable(q)' <=> Payable(q)
    BY <1>2 DEF Active, Payable, Redeemed, Stage
  <1>5. ~Active(r)'
    BY <1>2 DEF Active, Redeemed, Stage
  <1>6. RefereesOnce'
    BY <1>2, <1>4, <1>5 DEF RefereesOnce, PayInv
  <1>7. ASSUME NEW q \in Redemptions \ {r}, Payable(q), row.device = redemption[q].device,
               row.suspicious = FALSE, redemption[q].suspicious = FALSE
        PROVE  q \in row.twins
    <2>1. ~Stage(q, "granted")
      BY <1>7 DEF IsSameDevice, Redeemed
    <2> QED BY <1>7, <2>1 DEF Payable
  <1>8. DevicesOnce'
    BY <1>2, <1>4, <1>7 DEF DevicesOnce, PayInv
  <1>9. ASSUME NEW u \in Users PROVE Cardinality(PaidFor(u)') <= paid'[u]
    <2>1. PaidFor(u)' = PaidFor(u)
      BY <1>1, <1>2 DEF PaidFor, Paid, Stage
    <2> QED BY <1>1, <2>1 DEF PayInv
  <1> QED BY <1>3, <1>6, <1>8, <1>9 DEF PayInv

LEMMA InsertKeepsPay ==
    ASSUME PayInv, NEW r \in Redemptions, InsertRedemption(r) PROVE PayInv'
  <1>1. Stage(r, "checked") /\ redemption[r] # None /\ UNCHANGED paid /\ RedemptionShape
    BY DEF InsertRedemption, Stage, PayInv
  <1>2. CASE \E q \in Redeemed : redemption[q].referee = redemption[r].referee
    <2>1. PICK to \in {"failed"} : RedeemStep(r, to)
      BY <1>2 DEF InsertRedemption
    <2>2. Comes(r, to) /\ to # "flagged" /\ to # "inserted"
      BY <1>1, <2>1, StepComes
    <2> QED BY <1>1, <2>2, UnpaidStepKeepsPay
  <1>3. CASE \A q \in Redeemed : redemption[q].referee # redemption[r].referee
    <2>1. PICK to \in {"inserted"} : RedeemStep(r, to)
      BY <1>3 DEF InsertRedemption
    <2>2. Comes(r, to) /\ to # "flagged"
      BY <1>1, <2>1, StepComes
    <2>3. \A q \in Redemptions : Active(q) => redemption[q].referee # redemption[r].referee
      BY <1>3 DEF InsertRedemption, Active
    <2> QED BY <1>1, <2>2, <2>3, UnpaidStepKeepsPay
  <1> QED BY <1>2, <1>3

LEMMA CommitKeepsPay ==
    ASSUME PayInv, NEW r \in Redemptions, CommitRedemption(r) PROVE PayInv'
  <1>1. Stage(r, "inserted") /\ redemption[r] # None /\ RedemptionShape
    BY DEF CommitRedemption, Stage, PayInv
  <1>2. CASE redemption[r].suspicious
    <2>1. PICK to \in {"flagged"} : RedeemStep(r, to) /\ UNCHANGED paid
      BY <1>2 DEF CommitRedemption
    <2>2. Comes(r, to) /\ to # "inserted"
      BY <1>1, <2>1, StepComes
    <2> QED BY <1>1, <2>1, <2>2, UnpaidStepKeepsPay
  <1>3. CASE ~redemption[r].suspicious
    <2>1. PICK to \in {"granted"} : RedeemStep(r, to)
      BY <1>3 DEF CommitRedemption
    <2>2. Comes(r, to) /\ to = "granted"
      BY <1>1, <2>1, StepComes
    <2>3. PICK x \in Users, y \in Users :
             x = redemption[r].referrer /\ y = redemption[r].referee /\ x # y
      BY <1>1 DEF RedemptionShape, RowShape
    <2>4. paid' = [paid EXCEPT ![x] = @ + 1, ![y] = @ + 1]
      BY <1>3, <2>3 DEF CommitRedemption
    <2>5. redemption[r].suspicious = FALSE
      BY <1>1, <1>3 DEF RedemptionShape, RowShape
    <2> QED BY <1>1, <2>2, <2>3, <2>4, <2>5, PayKeepsPay
  <1> QED BY <1>2, <1>3

LEMMA AbortKeepsPay ==
    ASSUME PayInv, NEW r \in Redemptions, AbortRedemption(r) PROVE PayInv'
  <1>1. Stage(r, "inserted") /\ redemption[r] # None /\ RedemptionShape /\ UNCHANGED paid
    BY DEF AbortRedemption, Stage, PayInv
  <1>2. PICK to \in {"failed"} : RedeemStep(r, to)
    BY DEF AbortRedemption
  <1>3. Comes(r, to) /\ to # "inserted" /\ to # "flagged"
    BY <1>1, <1>2, StepComes
  <1> QED BY <1>1, <1>3, UnpaidStepKeepsPay

(* Erasure takes the user's redemptions and what the ledger paid for them.        *)
LEMMA EraseKeepsPay ==
    ASSUME PayInv, NEW v, DeleteSocialOf(v) PROVE PayInv'
  <1> DEFINE gone == {r \in Redeemed : v \in {redemption[r].referee, redemption[r].referrer}}
  <1>1. /\ \A r \in Redemptions \ gone : redemption'[r] = redemption[r]
        /\ \A r \in gone : redemption'[r] = RowAt(redemption[r], "erased")
        /\ \A r \in gone : RowShape(redemption[r])
    <2>1. redemption' = [r \in Redemptions |->
             IF r \in gone THEN [redemption[r] EXCEPT !.at = "erased"] ELSE redemption[r]]
      BY DEF DeleteSocialOf
    <2>2. ASSUME NEW r \in gone
          PROVE  /\ RowShape(redemption[r])
                 /\ [redemption[r] EXCEPT !.at = "erased"] = RowAt(redemption[r], "erased")
      <3>1. RowShape(redemption[r])
        BY DEF Redeemed, Stage, PayInv, RedemptionShape
      <3> QED BY <3>1, RowMoves
    <2>3. gone \subseteq Redemptions
      BY DEF Redeemed
    <2> HIDE DEF gone
    <2> QED BY <2>1, <2>2, <2>3
  <1>2. paid' = [paid EXCEPT ![v] = 0] /\ redemption' = [r \in Redemptions |-> redemption'[r]]
    BY DEF DeleteSocialOf
  <1>3. gone \subseteq Redemptions
    BY DEF Redeemed
  <1>4. \A r \in Redemptions : Paid(r) /\ v \in {redemption[r].referee, redemption[r].referrer} => r \in gone
    BY DEF Paid, Redeemed
  <1> HIDE DEF gone
  <1>5. RedemptionShape'
    <2>1. paid' \in [Users -> Nat]
      BY <1>2 DEF PayInv, RedemptionShape
    <2>2. ASSUME NEW q \in Redemptions, redemption'[q] # None
          PROVE  RowShape(redemption'[q])
      <3>1. CASE q \in gone
        <4>1. RowShape(RowAt(redemption[q], "erased"))
          BY <1>1, <3>1, RowMoves
        <4> QED BY <1>1, <3>1, <4>1
      <3>2. CASE q \notin gone
        BY <1>1, <2>2, <3>2 DEF PayInv, RedemptionShape
      <3> QED BY <3>1, <3>2
    <2> QED BY <1>2, <2>1, <2>2 DEF RedemptionShape
  <1>6. ASSUME NEW q \in Redemptions
        PROVE  /\ Active(q)' \/ Payable(q)' => q \notin gone /\ redemption'[q] = redemption[q]
               /\ Active(q)' => Active(q)
               /\ Payable(q)' => Payable(q)
               /\ Paid(q)' => Paid(q)
    <2>1. CASE q \in gone
      <3>1. redemption'[q] = RowAt(redemption[q], "erased")
        BY <1>1, <2>1
      <3>2. RowAt(redemption[q], "erased").at = "erased"
        BY DEF RowAt
      <3>3. redemption'[q].at = "erased"
        BY <3>1, <3>2
      <3> QED BY <3>3 DEF Active, Payable, Paid, Redeemed, Stage
    <2>2. CASE q \notin gone
      BY <1>1, <2>2 DEF Active, Payable, Paid, Redeemed, Stage
    <2> QED BY <2>1, <2>2
  <1>7. RefereesOnce' /\ DevicesOnce'
    BY <1>6 DEF RefereesOnce, DevicesOnce, PayInv
  <1>8. ASSUME NEW u \in Users PROVE Cardinality(PaidFor(u)') <= paid'[u]
    <2>1. PaidFor(u)' \subseteq PaidFor(u) /\ IsFiniteSet(PaidFor(u))
      <3>1. \A q \in Redemptions : Paid(q)' => redemption'[q] = redemption[q] /\ Paid(q)
        BY <1>6 DEF Payable, Paid
      <3> QED BY <3>1, SocialAssumption, FS_Subset DEF PaidFor
    <2>2. /\ Cardinality(PaidFor(u)') \in Nat /\ Cardinality(PaidFor(u)) \in Nat
          /\ Cardinality(PaidFor(u)') <= Cardinality(PaidFor(u))
      BY <2>1, FS_Subset, FS_CardinalityType
    <2>3. CASE u = v
      <3>1. PaidFor(u)' = {}
        <4>1. \A q \in Redemptions : Paid(q)' => redemption'[q] = redemption[q] /\ q \notin gone /\ Paid(q)
          BY <1>6 DEF Payable, Paid
        <4> QED BY <1>4, <2>3, <4>1 DEF PaidFor
      <3>2. paid'[u] = 0
        BY <1>2, <2>3 DEF PayInv, RedemptionShape
      <3> QED BY <3>1, <3>2, FS_EmptySet
    <2>4. CASE u # v
      <3>1. paid'[u] = paid[u] /\ paid[u] \in Nat /\ Cardinality(PaidFor(u)) <= paid[u]
        BY <1>2, <2>4 DEF PayInv, RedemptionShape
      <3> QED BY <2>2, <3>1
    <2> QED BY <2>3, <2>4
  <1> QED BY <1>5, <1>7, <1>8 DEF PayInv

LEMMA ReferralsStep ==
    ASSUME PayInv, AccountsNext \/ UNCHANGED accountsVars PROVE PayInv'
  <1>1. ASSUME UNCHANGED referralVars PROVE PayInv'
    <2>1. (RedemptionShape /\ RefereesOnce /\ DevicesOnce)'
      BY <1>1 DEF referralVars, PayInv, RedemptionShape, RefereesOnce, DevicesOnce, Active, Payable,
                  Redeemed, Stage
    <2>2. ASSUME NEW u \in Users PROVE Cardinality(PaidFor(u)') <= paid'[u]
      <3>1. PaidFor(u)' = PaidFor(u)
        BY <1>1 DEF referralVars, PaidFor, Paid, Stage
      <3> QED BY <1>1, <3>1 DEF referralVars, PayInv
    <2> QED BY <2>1, <2>2 DEF PayInv
  <1>2. ASSUME ReferralNext PROVE PayInv'
    BY <1>2, RedeemKeepsPay, InsertKeepsPay, CommitKeepsPay, AbortKeepsPay DEF ReferralNext
  <1>3. CASE ErasureStep
    BY <1>1, <1>3, ErasureMovesSocial, EraseKeepsPay DEF socialVars
  <1> QED BY <1>1, <1>2, <1>3 DEF AccountsNext, accountsVars, socialVars
-----------------------------------------------------------------------------
(* Types.  A row of a table stays one when a field of it is set.                *)
UserRow == [status : UserStatuses, phone : Phones \cup {None}, email : Emails \cup {None}]
SessionRow == [user : Users, indexed : BOOLEAN, raced : BOOLEAN]
MergeRow == [user : Users, ident : Identities]
CallRow == [at : CallSteps, phone : Phones \cup {None}, ident : Identities \cup {None},
            user : Users \cup {None}, token : Calls \cup {None}]
Revocation == [user : Users, listed : SUBSET Calls]

LEMMA Updated ==
    ASSUME NEW S, NEW T, NEW f \in [S -> T], NEW k, NEW v, k \in S => v \in T
    PROVE  [f EXCEPT ![k] = v] \in [S -> T]
  OBVIOUS

(* What a call needs for its next step.                                        *)
Needs(k) ==
    /\ k.at \in {"login", "link", "take", "mergeLink", "session"} => k.user \in Users
    /\ k.at \in {"create", "link", "take", "mergeLink"} => k.ident \in Identities
    /\ k.at = "merge" => k.token \in Calls

CallsTyped == call \in [Calls -> CallRow] /\ \A c \in Calls : Needs(call[c])

LEMMA CallTyped ==
    ASSUME CallsTyped, NEW c \in Calls
    PROVE  /\ CallIs(c) /\ Needs(call[c])
           /\ call[c].phone \in Phones \cup {None} /\ call[c].ident \in Identities \cup {None}
           /\ call[c].user \in Users \cup {None} /\ call[c].token \in Calls \cup {None}
  BY DEF CallsTyped, CallRow, CallIs

(* What a call may be at: the types of its row, and the needs of its step.   *)
Fits(a, p, i, u, t) ==
    /\ a \in CallSteps /\ p \in Phones \cup {None} /\ i \in Identities \cup {None}
    /\ u \in Users \cup {None} /\ t \in Calls \cup {None}
    /\ a \in {"login", "link", "take", "mergeLink", "session"} => u \in Users
    /\ a \in {"create", "link", "take", "mergeLink"} => i \in Identities
    /\ a = "merge" => t \in Calls

(* A call that moves to a row of those types stays typed.                    *)
LEMMA GoesTyped ==
    ASSUME CallsTyped, NEW c \in Calls, NEW a, NEW p, NEW i, NEW u, NEW t,
           Goes(c, a, p, i, u, t), Fits(a, p, i, u, t)
    PROVE  CallsTyped'
  <1> DEFINE k == [at |-> a, phone |-> p, ident |-> i, user |-> u, token |-> t]
  <1>1. k \in CallRow /\ Needs(k)
    BY DEF CallRow, Needs, Fits
  <1>2. /\ call'[c] = k /\ \A d \in Calls \ {c} : call'[d] = call[d]
        /\ call' = [d \in Calls |-> call'[d]]
    BY DEF Goes
  <1> HIDE DEF k
  <1>3. ASSUME NEW d \in Calls PROVE call'[d] \in CallRow /\ Needs(call'[d])
    BY <1>1, <1>2 DEF CallsTyped
  <1> QED BY <1>2, <1>3 DEF CallsTyped

(* A call moves to a step that needs what it has.                              *)
LEMMA StepTyped ==
    ASSUME CallsTyped, NEW c \in Calls, NEW s \in CallSteps, Step(c, s),
           s \in {"login", "link", "take", "mergeLink", "session"} => call[c].user \in Users,
           s \in {"create", "link", "take", "mergeLink"} => call[c].ident \in Identities,
           s = "merge" => call[c].token \in Calls
    PROVE  CallsTyped'
  <1>1. CallIs(c)
    BY CallTyped
  <1>2. Goes(c, s, call[c].phone, call[c].ident, call[c].user, call[c].token)
    BY <1>1 DEF CallIs, Goes, Step
  <1>3. Fits(s, call[c].phone, call[c].ident, call[c].user, call[c].token)
    BY CallTyped DEF Fits
  <1> QED BY <1>2, <1>3, GoesTyped

LEMMA EndTyped ==
    ASSUME CallsTyped, NEW c \in Calls, Step(c, "done") PROVE CallsTyped'
  BY StepTyped DEF CallSteps

(* The tables of accounts and of one-time codes.                                *)
RowsTyped ==
    /\ user \in [Users -> UserRow] /\ firstPhone \in [Users -> Phones \cup {None}]
    /\ link \in [Identities -> Users \cup {None}]
    /\ mergedBy \in [Identities -> Phones \cup {None}]

CodesTyped ==
    /\ code \in [Phones -> 0..MaxCodes] /\ sent \in [Phones -> 0..MaxCodes]
    /\ verified \in [Phones -> BOOLEAN]
    /\ proofs \in [Phones -> Nat] /\ uses \in [Phones -> Nat]

TokensTyped == mergeToken \in [Calls -> MergeRow \cup {None}]

SessionsTyped ==
    /\ session \in [Calls -> SessionRow \cup {None}]
    /\ revoking \in [Revokers -> Revocation \cup {None}]

SignInTypes == RowsTyped /\ CodesTyped /\ TokensTyped /\ SessionsTyped /\ CallsTyped

LEMMA SignInTypesAre == SignInTypes => SignInTypeOK
  BY DEF SignInTypes, SignInTypeOK, RowsTyped, CodesTyped, TokensTyped, SessionsTyped, CallsTyped,
         UserRow, MergeRow, SessionRow, Revocation, CallRow

LEMMA SignInTypesStart ==
    ASSUME NEW phone \in [Users -> Phones \cup {None}], NEW opened \in [Calls -> Users \cup {None}],
           SignInInit(phone, opened)
    PROVE  SignInTypes
  <1>1. RowsTyped
    BY DEF SignInInit, RowsTyped, UserRow, UserStatuses
  <1>2. CodesTyped
    BY SignInAssumption DEF SignInInit, CodesTyped
  <1>3. TokensTyped
    BY DEF SignInInit, TokensTyped
  <1>4. SessionsTyped
    BY DEF SignInInit, SessionsTyped, SessionRow
  <1>5. CallsTyped
    <2>1. ASSUME NEW c \in Calls PROVE call[c] \in CallRow /\ Needs(call[c])
      BY DEF SignInInit, CallRow, CallSteps, Needs
    <2> QED BY <2>1 DEF SignInInit, CallsTyped
  <1> QED BY <1>1, <1>2, <1>3, <1>4, <1>5 DEF SignInTypes

LEMMA RowsSame == RowsTyped /\ UNCHANGED accountVars => RowsTyped'
  BY DEF RowsTyped, accountVars

LEMMA CodesSame == CodesTyped /\ UNCHANGED otpVars => CodesTyped'
  BY DEF CodesTyped, otpVars

LEMMA SessionsSame == SessionsTyped /\ UNCHANGED sessionVars => SessionsTyped'
  BY DEF SessionsTyped, sessionVars

LEMMA TokensSame == TokensTyped /\ UNCHANGED mergeToken => TokensTyped'
  BY DEF TokensTyped

LEMMA CallsSame == CallsTyped /\ UNCHANGED call => CallsTyped'
  BY DEF CallsTyped

LEMMA ConsumeTyped ==
    ASSUME CodesTyped, NEW p, ConsumeVerified(p) PROVE CodesTyped'
  <1>1. verified' \in [Phones -> BOOLEAN]
    BY DEF ConsumeVerified, CodesTyped
  <1>2. PICK n : n = uses[p] + 1
    OBVIOUS
  <1>3. uses' = [uses EXCEPT ![p] = n] /\ (p \in Phones => n \in Nat)
    BY <1>2 DEF ConsumeVerified, CodesTyped
  <1>4. uses' \in [Phones -> Nat]
    BY <1>3, Updated DEF CodesTyped
  <1> QED BY <1>1, <1>4 DEF ConsumeVerified, CodesTyped

LEMMA CodeTypes ==
    ASSUME SignInTypes, CodeNext PROVE SignInTypes'
  <1>1. ASSUME NEW p \in Phones, RequestOTP(p) PROVE SignInTypes'
    <2>1. CodesTyped'
      <3>1. sent[p] + 1 \in 0..MaxCodes
        BY <1>1, SignInAssumption DEF RequestOTP, SignInTypes, CodesTyped
      <3> QED BY <1>1, <3>1 DEF RequestOTP, SignInTypes, CodesTyped
    <2> QED BY <1>1, <2>1, RowsSame, SessionsSame, TokensSame, CallsSame DEF RequestOTP, SignInTypes
  <1>2. ASSUME NEW p \in Phones, ExpireOTP(p) PROVE SignInTypes'
    <2>1. CodesTyped'
      <3>1. CASE code' = [code EXCEPT ![p] = 0] /\ UNCHANGED verified
        <4>1. 0 \in 0..MaxCodes
          BY SignInAssumption
        <4>2. code' \in [Phones -> 0..MaxCodes]
          BY <3>1, <4>1 DEF SignInTypes, CodesTyped
        <4> QED BY <1>2, <3>1, <4>2 DEF ExpireOTP, SignInTypes, CodesTyped
      <3>2. CASE verified' = [verified EXCEPT ![p] = FALSE] /\ UNCHANGED code
        BY <1>2, <3>2 DEF ExpireOTP, SignInTypes, CodesTyped
      <3> QED BY <1>2, <3>1, <3>2 DEF ExpireOTP
    <2> QED BY <1>2, <2>1, RowsSame, SessionsSame, TokensSame, CallsSame DEF ExpireOTP, SignInTypes
  <1>3. ASSUME NEW c \in Calls, MarkVerified(c) PROVE SignInTypes'
    <2>1. CodesTyped'
      <3> DEFINE p == call[c].phone
      <3>1. PICK n : n = proofs[p] + 1
        OBVIOUS
      <3>2. 0 \in 0..MaxCodes /\ (p \in Phones => n \in Nat)
        BY <3>1, SignInAssumption DEF SignInTypes, CodesTyped
      <3>3. /\ code' = [code EXCEPT ![p] = 0] /\ verified' = [verified EXCEPT ![p] = TRUE]
            /\ proofs' = [proofs EXCEPT ![p] = n] /\ UNCHANGED <<sent, uses>>
        BY <1>3, <3>1 DEF MarkVerified
      <3>4. code' \in [Phones -> 0..MaxCodes] /\ proofs' \in [Phones -> Nat]
        BY <3>2, <3>3, Updated DEF SignInTypes, CodesTyped
      <3>5. verified' \in [Phones -> BOOLEAN]
        BY <3>3 DEF SignInTypes, CodesTyped
      <3> QED BY <3>3, <3>4, <3>5 DEF SignInTypes, CodesTyped
    <2>2. CallsTyped'
      BY <1>3, EndTyped DEF MarkVerified, SignInTypes
    <2> QED BY <1>3, <2>1, <2>2, RowsSame, SessionsSame, TokensSame DEF MarkVerified, SignInTypes
  <1>4. ASSUME NEW c \in Calls, NEW p \in Phones, ReadCode(c, p) PROVE SignInTypes'
    <2>1. CallIs(c) /\ call[c].ident \in Identities \cup {None}
                    /\ call[c].user \in Users \cup {None} /\ call[c].token \in Calls \cup {None}
      BY CallTyped DEF SignInTypes
    <2>2. Goes(c, "verify", p, call[c].ident, call[c].user, call[c].token)
      BY <1>4, <2>1 DEF CallIs, Goes, ReadCode
    <2>3. CallsTyped'
      <3>1. Fits("verify", p, call[c].ident, call[c].user, call[c].token)
        BY <2>1 DEF Fits, CallSteps
      <3>2. CallsTyped
        BY DEF SignInTypes
      <3> QED BY <3>1, <3>2, <2>2, GoesTyped
    <2> QED BY <1>4, <2>3, RowsSame, CodesSame, SessionsSame, TokensSame DEF ReadCode, SignInTypes
  <1> QED BY <1>1, <1>2, <1>3, <1>4 DEF CodeNext

LEMMA SessionTypes ==
    ASSUME SignInTypes, SessionNext PROVE SignInTypes'
  <1>1. ASSUME NEW c \in Calls, OpenSession(c) PROVE SignInTypes'
    <2>1. call[c].user \in Users
      BY <1>1, CallTyped DEF OpenSession, At, SignInTypes, Needs
    <2>2. PICK b \in BOOLEAN :
             session' = [session EXCEPT ![c] = [user |-> call[c].user, indexed |-> TRUE, raced |-> b]]
      BY <1>1 DEF OpenSession, CreateSession
    <2>3. [user |-> call[c].user, indexed |-> TRUE, raced |-> b] \in SessionRow
      BY <2>1 DEF SessionRow
    <2>4. SessionsTyped'
      BY <1>1, <2>2, <2>3 DEF OpenSession, CreateSession, SignInTypes, SessionsTyped
    <2>5. CallsTyped'
      BY <1>1, EndTyped DEF OpenSession, SignInTypes
    <2> QED BY <1>1, <2>4, <2>5, RowsSame, CodesSame, TokensSame DEF OpenSession, SignInTypes
  <1>2. ASSUME NEW c \in Calls, ExpireSession(c) PROVE SignInTypes'
    <2>1. SessionsTyped'
      BY <1>2 DEF ExpireSession, SignInTypes, SessionsTyped
    <2> QED BY <1>2, <2>1, RowsSame, CodesSame, TokensSame, CallsSame DEF ExpireSession, SignInTypes
  <1>3. ASSUME NEW c \in Calls, NEW u \in Users, Impersonate(c, u) PROVE SignInTypes'
    <2>1. CallIs(c) /\ call[c].phone \in Phones \cup {None}
          /\ call[c].ident \in Identities \cup {None} /\ call[c].token \in Calls \cup {None}
      BY CallTyped DEF SignInTypes
    <2>2. Goes(c, "session", call[c].phone, call[c].ident, u, call[c].token)
      BY <1>3, <2>1 DEF CallIs, Goes, Impersonate
    <2>3. CallsTyped'
      <3>1. Fits("session", call[c].phone, call[c].ident, u, call[c].token)
        BY <2>1 DEF Fits, CallSteps
      <3>2. CallsTyped
        BY DEF SignInTypes
      <3> QED BY <3>1, <3>2, <2>2, GoesTyped
    <2> QED BY <1>3, <2>3, RowsSame, CodesSame, SessionsSame, TokensSame DEF Impersonate, SignInTypes
  <1> QED BY <1>1, <1>2, <1>3 DEF SessionNext

(* A request that writes no row, and what it does to the codes.                  *)
LEMMA RequestTyped ==
    ASSUME SignInTypes, CallsTyped', CodesTyped', UNCHANGED <<accountVars, sessionVars, mergeToken>>
    PROVE  SignInTypes'
  BY RowsSame, SessionsSame, TokensSame DEF SignInTypes

LEMMA LoginTypes ==
    ASSUME SignInTypes, NEW c \in Calls, NEW p \in Phones,
           Register(c, p) \/ Login(c, p)
    PROVE  SignInTypes'
  <1>0. /\ CallIs(c) /\ Needs(call[c]) /\ call[c].phone \in Phones \cup {None}
        /\ call[c].ident \in Identities \cup {None}
        /\ call[c].user \in Users \cup {None} /\ call[c].token \in Calls \cup {None}
    BY CallTyped DEF SignInTypes
  <1>1. ASSUME Register(c, p) PROVE SignInTypes'
    <2>1. Goes(c, "register", p, call[c].ident, call[c].user, call[c].token)
      BY <1>1, <1>0 DEF CallIs, Goes, Register
    <2>2. CallsTyped'
      <3>1. Fits("register", p, call[c].ident, call[c].user, call[c].token)
        BY <1>0 DEF Fits, CallSteps
      <3>2. CallsTyped
        BY DEF SignInTypes
      <3> QED BY <3>1, <3>2, <2>1, GoesTyped
    <2>3. CodesTyped'
      BY <1>1, ConsumeTyped DEF Register, SignInTypes
    <2> QED BY <1>1, <2>2, <2>3, RequestTyped DEF Register
  <1>2. ASSUME Login(c, p) PROVE SignInTypes'
    <2>1. PICK u \in FindByPhone(p) :
              call' = [call EXCEPT ![c].at = "login", ![c].phone = p, ![c].user = u]
      BY <1>2 DEF Login
    <2>2. Goes(c, "login", p, call[c].ident, u, call[c].token)
      BY <2>1, <1>0 DEF CallIs, Goes
    <2>3. u \in Users
      BY DEF FindByPhone
    <2>4. CallsTyped'
      <3>1. Fits("login", p, call[c].ident, u, call[c].token)
        BY <1>0, <2>3 DEF Fits, CallSteps
      <3>2. CallsTyped
        BY DEF SignInTypes
      <3> QED BY <3>1, <3>2, <2>2, GoesTyped
    <2> QED BY <1>2, <2>4, CodesSame, RequestTyped DEF Login, SignInTypes
  <1> QED BY <1>1, <1>2

LEMMA SocialLoginTypes ==
    ASSUME SignInTypes, NEW c \in Calls, NEW i \in Identities, SocialLogin(c, i)
    PROVE  SignInTypes'
  <1>0. /\ CallIs(c) /\ call[c].phone \in Phones \cup {None}
        /\ call[c].ident \in Identities \cup {None}
        /\ call[c].user \in Users \cup {None} /\ call[c].token \in Calls \cup {None}
    BY CallTyped DEF SignInTypes
  <1>1. RowsTyped' /\ CodesTyped' /\ SessionsTyped'
    BY RowsSame, CodesSame, SessionsSame DEF SocialLogin, SignInTypes
  <1>2. ASSUME link[i] # None, call' = [call EXCEPT ![c].at = "session", ![c].user = link[i]],
               UNCHANGED mergeToken
        PROVE SignInTypes'
    <2>1. Goes(c, "session", call[c].phone, call[c].ident, link[i], call[c].token)
      BY <1>2, <1>0 DEF CallIs, Goes
    <2>2. link[i] \in Users
      BY <1>2 DEF SignInTypes, RowsTyped
    <2>3. CallsTyped'
      <3>1. Fits("session", call[c].phone, call[c].ident, link[i], call[c].token)
        BY <1>0, <2>2 DEF Fits, CallSteps
      <3>2. CallsTyped
        BY DEF SignInTypes
      <3> QED BY <3>1, <3>2, <2>1, GoesTyped
    <2> QED BY <1>1, <1>2, <2>3, TokensSame DEF SignInTypes
  <1>3. ASSUME NEW u \in FindMatchingUser(i),
               mergeToken' = [mergeToken EXCEPT ![c] = [user |-> u, ident |-> i]], Step(c, "done")
        PROVE SignInTypes'
    <2>1. u \in Users
      BY DEF FindMatchingUser, FindByEmail, FindByPhone
    <2>2. [user |-> u, ident |-> i] \in MergeRow
      BY <2>1 DEF MergeRow
    <2>3. TokensTyped'
      BY <1>3, <2>2 DEF SignInTypes, TokensTyped
    <2> QED BY <1>1, <1>3, <2>3, EndTyped DEF SignInTypes
  <1>4. ASSUME call' = [call EXCEPT ![c].at = "create", ![c].ident = i], UNCHANGED mergeToken
        PROVE SignInTypes'
    <2>1. Goes(c, "create", call[c].phone, i, call[c].user, call[c].token)
      BY <1>4, <1>0 DEF CallIs, Goes
    <2>2. CallsTyped'
      <3>1. Fits("create", call[c].phone, i, call[c].user, call[c].token)
        BY <1>0 DEF Fits, CallSteps
      <3>2. CallsTyped
        BY DEF SignInTypes
      <3> QED BY <3>1, <3>2, <2>1, GoesTyped
    <2> QED BY <1>1, <1>4, <2>2, TokensSame DEF SignInTypes
  <1> QED BY <1>2, <1>3, <1>4 DEF SocialLogin

LEMMA MergeTypes ==
    ASSUME SignInTypes, NEW c \in Calls,
           \/ \E p \in Phones, t \in Calls : Merge(c, p, t)
           \/ ReadMergeToken(c) \/ TakeMergeToken(c)
    PROVE  SignInTypes'
  <1>0. /\ CallIs(c) /\ Needs(call[c]) /\ call[c].phone \in Phones \cup {None}
        /\ call[c].ident \in Identities \cup {None}
        /\ call[c].user \in Users \cup {None} /\ call[c].token \in Calls \cup {None}
    BY CallTyped DEF SignInTypes
  <1>1. ASSUME NEW p \in Phones, NEW t \in Calls, Merge(c, p, t) PROVE SignInTypes'
    <2>1. Goes(c, "merge", p, call[c].ident, call[c].user, t)
      BY <1>1, <1>0 DEF CallIs, Goes, Merge
    <2>2. CallsTyped'
      <3>1. Fits("merge", p, call[c].ident, call[c].user, t)
        BY <1>0 DEF Fits, CallSteps
      <3>2. CallsTyped
        BY DEF SignInTypes
      <3> QED BY <3>1, <3>2, <2>1, GoesTyped
    <2>3. CodesTyped'
      BY <1>1, ConsumeTyped DEF Merge, SignInTypes
    <2> QED BY <1>1, <2>2, <2>3, RequestTyped DEF Merge
  <1>2. ASSUME ReadMergeToken(c) PROVE SignInTypes'
    <2>1. CASE Step(c, "done")
      BY <1>2, <2>1, EndTyped, CodesSame, RequestTyped DEF ReadMergeToken, SignInTypes
    <2>2. CASE ~Step(c, "done")
      <3>1. PICK m : m = mergeToken[call[c].token]
        OBVIOUS
      <3>2. call' = [call EXCEPT ![c].at = "take", ![c].user = m.user, ![c].ident = m.ident]
        BY <1>2, <2>2, <3>1 DEF ReadMergeToken
      <3>3. Goes(c, "take", call[c].phone, m.ident, m.user, call[c].token)
        BY <3>2, <1>0 DEF CallIs, Goes
      <3>4. call[c].token \in Calls /\ m # None
        BY <1>0, <1>2, <2>2, <3>1 DEF ReadMergeToken, At, Needs
      <3>5. m.user \in Users /\ m.ident \in Identities
        BY <3>1, <3>4 DEF SignInTypes, TokensTyped, MergeRow
      <3>6. CallsTyped'
        <4>1. Fits("take", call[c].phone, m.ident, m.user, call[c].token)
          BY <1>0, <3>5 DEF Fits, CallSteps
        <4>2. CallsTyped
          BY DEF SignInTypes
        <4> QED BY <4>1, <4>2, <3>3, GoesTyped
      <3> QED BY <1>2, <3>6, CodesSame, RequestTyped DEF ReadMergeToken, SignInTypes
    <2> QED BY <2>1, <2>2
  <1>3. ASSUME TakeMergeToken(c) PROVE SignInTypes'
    <2>1. call[c].user \in Users /\ call[c].ident \in Identities
      BY <1>0, <1>3 DEF TakeMergeToken, At, Needs
    <2>2. PICK s \in {"mergeLink", "done"} : Step(c, s)
      BY <1>3 DEF TakeMergeToken
    <2>3. CallsTyped'
      BY <2>1, <2>2, StepTyped DEF SignInTypes, CallSteps
    <2>4. TokensTyped'
      BY <1>3 DEF TakeMergeToken, SignInTypes, TokensTyped
    <2> QED BY <1>3, <2>3, <2>4, RowsSame, CodesSame, SessionsSame DEF TakeMergeToken, SignInTypes
  <1> QED BY <1>1, <1>2, <1>3

LEMMA CreateTyped ==
    ASSUME RowsTyped, NEW u \in Users, NEW p \in Phones \cup {None}, NEW e \in Emails \cup {None},
           CreateUser(u, p, e)
    PROVE  RowsTyped'
  <1>1. [status |-> "active", phone |-> p, email |-> e] \in UserRow
    BY DEF UserRow, UserStatuses
  <1> QED BY <1>1 DEF CreateUser, RowsTyped

LEMMA CreateTypes ==
    ASSUME SignInTypes, NEW c \in Calls, NEW u \in Users, CreateRegistered(c, u) \/ CreateSocial(c, u)
    PROVE  SignInTypes'
  <1>0. /\ CallIs(c) /\ Needs(call[c]) /\ call[c].phone \in Phones \cup {None}
        /\ call[c].ident \in Identities \cup {None} /\ call[c].token \in Calls \cup {None}
    BY CallTyped DEF SignInTypes
  <1>1. CodesTyped' /\ SessionsTyped' /\ TokensTyped'
    BY CodesSame, SessionsSame, TokensSame DEF CreateRegistered, CreateSocial, SignInTypes
  <1>2. ASSUME Step(c, "done"), UNCHANGED accountVars PROVE SignInTypes'
    BY <1>1, <1>2, EndTyped, RowsSame DEF SignInTypes
  <1>3. ASSUME NEW a \in {"session", "link"}, a = "link" => call[c].ident \in Identities,
               NEW p \in Phones \cup {None}, NEW e \in Emails \cup {None}, CreateUser(u, p, e),
               call' = [call EXCEPT ![c].at = a, ![c].user = u]
        PROVE SignInTypes'
    <2>1. Goes(c, a, call[c].phone, call[c].ident, u, call[c].token)
      BY <1>3, <1>0 DEF CallIs, Goes
    <2>2. CallsTyped'
      <3>1. Fits(a, call[c].phone, call[c].ident, u, call[c].token)
        BY <1>0, <1>3 DEF Fits, CallSteps
      <3>2. CallsTyped
        BY DEF SignInTypes
      <3> QED BY <3>1, <3>2, <2>1, GoesTyped
    <2> QED BY <1>1, <1>3, <2>2, CreateTyped DEF SignInTypes
  <1>4. CASE CreateRegistered(c, u)
    <2>1. CASE Step(c, "done") /\ UNCHANGED accountVars
      BY <1>2, <2>1
    <2>2. CASE ~(Step(c, "done") /\ UNCHANGED accountVars)
      <3>1. /\ CreateUser(u, call[c].phone, None)
            /\ call' = [call EXCEPT ![c].at = "session", ![c].user = u]
        BY <1>4, <2>2 DEF CreateRegistered
      <3> QED BY <1>0, <1>3, <3>1
    <2> QED BY <2>1, <2>2
  <1>5. CASE CreateSocial(c, u)
    <2>1. CASE Step(c, "done") /\ UNCHANGED accountVars
      BY <1>2, <2>1
    <2>2. CASE ~(Step(c, "done") /\ UNCHANGED accountVars)
      <3> DEFINE i == call[c].ident
      <3>1. /\ CreateUser(u, ClaimedPhone[i], ClaimedEmail[i])
            /\ call' = [call EXCEPT ![c].at = "link", ![c].user = u]
        BY <1>5, <2>2 DEF CreateSocial
      <3>2. i \in Identities
        BY <1>0, <1>5 DEF CreateSocial, At, Needs
      <3>3. ClaimedPhone[i] \in Phones \cup {None} /\ ClaimedEmail[i] \in Emails \cup {None}
        BY <3>2, SignInAssumption
      <3> QED BY <1>3, <3>1, <3>2, <3>3
    <2> QED BY <2>1, <2>2
  <1> QED BY <1>4, <1>5

LEMMA LinkTyped ==
    ASSUME RowsTyped, NEW i, NEW u \in Users, NEW p \in Phones \cup {None}, LinkSocialIdentity(i, u, p)
    PROVE  link' \in [Identities -> Users \cup {None}] /\ mergedBy' \in [Identities -> Phones \cup {None}]
  BY DEF LinkSocialIdentity, RowsTyped

LEMMA LinkTypes ==
    ASSUME SignInTypes, NEW c \in Calls, LinkCreated(c) \/ LinkMerged(c)
    PROVE  SignInTypes'
  <1> DEFINE i == call[c].ident
             u == call[c].user
  <1>0. u \in Users /\ i \in Identities /\ call[c].phone \in Phones \cup {None}
    BY CallTyped DEF SignInTypes, LinkCreated, LinkMerged, At, Needs
  <1>1. PICK s \in {"session", "done"} : Step(c, s)
    BY DEF LinkCreated, LinkMerged
  <1>2. CallsTyped'
    BY <1>0, <1>1, StepTyped DEF SignInTypes, CallSteps
  <1>3. link' \in [Identities -> Users \cup {None}] /\ mergedBy' \in [Identities -> Phones \cup {None}]
    BY <1>0, LinkTyped DEF LinkCreated, LinkMerged, SignInTypes, RowsTyped
  <1>4. user' \in [Users -> UserRow] /\ UNCHANGED firstPhone
    <2>1. CASE user' = user
      BY <2>1 DEF LinkCreated, LinkMerged, SignInTypes, RowsTyped
    <2>2. CASE user' # user
      <3>1. PICK e : e = ClaimedEmail[i]
        OBVIOUS
      <3>2. user' = [user EXCEPT ![u].email = e] /\ UNCHANGED firstPhone
        BY <2>2, <3>1 DEF LinkCreated, LinkMerged
      <3>3. e \in Emails \cup {None}
        BY <1>0, <3>1, SignInAssumption
      <3>4. user' \in [Users -> UserRow]
        BY <1>0, <3>2, <3>3 DEF SignInTypes, RowsTyped, UserRow
      <3> QED BY <3>2, <3>4
    <2> QED BY <2>1, <2>2
  <1>5. CodesTyped' /\ SessionsTyped' /\ TokensTyped'
    BY CodesSame, SessionsSame, TokensSame DEF LinkCreated, LinkMerged, SignInTypes
  <1> QED BY <1>2, <1>3, <1>4, <1>5 DEF SignInTypes, RowsTyped

LEMMA AccountTypes ==
    ASSUME SignInTypes, AccountNext PROVE SignInTypes'
  <1>1. ASSUME NEW c \in Calls, NEW p \in Phones, Register(c, p) \/ Login(c, p) PROVE SignInTypes'
    BY <1>1, LoginTypes
  <1>2. ASSUME NEW c \in Calls, NEW u \in Users, CreateRegistered(c, u) \/ CreateSocial(c, u)
        PROVE SignInTypes'
    BY <1>2, CreateTypes
  <1>3. ASSUME NEW c \in Calls, NEW i \in Identities, SocialLogin(c, i) PROVE SignInTypes'
    BY <1>3, SocialLoginTypes
  <1>4. ASSUME NEW c \in Calls, NEW p \in Phones, NEW t \in Calls, Merge(c, p, t) PROVE SignInTypes'
    BY <1>4, MergeTypes
  <1>5. ASSUME NEW c \in Calls, LoginVerified(c) PROVE SignInTypes'
    <2>0. CallIs(c) /\ Needs(call[c])
      BY CallTyped DEF SignInTypes
    <2>1. call[c].user \in Users
      BY <1>5, <2>0 DEF LoginVerified, At, Needs
    <2>2. CallsTyped'
      BY <1>5, <2>1, StepTyped DEF LoginVerified, SignInTypes, CallSteps
    <2>3. CodesTyped'
      BY <1>5, ConsumeTyped, CodesSame DEF LoginVerified, SignInTypes
    <2> QED BY <1>5, <2>2, <2>3, RequestTyped DEF LoginVerified
  <1>6. ASSUME NEW c \in Calls, ReadMergeToken(c) \/ TakeMergeToken(c) PROVE SignInTypes'
    BY <1>6, MergeTypes
  <1>7. ASSUME NEW c \in Calls, LinkCreated(c) \/ LinkMerged(c) PROVE SignInTypes'
    BY <1>7, LinkTypes
  <1> QED BY <1>1, <1>2, <1>3, <1>4, <1>5, <1>6, <1>7 DEF AccountNext

-----------------------------------------------------------------------------
(* Types of the erasure jobs: a job that was requested has a user, and a worker   *)
(* that is not between two steps has one left to do.                          *)
ErasureSteps == Kinds \cup {"analytics_deletion_event"}
JobRow == [user : Users \cup {None}, status : JobStatuses, steps : SUBSET ErasureSteps]
WorkerRow == [job : Jobs, at : {"run", "revoke", "mark"}, steps : SUBSET ErasureSteps]

Left(done) == \E n \in DOMAIN OrderedSteps : OrderedSteps[n] \notin done

JobsTyped ==
    /\ job \in [Jobs -> JobRow]
    /\ \A j \in Jobs : job[j].status # "none" => job[j].user \in Users

WorkersTyped ==
    /\ worker \in [Workers -> WorkerRow \cup {None}]
    /\ \A w \in Workers : worker[w] # None /\ worker[w].at # "run" => Left(worker[w].steps)

KeptTyped ==
    /\ remains \in [Jobs -> SUBSET Kinds] /\ oldSessions \in [Jobs -> SUBSET Calls]
    /\ failures \in 0..MaxFailures /\ crashes \in 0..MaxCrashes

ConsentTyped ==
    /\ consent \in [Users -> {"none", "granted", "withdrawn"}]
    /\ stopped \in [Users -> BOOLEAN]
    /\ answered \subseteq Users /\ withdrawing \subseteq Users

ErasureTypes == JobsTyped /\ WorkersTyped /\ KeptTyped /\ ConsentTyped

LEMMA ErasureTypesAre == ErasureTypes => ErasureTypeOK
  BY DEF ErasureTypes, JobsTyped, WorkersTyped, KeptTyped, ConsentTyped, ErasureTypeOK,
         JobRow, WorkerRow, ErasureSteps

LEMMA ErasureTypesStart == ErasureInit => ErasureTypes
  <1> SUFFICES ASSUME ErasureInit PROVE ErasureTypes
    OBVIOUS
  <1>1. JobsTyped
    BY DEF ErasureInit, JobsTyped, JobRow, JobStatuses
  <1>2. WorkersTyped
    BY DEF ErasureInit, WorkersTyped
  <1>3. KeptTyped
    BY ErasureAssumption DEF ErasureInit, KeptTyped
  <1>4. ConsentTyped
    BY DEF ErasureInit, ConsentTyped
  <1> QED BY <1>1, <1>2, <1>3, <1>4 DEF ErasureTypes

(* The first step that is left is a step.                                      *)
LEMMA NextIsAStep ==
    ASSUME NEW done, Left(done) PROVE StepAfter(done) \in ErasureSteps
  <1> DEFINE First(n) == /\ OrderedSteps[n] \notin done
                         /\ \A k \in 1..(n - 1) : OrderedSteps[k] \in done
  <1>1. DOMAIN OrderedSteps = 1..6
    BY DEF OrderedSteps
  <1>2. \A n \in 1..6 : OrderedSteps[n] \in ErasureSteps
    BY DEF OrderedSteps, ErasureSteps, Kinds
  <1>3. \E n \in 1..6 : First(n)
    <2>0. PICK f : f = OrderedSteps
      OBVIOUS
    <2>1. \E n \in 1..6 : f[n] \notin done
      BY <1>1, <2>0 DEF Left
    <2>2. CASE f[1] \notin done
      BY <2>0, <2>2
    <2>3. CASE f[1] \in done /\ f[2] \notin done
      BY <2>0, <2>3
    <2>4. CASE f[1] \in done /\ f[2] \in done /\ f[3] \notin done
      BY <2>0, <2>4
    <2>5. CASE f[1] \in done /\ f[2] \in done /\ f[3] \in done /\ f[4] \notin done
      BY <2>0, <2>5
    <2>6. CASE f[1] \in done /\ f[2] \in done /\ f[3] \in done /\ f[4] \in done /\ f[5] \notin done
      BY <2>0, <2>6
    <2>7. CASE /\ f[1] \in done /\ f[2] \in done /\ f[3] \in done /\ f[4] \in done /\ f[5] \in done
               /\ f[6] \notin done
      BY <2>0, <2>7
    <2> QED BY <2>1, <2>2, <2>3, <2>4, <2>5, <2>6, <2>7
  <1>4. PICK n : n = CHOOSE m \in 1..6 : First(m)
    OBVIOUS
  <1>5. n \in 1..6
    BY <1>3, <1>4
  <1>6. StepAfter(done) = OrderedSteps[n]
    BY <1>1, <1>4 DEF StepAfter
  <1> QED BY <1>2, <1>5, <1>6

(* Whose data a worker erases.                                                *)
LEMMA WorkerIsTyped ==
    ASSUME ErasureTypes, EraseInv, NEW w \in Workers, worker[w] # None
    PROVE  /\ worker[w] \in WorkerRow /\ worker[w].job \in Jobs
           /\ WorkerUser(w) \in Users /\ job[worker[w].job].status # "none"
           /\ w \in Revokers
  <1>1. worker[w] \in WorkerRow
    BY DEF ErasureTypes, WorkersTyped
  <1>2. worker[w].job \in Jobs
    BY <1>1 DEF WorkerRow
  <1>3. job[worker[w].job].status # "none"
    BY DEF EraseInv, WorkerRight
  <1>4. WorkerUser(w) \in Users
    BY <1>2, <1>3 DEF ErasureTypes, JobsTyped, WorkerUser
  <1> QED BY <1>1, <1>2, <1>3, <1>4, ErasureAssumption

LEMMA JobSet ==
    ASSUME JobsTyped, NEW j \in Jobs, NEW s \in JobStatuses, job[j].user \in Users,
           job' = [job EXCEPT ![j].status = s]
    PROVE  JobsTyped'
  <1> DEFINE row == [job[j] EXCEPT !.status = s]
  <1>1. row \in JobRow /\ row.user = job[j].user
    BY DEF JobsTyped, JobRow
  <1>2. job' = [job EXCEPT ![j] = row]
    OBVIOUS
  <1> HIDE DEF row
  <1> QED BY <1>1, <1>2 DEF JobsTyped

LEMMA WorkerMoves ==
    ASSUME WorkersTyped, NEW w \in Workers, NEW at \in {"revoke", "mark"}, worker[w] # None,
           Left(worker[w].steps), WorkerGoes(w, at)
    PROVE  WorkersTyped'
  <1> DEFINE row == [worker[w] EXCEPT !.at = at]
  <1>1. worker[w] \in WorkerRow
    BY DEF WorkersTyped
  <1>2. row \in WorkerRow /\ row.steps = worker[w].steps
    BY <1>1 DEF WorkerRow
  <1>3. worker' = [worker EXCEPT ![w] = row]
    BY DEF WorkerGoes
  <1> HIDE DEF row
  <1>4. worker' \in [Workers -> WorkerRow \cup {None}] /\ worker'[w] = row
        /\ \A v \in Workers \ {w} : worker'[v] = worker[v]
    BY <1>2, <1>3 DEF WorkersTyped
  <1> QED BY <1>2, <1>4 DEF WorkersTyped

LEMMA WorkerEnds ==
    ASSUME WorkersTyped, NEW w \in Workers, worker' = [worker EXCEPT ![w] = None]
    PROVE  WorkersTyped'
  BY DEF WorkersTyped

LEMMA RemoveTyped ==
    ASSUME KeptTyped, NEW u, NEW kind, Remove(u, kind), UNCHANGED <<oldSessions, failures, crashes>>
    PROVE  KeptTyped'
  BY DEF KeptTyped, Remove

LEMMA JobsSame == JobsTyped /\ UNCHANGED job => JobsTyped'
  BY DEF JobsTyped

LEMMA WorkersSame == WorkersTyped /\ UNCHANGED worker => WorkersTyped'
  BY DEF WorkersTyped

LEMMA KeptSame == KeptTyped /\ UNCHANGED <<remains, oldSessions, failures, crashes>> => KeptTyped'
  BY DEF KeptTyped

LEMMA ConsentSame == ConsentTyped /\ UNCHANGED consentVars => ConsentTyped'
  BY DEF ConsentTyped, consentVars

LEMMA SignInSame == SignInTypes /\ UNCHANGED signInVars => SignInTypes'
  BY RowsSame, CodesSame, TokensSame, SessionsSame, CallsSame DEF SignInTypes, signInVars

LEMMA RequestTypes ==
    ASSUME ErasureTypes, NEW j \in Jobs, NEW u \in Users, Request(j, u) PROVE ErasureTypes'
  <1> DEFINE row == [job[j] EXCEPT !.user = u, !.status = "pending"]
  <1>1. row \in JobRow /\ row.user = u
    BY DEF ErasureTypes, JobsTyped, JobRow, JobStatuses
  <1>2. job' = [job EXCEPT ![j] = row]
    BY DEF Request
  <1> HIDE DEF row
  <1>3. JobsTyped'
    BY <1>1, <1>2 DEF ErasureTypes, JobsTyped
  <1>4. KeptTyped'
    <2>1. PICK old \in SUBSET Calls : oldSessions' = [oldSessions EXCEPT ![j] = old]
      BY DEF Request
    <2>2. remains' = [remains EXCEPT ![j] = Kinds] /\ UNCHANGED <<failures, crashes>>
      BY DEF Request
    <2> QED BY <2>1, <2>2 DEF ErasureTypes, KeptTyped
  <1> QED BY <1>3, <1>4, WorkersSame, ConsentSame DEF Request, ErasureTypes

LEMMA ClaimTypes ==
    ASSUME ErasureTypes, NEW w \in Workers, ClaimNext(w) PROVE ErasureTypes'
  <1>1. PICK j \in Jobs :
            /\ Claimable(j) /\ job' = [job EXCEPT ![j].status = "running"]
            /\ worker' = [worker EXCEPT ![w] = [job |-> j, at |-> "run", steps |-> job[j].steps]]
    BY DEF ClaimNext
  <1>2. job[j].user \in Users /\ job[j] \in JobRow
    BY <1>1 DEF Claimable, ErasureTypes, JobsTyped
  <1>3. JobsTyped'
    BY <1>1, <1>2, JobSet DEF ErasureTypes, JobStatuses
  <1>4. PICK row : row = [job |-> j, at |-> "run", steps |-> job[j].steps]
    OBVIOUS
  <1>5. row \in WorkerRow /\ row.at = "run"
    BY <1>2, <1>4 DEF WorkerRow, JobRow
  <1>6. worker' = [worker EXCEPT ![w] = row]
    BY <1>1, <1>4
  <1>7. WorkersTyped'
    BY <1>5, <1>6 DEF ErasureTypes, WorkersTyped
  <1> QED BY <1>3, <1>7, KeptSame, ConsentSame DEF ClaimNext, ErasureTypes

(* A step that removes what it is about and is to be marked.                     *)
LEMMA RunTypes ==
    ASSUME ErasureTypes, EraseInv, NEW w \in Workers, worker[w] # None, Unfinished(w),
           NEW kind, Remove(WorkerUser(w), kind), WorkerGoes(w, "mark"),
           UNCHANGED <<job, oldSessions, failures, crashes, consentVars>>
    PROVE  ErasureTypes'
  <1>1. Left(worker[w].steps)
    BY DEF Unfinished, Left
  <1>2. WorkersTyped'
    BY <1>1, WorkerMoves DEF ErasureTypes
  <1>3. PICK u : u = WorkerUser(w)
    OBVIOUS
  <1>4. KeptTyped'
    BY <1>3, RemoveTyped DEF ErasureTypes
  <1> QED BY <1>2, <1>4, JobsSame, ConsentSame DEF ErasureTypes

(* A worker leaves its job, or the job is written.                               *)
LEMMA LeaveTypes ==
    ASSUME ErasureTypes, EraseInv, NEW w \in Workers, FailStep(w) \/ MarkCompleted(w) \/ Crash(w)
    PROVE  ErasureTypes'
  <1>1. worker[w] # None
    BY DEF FailStep, MarkCompleted, Crash
  <1>2. worker[w].job \in Jobs /\ WorkerUser(w) \in Users
    BY <1>1, WorkerIsTyped
  <1>3. WorkersTyped'
    BY WorkerEnds DEF FailStep, MarkCompleted, Crash, ErasureTypes
  <1>4. JobsTyped'
    <2>1. ASSUME NEW s \in JobStatuses, job' = [job EXCEPT ![worker[w].job].status = s]
          PROVE JobsTyped'
      BY <1>2, <2>1, JobSet DEF WorkerUser, ErasureTypes
    <2>2. CASE FailStep(w) \/ MarkCompleted(w)
      BY <2>1, <2>2 DEF FailStep, MarkCompleted, JobStatuses
    <2>3. CASE Crash(w)
      BY <2>3, JobsSame DEF Crash, ErasureTypes
    <2> QED BY <2>2, <2>3
  <1>5. KeptTyped'
    <2>1. KeptTyped
      BY DEF ErasureTypes
    <2>2. ASSUME FailStep(w) PROVE KeptTyped'
      <3>1. failures + 1 \in 0..MaxFailures
        BY <2>1, <2>2, ErasureAssumption DEF FailStep, KeptTyped
      <3> QED BY <2>1, <2>2, <3>1 DEF FailStep, KeptTyped
    <2>3. ASSUME Crash(w) PROVE KeptTyped'
      <3>1. crashes + 1 \in 0..MaxCrashes
        BY <2>1, <2>3, ErasureAssumption DEF Crash, KeptTyped
      <3> QED BY <2>1, <2>3, <3>1 DEF Crash, KeptTyped
    <2>4. ASSUME MarkCompleted(w) PROVE KeptTyped'
      BY <2>1, <2>4, KeptSame DEF MarkCompleted
    <2> QED BY <2>2, <2>3, <2>4
  <1>6. ConsentTyped'
    BY ConsentSame DEF FailStep, MarkCompleted, Crash, ErasureTypes
  <1> QED BY <1>3, <1>4, <1>5, <1>6 DEF ErasureTypes

LEMMA MarkTypes ==
    ASSUME ErasureTypes, EraseInv, NEW w \in Workers, MarkStepDone(w) PROVE ErasureTypes'
  <1>1. worker[w] # None /\ worker[w].at = "mark"
    BY DEF MarkStepDone
  <1>2. worker[w] \in WorkerRow /\ worker[w].job \in Jobs
    BY <1>1, WorkerIsTyped
  <1>3. PICK step : step = NextStep(w)
    OBVIOUS
  <1>4. step \in ErasureSteps
    <2>1. Left(worker[w].steps)
      BY <1>1 DEF ErasureTypes, WorkersTyped
    <2> QED BY <1>3, <2>1, NextIsAfter, NextIsAStep
  <1>5. JobsTyped'
    <2> DEFINE j == worker[w].job
               row == [job[j] EXCEPT !.steps = @ \cup {step}]
    <2>1. row \in JobRow /\ row.user = job[j].user /\ row.status = job[j].status
      BY <1>2, <1>4 DEF ErasureTypes, JobsTyped, JobRow
    <2>2. job' = [job EXCEPT ![j] = row]
      BY <1>3 DEF MarkStepDone
    <2> HIDE DEF row
    <2> QED BY <1>2, <2>1, <2>2 DEF ErasureTypes, JobsTyped
  <1>6. WorkersTyped'
    <2> DEFINE row == [worker[w] EXCEPT !.steps = @ \cup {step}, !.at = "run"]
    <2>1. row \in WorkerRow /\ row.at = "run"
      BY <1>2, <1>4 DEF WorkerRow
    <2>2. worker' = [worker EXCEPT ![w] = row]
      BY <1>3 DEF MarkStepDone
    <2> HIDE DEF row
    <2> QED BY <2>1, <2>2 DEF ErasureTypes, WorkersTyped
  <1> QED BY <1>5, <1>6, KeptSame, ConsentSame DEF MarkStepDone, ErasureTypes

LEMMA StartCleanupTypes ==
    ASSUME ErasureTypes, EraseInv, SignInTypes, NEW w \in Workers, StartRedisCleanup(w)
    PROVE  ErasureTypes' /\ SignInTypes'
  <1>1. worker[w] # None /\ Left(worker[w].steps)
    BY DEF StartRedisCleanup, Running, Unfinished, Left
  <1>2. PICK u \in Users : u = WorkerUser(w)
    BY <1>1, WorkerIsTyped
  <1>3. WorkersTyped'
    BY <1>1, WorkerMoves DEF StartRedisCleanup, ErasureTypes
  <1>4. ConsentTyped'
    BY <1>2 DEF StartRedisCleanup, ErasureTypes, ConsentTyped
  <1>5. SessionsTyped'
    <2>1. ListTokens(w, u)
      BY <1>2 DEF StartRedisCleanup
    <2>2. PICK listed \in SUBSET Calls :
             revoking' = [revoking EXCEPT ![w] = [user |-> u, listed |-> listed]]
      BY <2>1 DEF ListTokens
    <2>3. [user |-> u, listed |-> listed] \in Revocation
      BY DEF Revocation
    <2>4. UNCHANGED session
      BY <2>1 DEF ListTokens
    <2> QED BY <2>2, <2>3, <2>4 DEF SignInTypes, SessionsTyped
  <1>6. ErasureTypes'
    BY <1>3, <1>4, JobsSame, KeptSame DEF StartRedisCleanup, ErasureTypes
  <1>7. SignInTypes'
    BY <1>5, RowsSame, CodesSame, TokensSame, CallsSame DEF StartRedisCleanup, SignInTypes
  <1> QED BY <1>6, <1>7

LEMMA FinishCleanupTypes ==
    ASSUME ErasureTypes, EraseInv, SignInTypes, NEW w \in Workers, FinishRedisCleanup(w)
    PROVE  ErasureTypes' /\ SignInTypes'
  <1>1. worker[w] # None /\ worker[w].at = "revoke"
    BY DEF FinishRedisCleanup
  <1>2. Unfinished(w)
    BY <1>1 DEF ErasureTypes, WorkersTyped, Left, Unfinished
  <1>3. ErasureTypes'
    BY <1>1, <1>2, RunTypes DEF FinishRedisCleanup
  <1>4. SessionsTyped'
    <2>1. /\ session' = [c \in Calls |->
                 IF c \in revoking[w].listed THEN None
                 ELSE IF session[c] # None /\ session[c].user = revoking[w].user
                 THEN [session[c] EXCEPT !.indexed = FALSE] ELSE session[c]]
          /\ revoking' = [revoking EXCEPT ![w] = None]
      BY DEF FinishRedisCleanup, DeleteTokens
    <2>2. ASSUME NEW row \in SessionRow PROVE [row EXCEPT !.indexed = FALSE] \in SessionRow
      BY DEF SessionRow
    <2>3. ASSUME NEW c \in Calls PROVE session'[c] \in SessionRow \cup {None}
      <3>1. session[c] \in SessionRow \cup {None}
        BY DEF SignInTypes, SessionsTyped
      <3>2. session[c] # None => [session[c] EXCEPT !.indexed = FALSE] \in SessionRow
        BY <2>2, <3>1
      <3> QED BY <2>1, <3>1, <3>2
    <2>4. session' = [c \in Calls |-> session'[c]]
      BY <2>1
    <2>5. revoking' \in [Revokers -> Revocation \cup {None}]
      BY <2>1 DEF SignInTypes, SessionsTyped
    <2> QED BY <2>3, <2>4, <2>5 DEF SessionsTyped
  <1>5. SignInTypes'
    BY <1>4, RowsSame, CodesSame, TokensSame, CallsSame DEF FinishRedisCleanup, SignInTypes
  <1> QED BY <1>3, <1>5

(* The two steps that write PostgreSQL.                                        *)
LEMMA EraseTypes ==
    ASSUME ErasureTypes, EraseInv, SignInTypes, NEW w \in Workers,
           DeletePostgresCascade(w) \/ AnonymizeUser(w)
    PROVE  ErasureTypes' /\ SignInTypes'
  <1>1. worker[w] # None /\ Unfinished(w)
    BY DEF DeletePostgresCascade, AnonymizeUser, Running
  <1>2. PICK kind : Remove(WorkerUser(w), kind)
    BY DEF DeletePostgresCascade, AnonymizeUser
  <1>3. ErasureTypes'
    BY <1>1, <1>2, RunTypes DEF DeletePostgresCascade, AnonymizeUser
  <1>4. RowsTyped'
    <2>1. ASSUME DeletePostgresCascade(w) PROVE RowsTyped'
      BY <2>1 DEF DeletePostgresCascade, SignInTypes, RowsTyped
    <2>2. ASSUME AnonymizeUser(w) PROVE RowsTyped'
      <3>1. PICK row : row = [status |-> "erased", phone |-> None, email |-> None]
        OBVIOUS
      <3>2. row \in UserRow
        BY <3>1 DEF UserRow, UserStatuses
      <3>3. user' = [user EXCEPT ![WorkerUser(w)] = row] /\ UNCHANGED <<firstPhone, link, mergedBy>>
        BY <2>2, <3>1 DEF AnonymizeUser
      <3> QED BY <3>2, <3>3 DEF SignInTypes, RowsTyped
    <2> QED BY <2>1, <2>2
  <1>5. SignInTypes'
    BY <1>4, CodesSame, SessionsSame, TokensSame, CallsSame
       DEF DeletePostgresCascade, AnonymizeUser, SignInTypes
  <1> QED BY <1>3, <1>5

(* A worker that is stopped revokes no more.                                   *)
LEMMA DropTypes ==
    ASSUME SignInTypes, NEW w \in Workers, FailStep(w) \/ Crash(w) PROVE SignInTypes'
  <1>1. SessionsTyped'
    BY DEF FailStep, Crash, SignInTypes, SessionsTyped
  <1> QED BY <1>1, RowsSame, CodesSame, TokensSame, CallsSame DEF FailStep, Crash, SignInTypes

LEMMA ConsentTypes ==
    ASSUME ErasureTypes, SignInTypes, ConsentNext PROVE ErasureTypes' /\ SignInTypes'
  <1>1. UNCHANGED <<jobVars, signInVars>>
    BY DEF ConsentNext, GrantConsent, Withdraw, StopTracking
  <1>2. ConsentTyped'
    BY DEF ConsentNext, GrantConsent, Withdraw, StopTracking, ErasureTypes, ConsentTyped
  <1> QED BY <1>1, <1>2, JobsSame, WorkersSame, KeptSame, SignInSame DEF jobVars, ErasureTypes

LEMMA ErasingTypes ==
    ASSUME ErasureTypes, EraseInv, SignInTypes, ErasureStep PROVE ErasureTypes' /\ SignInTypes'
  <1>1. ASSUME NEW j \in Jobs, NEW u \in Users, Request(j, u) PROVE ErasureTypes' /\ SignInTypes'
    <2>1. UNCHANGED signInVars
      BY <1>1 DEF Request
    <2> QED BY <1>1, <2>1, RequestTypes, SignInSame
  <1>2. ASSUME NEW w \in Workers, EraseRows(w) \/ EraseUser(w) PROVE ErasureTypes' /\ SignInTypes'
    BY <1>2, EraseTypes DEF EraseRows, EraseUser
  <1>3. ASSUME NEW w \in Workers, ClaimNext(w) PROVE ErasureTypes' /\ SignInTypes'
    BY <1>3, ClaimTypes, SignInSame DEF ClaimNext
  <1>4. ASSUME NEW w \in Workers, StartRedisCleanup(w) \/ FinishRedisCleanup(w)
        PROVE ErasureTypes' /\ SignInTypes'
    BY <1>4, StartCleanupTypes, FinishCleanupTypes
  <1>5. ASSUME NEW w \in Workers, RunOtherStep(w) PROVE ErasureTypes' /\ SignInTypes'
    <2>1. PICK step : Running(w, step) /\ Remove(WorkerUser(w), step)
      BY <1>5 DEF RunOtherStep
    <2>2. worker[w] # None /\ Unfinished(w)
      BY <2>1 DEF Running
    <2>3. /\ WorkerGoes(w, "mark")
          /\ UNCHANGED <<job, oldSessions, failures, crashes, consentVars, signInVars>>
      BY <1>5 DEF RunOtherStep
    <2> QED BY <2>1, <2>2, <2>3, RunTypes, SignInSame
  <1>6. ASSUME NEW w \in Workers, FailStep(w) \/ Crash(w) PROVE ErasureTypes' /\ SignInTypes'
    BY <1>6, LeaveTypes, DropTypes
  <1>7. ASSUME NEW w \in Workers, MarkStepDone(w) PROVE ErasureTypes' /\ SignInTypes'
    BY <1>7, MarkTypes, SignInSame DEF MarkStepDone
  <1>8. ASSUME NEW w \in Workers, MarkCompleted(w) PROVE ErasureTypes' /\ SignInTypes'
    BY <1>8, LeaveTypes, SignInSame DEF MarkCompleted
  <1> QED BY <1>1, <1>2, <1>3, <1>4, <1>5, <1>6, <1>7, <1>8 DEF ErasureStep

-----------------------------------------------------------------------------
(* Types of moderation and of the social tables.                               *)
ItemDecision == [on : Items, from : {"pending"}, to : Verdicts]
StatusDecision == [on : Users, from : UserStatuses, to : SetStatuses]
QueueStatuses == {"none", "tested", "pending", "refused"} \cup Verdicts

ModerationTypes ==
    /\ item \in [Items -> QueueStatuses] /\ twin \subseteq Items
    /\ decisions \in [Items -> Nat] /\ statusLog \in [Users -> Seq(Change)]
    /\ decision \in [Moderators -> ItemDecision \cup StatusDecision \cup {None, Done}]

LEMMA ModerationTypesAre == ModerationTypes => ModerationTypeOK
  BY DEF ModerationTypes, ModerationTypeOK, QueueStatuses, Change, ItemDecision, StatusDecision

LEMMA ModerationTypesStart == ModerationInit => ModerationTypes
  <1> SUFFICES ASSUME ModerationInit PROVE ModerationTypes
    OBVIOUS
  <1>1. <<>> \in Seq(Change)
    OBVIOUS
  <1> QED BY <1>1 DEF ModerationInit, ModerationTypes, QueueStatuses

LEMMA ModerationSame == ModerationTypes /\ UNCHANGED moderationVars => ModerationTypes'
  BY DEF ModerationTypes, moderationVars

LEMMA FileTypes ==
    ASSUME ModerationTypes, NEW i \in Items,
           \/ TestAppeal(i) \/ FileAppeal(i) \/ FileReport(i)
           \/ TestAnomaly(i) \/ InsertFlag(i)
    PROVE  ModerationTypes'
  <1>1. PICK s \in {"tested", "pending", "refused"} : File(i, s)
    BY DEF TestAppeal, FileAppeal, FileReport, TestAnomaly, InsertFlag
  <1>2. twin' \subseteq Items
    BY DEF TestAppeal, FileAppeal, FileReport, TestAnomaly, InsertFlag, ModerationTypes
  <1>3. /\ item' = [item EXCEPT ![i] = s]
        /\ UNCHANGED <<decisions, statusLog, decision>>
    BY <1>1 DEF File
  <1>4. item' \in [Items -> QueueStatuses]
    BY <1>3 DEF ModerationTypes, QueueStatuses
  <1> QED BY <1>2, <1>3, <1>4 DEF ModerationTypes

LEMMA DecidesTypes ==
    ASSUME ModerationTypes, NEW m \in Moderators,
           NEW d \in ItemDecision \cup StatusDecision \cup {None, Done},
           decision' = [decision EXCEPT ![m] = d], UNCHANGED <<item, twin, decisions, statusLog>>
    PROVE  ModerationTypes'
  BY DEF ModerationTypes

LEMMA CommitItemTypes ==
    ASSUME ModerationTypes, NEW m \in Moderators, CommitItem(m) PROVE ModerationTypes'
  <1>1. decision[m].on \in Items /\ decision[m].to \in Verdicts
    BY ModerationAssumption DEF CommitItem, Deciding, ModerationTypes, ItemDecision, StatusDecision
  <1>2. PICK i \in Items, to \in Verdicts : i = decision[m].on /\ to = decision[m].to
    BY <1>1
  <1>3. /\ item' = [item EXCEPT ![i] = to]
        /\ decisions' = [decisions EXCEPT ![i] = @ + 1]
        /\ decision' = [decision EXCEPT ![m] = Done] /\ UNCHANGED <<twin, statusLog>>
    BY <1>2 DEF CommitItem
  <1>4. item' \in [Items -> QueueStatuses]
    BY <1>3 DEF ModerationTypes, QueueStatuses
  <1>5. decisions' \in [Items -> Nat]
    BY <1>3 DEF ModerationTypes
  <1> QED BY <1>3, <1>4, <1>5 DEF ModerationTypes

LEMMA CommitStatusTypes ==
    ASSUME ModerationTypes, SignInTypes, NEW m \in Moderators, CommitStatus(m)
    PROVE  ModerationTypes' /\ SignInTypes'
  <1>1. decision[m] \in StatusDecision
    BY ModerationAssumption DEF CommitStatus, Deciding, ModerationTypes, ItemDecision, StatusDecision
  <1>2. PICK u \in Users, from \in UserStatuses, to \in SetStatuses :
            u = decision[m].on /\ from = decision[m].from /\ to = decision[m].to
    BY <1>1 DEF StatusDecision
  <1>3. PICK change : change = [from |-> from, to |-> to]
    OBVIOUS
  <1>4. /\ user' = [user EXCEPT ![u].status = to]
        /\ statusLog' = [statusLog EXCEPT ![u] = Append(@, change)]
        /\ decision' = [decision EXCEPT ![m] = Done] /\ UNCHANGED <<item, twin, decisions>>
    BY <1>2, <1>3 DEF CommitStatus
  <1>5. statusLog' \in [Users -> Seq(Change)]
    <2>1. change \in Change
      BY <1>3 DEF Change
    <2>2. PICK rows : rows = Seq(Change)
      OBVIOUS
    <2>3. statusLog \in [Users -> rows]
      BY <2>2 DEF ModerationTypes
    <2>4. statusLog[u] \in Seq(Change)
      BY <2>2, <2>3
    <2>5. PICK log : log = Append(statusLog[u], change)
      OBVIOUS
    <2>6. log \in rows
      BY <2>1, <2>2, <2>4, <2>5
    <2>7. statusLog' = [statusLog EXCEPT ![u] = log]
      BY <1>4, <2>5
    <2>8. statusLog' \in [Users -> rows]
      BY <2>3, <2>6, <2>7
    <2> QED BY <2>2, <2>8
  <1>6. ModerationTypes'
    BY <1>4, <1>5 DEF ModerationTypes
  <1>7. RowsTyped'
    <2>1. user' \in [Users -> UserRow]
      BY <1>4 DEF SignInTypes, RowsTyped, UserRow, SetStatuses, UserStatuses
    <2> QED BY <2>1 DEF CommitStatus, SignInTypes, RowsTyped
  <1>8. SignInTypes'
    BY <1>7, CodesSame, SessionsSame, TokensSame, CallsSame DEF CommitStatus, SignInTypes
  <1> QED BY <1>6, <1>8

LEMMA DeleteItemsTypes ==
    ASSUME ModerationTypes, NEW u, DeleteItemsOf(u) PROVE ModerationTypes'
  <1>1. item' \in [Items -> QueueStatuses] /\ decisions' \in [Items -> Nat]
    BY DEF DeleteItemsOf, ModerationTypes, QueueStatuses
  <1> QED BY <1>1 DEF DeleteItemsOf, ModerationTypes

LEMMA ModeratingTypes ==
    ASSUME ModerationTypes, SignInTypes, QueueNext \/ StatusNext
    PROVE  ModerationTypes' /\ SignInTypes'
  <1>1. ASSUME NEW i \in Items, UNCHANGED signInVars,
               \/ TestAppeal(i) \/ FileAppeal(i) \/ FileReport(i)
               \/ TestAnomaly(i) \/ InsertFlag(i)
        PROVE ModerationTypes' /\ SignInTypes'
    BY <1>1, FileTypes, SignInSame
  <1>2. ASSUME NEW m \in Moderators, NEW i \in Items, NEW to \in Verdicts,
               ResolveAppeal(m, i, to) \/ ResolveReport(m, i, to) \/ ResolveFlag(m, i, to)
        PROVE ModerationTypes' /\ SignInTypes'
    <2>1. PICK d : d = [on |-> i, from |-> "pending", to |-> to]
      OBVIOUS
    <2>2. d \in ItemDecision
      BY <2>1 DEF ItemDecision
    <2>3. /\ decision' = [decision EXCEPT ![m] = d] /\ UNCHANGED <<item, twin, decisions, statusLog>>
          /\ UNCHANGED signInVars
      BY <1>2, <2>1 DEF ResolveAppeal, ResolveReport, ResolveFlag, LockItem
    <2> QED BY <2>2, <2>3, DecidesTypes, SignInSame
  <1>3. ASSUME NEW m \in Moderators, RollBack(m) PROVE ModerationTypes' /\ SignInTypes'
    BY <1>3, DecidesTypes, SignInSame DEF RollBack
  <1>4. ASSUME NEW m \in Moderators, NEW u \in Users, NEW to \in SetStatuses, SetStatus(m, u, to)
        PROVE ModerationTypes' /\ SignInTypes'
    <2>1. PICK d : d = [on |-> u, from |-> user[u].status, to |-> to]
      OBVIOUS
    <2>2. user[u].status \in UserStatuses
      BY DEF SignInTypes, RowsTyped, UserRow
    <2>3. d \in StatusDecision
      BY <2>1, <2>2 DEF StatusDecision
    <2>4. /\ decision' = [decision EXCEPT ![m] = d] /\ UNCHANGED <<item, twin, decisions, statusLog>>
          /\ UNCHANGED signInVars
      BY <1>4, <2>1 DEF SetStatus
    <2> QED BY <2>3, <2>4, DecidesTypes, SignInSame
  <1>5. ASSUME NEW m \in Moderators, CommitItem(m) PROVE ModerationTypes' /\ SignInTypes'
    BY <1>5, CommitItemTypes, SignInSame DEF CommitItem
  <1>6. ASSUME NEW m \in Moderators, CommitStatus(m) PROVE ModerationTypes' /\ SignInTypes'
    BY <1>6, CommitStatusTypes
  <1> QED BY <1>1, <1>2, <1>3, <1>4, <1>5, <1>6 DEF QueueNext, StatusNext

-----------------------------------------------------------------------------
BlockRow == [rows : SUBSET Directed, friends : BOOLEAN]
RedemptionRow == [at : RedeemSteps, referee : Users, referrer : Users, device : Devices,
                  suspicious : BOOLEAN, twins : SUBSET Redemptions]
Pairs == {PairOf(p) : p \in Directed}

FriendTypes ==
    /\ requests \subseteq Directed /\ blocks \subseteq Directed
    /\ mutes \subseteq Directed /\ creating \subseteq Directed
    /\ friends \subseteq Pairs /\ raced \subseteq friends
    /\ accepting \in [Directed -> {"no", "open", "raced"}]
    /\ blocking \in [Directed -> BlockRow \cup {None}]

MessageTypes ==
    /\ sending \subseteq Directed /\ reactions \subseteq Users
    /\ messages \in [Directed -> 0..MaxMessages]

ReferralTypes ==
    /\ device \in [Users -> SUBSET Devices]
    /\ redemption \in [Redemptions -> RedemptionRow \cup {None}]
    /\ paid \in [Users -> Nat]

SocialTypes == FriendTypes /\ MessageTypes /\ ReferralTypes

LEMMA SocialTypesAre == SocialTypes => SocialTypeOK
  BY DEF SocialTypes, FriendTypes, MessageTypes, ReferralTypes, SocialTypeOK, BlockRow,
         RedemptionRow, Pairs

LEMMA SocialTypesStart == SocialInit => SocialTypes
  BY SocialAssumption
  DEF SocialInit, SocialTypes, FriendTypes, MessageTypes, ReferralTypes

LEMMA FriendsSame == FriendTypes /\ UNCHANGED friendVars => FriendTypes'
  BY DEF FriendTypes, friendVars

LEMMA MessagesSame == MessageTypes /\ UNCHANGED messageVars => MessageTypes'
  BY DEF MessageTypes, messageVars

LEMMA ReferralsSame == ReferralTypes /\ UNCHANGED referralVars => ReferralTypes'
  BY DEF ReferralTypes, referralVars

LEMMA RowsGoneTyped ==
    ASSUME FriendTypes, NEW rows, NEW pair, RowsGone(rows, pair)
    PROVE  blocking' \in [Directed -> BlockRow \cup {None}]
  <1>1. ASSUME NEW row \in BlockRow, NEW b \in BOOLEAN
        PROVE [rows |-> row.rows \ rows, friends |-> row.friends /\ b] \in BlockRow
    <2>1. row.rows \ rows \in SUBSET Directed /\ (row.friends /\ b) \in BOOLEAN
      BY DEF BlockRow
    <2> QED BY <2>1 DEF BlockRow
  <1>2. ASSUME NEW q \in Directed, blocking[q] # None
        PROVE  [rows |-> blocking[q].rows \ rows,
                friends |-> blocking[q].friends /\ PairOf(q) # pair] \in BlockRow
    <2>1. blocking[q] \in BlockRow
      BY <1>2 DEF FriendTypes
    <2>2. (PairOf(q) # pair) \in BOOLEAN
      OBVIOUS
    <2> QED BY <1>1, <2>1, <2>2
  <1> QED BY <1>2 DEF RowsGone

LEMMA AcceptingTyped ==
    ASSUME FriendTypes, NEW p \in Directed, NEW how \in {"no", "open", "raced"}, Accepting(p, how)
    PROVE  accepting' \in [Directed -> {"no", "open", "raced"}]
  BY DEF Accepting, FriendTypes

LEMMA RequestingTypes ==
    ASSUME FriendTypes, NEW p \in Directed,
           \/ CreateFriendRequest(p) \/ InsertFriendRequest(p) \/ AcceptFriendRequest(p)
           \/ AbortAccept(p) \/ Unblock(p) \/ SetMuted(p)
    PROVE  FriendTypes'
  <1>1. CASE CreateFriendRequest(p) \/ InsertFriendRequest(p)
    BY <1>1 DEF CreateFriendRequest, InsertFriendRequest, FriendTypes
  <1>2. CASE AcceptFriendRequest(p) \/ AbortAccept(p)
    BY <1>2, AcceptingTyped DEF AcceptFriendRequest, AbortAccept, FriendTypes
  <1>3. CASE Unblock(p) \/ SetMuted(p)
    BY <1>3 DEF Unblock, SetMuted, FriendTypes
  <1> QED BY <1>1, <1>2, <1>3

LEMMA FriendshipTypes ==
    ASSUME FriendTypes, NEW p \in Directed, CommitAccept(p) \/ DeleteRequest(p) \/ Unfriend(p)
    PROVE  FriendTypes'
  <1>1. blocking' \in [Directed -> BlockRow \cup {None}]
    <2>1. PICK rows, pair : RowsGone(rows, pair)
      BY DEF CommitAccept, DeleteRequest, Unfriend
    <2> QED BY <2>1, RowsGoneTyped
  <1>2. accepting' \in [Directed -> {"no", "open", "raced"}]
    BY AcceptingTyped DEF CommitAccept, DeleteRequest, Unfriend, FriendTypes
  <1>3. PairOf(p) \in Pairs
    BY DEF Pairs
  <1>4. /\ requests' \subseteq Directed /\ friends' \subseteq Pairs /\ raced' \subseteq friends'
        /\ UNCHANGED <<blocks, mutes, creating>>
    BY <1>3 DEF CommitAccept, DeleteRequest, Unfriend, FriendTypes
  <1> QED BY <1>1, <1>2, <1>4 DEF FriendTypes

LEMMA BlockTypes ==
    ASSUME FriendTypes, NEW p \in Directed, Block(p) \/ AbortBlock(p)
    PROVE  FriendTypes'
  <1>1. blocking' \in [Directed -> BlockRow \cup {None}]
    <2>1. ASSUME AbortBlock(p) PROVE blocking' \in [Directed -> BlockRow \cup {None}]
      BY <2>1 DEF AbortBlock, FriendTypes
    <2>2. ASSUME Block(p) PROVE blocking' \in [Directed -> BlockRow \cup {None}]
      <3>1. PICK row : row = [rows |-> {p, Reverse2(p)} \cap requests, friends |-> AreFriends(p)]
        OBVIOUS
      <3>2. {p, Reverse2(p)} \cap requests \in SUBSET Directed /\ AreFriends(p) \in BOOLEAN
        BY DEF FriendTypes, AreFriends
      <3>3. row \in BlockRow
        BY <3>1, <3>2 DEF BlockRow
      <3>4. blocking' = [blocking EXCEPT ![p] = row]
        BY <2>2, <3>1 DEF Block
      <3> QED BY <3>3, <3>4 DEF FriendTypes
    <2> QED BY <2>1, <2>2
  <1>2. UNCHANGED <<requests, friends, blocks, mutes, creating, accepting, raced>>
    BY DEF Block, AbortBlock
  <1> QED BY <1>1, <1>2 DEF FriendTypes

LEMMA CommitBlockTypes ==
    ASSUME FriendTypes, NEW p \in Directed, CommitBlock(p) PROVE FriendTypes'
  <1>1. PICK ended, gone :
            /\ ended = (IF blocking[p].friends THEN {PairOf(p)} ELSE {}) /\ gone = blocking[p].rows
    OBVIOUS
  <1>2. /\ blocks' = blocks \cup {p} /\ requests' = requests \ gone
        /\ mutes' = mutes \ {p, Reverse2(p)}
        /\ friends' = friends \ ended /\ raced' = raced \ ended /\ UNCHANGED creating
    BY <1>1 DEF CommitBlock
  <1>3. accepting' \in [Directed -> {"no", "open", "raced"}]
    BY DEF CommitBlock, FriendTypes
  <1>4. blocking' = [q \in Directed |->
               IF q = p \/ ~Open(q) THEN None ELSE
               [rows |-> blocking[q].rows \ gone,
                friends |-> blocking[q].friends /\ PairOf(q) \notin ended]]
    BY <1>1 DEF CommitBlock
  <1>5. ASSUME NEW q \in Directed, Open(q)
        PROVE [rows |-> blocking[q].rows \ gone,
               friends |-> blocking[q].friends /\ PairOf(q) \notin ended] \in BlockRow
    <2>1. blocking[q] \in BlockRow
      BY <1>5 DEF Open, FriendTypes
    <2>2. /\ blocking[q].rows \ gone \in SUBSET Directed
          /\ (blocking[q].friends /\ PairOf(q) \notin ended) \in BOOLEAN
      BY <2>1 DEF BlockRow
    <2> QED BY <2>2 DEF BlockRow
  <1>6. blocking' \in [Directed -> BlockRow \cup {None}]
    BY <1>4, <1>5
  <1> QED BY <1>2, <1>3, <1>6 DEF FriendTypes

LEMMA SendingTypes ==
    ASSUME MessageTypes, MessageNext PROVE MessageTypes'
  <1>1. ASSUME NEW p \in Directed, SendDM(p) PROVE MessageTypes'
    BY <1>1 DEF SendDM, MessageTypes
  <1>2. ASSUME NEW p \in Directed, InsertMessage(p) PROVE MessageTypes'
    <2>1. messages' \in [Directed -> 0..MaxMessages]
      <3>1. messages[p] < MaxMessages => messages[p] + 1 \in 0..MaxMessages
        BY SocialAssumption DEF MessageTypes
      <3> QED BY <1>2, <3>1 DEF InsertMessage, MessageTypes
    <2> QED BY <1>2, <2>1 DEF InsertMessage, MessageTypes
  <1>3. ASSUME NEW u \in Users, UpsertReaction(u) \/ DeleteReaction(u) PROVE MessageTypes'
    BY <1>3 DEF UpsertReaction, DeleteReaction, MessageTypes
  <1> QED BY <1>1, <1>2, <1>3 DEF MessageNext

LEMMA RedemptionSet ==
    ASSUME ReferralTypes, NEW r \in Redemptions, redemption[r] # None, NEW to \in RedeemSteps,
           RedeemStep(r, to)
    PROVE  redemption' \in [Redemptions -> RedemptionRow \cup {None}]
  <1> DEFINE row == [redemption[r] EXCEPT !.at = to]
  <1>1. redemption[r] \in RedemptionRow
    BY DEF ReferralTypes
  <1>2. row \in RedemptionRow
    BY <1>1 DEF RedemptionRow
  <1>3. redemption' = [redemption EXCEPT ![r] = row]
    BY DEF RedeemStep
  <1> HIDE DEF row
  <1> QED BY <1>2, <1>3 DEF ReferralTypes

LEMMA RedeemingTypes ==
    ASSUME ReferralTypes, ReferralNext PROVE ReferralTypes'
  <1>1. ASSUME NEW r \in Redemptions, NEW referee \in Users, NEW referrer \in Users,
               NEW d \in Devices, Redeem(r, referee, referrer, d)
        PROVE ReferralTypes'
    <2>1. PICK twins, same :
             /\ twins = {q \in Redemptions : Stage(q, "checked") \/ Stage(q, "inserted")}
             /\ same = IsSameDevice(referrer, d)
      OBVIOUS
    <2>2. twins \in SUBSET Redemptions /\ same \in BOOLEAN
      BY <2>1 DEF IsSameDevice
    <2>3. PICK row : row = [at |-> "checked", referee |-> referee, referrer |-> referrer,
                            device |-> d, suspicious |-> same, twins |-> twins]
      OBVIOUS
    <2>4. row \in RedemptionRow
      BY <2>2, <2>3 DEF RedemptionRow, RedeemSteps
    <2>5. redemption' = [redemption EXCEPT ![r] = row] /\ UNCHANGED <<device, paid>>
      BY <1>1, <2>1, <2>3 DEF Redeem
    <2> QED BY <2>4, <2>5 DEF ReferralTypes
  <1>2. ASSUME NEW r \in Redemptions, InsertRedemption(r) \/ AbortRedemption(r) PROVE ReferralTypes'
    <2>1. PICK to \in {"failed", "inserted"} : RedeemStep(r, to)
      BY <1>2 DEF InsertRedemption, AbortRedemption
    <2>2. redemption[r] # None /\ UNCHANGED <<device, paid>>
      BY <1>2 DEF InsertRedemption, AbortRedemption, Stage
    <2>3. redemption' \in [Redemptions -> RedemptionRow \cup {None}]
      BY <2>1, <2>2, RedemptionSet DEF RedeemSteps
    <2> QED BY <2>2, <2>3 DEF ReferralTypes
  <1>3. ASSUME NEW r \in Redemptions, CommitRedemption(r) PROVE ReferralTypes'
    <2>1. PICK to \in {"flagged", "granted"} : RedeemStep(r, to)
      BY <1>3 DEF CommitRedemption
    <2>2. redemption[r] # None
      BY <1>3 DEF CommitRedemption, Stage
    <2>3. redemption' \in [Redemptions -> RedemptionRow \cup {None}]
      BY <2>1, <2>2, RedemptionSet DEF RedeemSteps
    <2>4. PICK row \in RedemptionRow : row = redemption[r]
      BY <2>2 DEF ReferralTypes
    <2>5. row.referee \in Users /\ row.referrer \in Users /\ row.device \in Devices
      BY <2>4 DEF RedemptionRow
    <2>6. device' = [device EXCEPT ![row.referee] = @ \cup {row.device}]
      BY <1>3, <2>4 DEF CommitRedemption
    <2>7. device' \in [Users -> SUBSET Devices]
      BY <2>5, <2>6 DEF ReferralTypes
    <2>8. \/ UNCHANGED paid
          \/ paid' = [paid EXCEPT ![row.referrer] = @ + 1, ![row.referee] = @ + 1]
      BY <1>3, <2>4 DEF CommitRedemption
    <2>9. paid' \in [Users -> Nat]
      BY <2>5, <2>8 DEF ReferralTypes
    <2> QED BY <2>3, <2>7, <2>9 DEF ReferralTypes
  <1> QED BY <1>1, <1>2, <1>3 DEF ReferralNext

LEMMA DeleteSocialTypes ==
    ASSUME SocialTypes, NEW u, DeleteSocialOf(u) PROVE SocialTypes'
  <1>1. FriendTypes'
    BY DEF DeleteSocialOf, SocialTypes, FriendTypes
  <1>2. MessageTypes'
    <2>1. 0 \in 0..MaxMessages
      BY SocialAssumption
    <2>2. messages' \in [Directed -> 0..MaxMessages]
      BY <2>1 DEF DeleteSocialOf, SocialTypes, MessageTypes
    <2> QED BY <2>2 DEF DeleteSocialOf, SocialTypes, MessageTypes
  <1>3. ReferralTypes'
    <2>1. device' \in [Users -> SUBSET Devices] /\ paid' \in [Users -> Nat]
      BY DEF DeleteSocialOf, SocialTypes, ReferralTypes
    <2>2. ASSUME NEW row \in RedemptionRow PROVE [row EXCEPT !.at = "erased"] \in RedemptionRow
      BY DEF RedemptionRow, RedeemSteps
    <2>3. redemption' = [r \in Redemptions |->
             IF r \in Redeemed /\ u \in {redemption[r].referee, redemption[r].referrer}
             THEN [redemption[r] EXCEPT !.at = "erased"] ELSE redemption[r]]
      BY DEF DeleteSocialOf
    <2>4. ASSUME NEW r \in Redemptions PROVE redemption'[r] \in RedemptionRow \cup {None}
      <3>1. redemption[r] \in RedemptionRow \cup {None}
        BY DEF SocialTypes, ReferralTypes
      <3>2. r \in Redeemed => redemption[r] # None
        BY DEF Redeemed, Stage
      <3>3. r \in Redeemed => [redemption[r] EXCEPT !.at = "erased"] \in RedemptionRow
        BY <2>2, <3>1, <3>2
      <3> QED BY <2>3, <3>1, <3>3
    <2>5. redemption' = [r \in Redemptions |-> redemption'[r]]
      BY <2>3
    <2> QED BY <2>1, <2>4, <2>5 DEF ReferralTypes
  <1> QED BY <1>1, <1>2, <1>3 DEF SocialTypes

LEMMA SocialSame == SocialTypes /\ UNCHANGED socialVars => SocialTypes'
  BY FriendsSame, MessagesSame, ReferralsSame DEF SocialTypes, socialVars

LEMMA FriendingTypes ==
    ASSUME FriendTypes, FriendNext PROVE FriendTypes'
  <1>1. PICK p \in Directed :
        \/ CreateFriendRequest(p) \/ InsertFriendRequest(p) \/ AcceptFriendRequest(p)
        \/ CommitAccept(p) \/ AbortAccept(p) \/ DeleteRequest(p) \/ Unfriend(p)
        \/ Block(p) \/ CommitBlock(p) \/ AbortBlock(p) \/ Unblock(p) \/ SetMuted(p)
    BY DEF FriendNext
  <1> QED BY <1>1, RequestingTypes, FriendshipTypes, BlockTypes, CommitBlockTypes

-----------------------------------------------------------------------------
AccountsTypes == SignInTypes /\ ErasureTypes /\ ModerationTypes /\ SocialTypes

LEMMA AccountsTypesAre == AccountsTypes => AccountsTypeOK
  BY SignInTypesAre, ErasureTypesAre, ModerationTypesAre, SocialTypesAre
  DEF AccountsTypes, AccountsTypeOK

LEMMA AccountsTypesStart ==
    ASSUME NEW start, AccountsInit(start), start.phone \in [Users -> Phones \cup {None}],
           start.opened \in [Calls -> Users \cup {None}]
    PROVE  AccountsTypes
  BY SignInTypesStart, ErasureTypesStart, ModerationTypesStart, SocialTypesStart
  DEF AccountsInit, AccountsTypes

LEMMA AccountsTypesStep ==
    ASSUME AccountsTypes, EraseInv, AccountsNext \/ UNCHANGED accountsVars PROVE AccountsTypes'
  <1>0. SignInTypes /\ ErasureTypes /\ ModerationTypes /\ SocialTypes
    BY DEF AccountsTypes
  <1>1. UNCHANGED erasureVars => ErasureTypes'
    BY <1>0, JobsSame, WorkersSame, KeptSame, ConsentSame DEF ErasureTypes, erasureVars, jobVars
  <1>2. ASSUME CodeNext \/ AccountNext \/ SessionNext,
               UNCHANGED <<erasureVars, moderationVars, socialVars>>
        PROVE AccountsTypes'
    BY <1>0, <1>1, <1>2, CodeTypes, AccountTypes, SessionTypes, ModerationSame, SocialSame
       DEF AccountsTypes
  <1>3. ASSUME ConsentNext, UNCHANGED <<moderationVars, socialVars>> PROVE AccountsTypes'
    BY <1>0, <1>3, ConsentTypes, ModerationSame, SocialSame DEF AccountsTypes
  <1>4. ASSUME ErasureStep PROVE AccountsTypes'
    <2>1. ModerationTypes' /\ SocialTypes'
      <3>1. ASSUME NEW w \in Workers, EraseRows(w) PROVE ModerationTypes' /\ SocialTypes'
        <4>1. PICK u : u = WorkerUser(w)
          OBVIOUS
        <4>2. DeleteItemsOf(u) /\ DeleteSocialOf(u)
          BY <3>1, <4>1 DEF EraseRows
        <4> QED BY <1>0, <4>2, DeleteItemsTypes, DeleteSocialTypes
      <3>2. ASSUME UNCHANGED <<moderationVars, socialVars>> PROVE ModerationTypes' /\ SocialTypes'
        BY <1>0, <3>2, ModerationSame, SocialSame
      <3> QED BY <1>4, <3>1, <3>2 DEF ErasureStep, EraseUser
    <2> QED BY <1>0, <1>4, <2>1, ErasingTypes DEF AccountsTypes
  <1>5. ASSUME QueueNext \/ StatusNext, UNCHANGED <<erasureVars, socialVars>> PROVE AccountsTypes'
    BY <1>0, <1>1, <1>5, ModeratingTypes, SocialSame DEF AccountsTypes
  <1>6. ASSUME UNCHANGED <<signInVars, erasureVars, moderationVars>>, SocialTypes'
        PROVE AccountsTypes'
    BY <1>0, <1>1, <1>6, SignInSame, ModerationSame DEF AccountsTypes
  <1>7. ASSUME FriendNext, UNCHANGED <<messageVars, referralVars>> PROVE SocialTypes'
    BY <1>0, <1>7, FriendingTypes, MessagesSame, ReferralsSame DEF SocialTypes
  <1>8. ASSUME MessageNext, UNCHANGED <<friendVars, referralVars>> PROVE SocialTypes'
    BY <1>0, <1>8, SendingTypes, FriendsSame, ReferralsSame DEF SocialTypes
  <1>9. ASSUME ReferralNext, UNCHANGED <<friendVars, messageVars>> PROVE SocialTypes'
    BY <1>0, <1>9, RedeemingTypes, FriendsSame, MessagesSame DEF SocialTypes
  <1>10. CASE UNCHANGED accountsVars
    BY <1>0, <1>6, <1>10, SocialSame DEF accountsVars
  <1> QED BY <1>2, <1>3, <1>4, <1>5, <1>6, <1>7, <1>8, <1>9, <1>10 DEF AccountsNext
=============================================================================
