------------------------------ MODULE Accounts ------------------------------
(***************************************************************************)
(* The life of an account: sign-in, moderation, relations and erasure over     *)
(* the same users and sessions.                                              *)
(*                                                                         *)
(* A start names the components that act, and the accounts that exist at its   *)
(* beginning.  A component that does not act stays where it is, as it may in    *)
(* the program; what acts together is what shares state: erasure deletes the   *)
(* rows and sessions of all others, and anonymizes the row a moderator locks.  *)
(***************************************************************************)
EXTENDS Erasure, Moderation, Social

AccountComponents ==
    {"codes", "accounts", "sessions", "erasure", "second_request", "consent", "queue", "status",
     "friends", "messages", "referrals"}

VARIABLE acts   \* the components that act in this behaviour

accountsVars == <<signInVars, erasureVars, moderationVars, socialVars, acts>>

AccountsTypeOK ==
    /\ SignInTypeOK /\ ErasureTypeOK /\ ModerationTypeOK /\ SocialTypeOK

AccountsInit(start) ==
    /\ acts = start.acts /\ SignInInit(start.phone, start.opened)
    /\ ErasureInit /\ ModerationInit /\ SocialInit

-----------------------------------------------------------------------------
(* The cascade deletes the rows of the other components too.                  *)
EraseRows(w) ==
    /\ DeletePostgresCascade(w)
    /\ DeleteItemsOf(WorkerUser(w))
    /\ DeleteSocialOf(WorkerUser(w))

(* UPDATE users waits for a moderator's lock on the row.                      *)
EraseUser(w) ==
    /\ AnonymizeUser(w)
    /\ RowFree(WorkerUser(w))
    /\ UNCHANGED <<moderationVars, socialVars>>

ErasureStep ==
    \/ \E j \in Jobs, u \in Users :
          /\ j = 1 \/ "second_request" \in acts
          /\ Request(j, u) /\ UNCHANGED <<moderationVars, socialVars>>
    \/ \E w \in Workers :
         \/ EraseRows(w) \/ EraseUser(w)
         \/ /\ \/ ClaimNext(w) \/ StartRedisCleanup(w) \/ FinishRedisCleanup(w)
               \/ RunOtherStep(w) \/ FailStep(w) \/ MarkStepDone(w)
               \/ MarkCompleted(w) \/ Crash(w)
            /\ UNCHANGED <<moderationVars, socialVars>>

AccountsNext ==
    /\ \/ /\ \/ "codes" \in acts /\ CodeNext
             \/ "accounts" \in acts /\ AccountNext
             \/ "sessions" \in acts /\ SessionNext
          /\ UNCHANGED <<erasureVars, moderationVars, socialVars>>
       \/ "consent" \in acts /\ ConsentNext /\ UNCHANGED <<moderationVars, socialVars>>
       \/ "erasure" \in acts /\ ErasureStep
       \/ /\ \/ "queue" \in acts /\ QueueNext
             \/ "status" \in acts /\ StatusNext
          /\ UNCHANGED <<erasureVars, socialVars>>
       \/ /\ \/ /\ "friends" \in acts /\ FriendNext
                /\ UNCHANGED <<messageVars, referralVars>>
             \/ /\ "messages" \in acts /\ MessageNext
                /\ UNCHANGED <<friendVars, referralVars>>
             \/ /\ "referrals" \in acts /\ ReferralNext
                /\ UNCHANGED <<friendVars, messageVars>>
          /\ UNCHANGED <<signInVars, erasureVars, moderationVars>>
    /\ UNCHANGED acts
=============================================================================
