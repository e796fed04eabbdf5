-------------------------------- MODULE Game --------------------------------
(***************************************************************************)
(* The game back end outside the support transaction: the account modules, the  *)
(* calls behind a committed support with what they act on, the tribes and the    *)
(* store, in one state.                                                      *)
(*                                                                         *)
(* A start names the components that act in a behaviour, and the calls of a      *)
(* support's request that have an effect.  What does not act stays where it is,   *)
(* as it may in the program; starts bring together what shares state.          *)
(***************************************************************************)
EXTENDS Accounts, ControlCache, ConquestInbox, Progression, Boards, Alerts, Realtime,
        TribeLife

CONSTANTS
    Starts,         \* records [acts, effects, asked, phone, opened, home,
                    \* sockets]
    Keys, Txns, PackOf, Buys, Percents, Tiers, Reward, XPRequired, MaxXP, Claims, TierKey,
    Nobody          \* of Store

VARIABLES balance, ledger, iap, invoices, buy, promo, points, enrolled, claims, cosmetics,
          claim, denied

Shop == INSTANCE Store

effectVars == <<cacheVars, progressVars, boardVars, alertVars, liveVars>>
shopVars == <<balance, ledger, iap, invoices, buy, promo, points, enrolled, claims, cosmetics,
              claim, denied>>
otherVars == <<inboxVars, tribeVars, shopVars>>
gameVars == <<accountsVars, pipelineVars, effectVars, otherVars>>

Components == AccountComponents \cup
    {"readers", "stats", "season", "rank", "push", "hub", "inbox", "membership", "edits",
     "boots", "anonymize", "chat", "presence", "purchases", "pass"}

ASSUME GameAssumption ==
    Starts \subseteq [acts : SUBSET Components, effects : SUBSET Calls_,
                      asked : SUBSET Supports,
                      phone : [Users -> Phones \cup {None}],
                      opened : [Calls -> Users \cup {None}],
                      home : [Members -> Clubs \cup {NoClub}], sockets : SUBSET Clients]

ASSUME ShopAssumption == Shop!StoreAssumption

GameTypeOK ==
    /\ AccountsTypeOK /\ PipelineTypeOK /\ CacheTypeOK /\ ProgressTypeOK /\ BoardsTypeOK
    /\ AlertsTypeOK /\ RealtimeTypeOK /\ InboxTypeOK /\ TribeTypeOK /\ Shop!StoreTypeOK
    /\ acts \subseteq Components

GameInit ==
    /\ \E start \in Starts : /\ AccountsInit(start) /\ TribeInit(start.home)
                             /\ RealtimeInit(start.sockets)
                             /\ PipelineInit(start.effects, start.asked)
    /\ CacheInit /\ ProgressInit /\ BoardsInit /\ AlertsInit
    /\ InboxInit /\ Shop!StoreInit

-----------------------------------------------------------------------------
Acts(component) == component \in acts

(* A support's request, and what its calls do.                                *)
SupportsNext ==
    \/ RequestNext /\ UNCHANGED effectVars
    \/ InvalidateNext /\ UNCHANGED <<progressVars, boardVars, alertVars, liveVars>>
    \/ ProgressNext /\ UNCHANGED <<cacheVars, boardVars, alertVars, liveVars>>
    \/ PostBoards /\ UNCHANGED <<cacheVars, progressVars, alertVars, liveVars>>
    \/ DetectNext /\ UNCHANGED <<cacheVars, progressVars, boardVars, liveVars>>
    \/ PublishNext /\ UNCHANGED <<cacheVars, progressVars, boardVars, alertVars>>

(* Those on the other side: readers, the season worker, push workers, the hub.    *)
ServersNext ==
    \/ /\ \/ Acts("readers") /\ ControlReads
          \/ Acts("stats") /\ MomentumReads
       /\ UNCHANGED <<pipelineVars, progressVars, boardVars, alertVars, liveVars>>
    \/ /\ \/ Acts("season") /\ ArchiveNext
          \/ Acts("rank") /\ RankNext
       /\ UNCHANGED <<cacheVars, progressVars, alertVars, liveVars>>
    \/ /\ Acts("push") /\ PushNext
       /\ UNCHANGED <<cacheVars, progressVars, boardVars, liveVars>>
    \/ /\ Acts("hub") /\ HubNext
       /\ UNCHANGED <<pipelineVars, cacheVars, progressVars, boardVars, alertVars>>

TribesNext ==
    \/ /\ \/ Acts("membership") /\ MembershipNext
          \/ Acts("edits") /\ EditNext
          \/ Acts("boots") /\ BootNext
          \/ Acts("anonymize") /\ AnonymizeNext
       /\ UNCHANGED <<post, presenceVars, liveVars>>
    \/ Acts("chat") /\ ChatNext /\ UNCHANGED <<membershipVars, presenceVars, liveVars>>
    \/ /\ Acts("chat") /\ BroadcastNext /\ Publish("room", NoFan)
       /\ UNCHANGED <<membershipVars, presenceVars>>
    \/ Acts("presence") /\ PresenceNext /\ UNCHANGED <<membershipVars, post, liveVars>>

GameNext ==
    \/ AccountsNext /\ UNCHANGED <<pipelineVars, effectVars, otherVars>>
    \/ (SupportsNext \/ ServersNext) /\ UNCHANGED <<accountsVars, otherVars>>
    \/ /\ TribesNext
       /\ UNCHANGED <<accountsVars, pipelineVars, cacheVars, progressVars, boardVars, alertVars,
                      inboxVars, shopVars>>
    \/ /\ Acts("inbox") /\ InboxNext
       /\ UNCHANGED <<accountsVars, pipelineVars, effectVars, tribeVars, shopVars>>
    \/ /\ \/ Acts("purchases") /\ Shop!BuyNext
          \/ Acts("pass") /\ Shop!PassNext
       /\ UNCHANGED <<accountsVars, pipelineVars, effectVars, inboxVars, tribeVars>>

GameSpec == GameInit /\ [][GameNext]_gameVars

-----------------------------------------------------------------------------
(* Of the store: every purchase and every tier pays its one user once.           *)
StoreGrantsOnce == Shop!StoreGrantsOnce
=============================================================================
