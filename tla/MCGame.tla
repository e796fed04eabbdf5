------------------------------- MODULE MCGame -------------------------------
(* Two users, two phones, an identity that claims the first phone and an email;
   supports of a city that cross levels of tension and take the city from its
   holder and back. *)
EXTENDS Game, TLC

CONSTANTS ali, bey, p1, p2, google, mail, c1, c2, c3, appeal1, appeal2, flag1, report1, flag2,
          can, client1, client2, s1, s2, s3, s4, s5, low, lead, txn,
          tier1, tier2, tierKey1, tierKey2, fener, gala

MCClaimedPhone == [i \in Identities |-> p1]
MCClaimedEmail == [i \in Identities |-> mail]
MCItemKind == [i \in Items |-> IF i \in {appeal1, appeal2} THEN "appeal"
                               ELSE IF i \in {flag1, flag2} THEN "flag" ELSE "report"]
MCItemUser == [i \in Items |-> ali]

MCSupporter == [s \in Supports |-> IF s \in {s1, s2} THEN ali ELSE IF s = s5 THEN can ELSE bey]
MCSideOf == [s \in Supports |-> IF s = s5 THEN 1 ELSE 2]
MCWorth == [s \in Supports |-> CASE s = s3 -> 17 [] s = s4 -> 7 [] s = s5 -> 4 [] OTHER -> 1]
MCHeld == <<8, 2>>
MCStreakOf == [s \in Supports |-> IF s \in {s1, s2} THEN 2 ELSE 1]
MCTarget == [q \in {"xp", "streak"} |-> 2]
MCEarlier == [u \in Players |-> IF u = ali THEN 1 ELSE 0]
MCKeys_ == <<"global", "tribe_rank">>
MCPercent == [l \in {low, lead} |-> 50]
MCMemberOf == <<ali, bey>>
MCPersonas == [u \in Members |-> IF u = ali THEN fener ELSE NoClub]
MCCityOfRow == <<"istanbul", "izmir", "istanbul">>
MCPackOf == [x \in Txns |-> 100]
MCReward == [t \in Tiers |-> IF t = tier2 THEN 50 ELSE 0]
MCXPRequired == [t \in Tiers |-> IF t = tier2 THEN 2 ELSE 1]
MCTierKey == [t \in Tiers |-> IF t = tier2 THEN tierKey2 ELSE tierKey1]

Nobody_ == [u \in Users |-> None]
OnlyAli == [u \in Users |-> IF u = ali THEN p1 ELSE None]
Both == [u \in Users |-> IF u = ali THEN p1 ELSE p2]
NoSession == [c \in Calls |-> None]
AliIn == [c \in Calls |-> IF c = c1 THEN ali ELSE None]
AllUsed == [c \in Calls |-> IF c = c1 THEN ali ELSE bey]

Start(components, phones, sessions) ==
    [acts |-> components, effects |-> {}, asked |-> {}, phone |-> phones, opened |-> sessions,
     home |-> [u \in Members |-> NoClub], sockets |-> {}]
Among(components) == Start(components, Both, AllUsed)
In(club, components) ==
    [Among(components) EXCEPT !.sockets = Clients,
                              !.home = [u \in Members |-> IF u = ali THEN club ELSE NoClub]]
Told(supports, calls, clients) ==
    [Among({"hub"}) EXCEPT !.effects = calls, !.asked = supports, !.sockets = clients]
After(supports, calls, components) ==
    [Among(components) EXCEPT !.effects = calls, !.asked = supports]

AccountStarts ==
    {Start({"codes", "accounts", "sessions"}, Nobody_, NoSession),
     Start({"codes", "accounts", "sessions"}, OnlyAli, NoSession),
     Start({"sessions", "erasure"}, OnlyAli, AliIn),
     Start({"erasure", "status"}, OnlyAli, AllUsed),
     Start({"erasure", "second_request"}, OnlyAli, AllUsed),
     Among({"queue", "status"}), Among({"consent"}), Among({"friends"}),
     Among({"messages"}), Among({"referrals"})}
EffectStarts ==
    {After({s1, s3}, {"control"}, {"readers"}),
     After({s3}, {"control", "momentum"}, {"readers", "stats"}),
     Told({s5}, {"support_event", "feed"}, Clients),
     Told({s4, s5}, {"flip_event"}, {client1}),
     Told({s4}, {"support_event", "flip_event", "feed"}, {client1}),
     After({s1, s3}, {"boards"}, {"season"}), After({s1}, {"boards"}, {"season", "rank"}),
     After({s1, s5}, {"boards"}, {"rank"}),
     After({s1, s2}, {"xp", "streak"}, {}), After({s3, s4}, {"xp", "streak", "first"}, {}),
     After({s1, s2}, {"threats", "lead"}, {}), After({s1, s2, s3, s5}, {"threats"}, {}),
     After({s1, s2}, {"threats"}, {"push"}), After({s1, s2}, {"lead"}, {"push"}),
     After({s4}, Calls_, {})}
OtherStarts ==
    {Among({"inbox"}), Among({"membership", "edits"}), Among({"edits", "boots"}),
     Among({"membership", "boots", "anonymize"}), In(gala, {"boots", "anonymize", "presence"}),
     Among({"membership", "chat"}), In(fener, {"chat", "hub"}),
     Among({"purchases"}), Among({"pass"})}
MCStarts == AccountStarts \cup EffectStarts \cup OtherStarts
=============================================================================
