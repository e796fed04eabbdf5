--------------------------- MODULE MCSupportSpend ---------------------------
(***************************************************************************)
(* Instances of SupportSpend for TLC.  Tribe 1 is alice's, tribe 2 bora's.   *)
(***************************************************************************)
EXTENDS SupportSpend, TLC

CONSTANTS alice, bora, istanbul, izmir

MCTribes == {1, 2}
MCInitialTribe == [u \in Users |-> IF u = alice THEN 1 ELSE 2]
MCKeys == Requests \cup GrantKeys

Ask(u, c, n, m) == [user |-> u, city |-> c, credits |-> n, mult |-> m]

(* Three supports of alice draw level with one derby support of bora, so      *)
(* that a city can be taken, held, lost and retaken on a tie; alice may       *)
(* spend in two cities at once; a request for 0 credits is refused.          *)
MCAsks == {Ask(alice, istanbul, 2, 1), Ask(alice, izmir, 2, 1),
           Ask(bora, istanbul, 3, 2), Ask(bora, istanbul, 0, 1)}

(* One user around midnight: the same support in two cities.                 *)
MidnightAsks == {Ask(alice, istanbul, 1, 1), Ask(alice, izmir, 1, 1)}

RequestSymmetry == Permutations(Requests) \cup Permutations(GrantKeys)
=============================================================================
