---------------------------- MODULE CityContest -----------------------------
(***************************************************************************)
(* What the game promises about supporting cities, with no requests, locks  *)
(* or transactions: a user pays credits it has, its tribe's score on the    *)
(* city grows by at least as much in the same instant, and the city belongs *)
(* to the tribe with the highest score (the lower tribe id on a tie).       *)
(* SupportSpend implements this specification.                              *)
(***************************************************************************)
EXTENDS Integers

CONSTANTS Users, Tribes, Cities, NoTribe

VARIABLES
    balance,    \* credits of each user
    scores,     \* scores[t][c]
    holder      \* the tribe a city belongs to

contestVars == <<balance, scores, holder>>

ContestInit ==
    /\ balance = [u \in Users |-> 0]
    /\ scores = [t \in Tribes |-> [c \in Cities |-> 0]]
    /\ holder = [c \in Cities |-> NoTribe]

Holds(sc, c, t) ==
    /\ sc[t][c] > 0
    /\ \A o \in Tribes : sc[o][c] <= sc[t][c] /\ (sc[o][c] = sc[t][c] => t <= o)

Receive(u, n) ==
    /\ balance' = [balance EXCEPT ![u] = @ + n]
    /\ UNCHANGED <<scores, holder>>

Support(u, t, c, n, gained) ==
    /\ n <= balance[u]
    /\ n <= gained
    /\ balance' = [balance EXCEPT ![u] = @ - n]
    /\ scores' = [scores EXCEPT ![t][c] = @ + gained]
    /\ \E h \in Tribes :
          /\ Holds(scores', c, h)
          /\ holder' = [holder EXCEPT ![c] = h]

(* The amounts are read off the step, so that the specification can be       *)
(* evaluated without enumerating all numbers.                                *)
ContestNext ==
    \/ \E u \in Users :
          balance'[u] > balance[u] /\ Receive(u, balance'[u] - balance[u])
    \/ \E u \in Users, t \in Tribes, c \in Cities :
          /\ balance'[u] < balance[u]
          /\ Support(u, t, c, balance[u] - balance'[u], scores'[t][c] - scores[t][c])

ContestSpec == ContestInit /\ [][ContestNext]_contestVars
=============================================================================
