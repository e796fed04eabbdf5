------------------------------ MODULE MCDerby ------------------------------
(* Two overlapping derbies of one city that share a tribe, and supports of    *)
(* two of the three tribes.                                                  *)
EXTENDS Derby, TLC

CONSTANTS kadikoy, d1, d2, besiktas, fener, galata, s1, s2

MCCity == [d \in Derbies |-> kadikoy]
MCHost == [d \in Derbies |-> IF d = d1 THEN besiktas ELSE fener]
MCGuest == [d \in Derbies |-> IF d = d1 THEN fener ELSE galata]
MCStartsAt == [d \in Derbies |-> IF d = d1 THEN 0 ELSE 1]
MCEndsAt == [d \in Derbies |-> IF d = d1 THEN 1 ELSE 2]
MCSupportCity == [s \in Supports |-> kadikoy]
MCSupportTribe == [s \in Supports |-> IF s = s1 THEN fener ELSE besiktas]
InstanceSymmetry == Permutations(Instances)
=============================================================================
