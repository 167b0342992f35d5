--------------------------- MODULE MCTensorStore ---------------------------
(* Two fixtures that share the commander c2.  Build 2 changes code only, so   *)
(* that a rule stops firing for c2 under the same hash; build 3 flips the     *)
(* hash.  With Batch = 2 a repin flushes in the middle and has a remainder.   *)
EXTENDS TensorStore, TLC

CONSTANTS c1, c2, c3, f1, f2, r, s, p, q

MCList   == f1 :> <<c1, c2>> @@ f2 :> <<c2, c3>>
MCHashOf == [b \in Builds |-> IF b = 3 THEN 2 ELSE 1]
MCFires  == [b \in Builds |->
               [c \in Commanders |-> CASE b = 1 -> {r, s}
                                       [] b = 2 -> IF c = c2 THEN {r} ELSE {r, s}
                                       [] b = 3 -> IF c = c3 THEN {} ELSE {s}]]

\* One commander drops out of the EDHREC data.
MCCoverages == {{c1, c3}}
=============================================================================
