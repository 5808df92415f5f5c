----------------------------- MODULE MCHeyOOCSI -----------------------------
(* Three devices: two announcements of the same name, and another one that is *)
(* as near as the second and also further away.                               *)
EXTENDS HeyOOCSI, TLC

CONSTANTS d1, d2, d3, lamp, fan, lampId, fanId, home, work

Near == [label |-> home, far |-> 1]
Middle == [label |-> home, far |-> 2]
Further == [label |-> work, far |-> 2]
OutOfRange == [label |-> work, far |-> 3]

MCKeyOf == d1 :> lamp @@ d2 :> lamp @@ d3 :> fan
MCIdOf == d1 :> lampId @@ d2 :> lampId @@ d3 :> fanId
MCPlacesOf == d1 :> {Near, OutOfRange} @@ d2 :> {Middle} @@ d3 :> {Near, Further}

MCLimits == {-1, 1, 100}

Symmetry == Permutations(Threads)
=============================================================================
