---------------------- MODULE MCConfiguredCapacityPlan ----------------------
(* Three slots, two machine shapes that are wide in different dimensions. *)
EXTENDS ConfiguredCapacityPlan, TLC

CONSTANTS s1, s2, s3, wide, tall

MCSlotRank == (s1 :> 1) @@ (s2 :> 2) @@ (s3 :> 3)
MCLimit == [cpu |-> 10, mem |-> 9]
MCResources == (wide :> [cpu |-> 2, mem |-> 1]) @@ (tall :> [cpu |-> 1, mem |-> 2])

\* A reserved row and an updating one are refused as donors alike: the rows
\* that are both are left out of the enumeration.
MCInit ==
    /\ slots \in [Slots -> {row \in Rows : row.reserved = 0 \/ ~row.updating}]
    /\ Init

MCSpec == MCInit /\ [][Next]_vars
=============================================================================
