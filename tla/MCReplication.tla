---------------------------- MODULE MCReplication ----------------------------
(***************************************************************************)
(* Instances of Replication.                                               *)
(***************************************************************************)
EXTENDS Replication, TLC

CONSTANTS p1, b1, b2, cx1, cx2

OnlyB == <<b1>>
BothReplicas == <<b1, b2>>

ThreeCommands == <<cx1, cx2, cx1>>
TwoCommands == <<cx1, cx2>>

\* Two contexts, of one equipment each, in one chain of the tables.
OwnMeid == cx1 :> cx1 @@ cx2 :> cx2
OneBucket == cx1 :> 0 @@ cx2 :> 0

\* Two contexts of one equipment.
SharedMeid == cx1 :> cx1 @@ cx2 :> cx1
=============================================================================
