------------------------------ MODULE MCFabric ------------------------------
(* A model of Fabric for TLC: a source and a target, operations of one     *)
(* ordering key, the first ones submitted by the source and the others     *)
(* issued by the Control Plane itself.                                     *)
EXTENDS Fabric

CONSTANTS a, b,         \* the source and the target
          NodeOps       \* how many operations the source submits

OpSource == [o \in 1..NumOps |-> IF o <= NodeOps THEN a ELSE ControlPlane]
OpTarget == [o \in 1..NumOps |-> b]
OpKey    == [o \in 1..NumOps |-> "key"]

=============================================================================
