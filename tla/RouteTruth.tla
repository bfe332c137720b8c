----------------------------- MODULE RouteTruth -----------------------------
(***************************************************************************)
(* What the Remote Node Fabric promises of a routed operation, without     *)
(* nodes, generations, journals or messages (remote-node-fabric.md, "One   *)
(* route truth"): the target's application runs at most once, and the one  *)
(* verdict the FabricStore gives agrees with what the application did.  A  *)
(* verdict of rejection on an operation the target has not begun closes it *)
(* for good: the application never runs afterwards.                        *)
(***************************************************************************)
CONSTANT Op     \* routed operations

VARIABLES
    effect,     \* per operation: what the target's application did
    verdict     \* per operation: what the FabricStore says of it

vars == <<effect, verdict>>

Effect  == {"None", "Applied", "NotApplied", "Unknown"}
Verdict == {"None", "OperationApplied", "OperationRejected", "RecoveryRequired"}

\* EffectCertainty to ReceiptKind.
VerdictOf(e) ==
    CASE e = "Applied" -> "OperationApplied"
      [] e = "NotApplied" -> "OperationRejected"
      [] e = "Unknown" -> "RecoveryRequired"
      [] OTHER -> "None"

Init ==
    /\ effect = [o \in Op |-> "None"]
    /\ verdict = [o \in Op |-> "None"]

\* The application runs, before any verdict.
Run(o) ==
    /\ effect[o] = "None" /\ verdict[o] = "None"
    /\ \E e \in Effect \ {"None"} : effect' = [effect EXCEPT ![o] = e]
    /\ UNCHANGED verdict

\* The target's result becomes the operation's truth.
Conclude(o) ==
    /\ effect[o] # "None" /\ verdict[o] = "None"
    /\ verdict' = [verdict EXCEPT ![o] = VerdictOf(effect[o])]
    /\ UNCHANGED effect

\* Operations are closed that will never run: expired on their way.
Expire(S) ==
    /\ \A o \in S : effect[o] = "None" /\ verdict[o] = "None"
    /\ verdict' = [o \in Op |-> IF o \in S THEN "OperationRejected" ELSE verdict[o]]
    /\ UNCHANGED effect

Next ==
    \/ \E o \in Op : Run(o) \/ Conclude(o)
    \/ \E S \in SUBSET Op : Expire(S)

Spec == Init /\ [][Next]_vars

=============================================================================
