------------------------- MODULE AtMostOnceMutation -------------------------
(***************************************************************************)
(* What the target-operation journal promises, without runs, versions,     *)
(* sessions or probes: a semantic operation takes effect at most once, it  *)
(* takes effect only while somebody holds it, it is given back only while  *)
(* it has no effect, and it is declared succeeded only after its effect.   *)
(* WarehouseRecovery implements this specification.                        *)
(***************************************************************************)
EXTENDS Naturals

CONSTANT Ops

VARIABLES holder,       \* Ops -> "free", "held" or "succeeded"
          effect        \* Ops -> number of business mutations that took effect

avars == <<holder, effect>>

Init ==
    /\ holder = [o \in Ops |-> "free"]
    /\ effect = [o \in Ops |-> 0]

\* An attempt is allowed to execute the operation.
Hold(o) ==
    /\ holder[o] = "free"
    /\ holder' = [holder EXCEPT ![o] = "held"]
    /\ UNCHANGED effect

\* The mutation takes effect.
Apply(o) ==
    /\ holder[o] = "held" /\ effect[o] = 0
    /\ effect' = [effect EXCEPT ![o] = 1]
    /\ UNCHANGED holder

\* Retry becomes legal: there is no effect, and none can appear before Hold.
Release(o) ==
    /\ holder[o] = "held" /\ effect[o] = 0
    /\ holder' = [holder EXCEPT ![o] = "free"]
    /\ UNCHANGED effect

\* Convergence to the permanent SUCCEEDED decision.
Succeed(o) ==
    /\ holder[o] = "held" /\ effect[o] = 1
    /\ holder' = [holder EXCEPT ![o] = "succeeded"]
    /\ UNCHANGED effect

Next == \E o \in Ops : Hold(o) \/ Apply(o) \/ Release(o) \/ Succeed(o)

Spec == Init /\ [][Next]_avars
=============================================================================
