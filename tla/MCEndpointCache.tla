--------------------------- MODULE MCEndpointCache ---------------------------
(* Instances of EndpointCache for TLC: a service and one that inherits its     *)
(* cached action.                                                              *)
EXTENDS EndpointCache

CONSTANTS Base, Derived, m1, m2, r1, r2, r3, w1, w2

MCParent == [s \in Services |-> IF s = Derived THEN Base ELSE None]
(* Derived keeps the queryset of Base. *)
SameModel == [s \in Services |-> m1]
(* Derived has a queryset of its own. *)
OwnModel == [s \in Services |-> IF s = Derived THEN m2 ELSE m1]

MCServiceOf == [c \in Calls |-> IF c = r3 THEN Base ELSE Derived]
SavesOfOne == [w \in Saves |-> m1]
SavesOfDerived == [w \in Saves |-> m2]
================================================================================
