---------------------------- MODULE MCOperations ----------------------------
(* Operations on two DTUs.  The second one gets a child device, before or    *)
(* after it registers, by an operation.                                      *)
EXTENDS Operations

CONSTANT c1

Children == {c1}
OwnerOf == [c \in Child |-> 2]
=============================================================================
