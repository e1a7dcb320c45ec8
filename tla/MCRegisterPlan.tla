--------------------------- MODULE MCRegisterPlan ---------------------------
(* RegisterPlan on every template of up to four points.                      *)
EXTENDS RegisterPlan

Lists(S, n) == UNION {[1..k -> S] : k \in 0..n}

(* Coils of up to four answer bytes, and one more.                           *)
ManyCoils == {[i \in 1..n |-> i] : n \in {8, 9, 17, 32, 33}}

AllCoils == [coils : Lists(0..4, 4) \cup ManyCoils, regs : {<<>>}]

Register(n, b, f, s, o) == [num |-> n, start |-> 0, bits |-> b, float |-> f,
                            sign |-> s, order |-> o]

Registers == {Register(n, 16, FALSE, TRUE, 0) : n \in 1..6}
               \cup {Register(n, 32, FALSE, TRUE, 2) : n \in 1..6}
               \cup {Register(n, 32, TRUE, TRUE, 0) : n \in 1..6}

(* Registers in the order of their numbers.                                  *)
InOrder == {t \in Lists(Registers, 4) :
              \A i \in 1..(Len(t) - 1) : t[i].num < t[i + 1].num}

(* Two registers of every kind, next to each other.                          *)
First == {Register(1, b, f, s, o) : b \in {16, 32}, f \in BOOLEAN,
                                    s \in BOOLEAN, o \in 0..5}
Pairs == {<<e, [d EXCEPT !.num = 1 + Words(e)]>> : e \in First, d \in First}

All == AllCoils \cup [coils : {<<>>}, regs : InOrder \cup Pairs]
=============================================================================
