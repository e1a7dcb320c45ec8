------------------------------- MODULE Values -------------------------------
(* The numbers in requests and answers: Modbus, which builds requests; the   *)
(* shifts and sums by which ModbusP takes a value out of an answer; bat and  *)
(* HexToFloat.                                                               *)
(*                                                                           *)
(* A byte is the set of its one-bits, a subset of 0..7, and an int that of   *)
(* its 32.  A number is a sign and the powers of two that it is the sum of,  *)
(* so that no width is beyond TLC's integers.                                *)
EXTENDS Integers, Sequences, FiniteSets

Shift(b, n) == {i + n : i \in b}
Cut(b, w) == b \cap 0..(w - 1)

(* >> of an int, which keeps the sign.                                       *)
ShiftRight(b, n) == {i - n : i \in b \cap n..31}
                      \cup IF 31 \in b THEN (32 - n)..31 ELSE {}

(* ~b + 1: the lowest one-bit stays, those above it are inverted.            *)
Negate(b) ==
    IF b = {} THEN {}
    ELSE LET low == CHOOSE i \in b : \A j \in b : i <= j
         IN {low} \cup {i \in (low + 1)..31 : i \notin b}

Number(b) == [neg |-> 31 \in b, powers |-> IF 31 \in b THEN Negate(b) ELSE b]

(* The int that a register of w bits, read as a signed number, stands for.   *)
SignExtended(b, w) == IF w - 1 \in b THEN b \cup w..31 ELSE b

-----------------------------------------------------------------------------
(* The field of nb bits from bit sb on.                                      *)
Bat(d, sb, nb, sign) ==
    LET field == ShiftRight(d \cap Cut(Shift(0..(nb - 1), sb), 32), sb)
    IN IF sign /\ nb = 1 THEN field
       ELSE IF sign /\ nb - 1 \in field THEN Negate(Cut(Negate(field), nb))
       ELSE Cut(field, nb)

(* For each byte of an int, least significant first, its place in the        *)
(* register.  A 16-bit register with an order for 32 bits runs into the next *)
(* case of the switch.                                                       *)
Places(bytes, order) ==
    IF bytes \in {2, 4} /\ order = 2 THEN <<3, 2, 1, 0>>
    ELSE IF bytes \in {2, 4} /\ order = 3 THEN <<0, 1, 2, 3>>
    ELSE IF bytes \in {2, 4} /\ order = 4 THEN <<2, 3, 0, 1>>
    ELSE IF bytes \in {2, 4} /\ order = 5 THEN <<1, 0, 3, 2>>
    ELSE IF bytes = 2 THEN IF order = 0 THEN <<1, 0>> ELSE <<0, 1>>
    ELSE <<>>

(* The int in the answer b, a function on 0.., whose register begins at p.   *)
Assembled(b, p, bytes, order) ==
    LET at == Places(bytes, order)
    IN UNION {Shift(b[p + at[k]], 8 * (k - 1)) : k \in 1..Len(at)}

(* Bit i of the answer, counted from the most significant of byte p on.      *)
Getbitu(b, p, i) == 7 - (i % 8) \in b[p + i \div 8]

(* The exponent is 8 bits, the most significant first.                       *)
Exp(b, p) ==
    LET exp[i \in 0..8] ==
          IF i = 0 THEN 0 ELSE 2 * exp[i - 1] + IF Getbitu(b, p, i) THEN 1 ELSE 0
    IN exp[8]

(* 127 is taken off the exponent; then the leading one and 23 bits of        *)
(* decreasing powers.                                                        *)
HexToFloat(b, p) ==
    [neg |-> Getbitu(b, p, 0),
     powers |-> {Exp(b, p) - 127 - k :
                   k \in {0} \cup {j \in 1..23 : Getbitu(b, p, 8 + j)}}]

(* Mutant: the bytes are put together in the order they come in.             *)
BitAt_BigEndian(b, n, j) == (j % 8) \in b[((n - 1) \div 8) - (j \div 8)]

(* Point j of n coils: the bytes, the first the least significant, make a    *)
(* 32-bit number.                                                            *)
BitAt(b, n, j) == (j % 8) \in b[j \div 8]

-----------------------------------------------------------------------------
(* An address has two bytes.                                                 *)
Addresses == 65536

(* The address that a request for number n begins with.                      *)
ReadBat(n) == (n - 1) % Addresses

(* The address of a write and what is written there: a coil is set unless    *)
(* the value is zero, a register gets the low 16 bits.                       *)
WriteCo(n, value) == [addr |-> (n - 1) % Addresses, on |-> value # {}]

(* Mutant: the bytes of the register are swapped.                            *)
WriteHr_Swapped(n, value) ==
    [addr |-> (n - 1) % Addresses,
     word |-> <<value \cap 0..7, {i \in 0..7 : i + 8 \in value}>>]

WriteHr(n, value) ==
    [addr |-> (n - 1) % Addresses,
     word |-> <<{i \in 0..7 : i + 8 \in value}, value \cap 0..7>>]
=============================================================================
