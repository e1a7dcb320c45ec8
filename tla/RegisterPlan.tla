---------------------------- MODULE RegisterPlan ----------------------------
(* What a DTU's session polls for one device type: MBTYPES, which turns the  *)
(* coils and registers of the platform's template into ranges to read, and   *)
(* ModbusP, which takes the answers apart again.  The template is sent again *)
(* for every device of the type.  Discrete inputs are planned and taken      *)
(* apart as coils are, and input registers planned as holding registers.     *)
EXTENDS Values, Crc

CONSTANTS
    Templates,   \* what the platform may send, see Template
    Limit,       \* the 125 of addRegister
    MaxDevices   \* bound: devices of the type

(* A register of the template: its number, startBits and noBits,             *)
(* _is_float_type, sign and analyticalType.                                  *)
Entry == [num : Nat, start : 0..31, bits : Nat, float : BOOLEAN,
          sign : BOOLEAN, order : 0..5]

Template == [coils : Seq(Nat), regs : Seq(Entry)]

ASSUME PlanAssumption ==
    /\ Templates \subseteq Template
    /\ Limit \in Nat \ {0} /\ MaxDevices \in Nat

VARIABLES
    coils, regs,  \* what the platform sends for the type
    co, hr,       \* _m[type].co and _m[type].hr
    coRanges,     \* TYPENUM[type][co_pos]: first address |-> number of points
    hrRanges,     \* TYPENUM[type][hr_pos]
    devices       \* addDevice calls for the type

vars == <<coils, regs, co, hr, coRanges, hrRanges, devices>>

(* TYPENUM is a map: a function on a finite set of addresses.                *)
IsRanges(r) == DOMAIN r \subseteq Nat /\ \A c \in DOMAIN r : r[c] \in Nat

TypeOK ==
    /\ [coils |-> coils, regs |-> regs] \in Templates
    /\ co \in Seq(Nat) /\ hr \in Seq(Entry)
    /\ IsRanges(coRanges) /\ IsRanges(hrRanges)
    /\ devices \in 0..MaxDevices

NoRanges == [c \in {} |-> 0]

Init ==
    /\ \E t \in Templates : coils = t.coils /\ regs = t.regs
    /\ co = <<>> /\ hr = <<>>
    /\ coRanges = NoRanges /\ hrRanges = NoRanges
    /\ devices = 0

-----------------------------------------------------------------------------
(* std::map: rbegin and insert, which does not replace.                      *)
Last(r) == CHOOSE c \in DOMAIN r : \A k \in DOMAIN r : k <= c

End(r) == Last(r) + r[Last(r)]

Insert(r, n, len) ==
    [c \in DOMAIN r \cup {n} |-> IF c \in DOMAIN r THEN r[c] ELSE len]

Extend(r, len) == [r EXCEPT ![Last(r)] = @ + len]

Loaded == Len(co) = Len(coils) /\ Len(hr) = Len(regs)

(* Mutant: ranges begin at the address in the request, one below the number. *)
CoilRanges_FromAddress(r, n) ==
    IF DOMAIN r = {} \/ n # End(r) THEN Insert(r, n - 1, 1) ELSE Extend(r, 1)

(* Mutant: a coil extends the last range whatever its number.                *)
CoilRanges_AnyGap(r, n) ==
    IF DOMAIN r = {} THEN Insert(r, n, 1) ELSE Extend(r, 1)

CoilRanges(r, n) ==
    IF DOMAIN r = {} \/ n # End(r) THEN Insert(r, n, 1) ELSE Extend(r, 1)

Words(e) == e.bits \div 16

(* Mutant: a gap of one register does not begin a new range.                 *)
RegisterRanges_Gap(r, e) ==
    IF DOMAIN r = {} \/ r[Last(r)] >= Limit \/ e.num > End(r) + 1
    THEN Insert(r, e.num, Words(e))
    ELSE IF e.num >= End(r) - 1 THEN Extend(r, Words(e))
    ELSE r

(* Mutant: a range that is full is extended all the same.                    *)
RegisterRanges_NoLimit(r, e) ==
    IF DOMAIN r = {} \/ e.num > End(r) THEN Insert(r, e.num, Words(e))
    ELSE IF e.num \in {End(r), End(r) - 1} THEN Extend(r, Words(e))
    ELSE r

(* A full range, or a gap, begins a new one.  A register that begins before  *)
(* the last one of the range is left out.                                    *)
RegisterRanges(r, e) ==
    IF DOMAIN r = {} \/ r[Last(r)] >= Limit \/ e.num > End(r)
    THEN Insert(r, e.num, Words(e))
    ELSE IF e.num \in {End(r), End(r) - 1} THEN Extend(r, Words(e))
    ELSE r

-----------------------------------------------------------------------------
(* addDevice and setmbtype: the lists are emptied.  The ranges are not:      *)
(* addDevice looks for the type among the devices, where it is not found.    *)
AddDevice ==
    /\ Loaded \/ devices = 0
    /\ devices < MaxDevices
    /\ devices' = devices + 1
    /\ co' = <<>> /\ hr' = <<>>
    /\ UNCHANGED <<coils, regs, coRanges, hrRanges>>

AddCoil ==
    /\ devices > 0 /\ Len(co) < Len(coils)
    /\ LET n == coils[Len(co) + 1] IN
       co' = Append(co, n) /\ coRanges' = CoilRanges(coRanges, n)
    /\ UNCHANGED <<coils, regs, hr, hrRanges, devices>>

AddRegister ==
    /\ devices > 0 /\ Len(co) = Len(coils) /\ Len(hr) < Len(regs)
    /\ LET e == regs[Len(hr) + 1] IN
       hr' = Append(hr, e) /\ hrRanges' = RegisterRanges(hrRanges, e)
    /\ UNCHANGED <<coils, regs, co, coRanges, devices>>

Next == AddDevice \/ AddCoil \/ AddRegister

Spec == Init /\ [][Next]_vars

-----------------------------------------------------------------------------
(* ModbusP.  The answer to range c holds r[c] points.                        *)
In(r, c, a) == c \in DOMAIN r /\ a \in c..(c + r[c] - 1)

Points(r) == UNION {c..(c + r[c] - 1) : c \in DOMAIN r}

(* parseCO counts every coil of the template at every point of every range.  *)
CoilsCounted == Cardinality(UNION {
    {<<c, a, i>> : a \in {co[i]} \cap c..(c + coRanges[c] - 1)} :
        c \in DOMAIN coRanges, i \in 1..Len(co)})

(* parseHR takes the first register of the template with the number of the   *)
(* point.                                                                    *)
At(a) == {i \in 1..Len(hr) :
            hr[i].num = a /\ \A j \in 1..(i - 1) : hr[j].num # a}

RegsCounted == Cardinality(UNION {
    {<<c, a>> : a \in {b \in c..(c + hrRanges[c] - 1) : At(b) # {}}} :
        c \in DOMAIN hrRanges})

(* Mutant: the pointer, which counts bytes, moves on by words.               *)
Step_Words(e) == IF e.float THEN 0 ELSE Words(e)

(* The bytes by which the pointer into the answer moves for a register: none *)
(* for a float.                                                              *)
Step(e) == IF e.float THEN 0 ELSE e.bits \div 8

(* Where the pointer is when parseHR comes to address a of range c.          *)
Pointer(c, a) == Cardinality(UNION {
    {<<i, k>> : k \in 1..Step(hr[i])} : i \in UNION {At(b) : b \in c..(a - 1)}})

(* The value of register e in the answer b, when the pointer is at p.        *)
Holding(b, p, e) ==
    IF e.float THEN HexToFloat(b, p)
    ELSE Number(Bat(Assembled(b, p, e.bits \div 8, e.order),
                    e.start, e.bits, e.sign))

(* The same for input registers, where d is 16 bits wide.                    *)
Input(b, p, e) ==
    IF e.float THEN HexToFloat(b, p)
    ELSE Number(Bat(Cut(Assembled(b, p, e.bits \div 8, e.order), 16),
                    e.start, e.bits, e.sign))

-----------------------------------------------------------------------------
(* The ranges whose points have an address: a request names it in two bytes, *)
(* one less than the number.                                                 *)
Addressed(r) == {c \in DOMAIN r : c > 0 /\ c + r[c] - 1 <= Addresses}

(* A template without surprises: coils differ, registers ascend, do not      *)
(* overlap and fill whole words.                                             *)
PlainCoils == \A i, j \in 1..Len(coils) : coils[i] = coils[j] => i = j

PlainRegs ==
    /\ \A i \in 1..Len(regs) : regs[i].bits \in {16, 32}
    /\ \A i, j \in 1..Len(regs) :
         i < j => regs[i].num + Words(regs[i]) <= regs[j].num

(* The ranges of the first device of a type cover its coils, each once and   *)
(* nothing else, in whatever order the template lists them.                  *)
CoilsExact ==
    devices = 1 /\ PlainCoils =>
        /\ Points(coRanges) = {co[i] : i \in 1..Len(co)}
        /\ \A c, d \in DOMAIN coRanges : c # d =>
             c..(c + coRanges[c] - 1) \cap d..(d + coRanges[d] - 1) = {}

(* The same for registers, when the template lists them in order.            *)
RegsExact ==
    devices = 1 /\ PlainRegs =>
        /\ Points(hrRanges) = UNION {hr[i].num..(hr[i].num + Words(hr[i]) - 1) :
                                       i \in 1..Len(hr)}
        /\ \A c, d \in DOMAIN hrRanges : c # d =>
             c..(c + hrRanges[c] - 1) \cap d..(d + hrRanges[d] - 1) = {}

(* A complete sweep of such a type counts what sendMsg waits for, so that    *)
(* its values are uploaded.                                                  *)
CountsComplete ==
    devices = 1 /\ Loaded =>
        /\ PlainCoils => CoilsCounted = Len(co)
        /\ PlainRegs  => RegsCounted = Len(hr)

(* A request asks for more than Limit registers only if the last of them is  *)
(* of two words, and then for one more.                                      *)
LimitNearly == devices = 1 /\ PlainRegs =>
    \A c \in DOMAIN hrRanges :
        \/ hrRanges[c] \in 1..Limit
        \/ /\ hrRanges[c] = Limit + 1
           /\ \E i \in 1..Len(hr) : /\ Words(hr[i]) = 2
                                    /\ hr[i].num + 2 = c + hrRanges[c]

-----------------------------------------------------------------------------
(* Memories of the slave at addresses A: two bytes each, most significant    *)
(* first.  All bits are set, or some of one byte: no byte has an influence   *)
(* on how another is read.                                                   *)
OneByte(A, w, bits) ==
    [a \in A |-> [h \in {1, 2} |-> IF a = w[1] /\ h = w[2] THEN bits ELSE {}]]

Memories(A) ==
    {[a \in A |-> <<0..7, 0..7>>]} \cup
    {OneByte(A, w, bits) : w \in A \X {1, 2}, bits \in {{0}, {3}, {7}, {6, 5}}}

(* The slave's answer to the request for n registers from number c on.       *)
Answer(mem, c, n) ==
    [k \in 0..(2 * n - 1) |-> mem[ReadBat(c) + (k \div 2)][1 + (k % 2)]]

(* parseHR's comments give the rank of each byte of a register, most         *)
(* significant highest, by analyticalType; a float comes highest first.      *)
Ranks(e) == << <<2, 1>>, <<1, 2>>, <<4, 3, 2, 1>>, <<1, 2, 3, 4>>,
               <<3, 4, 1, 2>>, <<2, 1, 4, 3>> >>[IF e.float THEN 3 ELSE e.order + 1]

Word(mem, e) ==
    UNION {Shift(mem[e.num - 1 + ((k - 1) \div 2)][1 + ((k - 1) % 2)],
                 8 * (Ranks(e)[k] - 1)) : k \in 1..(e.bits \div 8)}

(* A biased exponent.                                                        *)
Exponent(word) ==
    LET sum[i \in 22..30] ==
          IF i = 22 THEN 0 ELSE sum[i - 1] + IF i \in word THEN 2^(i - 23) ELSE 0
    IN sum[30]

(* What register e of the slave stands for: IEEE 754, two's complement, or   *)
(* an unsigned number.                                                       *)
Meaning(mem, e) ==
    LET word == Word(mem, e)
    IN IF e.float
       THEN [neg |-> 31 \in word,
             powers |-> {Exponent(word) - 127} \cup
                        {Exponent(word) - 150 + j : j \in word \cap 0..22}]
       ELSE IF e.sign /\ e.bits - 1 \in word
       THEN [neg |-> TRUE, powers |-> Cut(Negate(word), e.bits)]
       ELSE [neg |-> FALSE, powers |-> word]

(* Registers whose byte order fits their width, and values of them that      *)
(* parseHR can tell: not a denormal float, nor 2^31 and more.                *)
WellTyped(e) ==
    /\ e.num > 0 /\ e.start = 0
    /\ \/ e.bits = 16 /\ ~e.float /\ e.order < 2
       \/ e.bits = 32 /\ (e.float \/ e.order >= 2)

Tellable(mem, e) ==
    IF e.float THEN Exponent(Word(mem, e)) \in 1..254
    ELSE e.bits = 32 /\ ~e.sign => 31 \notin Word(mem, e)

(* Register i is in range c, and no float comes before it there: parseHR     *)
(* does not move on after a float.                                           *)
Readable(c, i) ==
    /\ In(hrRanges, c, hr[i].num) /\ WellTyped(hr[i])
    /\ \A j \in 1..Len(hr) : hr[j].float /\ In(hrRanges, c, hr[j].num)
                              => hr[j].num >= hr[i].num

(* Every register has the value that its words have in the slave, whatever   *)
(* is polled with it in one request: number and address, the bytes each      *)
(* register takes, byte order, sign and width agree.  Of input registers     *)
(* only those of 16 bits and floats.                                         *)
PointsTrue ==
    devices = 1 /\ Loaded /\ PlainRegs =>
        \A c \in Addressed(hrRanges) :
        \A i \in {j \in 1..Len(hr) : Readable(c, j)} :
        \A mem \in Memories((c - 1)..(c + hrRanges[c])) :
            Tellable(mem, hr[i]) =>
                LET b == Answer(mem, c, hrRanges[c])
                    p == Pointer(c, hr[i].num)
                IN /\ Holding(b, p, hr[i]) = Meaning(mem, hr[i])
                   /\ hr[i].float \/ hr[i].bits = 16 =>
                        Input(b, p, hr[i]) = Meaning(mem, hr[i])

(* The answer to n coils from number c on, of which those at addresses `on'  *)
(* are set.                                                                  *)
CoilAnswer(on, c, n) ==
    [k \in 0..((n - 1) \div 8) |->
        {i \in 0..7 : 8 * k + i < n /\ ReadBat(c) + 8 * k + i \in on}]

(* Every coil has the state it has in the slave, in ranges of up to 32: the  *)
(* sum of the bytes has no more bits.                                        *)
CoilsTrue ==
    devices = 1 /\ Loaded /\ PlainCoils =>
        \A c \in Addressed(coRanges) : coRanges[c] <= 32 =>
        \A j \in 0..(coRanges[c] - 1) : \A a \in (c - 1)..(c + coRanges[c]) :
            BitAt(CoilAnswer({a}, c, coRanges[c]), coRanges[c], j)
              = (a = c + j - 1)

AcceptedLengths == Accepted(Limit + 1)

(* No whole answer to a range of registers is rejected by checkMsg: crc16,   *)
(* which keeps the remainder in two bytes and two tables, is the Modbus      *)
(* checksum.                                                                 *)
CrcTrue ==
    devices = 1 /\ PlainRegs =>
        \A c \in DOMAIN hrRanges : hrRanges[c] \in AcceptedLengths

(* A value that the platform sets is the value that is read back: in a coil, *)
(* and in a 16-bit register whose most significant byte comes first (setValue *)
(* does not know the others).                                                *)
WrittenIsRead ==
    devices = 1 /\ Loaded =>
        /\ PlainRegs =>
             \A c \in Addressed(hrRanges) :
             \A i \in {j \in 1..Len(hr) : Readable(c, j)} :
             \A word \in {{k} : k \in 0..15} \cup {{}, {3, 15}, 0..15} :
                hr[i].bits = 16 /\ hr[i].order = 0 =>
                LET value == IF hr[i].sign THEN SignExtended(word, 16) ELSE word
                    write == WriteHr(hr[i].num, value)
                    mem   == [a \in (c - 1)..(c + hrRanges[c]) |->
                                IF a = write.addr THEN write.word ELSE <<{}, {}>>]
                IN Holding(Answer(mem, c, hrRanges[c]), Pointer(c, hr[i].num), hr[i])
                     = Number(value)
        /\ PlainCoils =>
             \A c \in Addressed(coRanges) : coRanges[c] <= 32 =>
             \A j \in 0..(coRanges[c] - 1) : \A value \in {{}, {0}, {4}} :
                LET write == WriteCo(c + j, value)
                    on    == IF write.on THEN {write.addr} ELSE {}
                IN BitAt(CoilAnswer(on, c, coRanges[c]), coRanges[c], j)
                     = (value # {})
=============================================================================
