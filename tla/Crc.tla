-------------------------------- MODULE Crc --------------------------------
(* crc16 of util.cpp, by which ModbusP accepts an answer: a remainder in two *)
(* bytes and two tables.  A byte is the set of its one-bits.                 *)
EXTENDS Integers, Sequences

Sequence == INSTANCE SequencesExt

Bits(n) == {i \in 0..7 : (n \div 2^i) % 2 = 1}

Xor(a, b) == (a \ b) \cup (b \ a)

Index == [b \in SUBSET (0..7) |-> CHOOSE n \in 0..255 : Bits(n) = b]

G_auchCRCHi == <<
    0, 193, 129, 64, 1, 192, 128, 65, 1, 192, 128, 65, 0, 193, 129, 64, 1,
    192, 128, 65, 0, 193, 129, 64, 0, 193, 129, 64, 1, 192, 128, 65, 1, 192,
    128, 65, 0, 193, 129, 64, 0, 193, 129, 64, 1, 192, 128, 65, 0, 193, 129,
    64, 1, 192, 128, 65, 1, 192, 128, 65, 0, 193, 129, 64, 1, 192, 128, 65, 0,
    193, 129, 64, 0, 193, 129, 64, 1, 192, 128, 65, 0, 193, 129, 64, 1, 192,
    128, 65, 1, 192, 128, 65, 0, 193, 129, 64, 0, 193, 129, 64, 1, 192, 128,
    65, 1, 192, 128, 65, 0, 193, 129, 64, 1, 192, 128, 65, 0, 193, 129, 64, 0,
    193, 129, 64, 1, 192, 128, 65, 1, 192, 128, 65, 0, 193, 129, 64, 0, 193,
    129, 64, 1, 192, 128, 65, 0, 193, 129, 64, 1, 192, 128, 65, 1, 192, 128,
    65, 0, 193, 129, 64, 0, 193, 129, 64, 1, 192, 128, 65, 1, 192, 128, 65, 0,
    193, 129, 64, 1, 192, 128, 65, 0, 193, 129, 64, 0, 193, 129, 64, 1, 192,
    128, 65, 0, 193, 129, 64, 1, 192, 128, 65, 1, 192, 128, 65, 0, 193, 129,
    64, 1, 192, 128, 65, 0, 193, 129, 64, 0, 193, 129, 64, 1, 192, 128, 65, 1,
    192, 128, 65, 0, 193, 129, 64, 0, 193, 129, 64, 1, 192, 128, 65, 0, 193,
    129, 64, 1, 192, 128, 65, 1, 192, 128, 65, 0, 193, 129, 64>>

G_auchCRCLo == <<
    0, 192, 193, 1, 195, 3, 2, 194, 198, 6, 7, 199, 5, 197, 196, 4, 204, 12,
    13, 205, 15, 207, 206, 14, 10, 202, 203, 11, 201, 9, 8, 200, 216, 24, 25,
    217, 27, 219, 218, 26, 30, 222, 223, 31, 221, 29, 28, 220, 20, 212, 213,
    21, 215, 23, 22, 214, 210, 18, 19, 211, 17, 209, 208, 16, 240, 48, 49,
    241, 51, 243, 242, 50, 54, 246, 247, 55, 245, 53, 52, 244, 60, 252, 253,
    61, 255, 63, 62, 254, 250, 58, 59, 251, 57, 249, 248, 56, 40, 232, 233,
    41, 235, 43, 42, 234, 238, 46, 47, 239, 45, 237, 236, 44, 228, 36, 37,
    229, 39, 231, 230, 38, 34, 226, 227, 35, 225, 33, 32, 224, 160, 96, 97,
    161, 99, 163, 162, 98, 102, 166, 167, 103, 165, 101, 100, 164, 108, 172,
    173, 109, 175, 111, 110, 174, 170, 106, 107, 171, 105, 169, 168, 104, 120,
    184, 185, 121, 187, 123, 122, 186, 190, 126, 127, 191, 125, 189, 188, 124,
    180, 116, 117, 181, 119, 183, 182, 118, 114, 178, 179, 115, 177, 113, 112,
    176, 80, 144, 145, 81, 147, 83, 82, 146, 150, 86, 87, 151, 85, 149, 148,
    84, 156, 92, 93, 157, 95, 159, 158, 94, 90, 154, 155, 91, 153, 89, 88,
    152, 136, 72, 73, 137, 75, 139, 138, 74, 78, 142, 143, 79, 141, 77, 76,
    140, 68, 132, 133, 69, 135, 71, 70, 134, 130, 66, 67, 131, 65, 129, 128,
    64>>

(* Mutant: the two halves of the remainder change places.                    *)
NextCrc_Swapped(crc, byte) ==
    LET i == 1 + Index[Xor(crc.lo, byte)]
    IN [hi |-> Xor(crc.hi, Bits(G_auchCRCHi[i])), lo |-> Bits(G_auchCRCLo[i])]

(* One byte of the message.                                                  *)
NextCrc(crc, byte) ==
    LET i == 1 + Index[Xor(crc.hi, byte)]
    IN [hi |-> Xor(crc.lo, Bits(G_auchCRCHi[i])), lo |-> Bits(G_auchCRCLo[i])]

Start == [hi |-> 0..7, lo |-> 0..7]

Crc16(message) == Sequence!FoldLeft(NextCrc, Start, message)

-----------------------------------------------------------------------------
(* The Modbus checksum: the remainder of the division by x^16 + x^15 + x^2   *)
(* + 1, bits reflected.                                                      *)
Polynomial == {0, 13, 15}

Divided(word) ==
    LET f[n \in 0..8] ==
          IF n = 0 THEN word
          ELSE LET half == {i - 1 : i \in f[n - 1] \ {0}}
               IN IF 0 \in f[n - 1] THEN Xor(half, Polynomial) ELSE half
    IN f[8]

Reference(crc, byte) ==
    LET word == Divided(Xor(crc.hi, byte) \cup {i + 8 : i \in crc.lo})
    IN [hi |-> word \cap 0..7, lo |-> {i - 8 : i \in word \cap 8..15}]

(* An answer of any slave that reads n registers, all of them the same.      *)
Frame(slave, n, byte) ==
    <<slave, Bits(3), Bits(2 * n)>> \o [i \in 1..(2 * n) |-> byte]

(* The numbers of registers up to max whose answers checkMsg accepts: crc16  *)
(* is the checksum that the slave has put at the end.  Over all slaves every *)
(* entry of the tables is used.                                              *)
Accepted(max) ==
    {n \in 0..max : \A slave \in SUBSET (0..7), byte \in {{}, 0..7} :
        LET message == Frame(slave, n, byte)
        IN Crc16(message) = Sequence!FoldLeft(Reference, Start, message)}
=============================================================================
