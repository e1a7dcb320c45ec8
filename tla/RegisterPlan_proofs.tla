------------------------- MODULE RegisterPlan_proofs -------------------------
(* Theorems of RegisterPlan: the ranges that MBTYPES makes of a template     *)
(* cover its points, each once, whatever the template, the answers are       *)
(* counted as sendMsg expects, and what is told of a point is what the slave *)
(* has at its address.                                                       *)
EXTENDS RegisterPlan, LeastNumber, FiniteSetTheorems, TLAPS

(* rbegin finds a range when there is one.                                   *)
HasLast(r) == DOMAIN r = {} \/ \E c \in DOMAIN r : \A k \in DOMAIN r : k <= c

Ranges(r) == IsRanges(r) /\ HasLast(r)

(* Nobody reads a point twice.                                               *)
Apart(r) ==
    \A c, d \in DOMAIN r : c # d =>
        c..(c + r[c] - 1) \cap d..(d + r[d] - 1) = {}

Prefix(s, t) == Len(s) <= Len(t) /\ \A i \in 1..Len(s) : s[i] = t[i]

CoilNumbers == {co[i] : i \in 1..Len(co)}

RegisterWords == UNION {hr[i].num..(hr[i].num + Words(hr[i]) - 1) : i \in 1..Len(hr)}

Types ==
    /\ [coils |-> coils, regs |-> regs] \in Templates
    /\ coils \in Seq(Nat) /\ regs \in Seq(Entry)
    /\ co \in Seq(Nat) /\ hr \in Seq(Entry)
    /\ Ranges(coRanges) /\ Ranges(hrRanges)
    /\ devices \in 0..MaxDevices
    /\ Prefix(co, coils) /\ Prefix(hr, regs)
    /\ devices = 0 => /\ co = <<>> /\ hr = <<>>
                      /\ DOMAIN coRanges = {} /\ DOMAIN hrRanges = {}

CoilInv ==
    devices = 1 /\ PlainCoils =>
        /\ Points(coRanges) = CoilNumbers /\ Apart(coRanges)
        /\ \A c \in DOMAIN coRanges : coRanges[c] >= 1

(* The length of a range, and why it may be one more than the limit.         *)
Bounded(r, c) ==
    \/ r[c] \in 1..Limit
    \/ /\ r[c] = Limit + 1
       /\ \E i \in 1..Len(hr) : Words(hr[i]) = 2 /\ hr[i].num + 2 = c + r[c]

(* The last range ends where the last register does.                         *)
RegInv ==
    devices = 1 /\ PlainRegs =>
        /\ Points(hrRanges) = RegisterWords /\ Apart(hrRanges)
        /\ IF hr = <<>> THEN DOMAIN hrRanges = {}
           ELSE /\ DOMAIN hrRanges # {}
                /\ End(hrRanges) = hr[Len(hr)].num + Words(hr[Len(hr)])
        /\ \A c \in DOMAIN hrRanges : Bounded(hrRanges, c)

PlanInv == Types /\ CoilInv /\ RegInv

-----------------------------------------------------------------------------
(* rbegin, insert and the extension of the last range.                       *)
Span(r, c) == c..(c + r[c] - 1)

LEMMA LastFacts ==
    ASSUME NEW r, Ranges(r), DOMAIN r # {}
    PROVE  /\ Last(r) \in DOMAIN r /\ Last(r) \in Nat /\ r[Last(r)] \in Nat
           /\ \A k \in DOMAIN r : k \in Nat /\ k <= Last(r)
           /\ End(r) \in Nat
<1>1. \E c \in DOMAIN r : \A k \in DOMAIN r : k <= c
  BY DEF Ranges, HasLast
<1>2. Last(r) \in DOMAIN r /\ \A k \in DOMAIN r : k <= Last(r)
  BY <1>1 DEF Last
<1>3. \A k \in DOMAIN r : k \in Nat /\ r[k] \in Nat
  BY DEF Ranges, IsRanges
<1> QED
  BY <1>2, <1>3 DEF End

LEMMA LastIs ==
    ASSUME NEW r, Ranges(r), NEW c \in DOMAIN r, \A k \in DOMAIN r : k <= c
    PROVE  Last(r) = c
<1>1. /\ Last(r) \in DOMAIN r /\ \A k \in DOMAIN r : k \in Nat /\ k <= Last(r)
  BY LastFacts
<1>2. c <= Last(r) /\ Last(r) <= c /\ c \in Nat /\ Last(r) \in Nat
  BY <1>1
<1> QED
  BY <1>2

LEMMA InsertFacts ==
    ASSUME NEW r, Ranges(r), NEW n \in Nat, NEW len \in Nat
    PROVE  /\ Ranges(Insert(r, n, len)) /\ DOMAIN Insert(r, n, len) = DOMAIN r \cup {n}
           /\ \A c \in DOMAIN r : Insert(r, n, len)[c] = r[c]
           /\ n \notin DOMAIN r => Insert(r, n, len)[n] = len
<1> DEFINE q == Insert(r, n, len)
<1>1. /\ DOMAIN q = DOMAIN r \cup {n}
      /\ \A c \in DOMAIN q : q[c] = IF c \in DOMAIN r THEN r[c] ELSE len
  BY DEF Insert
<1>2. IsRanges(q)
  BY <1>1 DEF Ranges, IsRanges
<1>3. HasLast(q)
  <2>1. CASE DOMAIN r = {}
    BY <1>1, <2>1 DEF HasLast
  <2>2. CASE DOMAIN r # {}
    <3> DEFINE c == Last(r)
    <3>1. c \in DOMAIN r /\ c \in Nat /\ \A k \in DOMAIN r : k \in Nat /\ k <= c
      BY <2>2, LastFacts
    <3> HIDE DEF c, q
    <3>2. CASE n <= c
      BY <1>1, <3>1, <3>2 DEF HasLast
    <3>3. CASE ~(n <= c)
      <4>1. \A k \in DOMAIN r \cup {n} : k <= n
        BY <3>1, <3>3
      <4> QED
        BY <1>1, <4>1 DEF HasLast
    <3> QED
      BY <3>2, <3>3
  <2> QED
    BY <2>1, <2>2
<1> HIDE DEF q
<1>4. Ranges(q)
  BY <1>2, <1>3 DEF Ranges
<1> QED
  BY <1>1, <1>4 DEF q

LEMMA ExtendFacts ==
    ASSUME NEW r, Ranges(r), DOMAIN r # {}, NEW len \in Nat
    PROVE  /\ Ranges(Extend(r, len)) /\ DOMAIN Extend(r, len) = DOMAIN r
           /\ Extend(r, len)[Last(r)] = r[Last(r)] + len
           /\ \A c \in DOMAIN r \ {Last(r)} : Extend(r, len)[c] = r[c]
<1>1. Last(r) \in DOMAIN r /\ r[Last(r)] \in Nat
  BY LastFacts
<1>2. /\ DOMAIN Extend(r, len) = DOMAIN r
      /\ Extend(r, len)[Last(r)] = r[Last(r)] + len
      /\ \A c \in DOMAIN r \ {Last(r)} : Extend(r, len)[c] = r[c]
  BY <1>1 DEF Extend
<1>3. Ranges(Extend(r, len))
  BY <1>1, <1>2 DEF Ranges, IsRanges, HasLast
<1> QED
  BY <1>2, <1>3

(* What both do to the points.  New points that nobody reads keep the ranges *)
(* apart.                                                                    *)
LEMMA InsertPoints ==
    ASSUME NEW r, Ranges(r), NEW n \in Nat, NEW len \in Nat \ {0}, Apart(r),
           \A a \in n..(n + len - 1) : a \notin Points(r),
           \A c \in DOMAIN r : r[c] >= 1
    PROVE  /\ n \notin DOMAIN r
           /\ Points(Insert(r, n, len)) = Points(r) \cup n..(n + len - 1)
           /\ Apart(Insert(r, n, len))
<1> DEFINE q == Insert(r, n, len)
<1>1. \A c \in DOMAIN r : c \in Nat /\ r[c] \in Nat
  BY DEF Ranges, IsRanges
<1>2. n \notin DOMAIN r
  <2> SUFFICES ASSUME n \in DOMAIN r PROVE FALSE
    OBVIOUS
  <2>1. n \in n..(n + r[n] - 1) /\ n \in n..(n + len - 1)
    BY <1>1
  <2> QED
    BY <2>1 DEF Points
<1>3. /\ DOMAIN q = DOMAIN r \cup {n} /\ q[n] = len
      /\ \A c \in DOMAIN r : q[c] = r[c]
  BY <1>2, InsertFacts
<1> HIDE DEF q
<1>4. Points(q) = Points(r) \cup n..(n + len - 1)
  BY <1>3 DEF Points
<1>5. \A c \in DOMAIN r : c..(c + r[c] - 1) \cap n..(n + len - 1) = {}
  BY DEF Points
<1>6. Apart(q)
  BY <1>3, <1>5 DEF Apart
<1> QED
  BY <1>2, <1>4, <1>6 DEF q

LEMMA ExtendPoints ==
    ASSUME NEW r, Ranges(r), DOMAIN r # {}, NEW len \in Nat \ {0}, Apart(r),
           \A a \in End(r)..(End(r) + len - 1) : a \notin Points(r),
           \A c \in DOMAIN r : r[c] >= 1
    PROVE  /\ Points(Extend(r, len)) = Points(r) \cup End(r)..(End(r) + len - 1)
           /\ Apart(Extend(r, len))
<1> DEFINE q == Extend(r, len)
           l == Last(r)
           n == End(r)
<1>1. /\ l \in DOMAIN r /\ l \in Nat /\ r[l] \in Nat /\ n = l + r[l] /\ r[l] >= 1
      /\ \A c \in DOMAIN r : c \in Nat /\ r[c] \in Nat
  BY LastFacts DEF Ranges, IsRanges, End
<1>2. /\ DOMAIN q = DOMAIN r /\ q[l] = r[l] + len
      /\ \A c \in DOMAIN r \ {l} : q[c] = r[c]
  BY ExtendFacts
<1>3. \A a \in n..(n + len - 1) : a \notin Points(r)
  OBVIOUS
<1> HIDE DEF q, l, n
<1>4. l..(l + q[l] - 1) = l..(l + r[l] - 1) \cup n..(n + len - 1)
  BY <1>1, <1>2
<1>5. Points(q) = Points(r) \cup n..(n + len - 1)
  <2>1. ASSUME NEW a PROVE a \in Points(q) => a \in Points(r) \cup n..(n + len - 1)
    BY <1>2, <1>4 DEF Points
  <2>2. ASSUME NEW a PROVE a \in Points(r) \cup n..(n + len - 1) => a \in Points(q)
    BY <1>1, <1>2, <1>4 DEF Points
  <2> QED
    BY <2>1, <2>2
<1>6. \A c \in DOMAIN r : c..(c + r[c] - 1) \cap n..(n + len - 1) = {}
  BY <1>3 DEF Points
<1>7. Apart(q)
  <2>1. ASSUME NEW c \in DOMAIN r, c # l
        PROVE  c..(c + q[c] - 1) \cap l..(l + q[l] - 1) = {}
    BY <1>1, <1>2, <1>4, <1>6, <2>1 DEF Apart
  <2>2. ASSUME NEW c \in DOMAIN r, NEW d \in DOMAIN r, c # d
        PROVE  c..(c + q[c] - 1) \cap d..(d + q[d] - 1) = {}
    BY <1>2, <2>1, <2>2 DEF Apart
  <2> QED
    BY <1>2, <2>2 DEF Apart
<1> QED
  BY <1>5, <1>7 DEF q, n

-----------------------------------------------------------------------------
LEMMA TemplateTypes ==
    Types => /\ \A i \in 1..Len(coils) : coils[i] \in Nat
             /\ \A i \in 1..Len(regs) : /\ regs[i] \in Entry /\ regs[i].num \in Nat
                                        /\ regs[i].bits \in Nat /\ Words(regs[i]) \in Nat
<1> SUFFICES ASSUME Types
             PROVE  /\ \A i \in 1..Len(coils) : coils[i] \in Nat
                    /\ \A i \in 1..Len(regs) : /\ regs[i] \in Entry /\ regs[i].num \in Nat
                                               /\ regs[i].bits \in Nat /\ Words(regs[i]) \in Nat
  OBVIOUS
<1>1. coils \in Seq(Nat) /\ regs \in Seq(Entry)
  BY DEF Types
<1>2. \A e \in Entry : e.num \in Nat /\ e.bits \in Nat
  BY DEF Entry
<1>3. \A e \in Entry : Words(e) \in Nat
  BY <1>2 DEF Words
<1> QED
  BY <1>1, <1>2, <1>3

LEMMA PrefixAppend ==
    ASSUME NEW S, NEW s \in Seq(S), NEW t \in Seq(S), Prefix(s, t), Len(s) < Len(t)
    PROVE  LET q == Append(s, t[Len(s) + 1])
           IN /\ q \in Seq(S) /\ Prefix(q, t) /\ Len(q) = Len(s) + 1
              /\ \A i \in 1..Len(s) : q[i] = s[i]
              /\ q[Len(s) + 1] = t[Len(s) + 1]
<1> DEFINE n == Len(s)
           q == Append(s, t[n + 1])
<1>1. n \in Nat /\ Len(t) \in Nat /\ n + 1 \in 1..Len(t) /\ t[n + 1] \in S
  OBVIOUS
<1>2. /\ q \in Seq(S) /\ Len(q) = n + 1 /\ q[n + 1] = t[n + 1]
      /\ \A i \in 1..n : q[i] = s[i]
  BY <1>1
<1> HIDE DEF q
<1>3. Prefix(q, t)
  <2>1. \A i \in 1..n + 1 : i \in 1..n \/ i = n + 1
    BY <1>1
  <2>2. \A i \in 1..n : s[i] = t[i]
    BY DEF Prefix
  <2> QED
    BY <1>1, <1>2, <2>1, <2>2 DEF Prefix
<1> QED
  BY <1>2, <1>3 DEF q

LEMMA TypesInit == Init => Types
<1> SUFFICES ASSUME Init PROVE Types
  OBVIOUS
<1>1. PICK t \in Templates : coils = t.coils /\ regs = t.regs
  BY DEF Init
<1>2. t \in Template
  BY PlanAssumption
<1>3. /\ coils \in Seq(Nat) /\ regs \in Seq(Entry)
      /\ [coils |-> coils, regs |-> regs] = t
  BY <1>1, <1>2 DEF Template
<1>4. Ranges(NoRanges) /\ DOMAIN NoRanges = {}
  BY DEF Ranges, IsRanges, HasLast, NoRanges
<1>5. co = <<>> /\ hr = <<>> /\ coRanges = NoRanges /\ hrRanges = NoRanges /\ devices = 0
  BY DEF Init
<1>6. Prefix(co, coils) /\ Prefix(hr, regs)
  BY <1>3, <1>5 DEF Prefix
<1> QED
  BY <1>3, <1>4, <1>5, <1>6, PlanAssumption DEF Types

LEMMA CoilRangesType ==
    ASSUME NEW r, Ranges(r), NEW n \in Nat
    PROVE  Ranges(CoilRanges(r, n))
  BY InsertFacts, ExtendFacts DEF CoilRanges

LEMMA RegisterRangesType ==
    ASSUME NEW r, Ranges(r), NEW e \in Entry
    PROVE  Ranges(RegisterRanges(r, e))
<1>1. e.num \in Nat /\ Words(e) \in Nat
  BY DEF Entry, Words
<1> QED
  BY <1>1, InsertFacts, ExtendFacts DEF RegisterRanges

LEMMA TypesStep == Types /\ [Next]_vars => Types'
<1> SUFFICES ASSUME Types, [Next]_vars PROVE Types'
  OBVIOUS
<1>0. /\ coils \in Seq(Nat) /\ regs \in Seq(Entry)
      /\ co \in Seq(Nat) /\ hr \in Seq(Entry) /\ devices \in 0..MaxDevices
      /\ MaxDevices \in Nat
  BY PlanAssumption DEF Types
<1>1. CASE AddDevice
  <2>1. Prefix(co', coils) /\ Prefix(hr', regs)
    BY <1>0, <1>1 DEF AddDevice, Prefix
  <2>2. devices' \in 1..MaxDevices
    BY <1>0, <1>1 DEF AddDevice
  <2> QED
    BY <1>1, <2>1, <2>2 DEF AddDevice, Types
<1>2. CASE AddCoil
  <2>1. /\ co' = Append(co, coils[Len(co) + 1]) /\ Len(co) < Len(coils) /\ devices # 0
        /\ coRanges' = CoilRanges(coRanges, coils[Len(co) + 1])
        /\ UNCHANGED <<coils, regs, hr, hrRanges, devices>>
    BY <1>2 DEF AddCoil
  <2>2. coils[Len(co) + 1] \in Nat
    BY <1>0, <2>1
  <2>3. co' \in Seq(Nat) /\ Prefix(co', coils)
    BY <1>0, <2>1, PrefixAppend DEF Types
  <2>4. Ranges(coRanges')
    BY <2>1, <2>2, CoilRangesType DEF Types
  <2> QED
    BY <2>1, <2>3, <2>4 DEF Types
<1>3. CASE AddRegister
  <2>1. /\ hr' = Append(hr, regs[Len(hr) + 1]) /\ Len(hr) < Len(regs) /\ devices # 0
        /\ hrRanges' = RegisterRanges(hrRanges, regs[Len(hr) + 1])
        /\ UNCHANGED <<coils, regs, co, coRanges, devices>>
    BY <1>3 DEF AddRegister
  <2>2. regs[Len(hr) + 1] \in Entry
    BY <1>0, <2>1
  <2>3. hr' \in Seq(Entry) /\ Prefix(hr', regs)
    BY <1>0, <2>1, PrefixAppend DEF Types
  <2>4. Ranges(hrRanges')
    BY <2>1, <2>2, RegisterRangesType DEF Types
  <2> QED
    BY <2>1, <2>3, <2>4 DEF Types
<1>4. CASE UNCHANGED vars
  BY <1>4 DEF vars, Types
<1> QED
  BY <1>1, <1>2, <1>3, <1>4 DEF Next

(* The ranges are maps from addresses to lengths, and what MBTYPES has taken *)
(* in is a beginning of the template.                                        *)
THEOREM PlanTypes == Spec => []TypeOK
<1>1. Types => TypeOK
  BY DEF Types, TypeOK, Ranges
<1> QED
  BY <1>1, TypesInit, TypesStep, PTL DEF Spec

-----------------------------------------------------------------------------
(* Coils.                                                                    *)
LEMMA CoilStep == Types /\ CoilInv /\ [Next]_vars => CoilInv'
<1> SUFFICES ASSUME Types, CoilInv, [Next]_vars, devices' = 1, PlainCoils'
             PROVE  /\ Points(coRanges') = CoilNumbers' /\ Apart(coRanges')
                    /\ \A c \in DOMAIN coRanges' : coRanges'[c] >= 1
  BY DEF CoilInv
<1>0. /\ coils \in Seq(Nat) /\ co \in Seq(Nat) /\ devices \in Nat /\ Ranges(coRanges)
      /\ Prefix(co, coils)
  BY PlanAssumption DEF Types
<1>1. CASE AddDevice
  <2>1. devices = 0 /\ co' = <<>> /\ coRanges' = coRanges
    BY <1>0, <1>1 DEF AddDevice
  <2>2. DOMAIN coRanges' = {} /\ Len(co') = 0
    BY <2>1 DEF Types
  <2> QED
    BY <2>1, <2>2 DEF CoilNumbers, Points, Apart
<1>2. CASE AddCoil
  <2> DEFINE k == Len(co)
             n == coils[k + 1]
             r == coRanges
  <2>1. /\ co' = Append(co, n) /\ k < Len(coils) /\ devices = 1
        /\ r' = CoilRanges(r, n) /\ coils' = coils
    BY <1>2 DEF AddCoil
  <2>2. n \in Nat /\ k \in Nat /\ k + 1 \in 1..Len(coils) /\ Len(coils) \in Nat
    BY <1>0, <2>1
  <2>3. PlainCoils
    BY <2>1 DEF PlainCoils
  <2>4. /\ Points(r) = CoilNumbers /\ Apart(r)
        /\ \A c \in DOMAIN r : r[c] >= 1
    BY <2>1, <2>3 DEF CoilInv
  <2>5. /\ Len(co') = k + 1 /\ co'[k + 1] = n
        /\ \A i \in 1..k : co'[i] = co[i] /\ co[i] = coils[i]
    BY <1>0, <2>1, PrefixAppend DEF Prefix
  <2> HIDE DEF n
  <2>6. CoilNumbers' = CoilNumbers \cup {n}
    <3>1. \A i \in 1..k + 1 : i \in 1..k \/ i = k + 1
      BY <2>2
    <3>2. k + 1 \in 1..k + 1 /\ \A i \in 1..k : i \in 1..k + 1
      BY <2>2
    <3> QED
      BY <2>5, <3>1, <3>2 DEF CoilNumbers
  <2>7. n \notin Points(r)
    <3>1. ASSUME NEW i \in 1..k PROVE co[i] # n
      <4>1. i \in 1..Len(coils) /\ i # k + 1
        BY <2>1, <2>2
      <4> QED
        BY <2>2, <2>3, <2>5, <4>1 DEF PlainCoils, n
    <3> QED
      BY <2>4, <3>1 DEF CoilNumbers
  <2>8. n..(n + 1 - 1) = {n}
    BY <2>2
  <2>9. CASE DOMAIN r = {} \/ n # End(r)
    <3>1. r' = Insert(r, n, 1)
      BY <2>1, <2>9 DEF CoilRanges
    <3>2. n \notin DOMAIN r /\ Points(r') = Points(r) \cup {n} /\ Apart(r')
      BY <1>0, <2>2, <2>4, <2>7, <2>8, <3>1, InsertPoints
    <3>3. /\ DOMAIN r' = DOMAIN r \cup {n} /\ r'[n] = 1
          /\ \A c \in DOMAIN r : r'[c] = r[c]
      <4>1. /\ DOMAIN Insert(r, n, 1) = DOMAIN r \cup {n}
            /\ \A c \in DOMAIN r : Insert(r, n, 1)[c] = r[c]
            /\ n \notin DOMAIN r => Insert(r, n, 1)[n] = 1
        <5>1. 1 \in Nat
          OBVIOUS
        <5> QED
          BY <1>0, <2>2, <5>1, InsertFacts
      <4> QED
        BY <3>1, <3>2, <4>1
    <3>4. \A c \in DOMAIN r' : r'[c] >= 1
      BY <2>4, <3>3
    <3> QED
      BY <2>4, <2>6, <3>2, <3>4
  <2>10. CASE DOMAIN r # {} /\ n = End(r)
    <3>1. r' = Extend(r, 1)
      BY <2>1, <2>10 DEF CoilRanges
    <3>2. Points(r') = Points(r) \cup {n} /\ Apart(r')
      <4>1. \A a \in End(r)..(End(r) + 1 - 1) : a \notin Points(r)
        BY <2>7, <2>8, <2>10
      <4>2. /\ Points(Extend(r, 1)) = Points(r) \cup End(r)..(End(r) + 1 - 1)
            /\ Apart(Extend(r, 1))
        BY <1>0, <2>4, <2>10, <4>1, ExtendPoints
      <4> QED
        BY <2>8, <2>10, <3>1, <4>2
    <3>3. \A c \in DOMAIN r' : r'[c] >= 1
      <4>1. Last(r) \in DOMAIN r /\ r[Last(r)] \in Nat
        BY <1>0, <2>10, LastFacts
      <4>2. /\ DOMAIN r' = DOMAIN r /\ r'[Last(r)] = r[Last(r)] + 1
            /\ \A c \in DOMAIN r \ {Last(r)} : r'[c] = r[c]
        BY <1>0, <2>10, <3>1, ExtendFacts
      <4> QED
        BY <2>4, <4>1, <4>2
    <3> QED
      BY <2>4, <2>6, <3>2, <3>3
  <2> QED
    BY <2>9, <2>10
<1>3. CASE AddRegister \/ UNCHANGED vars
  BY <1>3 DEF AddRegister, vars, CoilInv, PlainCoils, CoilNumbers
<1> QED
  BY <1>1, <1>2, <1>3 DEF Next

LEMMA CoilsInvariant == Spec => [](Types /\ CoilInv)
<1>1. Init => CoilInv
  BY DEF Init, CoilInv
<1> QED
  BY <1>1, TypesInit, TypesStep, CoilStep, PTL DEF Spec

(* addCoil: in whatever order the platform's template lists them, the ranges *)
(* that the first device of a type is polled in are its coils, once each.    *)
THEOREM CoilsCovered == Spec => []CoilsExact
<1>1. CoilInv => CoilsExact
  BY DEF CoilInv, CoilsExact, CoilNumbers, Apart
<1> QED
  BY <1>1, CoilsInvariant, PTL
-----------------------------------------------------------------------------
(* Registers.                                                                *)
LEMMA WordsOf ==
    ASSUME Types, PlainRegs, NEW i \in 1..Len(regs)
    PROVE  /\ regs[i].num \in Nat /\ Words(regs[i]) \in {1, 2}
           /\ \A j \in 1..Len(regs) : i < j => regs[i].num + Words(regs[i]) <= regs[j].num
<1>1. regs[i].num \in Nat /\ regs[i].bits \in {16, 32}
  BY TemplateTypes DEF PlainRegs
<1>2. Words(regs[i]) \in {1, 2}
  BY <1>1 DEF Words
<1> QED
  BY <1>1, <1>2 DEF PlainRegs

(* What a register adds.                                                     *)
LEMMA RegisterInserted ==
    ASSUME NEW r, Ranges(r), Apart(r), NEW n \in Nat, NEW w \in {1, 2},
           \A a \in Points(r) : a \in Nat /\ a < n,
           \A c \in DOMAIN r : r[c] >= 1
    PROVE  LET q == Insert(r, n, w)
           IN /\ n \notin DOMAIN r /\ End(q) = n + w
              /\ Points(q) = Points(r) \cup n..(n + w - 1) /\ Apart(q)
<1> DEFINE q == Insert(r, n, w)
<1>1. w \in Nat \ {0}
  OBVIOUS
<1>2. \A a \in n..(n + w - 1) : a \notin Points(r)
  OBVIOUS
<1>3. n \notin DOMAIN r /\ Points(q) = Points(r) \cup n..(n + w - 1) /\ Apart(q)
  BY <1>1, <1>2, InsertPoints
<1>4. /\ Ranges(q) /\ DOMAIN q = DOMAIN r \cup {n} /\ q[n] = w
      /\ \A c \in DOMAIN r : q[c] = r[c]
  BY <1>1, <1>3, InsertFacts
<1> HIDE DEF q
<1>5. ASSUME NEW k \in DOMAIN r PROVE k < n
  <2>1. k \in k..(k + r[k] - 1)
    BY DEF Ranges, IsRanges
  <2> QED
    BY <2>1 DEF Points
<1>6. \A k \in DOMAIN q : k <= n
  BY <1>4, <1>5 DEF Ranges, IsRanges
<1>7. Last(q) = n
  BY <1>4, <1>6, LastIs
<1> QED
  BY <1>3, <1>4, <1>7 DEF End, q

LEMMA RegisterExtended ==
    ASSUME NEW r, Ranges(r), DOMAIN r # {}, Apart(r), NEW w \in {1, 2},
           \A a \in Points(r) : a \in Nat /\ a < End(r),
           \A c \in DOMAIN r : r[c] >= 1
    PROVE  LET q == Extend(r, w)
           IN /\ Points(q) = Points(r) \cup End(r)..(End(r) + w - 1) /\ Apart(q)
              /\ DOMAIN q = DOMAIN r /\ q[Last(r)] = r[Last(r)] + w
              /\ \A c \in DOMAIN r \ {Last(r)} : q[c] = r[c]
              /\ End(q) = End(r) + w
<1> DEFINE q == Extend(r, w)
<1>1. w \in Nat \ {0}
  OBVIOUS
<1>2. End(r) \in Nat /\ Last(r) \in DOMAIN r /\ Last(r) \in Nat /\ r[Last(r)] \in Nat
      /\ \A k \in DOMAIN r : k <= Last(r)
  BY LastFacts
<1>3. \A a \in End(r)..(End(r) + w - 1) : a \notin Points(r)
  BY <1>2
<1>4. Points(q) = Points(r) \cup End(r)..(End(r) + w - 1) /\ Apart(q)
  BY <1>1, <1>3, ExtendPoints
<1>5. /\ Ranges(q) /\ DOMAIN q = DOMAIN r /\ q[Last(r)] = r[Last(r)] + w
      /\ \A c \in DOMAIN r \ {Last(r)} : q[c] = r[c]
  BY <1>1, ExtendFacts
<1> HIDE DEF q
<1>6. Last(q) = Last(r)
  BY <1>2, <1>5, LastIs
<1>7. End(q) = End(r) + w
  BY <1>2, <1>5, <1>6 DEF End
<1> QED
  BY <1>4, <1>5, <1>7 DEF q

(* The step of AddRegister, with the register before and after.              *)
LEMMA RegisterAdded ==
    ASSUME Types, RegInv, AddRegister, devices = 1, PlainRegs
    PROVE  LET k == Len(hr)
               e == regs[k + 1]
           IN /\ k \in Nat /\ k + 1 \in 1..Len(regs) /\ e.num \in Nat /\ Words(e) \in {1, 2}
              /\ hr' \in Seq(Entry) /\ Len(hr') = k + 1 /\ hr'[k + 1] = e
              /\ \A i \in 1..k : hr'[i] = hr[i] /\ hr[i] = regs[i]
              /\ \A a \in Points(hrRanges) : a \in Nat /\ a < e.num
              /\ hr # <<>> => End(hrRanges) <= e.num
              /\ RegisterWords' = RegisterWords \cup e.num..(e.num + Words(e) - 1)
<1> DEFINE k == Len(hr)
           e == regs[k + 1]
<1>1. hr \in Seq(Entry) /\ regs \in Seq(Entry) /\ Prefix(hr, regs)
  BY DEF Types
<1>2. /\ k < Len(regs) /\ hr' = Append(hr, e) /\ regs' = regs
  BY DEF AddRegister
<1>3. k \in Nat /\ Len(regs) \in Nat /\ k + 1 \in 1..Len(regs)
  BY <1>1, <1>2
<1>4. e.num \in Nat /\ Words(e) \in {1, 2}
  BY <1>3, WordsOf
<1>5. /\ hr' \in Seq(Entry) /\ Len(hr') = k + 1 /\ hr'[k + 1] = e
      /\ \A i \in 1..k : hr'[i] = hr[i] /\ hr[i] = regs[i]
  BY <1>1, <1>2, PrefixAppend DEF Prefix
<1>6. ASSUME NEW i \in 1..k
      PROVE  /\ hr[i].num \in Nat /\ Words(hr[i]) \in {1, 2}
             /\ hr[i].num + Words(hr[i]) <= e.num
  <2>1. i \in 1..Len(regs) /\ i < k + 1 /\ hr[i] = regs[i]
    BY <1>3, <1>5
  <2> QED
    BY <1>3, <2>1, WordsOf
<1> HIDE DEF e, k
<1>7. \A a \in Points(hrRanges) : a \in Nat /\ a < e.num
  <2>1. Points(hrRanges) = UNION {hr[i].num..(hr[i].num + Words(hr[i]) - 1) : i \in 1..k}
    BY DEF RegInv, RegisterWords, k
  <2>2. ASSUME NEW i \in 1..k, NEW a \in hr[i].num..(hr[i].num + Words(hr[i]) - 1)
        PROVE  a \in Nat /\ a < e.num
    BY <1>4, <1>6
  <2> QED
    BY <2>1, <2>2
<1>8. hr # <<>> => End(hrRanges) <= e.num
  <2> SUFFICES ASSUME hr # <<>> PROVE End(hrRanges) <= e.num
    OBVIOUS
  <2>1. k \in 1..k
    BY <1>1 DEF k
  <2>2. End(hrRanges) = hr[k].num + Words(hr[k])
    BY DEF RegInv, k
  <2> QED
    BY <1>6, <2>1, <2>2
<1>9. RegisterWords' = RegisterWords \cup e.num..(e.num + Words(e) - 1)
  <2>1. \A i \in 1..k + 1 : i \in 1..k \/ i = k + 1
    BY <1>3
  <2>2. k + 1 \in 1..k + 1 /\ \A i \in 1..k : i \in 1..k + 1
    BY <1>3
  <2>3. RegisterWords' = UNION {hr'[i].num..(hr'[i].num + Words(hr'[i]) - 1) : i \in 1..k + 1}
    BY <1>5 DEF RegisterWords, Words
  <2>4. RegisterWords = UNION {hr[i].num..(hr[i].num + Words(hr[i]) - 1) : i \in 1..k}
    BY DEF RegisterWords, k
  <2> QED
    BY <1>5, <2>1, <2>2, <2>3, <2>4
<1> QED
  BY <1>3, <1>4, <1>5, <1>7, <1>8, <1>9 DEF e, k
LEMMA RegStep == Types /\ RegInv /\ [Next]_vars => RegInv'
<1> SUFFICES ASSUME Types, RegInv, [Next]_vars, devices' = 1, PlainRegs'
             PROVE  RegInv'
  BY DEF RegInv
<1>0. /\ regs \in Seq(Entry) /\ hr \in Seq(Entry) /\ devices \in Nat /\ Ranges(hrRanges)
      /\ Prefix(hr, regs) /\ Limit \in Nat \ {0}
  BY PlanAssumption DEF Types
<1>1. CASE AddDevice
  <2>1. devices = 0 /\ hr' = <<>> /\ hrRanges' = hrRanges
    BY <1>0, <1>1 DEF AddDevice
  <2>2. DOMAIN hrRanges' = {} /\ Len(hr') = 0
    BY <2>1 DEF Types
  <2> QED
    BY <2>1, <2>2 DEF RegInv, RegisterWords, Points, Apart
<1>2. CASE AddRegister
  <2>1. devices = 1 /\ PlainRegs
    BY <1>2 DEF AddRegister, PlainRegs, Words
  <2> DEFINE k == Len(hr)
             e == regs[k + 1]
  <2>2. hrRanges' = RegisterRanges(hrRanges, e)
    BY <1>2 DEF AddRegister
  <2>3. /\ k \in Nat /\ k + 1 \in 1..Len(regs) /\ e.num \in Nat /\ Words(e) \in {1, 2}
        /\ hr' \in Seq(Entry) /\ Len(hr') = k + 1 /\ hr'[k + 1] = e
        /\ \A i \in 1..k : hr'[i] = hr[i] /\ hr[i] = regs[i]
        /\ \A a \in Points(hrRanges) : a \in Nat /\ a < e.num
        /\ hr # <<>> => End(hrRanges) <= e.num
        /\ RegisterWords' = RegisterWords \cup e.num..(e.num + Words(e) - 1)
    BY <1>2, <2>1, RegisterAdded
  <2> PICK q : q = hrRanges'
    OBVIOUS
  <2>4. /\ Points(hrRanges) = RegisterWords /\ Apart(hrRanges)
        /\ hr = <<>> => DOMAIN hrRanges = {}
        /\ \A c \in DOMAIN hrRanges : Bounded(hrRanges, c)
    BY <2>1 DEF RegInv
  <2>5. \A c \in DOMAIN hrRanges : c \in Nat /\ hrRanges[c] \in Nat /\ hrRanges[c] >= 1
    BY <1>0, <2>4 DEF Bounded, Ranges, IsRanges
  <2> HIDE DEF e, k
  <2>6. SUFFICES /\ Points(q) = Points(hrRanges) \cup e.num..(e.num + Words(e) - 1)
                 /\ Apart(q) /\ DOMAIN q # {} /\ End(q) = e.num + Words(e)
                 /\ \A c \in DOMAIN q :
                      \/ c \in DOMAIN hrRanges /\ q[c] = hrRanges[c]
                      \/ q[c] \in 1..Limit
                      \/ q[c] = Limit + 1 /\ Words(e) = 2 /\ e.num + 2 = c + q[c]
    <3>1. hr' # <<>> /\ k + 1 \in 1..Len(hr')
      BY <2>3
    <3>2. ASSUME NEW c \in DOMAIN q,
                 c \in DOMAIN hrRanges, q[c] = hrRanges[c], q[c] = Limit + 1,
                 NEW i \in 1..Len(hr), Words(hr[i]) = 2, hr[i].num + 2 = c + hrRanges[c]
          PROVE  \E j \in 1..Len(hr') : Words(hr'[j]) = 2 /\ hr'[j].num + 2 = c + q[c]
      <4>1. i \in 1..k /\ i \in 1..Len(hr')
        BY <2>3 DEF k
      <4> QED
        BY <2>3, <3>2, <4>1
    <3>3. ASSUME NEW c \in DOMAIN q
          PROVE  \/ q[c] \in 1..Limit
                 \/ /\ q[c] = Limit + 1
                    /\ \E i \in 1..Len(hr') : Words(hr'[i]) = 2 /\ hr'[i].num + 2 = c + q[c]
      BY <2>3, <2>4, <2>6, <3>1, <3>2 DEF Bounded
    <3>4. \A c \in DOMAIN hrRanges' : Bounded(hrRanges, c)'
      BY <3>3 DEF Bounded, Words
    <3> QED
      <4>1. Points(hrRanges') = RegisterWords' /\ Apart(hrRanges') /\ DOMAIN hrRanges' # {}
        BY <2>3, <2>4, <2>6
      <4>2. End(hrRanges') = hr'[Len(hr')].num + Words(hr'[Len(hr')])
        BY <2>3, <2>6
      <4> QED
        BY <3>1, <3>4, <4>1, <4>2 DEF RegInv, Words, Points, Apart, End, Last
  <2>7. CASE DOMAIN hrRanges = {} \/ hrRanges[Last(hrRanges)] >= Limit \/ e.num > End(hrRanges)
    <3>1. q = Insert(hrRanges, e.num, Words(e))
      BY <2>2, <2>7 DEF RegisterRanges
    <3>2. /\ Points(q) = Points(hrRanges) \cup e.num..(e.num + Words(e) - 1) /\ Apart(q)
          /\ DOMAIN q = DOMAIN hrRanges \cup {e.num} /\ q[e.num] = Words(e)
          /\ \A c \in DOMAIN hrRanges : c # e.num /\ q[c] = hrRanges[c]
          /\ End(q) = e.num + Words(e)
      <4>1. e.num \notin DOMAIN hrRanges /\ End(q) = e.num + Words(e)
        BY <1>0, <2>3, <2>4, <2>5, <3>1, RegisterInserted
      <4>2. Points(q) = Points(hrRanges) \cup e.num..(e.num + Words(e) - 1) /\ Apart(q)
        BY <1>0, <2>3, <2>4, <2>5, <3>1, RegisterInserted
      <4>3. /\ DOMAIN q = DOMAIN hrRanges \cup {e.num} /\ q[e.num] = Words(e)
            /\ \A c \in DOMAIN hrRanges : q[c] = hrRanges[c]
        BY <3>1, <4>1 DEF Insert
      <4> QED
        BY <4>1, <4>2, <4>3
    <3>3. \/ q[e.num] \in 1..Limit
          \/ q[e.num] = Limit + 1 /\ Words(e) = 2 /\ e.num + 2 = e.num + q[e.num]
      BY <1>0, <2>3, <3>2
    <3> QED
      BY <3>2, <3>3
  <2>8. CASE /\ DOMAIN hrRanges # {} /\ ~(hrRanges[Last(hrRanges)] >= Limit)
             /\ ~(e.num > End(hrRanges))
    <3>1. /\ Last(hrRanges) \in DOMAIN hrRanges /\ End(hrRanges) \in Nat
          /\ Last(hrRanges) \in Nat /\ hrRanges[Last(hrRanges)] \in Nat
      BY <1>0, <2>8, LastFacts
    <3>2. e.num = End(hrRanges)
      BY <2>3, <2>4, <2>8, <3>1
    <3>3. q = Extend(hrRanges, Words(e))
      BY <2>2, <2>8, <3>2 DEF RegisterRanges
    <3>4. /\ Points(q) = Points(hrRanges) \cup e.num..(e.num + Words(e) - 1) /\ Apart(q)
          /\ DOMAIN q = DOMAIN hrRanges
          /\ q[Last(hrRanges)] = hrRanges[Last(hrRanges)] + Words(e)
          /\ \A c \in DOMAIN hrRanges \ {Last(hrRanges)} : q[c] = hrRanges[c]
          /\ End(q) = e.num + Words(e)
      <4> DEFINE p == Extend(hrRanges, Words(e))
      <4>1. \A a \in Points(hrRanges) : a \in Nat /\ a < End(hrRanges)
        BY <2>3, <3>2
      <4>2. /\ Points(p) = Points(hrRanges) \cup
                             End(hrRanges)..(End(hrRanges) + Words(e) - 1)
            /\ Apart(p) /\ DOMAIN p = DOMAIN hrRanges
            /\ p[Last(hrRanges)] = hrRanges[Last(hrRanges)] + Words(e)
            /\ \A c \in DOMAIN hrRanges \ {Last(hrRanges)} : p[c] = hrRanges[c]
            /\ End(p) = End(hrRanges) + Words(e)
        BY <1>0, <2>3, <2>4, <2>5, <2>8, <4>1, RegisterExtended
      <4> QED
        BY <3>2, <3>3, <4>2
    <3> DEFINE l == Last(hrRanges)
    <3>5. \/ q[l] \in 1..Limit
          \/ q[l] = Limit + 1 /\ Words(e) = 2 /\ e.num + 2 = l + q[l]
      <4>1. /\ hrRanges[l] < Limit /\ e.num = l + hrRanges[l]
            /\ q[l] = hrRanges[l] + Words(e)
        BY <1>0, <2>8, <3>1, <3>2, <3>4 DEF End
      <4>2. /\ l \in Nat /\ hrRanges[l] \in Nat /\ Limit \in Nat
            /\ Words(e) \in {1, 2}
        BY <1>0, <2>3, <3>1
      <4> HIDE DEF l
      <4>3. CASE Words(e) = 1
        BY <4>1, <4>2, <4>3
      <4>4. CASE Words(e) = 2
        BY <4>1, <4>2, <4>4
      <4> QED
        BY <4>2, <4>3, <4>4
    <3> QED
      BY <2>8, <3>4, <3>5
  <2> QED
    BY <2>7, <2>8
<1>3. CASE AddCoil \/ UNCHANGED vars
  BY <1>3 DEF AddCoil, vars, RegInv, PlainRegs, RegisterWords, Bounded
<1> QED
  BY <1>1, <1>2, <1>3 DEF Next

LEMMA RegsInvariant == Spec => [](Types /\ RegInv)
<1>1. Init => RegInv
  BY DEF Init, RegInv
<1> QED
  BY <1>1, TypesInit, TypesStep, RegStep, PTL DEF Spec

(* addRegister: a template that lists its registers in order, without        *)
(* overlaps, is polled in ranges that are those registers, once each.        *)
THEOREM RegsCovered == Spec => []RegsExact
<1>1. RegInv => RegsExact
  BY DEF RegInv, RegsExact, RegisterWords, Apart
<1> QED
  BY <1>1, RegsInvariant, PTL

(* addRegister's limit: the range that a register of two words fills may     *)
(* hold one more than the limit, and no range holds more.                    *)
THEOREM NearLimit == Spec => []LimitNearly
<1>1. RegInv => LimitNearly
  BY DEF RegInv, LimitNearly, Bounded
<1> QED
  BY <1>1, RegsInvariant, PTL
-----------------------------------------------------------------------------
(* What a complete sweep counts.                                             *)
LEMMA Numbered ==
    ASSUME NEW n \in Nat, NEW T, NEW f \in [1..n -> T],
           \A i, j \in 1..n : f[i] = f[j] => i = j,
           \A t \in T : \E i \in 1..n : f[i] = t
    PROVE  Cardinality(T) = n
<1>1. f \in Injection(1..n, T)
  BY DEF Injection, IsInjective
<1>2. f \in Surjection(1..n, T)
  BY DEF Surjection
<1>3. ExistsBijection(1..n, T)
  BY <1>1, <1>2 DEF ExistsBijection, Bijection
<1> QED
  BY <1>3, FS_CountingElements

(* The range that a point is in.                                             *)
RangeOf(r, a) == CHOOSE c \in DOMAIN r : a \in c..(c + r[c] - 1)

LEMMA RangeOfPoint ==
    ASSUME NEW r, Apart(r), NEW a \in Points(r)
    PROVE  /\ RangeOf(r, a) \in DOMAIN r
           /\ a \in RangeOf(r, a)..(RangeOf(r, a) + r[RangeOf(r, a)] - 1)
           /\ \A c \in DOMAIN r : a \in c..(c + r[c] - 1) => c = RangeOf(r, a)
<1>1. \E c \in DOMAIN r : a \in c..(c + r[c] - 1)
  BY DEF Points
<1>2. /\ RangeOf(r, a) \in DOMAIN r
      /\ a \in RangeOf(r, a)..(RangeOf(r, a) + r[RangeOf(r, a)] - 1)
  BY <1>1 DEF RangeOf
<1> QED
  BY <1>2 DEF Apart

CoilSet == UNION {
    {<<c, a, i>> : a \in {co[i]} \cap c..(c + coRanges[c] - 1)} :
        c \in DOMAIN coRanges, i \in 1..Len(co)}

LEMMA CountsCoils ==
    Types /\ CoilInv /\ devices = 1 /\ PlainCoils => CoilsCounted = Len(co)
<1> SUFFICES ASSUME Types, CoilInv, devices = 1, PlainCoils
             PROVE  Cardinality(CoilSet) = Len(co)
  BY DEF CoilsCounted, CoilSet
<1> DEFINE R(i) == RangeOf(coRanges, co[i])
           f == [i \in 1..Len(co) |-> <<R(i), co[i], i>>]
<1>1. Points(coRanges) = CoilNumbers /\ Apart(coRanges) /\ Len(co) \in Nat
  BY DEF CoilInv, Types
<1>2. ASSUME NEW i \in 1..Len(co)
      PROVE  /\ R(i) \in DOMAIN coRanges
             /\ co[i] \in R(i)..(R(i) + coRanges[R(i)] - 1)
             /\ \A c \in DOMAIN coRanges :
                  co[i] \in c..(c + coRanges[c] - 1) => c = R(i)
  <2>1. co[i] \in Points(coRanges)
    BY <1>1 DEF CoilNumbers
  <2> QED
    BY <1>1, <2>1, RangeOfPoint
<1> HIDE DEF R
<1>3. ASSUME NEW t
      PROVE  t \in CoilSet <=>
               \E c \in DOMAIN coRanges, i \in 1..Len(co) :
                  t = <<c, co[i], i>> /\ co[i] \in c..(c + coRanges[c] - 1)
  <2> DEFINE One(c, i) == {<<c, a, i>> : a \in {co[i]} \cap c..(c + coRanges[c] - 1)}
  <2>1. CoilSet = UNION {One(c, i) : c \in DOMAIN coRanges, i \in 1..Len(co)}
    BY DEF CoilSet
  <2>2. ASSUME NEW c, NEW i
        PROVE  t \in One(c, i) <=>
                 t = <<c, co[i], i>> /\ co[i] \in c..(c + coRanges[c] - 1)
    OBVIOUS
  <2> HIDE DEF One
  <2> QED
    BY <2>1, <2>2
<1>4. \A i \in 1..Len(co) : f[i] = <<R(i), co[i], i>>
  OBVIOUS
<1>5. f \in [1..Len(co) -> CoilSet]
  BY <1>2, <1>3
<1> HIDE DEF f
<1>6. \A i, j \in 1..Len(co) : f[i] = f[j] => i = j
  BY <1>4
<1>7. \A t \in CoilSet : \E i \in 1..Len(co) : f[i] = t
  <2> TAKE t \in CoilSet
  <2>1. PICK c \in DOMAIN coRanges, i \in 1..Len(co) :
          t = <<c, co[i], i>> /\ co[i] \in c..(c + coRanges[c] - 1)
    BY <1>3
  <2>2. c = R(i)
    BY <1>2, <2>1
  <2> QED
    BY <1>4, <2>1, <2>2
<1> QED
  BY <1>1, <1>5, <1>6, <1>7, Numbered

RegSet == UNION {
    {<<c, a>> : a \in {b \in c..(c + hrRanges[c] - 1) : At(b) # {}}} :
        c \in DOMAIN hrRanges}

LEMMA CountsRegs ==
    Types /\ RegInv /\ devices = 1 /\ PlainRegs => RegsCounted = Len(hr)
<1> SUFFICES ASSUME Types, RegInv, devices = 1, PlainRegs
             PROVE  Cardinality(RegSet) = Len(hr)
  BY DEF RegsCounted, RegSet
<1> DEFINE R(i) == RangeOf(hrRanges, hr[i].num)
           f == [i \in 1..Len(hr) |-> <<R(i), hr[i].num>>]
<1>1. /\ Points(hrRanges) = RegisterWords /\ Apart(hrRanges)
      /\ Len(hr) \in Nat /\ Len(regs) \in Nat /\ Prefix(hr, regs)
  BY DEF RegInv, Types
<1>2. ASSUME NEW i \in 1..Len(hr)
      PROVE  /\ hr[i].num \in Nat /\ Words(hr[i]) \in {1, 2}
             /\ \A j \in 1..Len(hr) : i < j => hr[i].num < hr[j].num
  <2>1. i \in 1..Len(regs) /\ hr[i] = regs[i]
        /\ \A j \in 1..Len(hr) : j \in 1..Len(regs) /\ hr[j] = regs[j]
    BY <1>1 DEF Prefix
  <2>2. /\ regs[i].num \in Nat /\ Words(regs[i]) \in {1, 2}
        /\ \A j \in 1..Len(regs) : i < j => regs[i].num + Words(regs[i]) <= regs[j].num
    BY <2>1, WordsOf
  <2>3. \A j \in 1..Len(regs) : regs[j].num \in Nat
    BY TemplateTypes
  <2> QED
    BY <2>1, <2>2, <2>3
<1>3. \A i, j \in 1..Len(hr) : hr[i].num = hr[j].num => i = j
  BY <1>1, <1>2
<1>4. \A i \in 1..Len(hr) : At(hr[i].num) # {}
  <2> TAKE i \in 1..Len(hr)
  <2>1. \A j \in 1..(i - 1) : j \in 1..Len(hr) /\ j # i
    BY <1>1
  <2>2. i \in At(hr[i].num)
    BY <1>3, <2>1 DEF At
  <2> QED
    BY <2>2
<1>5. ASSUME NEW i \in 1..Len(hr)
      PROVE  /\ R(i) \in DOMAIN hrRanges
             /\ hr[i].num \in R(i)..(R(i) + hrRanges[R(i)] - 1)
             /\ \A c \in DOMAIN hrRanges :
                  hr[i].num \in c..(c + hrRanges[c] - 1) => c = R(i)
  <2>1. hr[i].num \in hr[i].num..(hr[i].num + Words(hr[i]) - 1)
    BY <1>2
  <2>2. hr[i].num \in Points(hrRanges)
    BY <1>1, <2>1 DEF RegisterWords
  <2> QED
    BY <1>1, <2>2, RangeOfPoint
<1> HIDE DEF R
<1>6. ASSUME NEW t
      PROVE  t \in RegSet <=>
               \E c \in DOMAIN hrRanges : \E a \in c..(c + hrRanges[c] - 1) :
                  t = <<c, a>> /\ At(a) # {}
  BY DEF RegSet
<1>7. \A a : At(a) # {} => \E i \in 1..Len(hr) : hr[i].num = a
  BY DEF At
<1>8. \A i \in 1..Len(hr) : f[i] = <<R(i), hr[i].num>>
  OBVIOUS
<1>9. f \in [1..Len(hr) -> RegSet]
  BY <1>4, <1>5, <1>6
<1> HIDE DEF f
<1>10. \A i, j \in 1..Len(hr) : f[i] = f[j] => i = j
  BY <1>3, <1>8
<1>11. \A t \in RegSet : \E i \in 1..Len(hr) : f[i] = t
  <2> TAKE t \in RegSet
  <2>0. PICK c \in DOMAIN hrRanges : \E a \in c..(c + hrRanges[c] - 1) :
          t = <<c, a>> /\ At(a) # {}
    BY <1>6
  <2>1. PICK a \in c..(c + hrRanges[c] - 1) : t = <<c, a>> /\ At(a) # {}
    BY <2>0
  <2>2. PICK i \in 1..Len(hr) : hr[i].num = a
    BY <1>7, <2>1
  <2>3. c = R(i)
    BY <1>5, <2>1, <2>2
  <2> QED
    BY <1>8, <2>1, <2>2, <2>3
<1> QED
  BY <1>1, <1>9, <1>10, <1>11, Numbered

(* parseCO and parseHR: when every range has been answered, as many values   *)
(* have been counted as the type has points of the kind, which is what       *)
(* sendMsg waits for: the values of such a type are uploaded.                *)
THEOREM CountsAgree == Spec => []CountsComplete
<1>1. Types /\ CoilInv /\ RegInv => CountsComplete
  BY CountsCoils, CountsRegs DEF CountsComplete
<1> QED
  BY <1>1, CoilsInvariant, RegsInvariant, PTL

-----------------------------------------------------------------------------
(* The values of the points, bit by bit.  Numbers, as sets of bits: the      *)
(* lowest one-bit stays, those above it are inverted.                        *)
LEMMA NegateIs ==
    ASSUME NEW x \in SUBSET (0..31), x # {}
    PROVE  \E low \in x : /\ \A i \in x : low <= i
                          /\ Negate(x) = {low} \cup {i \in (low + 1)..31 : i \notin x}
<1> DEFINE low == CHOOSE i \in x : \A j \in x : i <= j
<1>1. \E i \in x : \A j \in x : i <= j
  <2>1. x \in SUBSET Nat
    OBVIOUS
  <2> QED
    BY <2>1, Least
<1>2. low \in x /\ \A j \in x : low <= j
  BY <1>1, Zenon
<1>3. Negate(x) = {low} \cup {i \in (low + 1)..31 : i \notin x}
  BY Zenon DEF Negate
<1> QED
  BY <1>2, <1>3, Zenon

(* Two's complement in w bits: of a negative number, the low w bits of its   *)
(* negation, negated.                                                        *)
LEMMA NegateTwice ==
    ASSUME NEW w \in {16, 32}, NEW x \in SUBSET (0..(w - 1)), w - 1 \in x
    PROVE  /\ Negate(Cut(Negate(x), w)) = x \cup w..31
           /\ Negate(x \cup w..31) = Cut(Negate(x), w)
<1>1. x \in SUBSET (0..31) /\ x # {} /\ x \cup w..31 \in SUBSET (0..31) /\ x \cup w..31 # {}
  OBVIOUS
<1>2. PICK low \in x : /\ \A i \in x : low <= i
                       /\ Negate(x) = {low} \cup {i \in (low + 1)..31 : i \notin x}
  BY <1>1, NegateIs
<1> DEFINE y == Cut(Negate(x), w)
<1>3. low \in 0..(w - 1) /\ w - 1 \in 0..31
  OBVIOUS
<1>4. y = {low} \cup {i \in (low + 1)..(w - 1) : i \notin x}
  BY <1>2, <1>3 DEF Cut
<1> HIDE DEF y
<1>5. y \in SUBSET (0..31) /\ low \in y /\ \A i \in y : low <= i
  BY <1>3, <1>4
<1>6. PICK l \in y : /\ \A i \in y : l <= i
                     /\ Negate(y) = {l} \cup {i \in (l + 1)..31 : i \notin y}
  <2>1. y # {}
    BY <1>5
  <2> QED
    BY <1>5, <2>1, NegateIs
<1>7. l = low
  BY <1>3, <1>5, <1>6
<1>8. Negate(y) = x \cup w..31
  <2>1. ASSUME NEW i \in 0..31 PROVE i \in Negate(y) <=> i \in x \cup w..31
    BY <1>2, <1>3, <1>4, <1>6, <1>7
  <2>2. Negate(y) \subseteq 0..31 /\ x \cup w..31 \subseteq 0..31
    BY <1>1, <1>3, <1>6, <1>7
  <2> QED
    BY <2>1, <2>2
<1>9. PICK m \in x \cup w..31 :
        /\ \A i \in x \cup w..31 : m <= i
        /\ Negate(x \cup w..31) = {m} \cup {i \in (m + 1)..31 : i \notin x \cup w..31}
  BY <1>1, NegateIs
<1>10. m = low
  <2>1. \A i \in x \cup w..31 : low <= i
    BY <1>2, <1>3
  <2>2. low <= m /\ m <= low
    BY <1>9, <2>1
  <2>3. m \in 0..31
    BY <1>1
  <2> QED
    BY <1>3, <2>2, <2>3
<1>11. Negate(x \cup w..31) = y
  <2>1. ASSUME NEW i \in 0..31 PROVE i \in Negate(x \cup w..31) <=> i \in y
    <3>1. i \in Negate(x \cup w..31) <=>
            (i = low \/ (i \in (low + 1)..31 /\ i \notin x \cup w..31))
      BY <1>9, <1>10
    <3>2. i \in y <=> (i = low \/ (i \in (low + 1)..(w - 1) /\ i \notin x))
      BY <1>4
    <3>3. (i \in (low + 1)..31 /\ i \notin w..31) <=> i \in (low + 1)..(w - 1)
      BY <1>3
    <3> QED
      BY <3>1, <3>2, <3>3
  <2>2. Negate(x \cup w..31) \subseteq 0..31 /\ y \subseteq 0..31
    BY <1>3, <1>5, <1>9, <1>10
  <2> QED
    BY <2>1, <2>2
<1> QED
  BY <1>8, <1>11 DEF y

(* bat of a whole register, and what is read from it.                        *)
LEMMA FieldIs ==
    ASSUME NEW w \in {16, 32}, NEW d \in SUBSET (0..(w - 1)), NEW sign \in BOOLEAN
    PROVE  Bat(d, 0, w, sign) = IF sign THEN SignExtended(d, w) ELSE d
<1> DEFINE field == ShiftRight(d \cap Cut(Shift(0..(w - 1), 0), 32), 0)
<1>1. Shift(0..(w - 1), 0) = 0..(w - 1)
  <2>1. \A i \in 0..(w - 1) : i + 0 = i
    OBVIOUS
  <2> QED
    BY <2>1 DEF Shift
<1>2. d \cap Cut(Shift(0..(w - 1), 0), 32) = d
  <2>1. 0..(w - 1) \cap 0..(32 - 1) = 0..(w - 1)
    OBVIOUS
  <2> QED
    BY <1>1, <2>1 DEF Cut
<1>3. field = d
  <2>1. {i - 0 : i \in d \cap 0..31} = d
    <3>1. ASSUME NEW i \in d PROVE i \in 0..31 /\ i - 0 = i
      <4>1. i \in 0..(w - 1)
        OBVIOUS
      <4> QED
        BY <4>1
    <3> QED
      BY <3>1
  <2>2. (IF 31 \in d THEN (32 - 0)..31 ELSE {}) = {}
    OBVIOUS
  <2> QED
    BY <1>2, <2>1, <2>2 DEF ShiftRight
<1>4. Bat(d, 0, w, sign) = IF sign /\ w = 1 THEN field
                           ELSE IF sign /\ w - 1 \in field
                                THEN Negate(Cut(Negate(field), w))
                           ELSE Cut(field, w)
  BY DEF Bat
<1> HIDE DEF field
<1>5. Cut(d, w) = d
  BY DEF Cut
<1>6. w - 1 \in d => Negate(Cut(Negate(d), w)) = d \cup w..31
  BY NegateTwice
<1> QED
  BY <1>3, <1>4, <1>5, <1>6 DEF SignExtended

-----------------------------------------------------------------------------
(* The bytes of an answer, and what parseHR puts together from them.  A      *)
(* number from 1 to 65536 has the address below it.                          *)
LEMMA AddressIs ==
    ASSUME NEW n \in Nat, n > 0, n <= Addresses
    PROVE  ReadBat(n) = n - 1 /\ \A v : WriteCo(n, v).addr = n - 1 /\ WriteHr(n, v).addr = n - 1
<1>1. n - 1 \in Nat /\ n - 1 < Addresses
  BY SMT DEF Addresses
<1>2. \A a \in Nat : a < Addresses => a % Addresses = a
  BY SMT DEF Addresses
<1>3. (n - 1) % Addresses = n - 1
  BY <1>1, <1>2, Zenon
<1> QED
  BY <1>3 DEF ReadBat, WriteCo, WriteHr

(* The two bytes of the answer for point k of a range.                       *)
LEMMA AnswerByte ==
    ASSUME NEW mem, NEW c \in Nat, c > 0, c <= Addresses, NEW n \in Nat, NEW k \in 0..(n - 1)
    PROVE  /\ Answer(mem, c, n)[2 * k] = mem[c - 1 + k][1]
           /\ Answer(mem, c, n)[2 * k + 1] = mem[c - 1 + k][2]
<1>1. ReadBat(c) = c - 1
  BY AddressIs
<1>2. 2 * k \in 0..(2 * n - 1) /\ 2 * k + 1 \in 0..(2 * n - 1)
  OBVIOUS
<1>3. /\ (2 * k) \div 2 = k /\ (2 * k) % 2 = 0
      /\ (2 * k + 1) \div 2 = k /\ (2 * k + 1) % 2 = 1
  OBVIOUS
<1>4. Answer(mem, c, n) =
        [i \in 0..(2 * n - 1) |-> mem[c - 1 + (i \div 2)][1 + (i % 2)]]
  BY <1>1 DEF Answer
<1>5. /\ Answer(mem, c, n)[2 * k] = mem[c - 1 + k][1 + 0]
      /\ Answer(mem, c, n)[2 * k + 1] = mem[c - 1 + k][1 + 1]
  <2>1. /\ Answer(mem, c, n)[2 * k] = mem[c - 1 + ((2 * k) \div 2)][1 + ((2 * k) % 2)]
        /\ Answer(mem, c, n)[2 * k + 1] =
             mem[c - 1 + ((2 * k + 1) \div 2)][1 + ((2 * k + 1) % 2)]
    BY <1>2, <1>4, Zenon
  <2> QED
    BY <1>3, <2>1, Zenon
<1>6. 1 + 0 = 1 /\ 1 + 1 = 2
  OBVIOUS
<1> QED
  BY <1>5, <1>6, Zenon

(* The bytes are joined one by one.                                          *)
LEMMA UnionOfTwo ==
    ASSUME NEW f PROVE UNION {f[k] : k \in 1..2} = f[1] \cup f[2]
<1>1. 1..2 = {1, 2}
  OBVIOUS
<1> QED
  BY <1>1, Zenon

LEMMA UnionOfFour ==
    ASSUME NEW f PROVE UNION {f[k] : k \in 1..4} = f[1] \cup f[2] \cup f[3] \cup f[4]
<1>1. 1..4 = {1, 2, 3, 4}
  OBVIOUS
<1> QED
  BY <1>1, Zenon

(* Byte k, in the order of the slave, of a register.                         *)
Byte(mem, e, k) == mem[e.num - 1 + ((k - 1) \div 2)][1 + ((k - 1) % 2)]

(* The bytes of a register in the order that analyticalType says.            *)
LEMMA Assembled16 ==
    ASSUME NEW b, NEW p \in Nat, NEW order \in {0, 1}
    PROVE  Assembled(b, p, 2, order) =
             IF order = 0 THEN Shift(b[p + 1], 0) \cup Shift(b[p], 8)
             ELSE Shift(b[p], 0) \cup Shift(b[p + 1], 8)
<1> DEFINE at == Places(2, order)
           f == [k \in 1..2 |-> Shift(b[p + at[k]], 8 * (k - 1))]
<1>1. at = IF order = 0 THEN <<1, 0>> ELSE <<0, 1>>
  BY DEF Places
<1>2. Len(at) = 2 /\ at[1] \in Nat /\ at[2] \in Nat
  BY <1>1
<1>3. Assembled(b, p, 2, order) = UNION {Shift(b[p + at[k]], 8 * (k - 1)) : k \in 1..2}
  BY <1>2 DEF Assembled
<1> HIDE DEF at
<1>4. {Shift(b[p + at[k]], 8 * (k - 1)) : k \in 1..2} = {f[k] : k \in 1..2}
  OBVIOUS
<1>5. f[1] = Shift(b[p + at[1]], 0) /\ f[2] = Shift(b[p + at[2]], 8)
  OBVIOUS
<1> HIDE DEF f
<1>6. Assembled(b, p, 2, order) = Shift(b[p + at[1]], 0) \cup Shift(b[p + at[2]], 8)
  BY <1>3, <1>4, <1>5, UnionOfTwo
<1>7. p + 0 = p
  OBVIOUS
<1>8. CASE order = 0
  <2>1. at[1] = 1 /\ at[2] = 0
    BY <1>1, <1>8
  <2> QED
    BY <1>6, <1>7, <1>8, <2>1
<1>9. CASE order = 1
  <2>1. at[1] = 0 /\ at[2] = 1
    BY <1>1, <1>9
  <2> QED
    BY <1>6, <1>7, <1>9, <2>1
<1> QED
  BY <1>8, <1>9

LEMMA Assembled32 ==
    ASSUME NEW b, NEW p \in Nat, NEW order \in 2..5
    PROVE  LET at == Places(4, order) IN
           /\ at \in [1..4 -> 0..3]
           /\ Assembled(b, p, 4, order) =
                Shift(b[p + at[1]], 0) \cup Shift(b[p + at[2]], 8)
                  \cup Shift(b[p + at[3]], 16) \cup Shift(b[p + at[4]], 24)
<1> DEFINE at == Places(4, order)
           f == [k \in 1..4 |-> Shift(b[p + at[k]], 8 * (k - 1))]
<1>1. at \in {<<3, 2, 1, 0>>, <<0, 1, 2, 3>>, <<2, 3, 0, 1>>, <<1, 0, 3, 2>>}
  BY DEF Places
<1>2. Len(at) = 4 /\ at \in [1..4 -> 0..3]
  BY <1>1
<1>3. Assembled(b, p, 4, order) = UNION {Shift(b[p + at[k]], 8 * (k - 1)) : k \in 1..4}
  BY <1>2 DEF Assembled
<1> HIDE DEF at
<1>4. {Shift(b[p + at[k]], 8 * (k - 1)) : k \in 1..4} = {f[k] : k \in 1..4}
  OBVIOUS
<1>5. /\ f[1] = Shift(b[p + at[1]], 0) /\ f[2] = Shift(b[p + at[2]], 8)
      /\ f[3] = Shift(b[p + at[3]], 16) /\ f[4] = Shift(b[p + at[4]], 24)
  OBVIOUS
<1> HIDE DEF f
<1> QED
  BY <1>2, <1>3, <1>4, <1>5, UnionOfFour DEF at

(* The words of a register as its bytes, each at its rank.                   *)
LEMMA WordUnion ==
    ASSUME NEW mem, NEW e, e.bits \in {16, 32}
    PROVE  LET part(k) == Shift(Byte(mem, e, k), 8 * (Ranks(e)[k] - 1)) IN
           /\ e.bits = 16 => Word(mem, e) = part(1) \cup part(2)
           /\ e.bits = 32 => Word(mem, e) = part(1) \cup part(2) \cup part(3) \cup part(4)
<1> DEFINE part(k) == Shift(Byte(mem, e, k), 8 * (Ranks(e)[k] - 1))
           f == [k \in 1..(e.bits \div 8) |-> part(k)]
<1>1. Word(mem, e) = UNION {part(k) : k \in 1..(e.bits \div 8)}
  BY Zenon DEF Word, Byte
<1> HIDE DEF part
<1>2. {part(k) : k \in 1..(e.bits \div 8)} = {f[k] : k \in 1..(e.bits \div 8)}
  OBVIOUS
<1>3. ASSUME e.bits = 16 PROVE Word(mem, e) = part(1) \cup part(2)
  <2>1. e.bits \div 8 = 2
    BY <1>3
  <2>2. f[1] = part(1) /\ f[2] = part(2)
    BY <2>1
  <2> HIDE DEF f
  <2> QED
    BY <1>1, <1>2, <2>1, <2>2, UnionOfTwo
<1>4. ASSUME e.bits = 32 PROVE Word(mem, e) = part(1) \cup part(2) \cup part(3) \cup part(4)
  <2>1. e.bits \div 8 = 4
    BY <1>4
  <2>2. f[1] = part(1) /\ f[2] = part(2) /\ f[3] = part(3) /\ f[4] = part(4)
    BY <2>1
  <2> HIDE DEF f
  <2> QED
    BY <1>1, <1>2, <2>1, <2>2, UnionOfFour
<1> QED
  BY <1>3, <1>4, Zenon DEF part

(* The words of a register, byte by byte, as the comments of parseHR rank    *)
(* them.                                                                     *)
LEMMA WordIs ==
    ASSUME NEW mem, NEW e, e.order \in 0..5, e.float \in BOOLEAN
    PROVE  LET b1 == Byte(mem, e, 1)
               b2 == Byte(mem, e, 2)
               b3 == Byte(mem, e, 3)
               b4 == Byte(mem, e, 4)
           IN
           /\ e.bits = 16 /\ ~e.float /\ e.order = 0 =>
                Word(mem, e) = Shift(b1, 8) \cup Shift(b2, 0)
           /\ e.bits = 16 /\ ~e.float /\ e.order = 1 =>
                Word(mem, e) = Shift(b1, 0) \cup Shift(b2, 8)
           /\ e.bits = 32 /\ (e.float \/ e.order = 2) =>
                Word(mem, e) = Shift(b1, 24) \cup Shift(b2, 16) \cup Shift(b3, 8) \cup Shift(b4, 0)
           /\ e.bits = 32 /\ ~e.float /\ e.order = 3 =>
                Word(mem, e) = Shift(b1, 0) \cup Shift(b2, 8) \cup Shift(b3, 16) \cup Shift(b4, 24)
           /\ e.bits = 32 /\ ~e.float /\ e.order = 4 =>
                Word(mem, e) = Shift(b1, 16) \cup Shift(b2, 24) \cup Shift(b3, 0) \cup Shift(b4, 8)
           /\ e.bits = 32 /\ ~e.float /\ e.order = 5 =>
                Word(mem, e) = Shift(b1, 8) \cup Shift(b2, 0) \cup Shift(b3, 24) \cup Shift(b4, 16)
<1> DEFINE part(k) == Shift(Byte(mem, e, k), 8 * (Ranks(e)[k] - 1))
<1>1. /\ e.bits = 16 => Word(mem, e) = part(1) \cup part(2)
      /\ e.bits = 32 => Word(mem, e) = part(1) \cup part(2) \cup part(3) \cup part(4)
  BY WordUnion
<1>2. Ranks(e) = << <<2, 1>>, <<1, 2>>, <<4, 3, 2, 1>>, <<1, 2, 3, 4>>,
                    <<3, 4, 1, 2>>, <<2, 1, 4, 3>> >>[IF e.float THEN 3 ELSE e.order + 1]
  BY DEF Ranks
<1>3. /\ ~e.float /\ e.order = 0 => Ranks(e) = <<2, 1>>
      /\ ~e.float /\ e.order = 1 => Ranks(e) = <<1, 2>>
      /\ e.float \/ e.order = 2 => Ranks(e) = <<4, 3, 2, 1>>
      /\ ~e.float /\ e.order = 3 => Ranks(e) = <<1, 2, 3, 4>>
      /\ ~e.float /\ e.order = 4 => Ranks(e) = <<3, 4, 1, 2>>
      /\ ~e.float /\ e.order = 5 => Ranks(e) = <<2, 1, 4, 3>>
  BY <1>2
<1>4. /\ ~e.float /\ e.order = 0 => Ranks(e)[1] = 2 /\ Ranks(e)[2] = 1
      /\ ~e.float /\ e.order = 1 => Ranks(e)[1] = 1 /\ Ranks(e)[2] = 2
      /\ e.float \/ e.order = 2 =>
           Ranks(e)[1] = 4 /\ Ranks(e)[2] = 3 /\ Ranks(e)[3] = 2 /\ Ranks(e)[4] = 1
      /\ ~e.float /\ e.order = 3 =>
           Ranks(e)[1] = 1 /\ Ranks(e)[2] = 2 /\ Ranks(e)[3] = 3 /\ Ranks(e)[4] = 4
      /\ ~e.float /\ e.order = 4 =>
           Ranks(e)[1] = 3 /\ Ranks(e)[2] = 4 /\ Ranks(e)[3] = 1 /\ Ranks(e)[4] = 2
      /\ ~e.float /\ e.order = 5 =>
           Ranks(e)[1] = 2 /\ Ranks(e)[2] = 1 /\ Ranks(e)[3] = 4 /\ Ranks(e)[4] = 3
  BY <1>3
<1>5. 8 * (1 - 1) = 0 /\ 8 * (2 - 1) = 8 /\ 8 * (3 - 1) = 16 /\ 8 * (4 - 1) = 24
  OBVIOUS
<1> DEFINE B(k) == Byte(mem, e, k)
           R(k) == Ranks(e)[k]
<1>6. \A k : part(k) = Shift(B(k), 8 * (R(k) - 1))
  OBVIOUS
<1> HIDE DEF part, B, R
<1>7. CASE e.bits = 16 /\ ~e.float /\ e.order = 0
  BY <1>1, <1>4, <1>5, <1>6, <1>7 DEF R, B
<1>8. CASE e.bits = 16 /\ ~e.float /\ e.order = 1
  BY <1>1, <1>4, <1>5, <1>6, <1>8 DEF R, B
<1>9. CASE e.bits = 32 /\ (e.float \/ e.order = 2)
  BY <1>1, <1>4, <1>5, <1>6, <1>9 DEF R, B
<1>10. CASE e.bits = 32 /\ ~e.float /\ e.order = 3
  BY <1>1, <1>4, <1>5, <1>6, <1>10 DEF R, B
<1>11. CASE e.bits = 32 /\ ~e.float /\ e.order = 4
  BY <1>1, <1>4, <1>5, <1>6, <1>11 DEF R, B
<1>12. CASE e.bits = 32 /\ ~e.float /\ e.order = 5
  BY <1>1, <1>4, <1>5, <1>6, <1>12 DEF R, B
<1> QED
  BY <1>7, <1>8, <1>9, <1>10, <1>11, <1>12

(* The answer b has the bytes of register e from p on.                       *)
Carries(b, p, mem, e) ==
    /\ b[p] = Byte(mem, e, 1) /\ b[p + 1] = Byte(mem, e, 2)
    /\ e.bits = 32 => b[p + 2] = Byte(mem, e, 3) /\ b[p + 3] = Byte(mem, e, 4)
    /\ \A k \in 1..(e.bits \div 8) : Byte(mem, e, k) \subseteq 0..7

(* parseHR puts the bytes together in the order that its comments say.       *)
LEMMA AssembledIsWord ==
    ASSUME NEW b, NEW p \in Nat, NEW mem, NEW e \in Entry, WellTyped(e), ~e.float,
           Carries(b, p, mem, e)
    PROVE  Assembled(b, p, e.bits \div 8, e.order) = Word(mem, e)
<1>1. e.order \in 0..5 /\ e.float \in BOOLEAN
  BY DEF Entry
<1> DEFINE b1 == Byte(mem, e, 1)
           b2 == Byte(mem, e, 2)
           b3 == Byte(mem, e, 3)
           b4 == Byte(mem, e, 4)
<1>2. b[p] = b1 /\ b[p + 1] = b2 /\ (e.bits = 32 => b[p + 2] = b3 /\ b[p + 3] = b4)
  BY DEF Carries
<1> HIDE DEF b1, b2, b3, b4
<1>3. CASE e.bits = 16
  <2>1. e.order \in {0, 1} /\ e.bits \div 8 = 2
    BY <1>1, <1>3 DEF WellTyped
  <2>2. Assembled(b, p, 2, e.order) = IF e.order = 0 THEN Shift(b2, 0) \cup Shift(b1, 8)
                                      ELSE Shift(b1, 0) \cup Shift(b2, 8)
    BY <1>2, <2>1, Assembled16
  <2>3. /\ e.order = 0 => Word(mem, e) = Shift(b1, 8) \cup Shift(b2, 0)
        /\ e.order = 1 => Word(mem, e) = Shift(b1, 0) \cup Shift(b2, 8)
    BY <1>1, <1>3, WordIs DEF b1, b2
  <2> QED
    BY <2>1, <2>2, <2>3
<1>4. CASE e.bits = 32
  <2>1. e.order \in 2..5 /\ e.bits \div 8 = 4
    BY <1>1, <1>4 DEF WellTyped
  <2> DEFINE at == Places(4, e.order)
  <2>2. Assembled(b, p, 4, e.order) =
          Shift(b[p + at[1]], 0) \cup Shift(b[p + at[2]], 8)
            \cup Shift(b[p + at[3]], 16) \cup Shift(b[p + at[4]], 24)
    BY <2>1, Assembled32
  <2>3. /\ e.order = 2 => at[1] = 3 /\ at[2] = 2 /\ at[3] = 1 /\ at[4] = 0
        /\ e.order = 3 => at[1] = 0 /\ at[2] = 1 /\ at[3] = 2 /\ at[4] = 3
        /\ e.order = 4 => at[1] = 2 /\ at[2] = 3 /\ at[3] = 0 /\ at[4] = 1
        /\ e.order = 5 => at[1] = 1 /\ at[2] = 0 /\ at[3] = 3 /\ at[4] = 2
    BY DEF Places
  <2> HIDE DEF at
  <2>4. p + 0 = p
    OBVIOUS
  <2>5. /\ e.order = 2 => Word(mem, e) = Shift(b1, 24) \cup Shift(b2, 16) \cup Shift(b3, 8) \cup Shift(b4, 0)
        /\ e.order = 3 => Word(mem, e) = Shift(b1, 0) \cup Shift(b2, 8) \cup Shift(b3, 16) \cup Shift(b4, 24)
        /\ e.order = 4 => Word(mem, e) = Shift(b1, 16) \cup Shift(b2, 24) \cup Shift(b3, 0) \cup Shift(b4, 8)
        /\ e.order = 5 => Word(mem, e) = Shift(b1, 8) \cup Shift(b2, 0) \cup Shift(b3, 24) \cup Shift(b4, 16)
    BY <1>1, <1>4, WordIs DEF b1, b2, b3, b4
  <2>6. CASE e.order = 2
    <3>1. Assembled(b, p, 4, e.order) =
            Shift(b4, 0) \cup Shift(b3, 8) \cup Shift(b2, 16) \cup Shift(b1, 24)
      BY <1>2, <1>4, <2>2, <2>3, <2>4, <2>6
    <3> QED
      BY <2>1, <2>5, <2>6, <3>1
  <2>7. CASE e.order = 3
    <3>1. Assembled(b, p, 4, e.order) =
            Shift(b1, 0) \cup Shift(b2, 8) \cup Shift(b3, 16) \cup Shift(b4, 24)
      BY <1>2, <1>4, <2>2, <2>3, <2>4, <2>7
    <3> QED
      BY <2>1, <2>5, <2>7, <3>1
  <2>8. CASE e.order = 4
    <3>1. Assembled(b, p, 4, e.order) =
            Shift(b3, 0) \cup Shift(b4, 8) \cup Shift(b1, 16) \cup Shift(b2, 24)
      BY <1>2, <1>4, <2>2, <2>3, <2>4, <2>8
    <3> QED
      BY <2>1, <2>5, <2>8, <3>1
  <2>9. CASE e.order = 5
    <3>1. Assembled(b, p, 4, e.order) =
            Shift(b2, 0) \cup Shift(b1, 8) \cup Shift(b4, 16) \cup Shift(b3, 24)
      BY <1>2, <1>4, <2>2, <2>3, <2>4, <2>9
    <3> QED
      BY <2>1, <2>5, <2>9, <3>1
  <2> QED
    BY <2>1, <2>6, <2>7, <2>8, <2>9
<1> QED
  BY <1>3, <1>4 DEF WellTyped

(* A register has no more bits than its width.                               *)
LEMMA ShiftBounds ==
    ASSUME NEW x \in SUBSET (0..7), NEW n \in Nat
    PROVE  Shift(x, n) \subseteq n..(n + 7)
<1>1. \A i \in x : i \in 0..7
  OBVIOUS
<1> QED
  BY <1>1 DEF Shift

LEMMA WordBounds ==
    ASSUME NEW b, NEW p, NEW mem, NEW e \in Entry, WellTyped(e), Carries(b, p, mem, e)
    PROVE  Word(mem, e) \in SUBSET (0..(e.bits - 1))
<1> DEFINE S(k) == Shift(Byte(mem, e, k), 8 * (Ranks(e)[k] - 1))
<1>1. \A k \in 1..(e.bits \div 8) : Byte(mem, e, k) \in SUBSET (0..7)
  BY DEF Carries
<1>2. e.order \in 0..5 /\ e.float \in BOOLEAN /\ e.bits \in {16, 32}
  BY DEF Entry, WellTyped
<1>3. \A k \in 1..(e.bits \div 8) : Ranks(e)[k] \in 1..(e.bits \div 8)
  BY <1>2 DEF Ranks, WellTyped
<1>4. ASSUME NEW k \in 1..(e.bits \div 8) PROVE S(k) \subseteq 0..(e.bits - 1)
  <2>1. 8 * (Ranks(e)[k] - 1) \in Nat /\ 8 * (Ranks(e)[k] - 1) + 7 <= e.bits - 1
    BY <1>2, <1>3
  <2>2. S(k) \subseteq (8 * (Ranks(e)[k] - 1))..(8 * (Ranks(e)[k] - 1) + 7)
    BY <1>1, <2>1, ShiftBounds
  <2> QED
    BY <1>2, <2>1, <2>2
<1>5. Word(mem, e) = UNION {S(k) : k \in 1..(e.bits \div 8)}
  BY Zenon DEF Word, Byte
<1> HIDE DEF S
<1> QED
  BY <1>4, <1>5

-----------------------------------------------------------------------------
(* The number that an int of the register's width stands for.                *)
LEMMA NumberIs ==
    ASSUME NEW w \in {16, 32}, NEW d \in SUBSET (0..(w - 1)), NEW sign \in BOOLEAN,
           w = 32 /\ ~sign => 31 \notin d
    PROVE  Number(IF sign THEN SignExtended(d, w) ELSE d) =
             IF sign /\ w - 1 \in d THEN [neg |-> TRUE, powers |-> Cut(Negate(d), w)]
             ELSE [neg |-> FALSE, powers |-> d]
<1> DEFINE x == IF sign THEN SignExtended(d, w) ELSE d
<1>1. CASE sign /\ w - 1 \in d
  <2>1. x = d \cup w..31
    BY <1>1 DEF SignExtended
  <2>2. 31 \in x
    BY <1>1, <2>1
  <2>3. Negate(x) = Cut(Negate(d), w)
    BY <1>1, <2>1, NegateTwice
  <2> HIDE DEF x
  <2>4. (31 \in x) = TRUE
    BY <2>2, Zenon
  <2>5. Number(x) = [neg |-> TRUE, powers |-> Negate(x)]
    BY <2>2, <2>4, Zenon DEF Number
  <2> QED
    BY <1>1, <2>3, <2>5 DEF x
<1>2. CASE ~(sign /\ w - 1 \in d)
  <2>1. x = d
    BY <1>2 DEF SignExtended
  <2>2. 31 \notin d
    BY <1>2
  <2> HIDE DEF x
  <2>3. (31 \in d) = FALSE
    BY <2>2
  <2>4. Number(d) = [neg |-> FALSE, powers |-> d]
    BY <2>2, <2>3, Zenon DEF Number
  <2> QED
    BY <1>2, <2>1, <2>4 DEF x
<1> QED
  BY <1>1, <1>2

(* An integer register has the value that its words have in the slave.       *)
LEMMA IntegerRead ==
    ASSUME NEW b, NEW p \in Nat, NEW mem, NEW e \in Entry, WellTyped(e), ~e.float,
           Carries(b, p, mem, e), Tellable(mem, e)
    PROVE  /\ Holding(b, p, e) = Meaning(mem, e)
           /\ e.bits = 16 => Input(b, p, e) = Meaning(mem, e)
<1>1. /\ e.bits \in {16, 32} /\ e.start = 0 /\ e.sign \in BOOLEAN
      /\ Word(mem, e) \in SUBSET (0..(e.bits - 1))
  BY WordBounds DEF WellTyped, Entry
<1>2. Assembled(b, p, e.bits \div 8, e.order) = Word(mem, e)
  BY AssembledIsWord
<1>3. e.bits = 32 /\ ~e.sign => 31 \notin Word(mem, e)
  BY DEF Tellable
<1> DEFINE word == Word(mem, e)
           x == IF e.sign THEN SignExtended(word, e.bits) ELSE word
<1>4. Bat(word, 0, e.bits, e.sign) = x
  <2> DEFINE w == e.bits
  <2>1. w \in {16, 32} /\ word \in SUBSET (0..(w - 1)) /\ e.sign \in BOOLEAN
    BY <1>1
  <2> HIDE DEF w, word
  <2>2. Bat(word, 0, w, e.sign) = IF e.sign THEN SignExtended(word, w) ELSE word
    BY <2>1, FieldIs
  <2> QED
    BY <2>2 DEF w
<1>5. Number(x) = IF e.sign /\ e.bits - 1 \in word
                  THEN [neg |-> TRUE, powers |-> Cut(Negate(word), e.bits)]
                  ELSE [neg |-> FALSE, powers |-> word]
  BY <1>1, <1>3, NumberIs
<1>6. Meaning(mem, e) = IF e.sign /\ e.bits - 1 \in word
                  THEN [neg |-> TRUE, powers |-> Cut(Negate(word), e.bits)]
                  ELSE [neg |-> FALSE, powers |-> word]
  BY DEF Meaning
<1> HIDE DEF word, x
<1>7. Holding(b, p, e) = Number(x)
  BY <1>1, <1>2, <1>4 DEF Holding, word
<1>8. ASSUME e.bits = 16 PROVE Input(b, p, e) = Number(x)
  <2>1. Cut(word, 16) = word
    BY <1>1, <1>8 DEF Cut, word
  <2>2. Input(b, p, e) = Number(Bat(Cut(word, 16), 0, e.bits, e.sign))
    BY <1>1, <1>2 DEF Input, word
  <2> QED
    BY <1>4, <2>1, <2>2
<1> QED
  BY <1>5, <1>6, <1>7, <1>8

-----------------------------------------------------------------------------
(* The exponent that getbitu reads, most significant bit first.              *)
LEMMA ExpIs ==
    ASSUME NEW b, NEW p
    PROVE  LET d(i) == IF Getbitu(b, p, i) THEN 1 ELSE 0 IN
           Exp(b, p) = 128 * d(1) + 64 * d(2) + 32 * d(3) + 16 * d(4)
                         + 8 * d(5) + 4 * d(6) + 2 * d(7) + d(8)
<1> DEFINE d(i) == IF Getbitu(b, p, i) THEN 1 ELSE 0
           G(f) == f = [i \in 0..8 |-> IF i = 0 THEN 0 ELSE 2 * f[i - 1] + d(i)]
           f == CHOOSE f : G(f)
<1>1. \A i : d(i) \in {0, 1}
  OBVIOUS
<1>2. Exp(b, p) = f[8]
  BY Zenon DEF Exp
<1> HIDE DEF d
<1>3. \E g : G(g)
  <2> DEFINE e1 == d(1)
             e2 == 2 * e1 + d(2)
             e3 == 2 * e2 + d(3)
             e4 == 2 * e3 + d(4)
             e5 == 2 * e4 + d(5)
             e6 == 2 * e5 + d(6)
             e7 == 2 * e6 + d(7)
             e8 == 2 * e7 + d(8)
             g == [i \in 0..8 |->
                     IF i = 0 THEN 0 ELSE IF i = 1 THEN e1 ELSE IF i = 2 THEN e2
                     ELSE IF i = 3 THEN e3 ELSE IF i = 4 THEN e4 ELSE IF i = 5 THEN e5
                     ELSE IF i = 6 THEN e6 ELSE IF i = 7 THEN e7 ELSE e8]
  <2>1. /\ g[0] = 0 /\ g[1] = e1 /\ g[2] = e2 /\ g[3] = e3 /\ g[4] = e4
        /\ g[5] = e5 /\ g[6] = e6 /\ g[7] = e7 /\ g[8] = e8
    <3> HIDE DEF e1, e2, e3, e4, e5, e6, e7, e8
    <3> QED
      OBVIOUS
  <2>2. g = [i \in 0..8 |-> g[i]]
    OBVIOUS
  <2> HIDE DEF g
  <2>3. \A i \in 0..8 : g[i] = IF i = 0 THEN 0 ELSE 2 * g[i - 1] + d(i)
    <3>1. d(1) \in Int
      BY <1>1
    <3> QED
      BY <2>1, <3>1
  <2>4. g = [i \in 0..8 |-> IF i = 0 THEN 0 ELSE 2 * g[i - 1] + d(i)]
    BY <2>2, <2>3
  <2> HIDE DEF e1
  <2> QED
    BY <2>4
<1>4. G(f)
  BY <1>3, Zenon
<1> HIDE DEF f
<1>5. f[0] = 0 /\ \A i \in 1..8 : f[i] = 2 * f[i - 1] + d(i)
  BY <1>4
<1>6. f[1] = d(1)
  BY <1>1, <1>5
<1>7. f[2] = 2 * d(1) + d(2)
  BY <1>1, <1>5, <1>6
<1>8. f[3] = 4 * d(1) + 2 * d(2) + d(3)
  BY <1>1, <1>5, <1>7
<1>9. f[4] = 8 * d(1) + 4 * d(2) + 2 * d(3) + d(4)
  BY <1>1, <1>5, <1>8
<1>10. f[6] = 32 * d(1) + 16 * d(2) + 8 * d(3) + 4 * d(4) + 2 * d(5) + d(6)
  <2>1. f[5] = 16 * d(1) + 8 * d(2) + 4 * d(3) + 2 * d(4) + d(5)
    BY <1>1, <1>5, <1>9
  <2> QED
    BY <1>1, <1>5, <2>1
<1>11. f[8] = 128 * d(1) + 64 * d(2) + 32 * d(3) + 16 * d(4)
                + 8 * d(5) + 4 * d(6) + 2 * d(7) + d(8)
  <2>1. f[7] = 64 * d(1) + 32 * d(2) + 16 * d(3) + 8 * d(4) + 4 * d(5) + 2 * d(6) + d(7)
    BY <1>1, <1>5, <1>10
  <2> QED
    BY <1>1, <1>5, <2>1
<1> QED
  BY <1>2, <1>11 DEF d

(* The exponent of IEEE 754.                                                 *)
LEMMA ExponentIs ==
    ASSUME NEW word
    PROVE  LET d(i) == IF i \in word THEN 1 ELSE 0 IN
           Exponent(word) = 128 * d(30) + 64 * d(29) + 32 * d(28) + 16 * d(27)
                              + 8 * d(26) + 4 * d(25) + 2 * d(24) + d(23)
<1> DEFINE d(i) == IF i \in word THEN 1 ELSE 0
           t(i) == IF i \in word THEN 2^(i - 23) ELSE 0
           G(f) == f = [i \in 22..30 |-> IF i = 22 THEN 0 ELSE f[i - 1] + t(i)]
           f == CHOOSE f : G(f)
<1>1. /\ t(23) = d(23) /\ t(24) = 2 * d(24) /\ t(25) = 4 * d(25) /\ t(26) = 8 * d(26)
      /\ t(27) = 16 * d(27) /\ t(28) = 32 * d(28) /\ t(29) = 64 * d(29)
      /\ t(30) = 128 * d(30)
  OBVIOUS
<1>2. \A i : d(i) \in {0, 1}
  OBVIOUS
<1>3. Exponent(word) = f[30]
  BY Zenon DEF Exponent
<1> HIDE DEF d, t
<1>4. \E g : G(g)
  <2> DEFINE e1 == t(23)
             e2 == e1 + t(24)
             e3 == e2 + t(25)
             e4 == e3 + t(26)
             e5 == e4 + t(27)
             e6 == e5 + t(28)
             e7 == e6 + t(29)
             e8 == e7 + t(30)
             g == [i \in 22..30 |->
                     IF i = 22 THEN 0 ELSE IF i = 23 THEN e1 ELSE IF i = 24 THEN e2
                     ELSE IF i = 25 THEN e3 ELSE IF i = 26 THEN e4 ELSE IF i = 27 THEN e5
                     ELSE IF i = 28 THEN e6 ELSE IF i = 29 THEN e7 ELSE e8]
  <2>1. /\ g[22] = 0 /\ g[23] = e1 /\ g[24] = e2 /\ g[25] = e3 /\ g[26] = e4
        /\ g[27] = e5 /\ g[28] = e6 /\ g[29] = e7 /\ g[30] = e8
    <3> HIDE DEF e1, e2, e3, e4, e5, e6, e7, e8
    <3> QED
      OBVIOUS
  <2>2. g = [i \in 22..30 |-> g[i]]
    OBVIOUS
  <2> HIDE DEF g
  <2>3. \A i \in 22..30 : g[i] = IF i = 22 THEN 0 ELSE g[i - 1] + t(i)
    <3>1. t(23) \in Int
      BY <1>1, <1>2
    <3> QED
      BY <2>1, <3>1
  <2>4. g = [i \in 22..30 |-> IF i = 22 THEN 0 ELSE g[i - 1] + t(i)]
    BY <2>2, <2>3
  <2> QED
    BY <2>4
<1>5. G(f)
  BY <1>4, Zenon
<1> HIDE DEF f
<1>6. f[22] = 0 /\ \A i \in 23..30 : f[i] = f[i - 1] + t(i)
  BY <1>5
<1>7. f[24] = d(23) + 2 * d(24)
  <2>1. f[23] = d(23)
    BY <1>1, <1>2, <1>6
  <2> QED
    BY <1>1, <1>2, <1>6, <2>1
<1>8. f[26] = d(23) + 2 * d(24) + 4 * d(25) + 8 * d(26)
  <2>1. f[25] = d(23) + 2 * d(24) + 4 * d(25)
    BY <1>1, <1>2, <1>6, <1>7
  <2> QED
    BY <1>1, <1>2, <1>6, <2>1
<1>9. f[28] = d(23) + 2 * d(24) + 4 * d(25) + 8 * d(26) + 16 * d(27) + 32 * d(28)
  <2>1. f[27] = d(23) + 2 * d(24) + 4 * d(25) + 8 * d(26) + 16 * d(27)
    BY <1>1, <1>2, <1>6, <1>8
  <2> QED
    BY <1>1, <1>2, <1>6, <2>1
<1>10. f[30] = d(23) + 2 * d(24) + 4 * d(25) + 8 * d(26) + 16 * d(27) + 32 * d(28)
                 + 64 * d(29) + 128 * d(30)
  <2>1. f[29] = d(23) + 2 * d(24) + 4 * d(25) + 8 * d(26) + 16 * d(27) + 32 * d(28)
                  + 64 * d(29)
    BY <1>1, <1>2, <1>6, <1>9
  <2> QED
    BY <1>1, <1>2, <1>6, <2>1
<1>11. Exponent(word) = 128 * d(30) + 64 * d(29) + 32 * d(28) + 16 * d(27)
                          + 8 * d(26) + 4 * d(25) + 2 * d(24) + d(23)
  BY <1>2, <1>3, <1>10
<1> QED
  BY <1>11 DEF d

(* A bit of an answer that carries a float.                                  *)
LEMMA ShiftMember ==
    ASSUME NEW x \in SUBSET (0..7), NEW n \in Nat, NEW i \in Int
    PROVE  i \in Shift(x, n) <=> i - n \in x
<1>1. ASSUME i \in Shift(x, n) PROVE i - n \in x
  <2>1. PICK j \in x : i = j + n
    BY <1>1 DEF Shift
  <2>2. j \in 0..7
    OBVIOUS
  <2>3. i - n = j
    BY <2>1, <2>2
  <2> QED
    BY <2>1, <2>3
<1>2. ASSUME i - n \in x PROVE i \in Shift(x, n)
  <2>1. (i - n) + n = i
    OBVIOUS
  <2> QED
    BY <1>2, <2>1 DEF Shift
<1> QED
  BY <1>1, <1>2

LEMMA FloatBits ==
    ASSUME NEW b, NEW p \in Nat, NEW mem, NEW e \in Entry, WellTyped(e), e.float,
           Carries(b, p, mem, e), NEW i \in 0..31
    PROVE  Getbitu(b, p, i) <=> 31 - i \in Word(mem, e)
<1> DEFINE b1 == Byte(mem, e, 1)
           b2 == Byte(mem, e, 2)
           b3 == Byte(mem, e, 3)
           b4 == Byte(mem, e, 4)
<1>1. e.bits = 32 /\ e.order \in 0..5 /\ e.float \in BOOLEAN
  BY DEF WellTyped, Entry
<1>2. b[p] = b1 /\ b[p + 1] = b2 /\ b[p + 2] = b3 /\ b[p + 3] = b4
  BY <1>1 DEF Carries
<1>3. /\ b1 \in SUBSET (0..7) /\ b2 \in SUBSET (0..7)
      /\ b3 \in SUBSET (0..7) /\ b4 \in SUBSET (0..7)
  <2>1. 1 \in 1..(e.bits \div 8) /\ 2 \in 1..(e.bits \div 8)
        /\ 3 \in 1..(e.bits \div 8) /\ 4 \in 1..(e.bits \div 8)
    BY <1>1
  <2> HIDE DEF b1, b2, b3, b4
  <2> QED
    BY <2>1 DEF Carries, b1, b2, b3, b4
<1>4. Word(mem, e) = Shift(b1, 24) \cup Shift(b2, 16) \cup Shift(b3, 8) \cup Shift(b4, 0)
  BY <1>1, WordIs
<1> HIDE DEF b1, b2, b3, b4
<1> DEFINE j == 31 - i
<1>5. j \in 0..31
  OBVIOUS
<1>6. /\ j \in Shift(b1, 24) <=> j - 24 \in b1
      /\ j \in Shift(b2, 16) <=> j - 16 \in b2
      /\ j \in Shift(b3, 8) <=> j - 8 \in b3
      /\ j \in Shift(b4, 0) <=> j - 0 \in b4
  BY <1>3, <1>5, ShiftMember
<1>7. j \in Word(mem, e) <=> (j - 24 \in b1 \/ j - 16 \in b2 \/ j - 8 \in b3 \/ j - 0 \in b4)
  BY <1>4, <1>6
<1>8. CASE i \in 0..7
  <2>1. i \div 8 = 0 /\ 7 - (i % 8) = j - 24 /\ j - 16 \notin 0..7 /\ j - 8 \notin 0..7
        /\ j - 0 \notin 0..7 /\ p + (i \div 8) = p
    BY <1>8
  <2>2. Getbitu(b, p, i) <=> j - 24 \in b1
    BY <1>2, <2>1 DEF Getbitu
  <2> QED
    BY <1>3, <1>7, <2>1, <2>2
<1>9. CASE i \in 8..15
  <2>1. i \div 8 = 1 /\ 7 - (i % 8) = j - 16 /\ j - 24 \notin 0..7 /\ j - 8 \notin 0..7
        /\ j - 0 \notin 0..7 /\ p + (i \div 8) = p + 1
    BY <1>9
  <2>2. Getbitu(b, p, i) <=> j - 16 \in b2
    BY <1>2, <2>1 DEF Getbitu
  <2> QED
    BY <1>3, <1>7, <2>1, <2>2
<1>10. CASE i \in 16..23
  <2>1. i \div 8 = 2 /\ 7 - (i % 8) = j - 8 /\ j - 24 \notin 0..7 /\ j - 16 \notin 0..7
        /\ j - 0 \notin 0..7 /\ p + (i \div 8) = p + 2
    BY <1>10
  <2>2. Getbitu(b, p, i) <=> j - 8 \in b3
    BY <1>2, <2>1 DEF Getbitu
  <2> QED
    BY <1>3, <1>7, <2>1, <2>2
<1>11. CASE i \in 24..31
  <2>1. i \div 8 = 3 /\ 7 - (i % 8) = j - 0 /\ j - 24 \notin 0..7 /\ j - 16 \notin 0..7
        /\ j - 8 \notin 0..7 /\ p + (i \div 8) = p + 3
    BY <1>11
  <2>2. Getbitu(b, p, i) <=> j - 0 \in b4
    BY <1>2, <2>1 DEF Getbitu
  <2> QED
    BY <1>3, <1>7, <2>1, <2>2
<1>12. i \in 0..7 \/ i \in 8..15 \/ i \in 16..23 \/ i \in 24..31
  OBVIOUS
<1> QED
  BY <1>8, <1>9, <1>10, <1>11, <1>12

(* A float has the value that IEEE 754 gives its words in the slave.         *)
LEMMA FloatRead ==
    ASSUME NEW b, NEW p \in Nat, NEW mem, NEW e \in Entry, WellTyped(e), e.float,
           Carries(b, p, mem, e)
    PROVE  HexToFloat(b, p) = Meaning(mem, e)
<1> DEFINE word == Word(mem, e)
           X == Exponent(word)
           E == Exp(b, p)
           P == {E - 127 - k : k \in {0} \cup {j \in 1..23 : Getbitu(b, p, 8 + j)}}
           Q == {X - 127} \cup {X - 150 + j : j \in word \cap 0..22}
<1>1. \A i \in 0..31 : Getbitu(b, p, i) <=> 31 - i \in word
  BY FloatBits
<1> HIDE DEF word
<1>2. E = X /\ X \in Int
  <2> DEFINE g(i) == IF Getbitu(b, p, i) THEN 1 ELSE 0
             d(i) == IF i \in word THEN 1 ELSE 0
  <2>1. /\ g(1) = d(30) /\ g(2) = d(29) /\ g(3) = d(28) /\ g(4) = d(27)
        /\ g(5) = d(26) /\ g(6) = d(25) /\ g(7) = d(24) /\ g(8) = d(23)
    BY <1>1
  <2>2. E = 128 * g(1) + 64 * g(2) + 32 * g(3) + 16 * g(4)
              + 8 * g(5) + 4 * g(6) + 2 * g(7) + g(8)
    BY ExpIs
  <2>3. X = 128 * d(30) + 64 * d(29) + 32 * d(28) + 16 * d(27)
              + 8 * d(26) + 4 * d(25) + 2 * d(24) + d(23)
    BY ExponentIs
  <2>4. \A i : d(i) \in {0, 1}
    OBVIOUS
  <2> HIDE DEF g, d, E, X
  <2> QED
    BY <2>1, <2>2, <2>3, <2>4
<1>3. Getbitu(b, p, 0) <=> 31 \in word
  BY <1>1
<1>4. \A k \in 1..23 : Getbitu(b, p, 8 + k) <=> 23 - k \in word
  BY <1>1
<1>5. P = Q
  <2> HIDE DEF E, X
  <2>1. ASSUME NEW k \in {0} \cup {j \in 1..23 : Getbitu(b, p, 8 + j)}
        PROVE  E - 127 - k \in Q
    <3>1. CASE k = 0
      BY <1>2, <3>1
    <3>2. CASE k \in 1..23 /\ Getbitu(b, p, 8 + k)
      <4>1. 23 - k \in word \cap 0..22
        BY <1>4, <3>2
      <4>2. E - 127 - k = X - 150 + (23 - k)
        BY <1>2, <3>2
      <4> QED
        BY <4>1, <4>2
    <3> QED
      BY <3>1, <3>2
  <2>2. X - 127 \in P
    <3>1. X - 127 = E - 127 - 0
      BY <1>2
    <3> QED
      BY <3>1
  <2>3. ASSUME NEW j \in word \cap 0..22 PROVE X - 150 + j \in P
    <3>1. 23 - j \in 1..23 /\ 23 - (23 - j) = j
      OBVIOUS
    <3>2. Getbitu(b, p, 8 + (23 - j))
      BY <1>4, <3>1
    <3>3. X - 150 + j = E - 127 - (23 - j)
      BY <1>2
    <3> QED
      BY <3>1, <3>2, <3>3
  <2> QED
    BY <2>1, <2>2, <2>3
<1>6. Meaning(mem, e) = [neg |-> 31 \in word, powers |-> Q]
  BY Zenon DEF Meaning, word
<1>7. HexToFloat(b, p) = [neg |-> Getbitu(b, p, 0), powers |-> P]
  BY Zenon DEF HexToFloat
<1> HIDE DEF P, Q
<1>8. Getbitu(b, p, 0) = (31 \in word)
  BY <1>3 DEF Getbitu
<1> QED
  BY <1>5, <1>6, <1>7, <1>8, Zenon

-----------------------------------------------------------------------------
(* A range begins where a register does.                                     *)
Starts ==
    devices = 1 /\ PlainRegs =>
        \A c \in DOMAIN hrRanges : \E i \in 1..Len(hr) : hr[i].num = c

(* MBTYPES keeps it so: only addRegister inserts a range, at its register.   *)
LEMMA StartsStep == Types /\ Starts /\ [Next]_vars => Starts'
<1> SUFFICES ASSUME Types, Starts, [Next]_vars, devices' = 1, PlainRegs',
                    NEW c \in DOMAIN hrRanges'
             PROVE  \E i \in 1..Len(hr') : hr'[i].num = c
  BY DEF Starts
<1>1. CASE AddDevice
  <2>1. devices = 0 /\ hrRanges' = hrRanges
    BY <1>1, PlanAssumption DEF AddDevice, Types
  <2> QED
    BY <2>1 DEF Types
<1>2. CASE AddRegister
  <2> DEFINE k == Len(hr)
             e == regs[k + 1]
  <2>1. /\ devices = 1 /\ PlainRegs /\ hrRanges' = RegisterRanges(hrRanges, e)
        /\ hr' = Append(hr, e) /\ k < Len(regs)
    BY <1>2 DEF AddRegister, PlainRegs, Words
  <2>2. /\ hr \in Seq(Entry) /\ regs \in Seq(Entry) /\ Prefix(hr, regs) /\ k \in Nat
        /\ Ranges(hrRanges)
    BY DEF Types
  <2>3. Len(hr') = k + 1 /\ hr'[k + 1] = e /\ \A i \in 1..k : hr'[i] = hr[i]
    BY <2>1, <2>2, PrefixAppend
  <2>4. e.num \in Nat /\ Words(e) \in Nat
    BY <2>1, <2>2, TemplateTypes
  <2> HIDE DEF e, k
  <2>5. DOMAIN hrRanges' \subseteq DOMAIN hrRanges \cup {e.num}
    <3>1. DOMAIN Insert(hrRanges, e.num, Words(e)) = DOMAIN hrRanges \cup {e.num}
      BY DEF Insert
    <3>2. DOMAIN Extend(hrRanges, Words(e)) = DOMAIN hrRanges
      BY DEF Extend
    <3> QED
      BY <2>1, <3>1, <3>2 DEF RegisterRanges
  <2>6. CASE c \in DOMAIN hrRanges
    <3>1. PICK i \in 1..k : hr[i].num = c
      BY <2>1, <2>6 DEF Starts, k
    <3>2. i \in 1..Len(hr')
      BY <2>2, <2>3
    <3> QED
      BY <2>3, <3>1, <3>2
  <2>7. CASE c = e.num
    <3>1. k + 1 \in 1..Len(hr')
      BY <2>2, <2>3
    <3> QED
      BY <2>3, <2>7, <3>1
  <2> QED
    BY <2>5, <2>6, <2>7
<1>3. CASE AddCoil \/ UNCHANGED vars
  BY <1>3 DEF AddCoil, vars, Starts, PlainRegs, Words
<1> QED
  BY <1>1, <1>2, <1>3 DEF Next

(* The registers that have been added, of a template without surprises.      *)
LEMMA RegisterFacts ==
    ASSUME Types, PlainRegs, NEW i \in 1..Len(hr)
    PROVE  /\ hr[i] \in Entry /\ hr[i].num \in Nat /\ Words(hr[i]) \in {1, 2}
           /\ hr[i].bits = 16 * Words(hr[i])
           /\ \A j \in 1..Len(hr) : i < j => hr[i].num + Words(hr[i]) <= hr[j].num
<1>1. /\ Len(hr) \in Nat /\ Len(regs) \in Nat /\ Prefix(hr, regs)
      /\ hr \in Seq(Entry)
  BY DEF Types
<1>2. i \in 1..Len(regs) /\ hr[i] = regs[i]
      /\ \A j \in 1..Len(hr) : j \in 1..Len(regs) /\ hr[j] = regs[j]
  BY <1>1 DEF Prefix
<1>3. /\ regs[i].num \in Nat /\ Words(regs[i]) \in {1, 2}
      /\ \A j \in 1..Len(regs) : i < j => regs[i].num + Words(regs[i]) <= regs[j].num
  BY <1>2, WordsOf
<1>4. regs[i].bits = 16 * Words(regs[i])
  <2>1. regs[i].bits \in {16, 32}
    BY <1>2 DEF PlainRegs
  <2> QED
    BY <2>1 DEF Words
<1>5. hr[i] \in Entry
  BY <1>1
<1> QED
  BY <1>2, <1>3, <1>4, <1>5

(* The words of register j.                                                  *)
Extent(j) == hr[j].num..(hr[j].num + Words(hr[j]) - 1)

(* No word belongs to two of them.                                           *)
LEMMA ExtentsApart ==
    ASSUME Types, PlainRegs, NEW i \in 1..Len(hr), NEW j \in 1..Len(hr),
           NEW a \in Extent(i), a \in Extent(j)
    PROVE  i = j
<1>1. /\ hr[i].num \in Nat /\ Words(hr[i]) \in {1, 2}
      /\ hr[j].num \in Nat /\ Words(hr[j]) \in {1, 2}
      /\ i < j => hr[i].num + Words(hr[i]) <= hr[j].num
      /\ j < i => hr[j].num + Words(hr[j]) <= hr[i].num
  BY RegisterFacts
<1>2. i \in Int /\ j \in Int
  BY DEF Types
<1> DEFINE x == hr[i].num
           y == hr[j].num
           m == Words(hr[i])
           n == Words(hr[j])
<1>3. a \in x..(x + m - 1) /\ a \in y..(y + n - 1)
  BY Zenon DEF Extent
<1>4. /\ x \in Nat /\ y \in Nat /\ m \in Nat /\ n \in Nat
      /\ i < j => x + m <= y
      /\ j < i => y + n <= x
  BY <1>1
<1> HIDE DEF x, y, m, n
<1>5. ~(i < j) /\ ~(j < i)
  BY <1>3, <1>4
<1> QED
  BY <1>2, <1>5

(* A range is made of whole registers.                                       *)
LEMMA RangeOfRegisters ==
    ASSUME Types, RegInv, Starts, devices = 1, PlainRegs,
           NEW c \in DOMAIN hrRanges, NEW a \in Span(hrRanges, c)
    PROVE  \E j \in 1..Len(hr) : a \in Extent(j) /\ Extent(j) \subseteq Span(hrRanges, c)
<1>1. /\ Points(hrRanges) = RegisterWords /\ Apart(hrRanges)
      /\ \A d \in DOMAIN hrRanges : d \in Nat /\ hrRanges[d] \in Nat
  BY DEF RegInv, Types, Ranges, IsRanges
<1>2. a \in RegisterWords
  BY <1>1 DEF Points, Span
<1>3. PICK j \in 1..Len(hr) : a \in Extent(j)
  BY <1>2 DEF RegisterWords, Extent
<1>4. hr[j].num \in Nat /\ Words(hr[j]) \in {1, 2} /\ a \in Nat
  BY <1>1, <1>3, RegisterFacts DEF Extent
<1>5. ASSUME NEW b \in Extent(j) PROVE b \in Span(hrRanges, c)
  <2>1. b \in Points(hrRanges) /\ b \in Nat
    BY <1>1, <1>4, <1>5 DEF RegisterWords, Extent
  <2>2. PICK d \in DOMAIN hrRanges : b \in Span(hrRanges, d)
    BY <2>1 DEF Points, Span
  <2>3. ASSUME NEW x \in Extent(j), NEW y \in Extent(j), x < y,
               NEW z \in DOMAIN hrRanges, y \in Span(hrRanges, z)
        PROVE  x \in Span(hrRanges, z)
    <3>0. /\ x \in Nat /\ y \in Nat /\ hr[j].num <= x /\ x < y
          /\ y <= hr[j].num + Words(hr[j]) - 1 /\ z <= y /\ y <= z + hrRanges[z] - 1
      <4>1. x \in hr[j].num..(hr[j].num + Words(hr[j]) - 1)
            /\ y \in hr[j].num..(hr[j].num + Words(hr[j]) - 1)
        BY DEF Extent
      <4>2. y \in z..(z + hrRanges[z] - 1)
        BY <2>3 DEF Span
      <4>3. z \in Nat /\ hrRanges[z] \in Nat
        BY <1>1
      <4> QED
        BY <1>4, <2>3, <4>1, <4>2, <4>3
    <3>1. PICK s \in 1..Len(hr) : hr[s].num = z
      BY DEF Starts
    <3>2. z \in Extent(s) /\ z \in Nat /\ hrRanges[z] \in Nat
      <4>1. z \in Nat /\ hrRanges[z] \in Nat /\ Words(hr[s]) \in {1, 2}
        BY <1>1, RegisterFacts
      <4>2. z \in z..(z + Words(hr[s]) - 1)
        BY <4>1
      <4> QED
        BY <3>1, <4>1, <4>2 DEF Extent
    <3>3. CASE z > x
      <4>1. z \in Extent(j)
        <5>1. z \in hr[j].num..(hr[j].num + Words(hr[j]) - 1)
          <6>1. z \in Nat /\ Words(hr[j]) \in Int /\ hr[j].num \in Int
            BY <1>4, <3>2
          <6> QED
            BY <3>0, <3>3, <6>1
        <5> QED
          BY <5>1 DEF Extent
      <4>2. s = j
        BY <3>2, <4>1, ExtentsApart
      <4> QED
        BY <1>4, <3>1, <3>3, <4>2 DEF Extent
    <3>4. CASE ~(z > x)
      <4>1. x \in z..(z + hrRanges[z] - 1)
        <5>1. z \in Nat /\ hrRanges[z] \in Nat
          BY <3>2
        <5> QED
          BY <3>0, <3>4, <5>1
      <4> QED
        BY <4>1 DEF Span
    <3> QED
      BY <3>3, <3>4
  <2>4. CASE a = b
    BY <2>4
  <2>5. CASE b < a
    BY <1>3, <1>5, <2>3, <2>5
  <2>6. CASE a < b
    <3>1. a \in Span(hrRanges, d)
      BY <1>3, <1>5, <2>2, <2>3, <2>6
    <3>2. c = d
      BY <1>1, <3>1 DEF Apart, Span
    <3> QED
      BY <2>2, <3>2
  <2> QED
    BY <1>4, <2>1, <2>4, <2>5, <2>6
<1> QED
  BY <1>3, <1>5

(* The invariant that the values rest on.                                    *)
LEMMA StartsInvariant == Spec => [](Types /\ RegInv /\ Starts)
<1>1. Init => RegInv /\ Starts
  BY DEF Init, RegInv, Starts
<1> QED
  BY <1>1, TypesInit, TypesStep, RegStep, StartsStep, PTL DEF Spec

(* Byte m of a range of d points is of one of them.                          *)
LEMMA PointOfByte ==
    ASSUME NEW d \in Nat, NEW m \in 1..(2 * d)
    PROVE  (m - 1) \div 2 \in 0..(d - 1)
<1> DEFINE q == (m - 1) \div 2
<1>1. q \in Nat /\ 2 * q <= m - 1
  OBVIOUS
<1> HIDE DEF q
<1>2. 2 * q <= 2 * d - 1
  BY <1>1
<1> QED
  BY <1>1, <1>2 DEF q

(* A register of w words at x, of which byte m of the range is byte k.       *)
LEMMA ByteOfWord ==
    ASSUME NEW c \in Nat, NEW x \in Nat, NEW w \in {1, 2}, NEW m \in Nat, m >= 1,
           c + ((m - 1) \div 2) \in x..(x + w - 1)
    PROVE  m - 2 * (x - c) \in 1..(2 * w)
<1> DEFINE q == (m - 1) \div 2
<1>1. q \in Nat /\ 2 * q <= m - 1 /\ m - 1 <= 2 * q + 1
  OBVIOUS
<1>2. x <= c + q /\ c + q <= x + w - 1
  OBVIOUS
<1> HIDE DEF q
<1>3. 1 <= m - 2 * (x - c) /\ m - 2 * (x - c) <= 2 * w
  <2>1. w \in Nat
    OBVIOUS
  <2> QED
    BY <1>1, <1>2, <2>1
<1> QED
  BY <1>3

LEMMA WordOfByte ==
    ASSUME NEW c \in Nat, NEW x \in Nat, NEW a \in Nat, NEW w \in {1, 2},
           c <= x, x + w <= a, NEW k \in 1..(2 * w), NEW m, m = k + 2 * (x - c)
    PROVE  /\ m \in 1..(2 * (a - c)) /\ m - 2 * (x - c) = k
           /\ c + ((m - 1) \div 2) \in x..(x + w - 1)
<1>1. PICK d \in Nat : x = c + d
  <2>1. x - c \in Nat /\ x = c + (x - c)
    OBVIOUS
  <2> QED
    BY <2>1
<1>2. x - c = d /\ m = k + 2 * d
  BY <1>1
<1>3. m \in 1..(2 * (a - c)) /\ m - 2 * d = k
  <2>1. m >= 1 /\ m <= 2 * (a - c)
    BY <1>1, <1>2
  <2> QED
    BY <1>1, <1>2, <2>1
<1>4. c + ((m - 1) \div 2) \in x..(x + w - 1)
  <2>1. k \in 1..2 => (m - 1) \div 2 = d
    BY <1>2
  <2>2. k \in 3..4 => (m - 1) \div 2 = d + 1
    BY <1>2
  <2>3. CASE k \in 1..2
    BY <1>1, <2>1, <2>3
  <2>4. CASE k \in 3..4
    BY <1>1, <2>2, <2>4
  <2> QED
    BY <2>3, <2>4
<1> QED
  BY <1>2, <1>3, <1>4

(* The pointer of parseHR is where the bytes of the register are.            *)
LEMMA PointerIs ==
    ASSUME Types, RegInv, Starts, devices = 1, PlainRegs,
           NEW c \in DOMAIN hrRanges, NEW i \in 1..Len(hr), Readable(c, i)
    PROVE  Pointer(c, hr[i].num) = 2 * (hr[i].num - c)
<1> DEFINE a == hr[i].num
           n == 2 * (a - c)
           B == UNION {At(b) : b \in c..(a - 1)}
           S == UNION {{<<j, k>> : k \in 1..Step(hr[j])} : j \in B}
           R(m) == CHOOSE j \in B : c + ((m - 1) \div 2) \in Extent(j)
           f == [m \in 1..n |-> <<R(m), m - 2 * (hr[R(m)].num - c)>>]
<1>1. /\ c \in Nat /\ a \in Nat /\ hrRanges[c] \in Nat /\ Len(hr) \in Nat
      /\ a \in c..(c + hrRanges[c] - 1)
      /\ \A j \in 1..Len(hr) : hr[j].float /\ In(hrRanges, c, hr[j].num) => hr[j].num >= a
  <2>1. c \in Nat /\ hrRanges[c] \in Nat /\ Len(hr) \in Nat
    BY DEF Types, Ranges, IsRanges
  <2>2. a \in Nat
    BY RegisterFacts
  <2> QED
    BY <2>1, <2>2 DEF Readable, In
<1>2. Pointer(c, a) = Cardinality(S)
  BY Zenon DEF Pointer
<1>3. \A j \in 1..Len(hr) :
        /\ hr[j] \in Entry /\ hr[j].num \in Nat /\ Words(hr[j]) \in {1, 2}
        /\ hr[j].bits = 16 * Words(hr[j])
        /\ \A k \in 1..Len(hr) : j < k => hr[j].num + Words(hr[j]) <= hr[k].num
  BY RegisterFacts
<1> HIDE DEF a, n
<1>4. ASSUME NEW j PROVE j \in B <=> (j \in 1..Len(hr) /\ hr[j].num \in c..(a - 1))
  <2>1. ASSUME j \in B PROVE j \in 1..Len(hr) /\ hr[j].num \in c..(a - 1)
    <3>1. PICK b \in c..(a - 1) : j \in At(b)
      BY <2>1
    <3> QED
      BY <3>1 DEF At
  <2>2. ASSUME j \in 1..Len(hr), hr[j].num \in c..(a - 1) PROVE j \in B
    <3>1. ASSUME NEW k \in 1..(j - 1) PROVE hr[k].num # hr[j].num
      <4>1. k \in 1..Len(hr) /\ k < j
        BY <1>1, <2>2
      <4> QED
        BY <1>3, <2>2, <4>1
    <3>2. j \in At(hr[j].num)
      BY <2>2, <3>1 DEF At
    <3> QED
      BY <2>2, <3>2
  <2> QED
    BY <2>1, <2>2
<1>5. ASSUME NEW j \in B
      PROVE  Step(hr[j]) = 2 * Words(hr[j]) /\ hr[j].num + Words(hr[j]) <= a
  <2>1. j \in 1..Len(hr) /\ hr[j].num \in c..(a - 1)
    BY <1>4
  <2>2. ~hr[j].float
    <3>1. hr[j].num \in Nat
      BY <1>3, <2>1
    <3>2. hr[j].num \in c..(c + hrRanges[c] - 1) /\ ~(hr[j].num >= a)
      BY <1>1, <2>1, <3>1
    <3>3. In(hrRanges, c, hr[j].num)
      BY <3>2 DEF In
    <3> QED
      BY <1>1, <2>1, <3>2, <3>3
  <2>3. Step(hr[j]) = 2 * Words(hr[j])
    <3>1. hr[j].bits = 16 * Words(hr[j]) /\ Words(hr[j]) \in {1, 2}
      BY <1>3, <2>1
    <3> QED
      BY <2>2, <3>1 DEF Step
  <2>4. hr[j].num + Words(hr[j]) <= hr[i].num
    <3>1. /\ hr[j].num \in Nat /\ Words(hr[j]) \in {1, 2}
          /\ hr[i].num \in Nat /\ Words(hr[i]) \in {1, 2}
          /\ j < i => hr[j].num + Words(hr[j]) <= hr[i].num
          /\ i < j => hr[i].num + Words(hr[i]) <= hr[j].num
      BY <1>3, <2>1
    <3>2. hr[j].num < hr[i].num
      BY <1>1, <2>1, <3>1 DEF a
    <3>3. ~(i < j) /\ i # j
      BY <3>1, <3>2
    <3>4. j < i
      BY <1>1, <2>1, <3>3
    <3> QED
      BY <3>1, <3>4
  <2> QED
    BY <2>3, <2>4 DEF a
<1>6. ASSUME NEW t PROVE t \in S <=> \E j \in B : \E k \in 1..(2 * Words(hr[j])) : t = <<j, k>>
  <2> DEFINE Q(j) == {<<j, k>> : k \in 1..Step(hr[j])}
  <2>1. S = UNION {Q(j) : j \in B}
    OBVIOUS
  <2>2. ASSUME NEW j \in B
        PROVE  t \in Q(j) <=> \E k \in 1..(2 * Words(hr[j])) : t = <<j, k>>
    BY <1>5
  <2> HIDE DEF Q, B, S
  <2> QED
    BY <2>1, <2>2
<1> HIDE DEF S
<1>7. ASSUME NEW b \in c..(a - 1) PROVE \E j \in B : b \in Extent(j)
  <2>1. b \in Span(hrRanges, c)
    BY <1>1 DEF Span
  <2>2. PICK j \in 1..Len(hr) : b \in Extent(j) /\ Extent(j) \subseteq Span(hrRanges, c)
    BY <2>1, RangeOfRegisters
  <2>3. hr[j].num \in Nat /\ Words(hr[j]) \in {1, 2}
    BY <1>3
  <2>4. hr[j].num \in Extent(j)
    BY <2>3 DEF Extent
  <2>5. hr[j].num >= c /\ hr[j].num <= b
    BY <1>1, <2>2, <2>3, <2>4 DEF Span, Extent
  <2>6. hr[j].num \in c..(a - 1)
    BY <1>1, <2>3, <2>5
  <2> QED
    BY <1>4, <2>2, <2>6
<1>8. ASSUME NEW m \in 1..n
      PROVE  /\ R(m) \in B /\ c + ((m - 1) \div 2) \in Extent(R(m))
             /\ \A j \in B : c + ((m - 1) \div 2) \in Extent(j) => j = R(m)
  <2>1. c + ((m - 1) \div 2) \in c..(a - 1)
    <3>1. a - c \in Nat /\ m \in 1..(2 * (a - c))
      BY <1>1 DEF n
    <3>2. (m - 1) \div 2 \in 0..((a - c) - 1)
      BY <3>1, PointOfByte
    <3> DEFINE q == (m - 1) \div 2
    <3> HIDE DEF q
    <3>3. c + q \in c..(a - 1)
      <4>1. q \in 0..((a - c) - 1)
        BY <3>2 DEF q
      <4>2. c \in Nat /\ a \in Nat
        BY <1>1
      <4> QED
        BY <4>1, <4>2
    <3> QED
      BY <3>3 DEF q
  <2>2. \E j \in B : c + ((m - 1) \div 2) \in Extent(j)
    BY <1>7, <2>1
  <2>3. R(m) \in B /\ c + ((m - 1) \div 2) \in Extent(R(m))
    BY <2>2, Zenon
  <2> HIDE DEF R
  <2>4. ASSUME NEW j \in B, c + ((m - 1) \div 2) \in Extent(j) PROVE j = R(m)
    <3>1. j \in 1..Len(hr) /\ R(m) \in 1..Len(hr)
      BY <1>4, <2>3
    <3> QED
      BY <2>3, <2>4, <3>1, ExtentsApart
  <2> QED
    BY <2>3, <2>4
<1>9. \A m \in 1..n : f[m] = <<R(m), m - 2 * (hr[R(m)].num - c)>>
  BY Zenon
<1> HIDE DEF R
<1>10. ASSUME NEW m \in 1..n PROVE f[m] \in S
  <2> DEFINE x == hr[R(m)].num
             w == Words(hr[R(m)])
  <2>1. R(m) \in B /\ c + ((m - 1) \div 2) \in x..(x + w - 1)
    BY <1>8 DEF Extent
  <2>2. x \in Nat /\ w \in {1, 2} /\ m \in Nat /\ m >= 1
    <3>1. R(m) \in 1..Len(hr)
      BY <1>4, <2>1
    <3>2. x \in Nat /\ w \in {1, 2}
      BY <1>3, <3>1
    <3>3. m \in Nat /\ m >= 1
      BY <1>1 DEF n
    <3> QED
      BY <3>2, <3>3
  <2> HIDE DEF x, w
  <2>3. m - 2 * (x - c) \in 1..(2 * w)
    BY <1>1, <2>1, <2>2, ByteOfWord
  <2>4. f[m] = <<R(m), m - 2 * (x - c)>>
    BY <1>9, Zenon DEF x
  <2> HIDE DEF f
  <2> QED
    BY <1>6, <2>1, <2>3, <2>4 DEF w
<1>11. f \in [1..n -> S]
  <2>1. f = [m \in 1..n |-> f[m]]
    BY Zenon
  <2> HIDE DEF f
  <2> QED
    BY <1>10, <2>1
<1> HIDE DEF f
<1>12. \A m, k \in 1..n : f[m] = f[k] => m = k
  <2> SUFFICES ASSUME NEW m \in 1..n, NEW k \in 1..n, f[m] = f[k] PROVE m = k
    OBVIOUS
  <2> DEFINE x == hr[R(m)].num
  <2>1. R(m) = R(k) /\ m - 2 * (x - c) = k - 2 * (x - c)
    BY <1>9
  <2>2. x \in Nat
    BY <1>3, <1>4, <1>8
  <2>3. m \in Int /\ k \in Int
    BY <1>1 DEF n
  <2> DEFINE y == 2 * (x - c)
  <2>4. c \in Nat
    BY <1>1
  <2> HIDE DEF x
  <2>5. y \in Int
    BY <2>2, <2>4
  <2> HIDE DEF y
  <2>6. m - y = k - y
    BY <2>1 DEF y
  <2> QED
    BY <2>3, <2>5, <2>6
<1>13. \A t \in S : \E m \in 1..n : f[m] = t
  <2> TAKE t \in S
  <2>1. PICK j \in B : \E k \in 1..(2 * Words(hr[j])) : t = <<j, k>>
    BY <1>6
  <2>2. PICK k \in 1..(2 * Words(hr[j])) : t = <<j, k>>
    BY <2>1
  <2> DEFINE x == hr[j].num
             w == Words(hr[j])
             m == k + 2 * (x - c)
  <2>3. x \in c..(a - 1) /\ w \in {1, 2} /\ x + w <= a /\ k \in 1..(2 * w)
    BY <1>3, <1>4, <1>5, <2>2
  <2>4. Extent(j) = x..(x + w - 1)
    BY DEF Extent
  <2> HIDE DEF x, w
  <2>5. m \in 1..n /\ c + ((m - 1) \div 2) \in x..(x + w - 1) /\ m - 2 * (x - c) = k
    <3>0. m = k + 2 * (x - c)
      OBVIOUS
    <3>1. x \in Nat /\ c <= x
      BY <1>1, <2>3
    <3>2. x + w <= a /\ a \in Nat /\ c \in Nat /\ w \in {1, 2} /\ k \in 1..(2 * w)
      BY <1>1, <2>3
    <3> HIDE DEF m
    <3>3. m \in 1..(2 * (a - c))
      BY <3>0, <3>1, <3>2, WordOfByte
    <3>4. m - 2 * (x - c) = k
      BY <3>0, <3>1, <3>2, WordOfByte
    <3>5. c + ((m - 1) \div 2) \in x..(x + w - 1)
      BY <3>0, <3>1, <3>2, WordOfByte
    <3> QED
      BY <3>3, <3>4, <3>5 DEF n
  <2> HIDE DEF m
  <2>6. j = R(m)
    <3>1. m \in 1..n /\ c + ((m - 1) \div 2) \in Extent(j)
      BY <2>4, <2>5, Zenon
    <3> QED
      BY <1>8, <3>1, Zenon
  <2> QED
    BY <1>9, <2>2, <2>5, <2>6 DEF x
<1>14. n \in Nat
  BY <1>1 DEF n
<1>15. Cardinality(S) = n
  BY <1>11, <1>12, <1>13, <1>14, Numbered
<1> QED
  BY <1>2, <1>15 DEF n, a

-----------------------------------------------------------------------------
(* Every memory that the slave may have at the addresses of range c.         *)
Slave(r, c) == [(c - 1)..(c + r[c]) -> [{1, 2} -> SUBSET (0..7)]]

(* The answer has the bytes of every register where the pointer is.          *)
LEMMA AnswerCarries ==
    ASSUME Types, RegInv, Starts, devices = 1, PlainRegs,
           NEW c \in Addressed(hrRanges), NEW i \in 1..Len(hr), Readable(c, i),
           NEW mem \in Slave(hrRanges, c)
    PROVE  LET p == Pointer(c, hr[i].num)
           IN p \in Nat /\ Carries(Answer(mem, c, hrRanges[c]), p, mem, hr[i])
<1> DEFINE e == hr[i]
           n == hrRanges[c]
           b == Answer(mem, c, n)
           k == e.num - c
<1>1. /\ c \in DOMAIN hrRanges /\ c \in Nat /\ n \in Nat /\ c > 0
      /\ c + n - 1 <= Addresses /\ e.num \in c..(c + n - 1)
  <2>1. c \in DOMAIN hrRanges /\ c > 0 /\ c + n - 1 <= Addresses
    BY DEF Addressed
  <2>2. c \in Nat /\ n \in Nat
    BY <2>1 DEF Types, Ranges, IsRanges
  <2> QED
    BY <2>1, <2>2 DEF Readable, In
<1>2. /\ e \in Entry /\ e.num \in Nat /\ Words(e) \in {1, 2} /\ e.bits = 16 * Words(e)
      /\ WellTyped(e)
  BY RegisterFacts DEF Readable
<1>3. Pointer(c, e.num) = 2 * k
  BY <1>1, PointerIs
<1>4. e.num + Words(e) <= c + n
  <2>1. e.num \in Extent(i) /\ e.num \in Span(hrRanges, c)
    BY <1>1, <1>2 DEF Extent, Span
  <2>2. PICK j \in 1..Len(hr) : e.num \in Extent(j) /\ Extent(j) \subseteq Span(hrRanges, c)
    BY <1>1, <2>1, RangeOfRegisters
  <2>3. Extent(i) \subseteq Span(hrRanges, c)
    BY <2>1, <2>2, ExtentsApart
  <2>4. e.num + Words(e) - 1 \in Extent(i)
    BY <1>2 DEF Extent
  <2>5. e.num + Words(e) - 1 \in c..(c + n - 1)
    BY <2>3, <2>4 DEF Span
  <2> HIDE DEF e, n
  <2>6. e.num + Words(e) - 1 <= c + n - 1
    BY <1>1, <1>2, <2>5
  <2>7. e.num \in Nat /\ Words(e) \in Nat /\ c \in Nat /\ n \in Nat
    BY <1>1, <1>2
  <2> QED
    BY <2>6, <2>7
<1> HIDE DEF e, n
<1>5. /\ k \in 0..(n - 1) /\ c - 1 + k = e.num - 1
      /\ Words(e) = 2 => (k + 1 \in 0..(n - 1) /\ c - 1 + (k + 1) = e.num - 1 + 1)
      /\ 2 * (k + 1) = 2 * k + 2 /\ 2 * (k + 1) + 1 = 2 * k + 3
      /\ c <= Addresses /\ 2 * k \in Nat
  <2>1. k \in Nat /\ k <= n - 1
    BY <1>1
  <2>2. Words(e) = 2 => k + 1 <= n - 1
    BY <1>1, <1>2, <1>4
  <2>3. c <= Addresses
    <3>1. 65536 \in Nat
      OBVIOUS
    <3>2. Addresses \in Nat
      BY <3>1 DEF Addresses
    <3> QED
      BY <1>1, <3>2
  <2>4. k \in 0..(n - 1) /\ c - 1 + k = e.num - 1 /\ 2 * k \in Nat
    <3>1. c - 1 + k = e.num - 1
      BY <1>1, <1>2
    <3> HIDE DEF k
    <3>2. k \in 0..(n - 1) /\ 2 * k \in Nat
      BY <1>1, <2>1
    <3> QED
      BY <3>1, <3>2
  <2>5. 2 * (k + 1) = 2 * k + 2 /\ 2 * (k + 1) + 1 = 2 * k + 3
    BY <2>1
  <2>6. Words(e) = 2 => (k + 1 \in 0..(n - 1) /\ c - 1 + (k + 1) = e.num - 1 + 1)
    <3> SUFFICES ASSUME Words(e) = 2
                 PROVE  k + 1 \in 0..(n - 1) /\ c - 1 + (k + 1) = e.num - 1 + 1
      OBVIOUS
    <3>1. k + 1 <= n - 1
      BY <2>2
    <3> HIDE DEF k
    <3>2. k + 1 \in 0..(n - 1)
      BY <1>1, <2>1, <3>1
    <3>3. c - 1 + (k + 1) = e.num - 1 + 1
      BY <1>1, <1>2, <2>1, <2>4
    <3> QED
      BY <3>2, <3>3
  <2> QED
    BY <2>3, <2>4, <2>5, <2>6
<1> HIDE DEF k
<1>6. b[2 * k] = mem[e.num - 1][1] /\ b[2 * k + 1] = mem[e.num - 1][2]
  <2>1. b[2 * k] = mem[c - 1 + k][1] /\ b[2 * k + 1] = mem[c - 1 + k][2]
    <3>1. c \in Nat /\ c > 0 /\ c <= Addresses /\ n \in Nat /\ k \in 0..(n - 1)
      BY <1>1, <1>5
    <3> QED
      BY <3>1, AnswerByte
  <2> QED
    BY <1>5, <2>1
<1>7. ASSUME Words(e) = 2
      PROVE  b[2 * k + 2] = mem[e.num - 1 + 1][1] /\ b[2 * k + 3] = mem[e.num - 1 + 1][2]
  <2> DEFINE h == k + 1
  <2>1. h \in 0..(n - 1) /\ c - 1 + h = e.num - 1 + 1 /\ 2 * h = 2 * k + 2
        /\ 2 * h + 1 = 2 * k + 3
    BY <1>5, <1>7
  <2> HIDE DEF h
  <2>2. b[2 * h] = mem[c - 1 + h][1] /\ b[2 * h + 1] = mem[c - 1 + h][2]
    <3>1. c \in Nat /\ c > 0 /\ c <= Addresses /\ n \in Nat
      BY <1>1, <1>5
    <3> QED
      BY <2>1, <3>1, AnswerByte
  <2> QED
    BY <2>1, <2>2
<1> HIDE DEF b
<1>8. /\ Byte(mem, e, 1) = mem[e.num - 1][1] /\ Byte(mem, e, 2) = mem[e.num - 1][2]
      /\ Byte(mem, e, 3) = mem[e.num - 1 + 1][1] /\ Byte(mem, e, 4) = mem[e.num - 1 + 1][2]
  <2>1. /\ (1 - 1) \div 2 = 0 /\ 1 + ((1 - 1) % 2) = 1
        /\ (2 - 1) \div 2 = 0 /\ 1 + ((2 - 1) % 2) = 2
        /\ (3 - 1) \div 2 = 1 /\ 1 + ((3 - 1) % 2) = 1
        /\ (4 - 1) \div 2 = 1 /\ 1 + ((4 - 1) % 2) = 2
        /\ e.num - 1 + 0 = e.num - 1
    BY <1>2
  <2> QED
    BY <2>1, Zenon DEF Byte
<1>9. \A a \in (c - 1)..(c + n) : /\ mem[a][1] \in SUBSET (0..7)
                                 /\ mem[a][2] \in SUBSET (0..7)
  BY DEF Slave, n
<1>10. /\ mem[e.num - 1][1] \in SUBSET (0..7) /\ mem[e.num - 1][2] \in SUBSET (0..7)
       /\ mem[e.num - 1 + 1][1] \in SUBSET (0..7) /\ mem[e.num - 1 + 1][2] \in SUBSET (0..7)
  <2> DEFINE x == e.num
  <2>1. c \in Nat /\ n \in Nat /\ x \in Nat /\ c <= x /\ x < c + n
    BY <1>1, <1>2
  <2> HIDE DEF x, n
  <2>2. x - 1 \in (c - 1)..(c + n) /\ x - 1 + 1 \in (c - 1)..(c + n)
    BY <2>1
  <2> QED
    BY <1>9, <2>2 DEF x
<1>11. \A m \in 1..(e.bits \div 8) : Byte(mem, e, m) \subseteq 0..7
  <2>1. \A m \in 1..(e.bits \div 8) : m \in {1, 2, 3, 4}
    BY <1>2
  <2> QED
    BY <1>8, <1>10, <2>1
<1>12. e.bits = 32 => Words(e) = 2
  BY <1>2
<1>13. Carries(b, 2 * k, mem, e)
  BY <1>6, <1>7, <1>8, <1>11, <1>12 DEF Carries
<1> QED
  BY <1>3, <1>5, <1>13 DEF e, b, k, n

(* Whatever the slave holds, every register is told as what it stands for.   *)
ValuesTrue ==
    devices = 1 /\ PlainRegs =>
        \A c \in Addressed(hrRanges) : \A i \in 1..Len(hr) :
        \A mem \in Slave(hrRanges, c) :
            Readable(c, i) /\ Tellable(mem, hr[i]) =>
                LET b == Answer(mem, c, hrRanges[c])
                    p == Pointer(c, hr[i].num)
                IN /\ Holding(b, p, hr[i]) = Meaning(mem, hr[i])
                   /\ hr[i].float \/ hr[i].bits = 16 =>
                        Input(b, p, hr[i]) = Meaning(mem, hr[i])

LEMMA ValuesAreTrue == Types /\ RegInv /\ Starts => ValuesTrue
<1> SUFFICES ASSUME Types, RegInv, Starts, devices = 1, PlainRegs,
                    NEW c \in Addressed(hrRanges), NEW i \in 1..Len(hr),
                    NEW mem \in Slave(hrRanges, c),
                    Readable(c, i), Tellable(mem, hr[i])
             PROVE  LET b == Answer(mem, c, hrRanges[c])
                        p == Pointer(c, hr[i].num)
                    IN /\ Holding(b, p, hr[i]) = Meaning(mem, hr[i])
                       /\ hr[i].float \/ hr[i].bits = 16 =>
                            Input(b, p, hr[i]) = Meaning(mem, hr[i])
  BY Zenon DEF ValuesTrue
<1> DEFINE e == hr[i]
           b == Answer(mem, c, hrRanges[c])
           p == Pointer(c, e.num)
<1>1. e \in Entry /\ WellTyped(e)
  BY RegisterFacts DEF Readable
<1>2. p \in Nat /\ Carries(b, p, mem, e)
  BY AnswerCarries
<1>3. Tellable(mem, e)
  OBVIOUS
<1> HIDE DEF e, b, p
<1>4. CASE e.float
  <2>1. HexToFloat(b, p) = Meaning(mem, e)
    BY <1>1, <1>2, <1>4, FloatRead
  <2>2. Holding(b, p, e) = HexToFloat(b, p) /\ Input(b, p, e) = HexToFloat(b, p)
    BY <1>4 DEF Holding, Input
  <2> QED
    BY <2>1, <2>2 DEF e, b, p
<1>5. CASE ~e.float
  <2>1. Holding(b, p, e) = Meaning(mem, e) /\ (e.bits = 16 => Input(b, p, e) = Meaning(mem, e))
    BY <1>1, <1>2, <1>3, <1>5, IntegerRead
  <2> QED
    BY <1>5, <2>1 DEF e, b, p
<1> QED
  BY <1>4, <1>5

(* parseHR: whatever is polled with it, every register is taken from its own *)
(* words of the slave's answer and told as what they stand for, whatever     *)
(* they hold.                                                                *)
THEOREM ValuesRead == Spec => []ValuesTrue
  BY StartsInvariant, ValuesAreTrue, PTL

(* The memories that the run looks at are some of these.                     *)
LEMMA MemoriesOfSlave ==
    ASSUME NEW r, NEW c, NEW mem \in Memories((c - 1)..(c + r[c]))
    PROVE  mem \in Slave(r, c)
<1> DEFINE A == (c - 1)..(c + r[c])
           Few == {{0}, {3}, {7}, {6, 5}}
<1>1. <<0..7, 0..7>> \in [{1, 2} -> SUBSET (0..7)]
  OBVIOUS
<1>2. Few \subseteq SUBSET (0..7) /\ {} \in SUBSET (0..7)
  OBVIOUS
<1>3. Slave(r, c) = [A -> [{1, 2} -> SUBSET (0..7)]]
  BY DEF Slave
<1> HIDE DEF A
<1>4. \/ mem = [a \in A |-> <<0..7, 0..7>>]
      \/ \E w \in A \X {1, 2} : \E bits \in Few : mem = OneByte(A, w, bits)
  BY DEF Memories, A
<1> HIDE DEF Few
<1>5. CASE mem = [a \in A |-> <<0..7, 0..7>>]
  <2>1. [a \in A |-> <<0..7, 0..7>>] \in [A -> [{1, 2} -> SUBSET (0..7)]]
    BY <1>1, Zenon
  <2> QED
    BY <1>3, <1>5, <2>1
<1>6. CASE \E w \in A \X {1, 2} : \E bits \in Few : mem = OneByte(A, w, bits)
  <2>1. PICK w \in A \X {1, 2} : \E bits \in Few : mem = OneByte(A, w, bits)
    BY <1>6
  <2>2. PICK bits \in Few : mem = OneByte(A, w, bits)
    BY <2>1
  <2>3. bits \in SUBSET (0..7)
    BY <1>2
  <2>4. OneByte(A, w, bits) \in [A -> [{1, 2} -> SUBSET (0..7)]]
    BY <1>2, <2>3 DEF OneByte
  <2> QED
    BY <1>3, <2>2, <2>4
<1> QED
  BY <1>4, <1>5, <1>6

(* parseHR and parseIR, for the memories that the run looks at: the value    *)
(* that is told of a register is what the slave has at its address.          *)
THEOREM PointsRead == Spec => []PointsTrue
<1>1. ValuesTrue => PointsTrue
  <2> SUFFICES ASSUME ValuesTrue, devices = 1, PlainRegs,
                      NEW c \in Addressed(hrRanges),
                      NEW i \in {j \in 1..Len(hr) : Readable(c, j)},
                      NEW mem \in Memories((c - 1)..(c + hrRanges[c])),
                      Tellable(mem, hr[i])
               PROVE  LET b == Answer(mem, c, hrRanges[c])
                          p == Pointer(c, hr[i].num)
                      IN /\ Holding(b, p, hr[i]) = Meaning(mem, hr[i])
                         /\ hr[i].float \/ hr[i].bits = 16 =>
                              Input(b, p, hr[i]) = Meaning(mem, hr[i])
    BY Zenon DEF PointsTrue
  <2>1. i \in 1..Len(hr) /\ Readable(c, i)
    OBVIOUS
  <2>2. mem \in Slave(hrRanges, c)
    BY MemoriesOfSlave
  <2> QED
    BY <2>1, <2>2, Zenon DEF ValuesTrue
<1> QED
  BY <1>1, ValuesRead, PTL

-----------------------------------------------------------------------------
(* A point of the answer about coils is the coil of its number.              *)
LEMMA CoilRead ==
    ASSUME NEW on, NEW c \in Nat, c > 0, c <= Addresses, NEW n \in Nat, NEW j \in 0..(n - 1)
    PROVE  BitAt(CoilAnswer(on, c, n), n, j) <=> c - 1 + j \in on
<1> DEFINE k == j \div 8
           i == j % 8
           f == CoilAnswer(on, c, n)
<1>1. ReadBat(c) = c - 1
  BY AddressIs
<1>2. k \in 0..((n - 1) \div 8) /\ i \in 0..7 /\ 8 * k + i = j /\ 8 * k + i < n
  OBVIOUS
<1> HIDE DEF k, i
<1>3. f[k] = {m \in 0..7 : 8 * k + m < n /\ ReadBat(c) + 8 * k + m \in on}
  BY <1>2, Zenon DEF CoilAnswer
<1>4. ReadBat(c) + 8 * k + i = c - 1 + j
  BY <1>1, <1>2
<1> HIDE DEF f
<1>5. i \in f[k] <=> c - 1 + j \in on
  BY <1>2, <1>3, <1>4
<1>6. BitAt(f, n, j) <=> i \in f[k]
  BY Zenon DEF BitAt, i, k
<1> QED
  BY <1>5, <1>6 DEF f

(* The numbers of the points of such a range are from 1 to 65536.            *)
LEMMA AddressedFacts ==
    ASSUME NEW r, Ranges(r), NEW c \in Addressed(r), NEW j \in 0..(r[c] - 1)
    PROVE  c \in Nat /\ c > 0 /\ c <= Addresses /\ r[c] \in Nat
           /\ c + j \in Nat /\ c + j > 0 /\ c + j <= Addresses
<1>1. c \in Nat /\ r[c] \in Nat /\ c > 0 /\ c + r[c] - 1 <= Addresses
  BY DEF Addressed, Ranges, IsRanges
<1>2. Addresses \in Nat
  <2>1. 65536 \in Nat
    OBVIOUS
  <2> QED
    BY <2>1 DEF Addresses
<1> QED
  BY <1>1, <1>2

LEMMA CoilsAreTrue == Types => CoilsTrue
<1> SUFFICES ASSUME Types, NEW c \in Addressed(coRanges),
                    NEW j \in 0..(coRanges[c] - 1),
                    NEW a \in (c - 1)..(c + coRanges[c])
             PROVE  BitAt(CoilAnswer({a}, c, coRanges[c]), coRanges[c], j)
                      = (a = c + j - 1)
  BY Zenon DEF CoilsTrue
<1>1. c \in Nat /\ c > 0 /\ c <= Addresses /\ coRanges[c] \in Nat
  BY AddressedFacts DEF Types
<1>2. BitAt(CoilAnswer({a}, c, coRanges[c]), coRanges[c], j) <=> c - 1 + j \in {a}
  BY <1>1, CoilRead
<1>3. c - 1 + j \in {a} <=> a = c + j - 1
  BY <1>1
<1>4. BitAt(CoilAnswer({a}, c, coRanges[c]), coRanges[c], j) \in BOOLEAN
  BY DEF BitAt
<1> QED
  BY <1>2, <1>3, <1>4

(* parseCO: point j of the answer to a range is the coil j after its first.  *)
THEOREM CoilsRead == Spec => []CoilsTrue
  BY CoilsAreTrue, TypesInit, TypesStep, PTL DEF Spec

(* What the platform writes.                                                 *)
LEMMA CoilWritten ==
    ASSUME Types, NEW c \in Addressed(coRanges), NEW j \in 0..(coRanges[c] - 1), NEW value
    PROVE  LET write == WriteCo(c + j, value)
               on    == IF write.on THEN {write.addr} ELSE {}
           IN BitAt(CoilAnswer(on, c, coRanges[c]), coRanges[c], j) = (value # {})
<1> DEFINE write == WriteCo(c + j, value)
           on    == IF write.on THEN {write.addr} ELSE {}
           b     == CoilAnswer(on, c, coRanges[c])
<1>1. c \in Nat /\ c > 0 /\ c <= Addresses /\ coRanges[c] \in Nat
      /\ c + j \in Nat /\ c + j > 0 /\ c + j <= Addresses
  BY AddressedFacts DEF Types
<1>2. write.addr = c + j - 1
  BY <1>1, AddressIs
<1>3. write.on <=> (value # {})
  BY DEF WriteCo
<1> HIDE DEF write
<1>4. BitAt(b, coRanges[c], j) <=> c - 1 + j \in on
  BY <1>1, CoilRead
<1>5. c - 1 + j \in on <=> (value # {})
  <2>1. c - 1 + j = c + j - 1
    BY <1>1
  <2> QED
    BY <1>2, <1>3, <2>1
<1>6. BitAt(b, coRanges[c], j) \in BOOLEAN
  BY DEF BitAt
<1>7. BitAt(b, coRanges[c], j) = (value # {})
  BY <1>4, <1>5, <1>6
<1> QED
  BY <1>7 DEF write

(* The two bytes of a register, and the word that they make.                 *)
LEMMA SignedWord ==
    ASSUME NEW word \in SUBSET (0..15)
    PROVE  SignExtended(word, 16) \cap 0..15 = word
<1>1. (word \cup 16..31) \cap 0..15 = word /\ word \cap 0..15 = word
  <2>1. \A i \in 16..31 : i \notin 0..15
    OBVIOUS
  <2> QED
    BY <2>1
<1> QED
  BY <1>1 DEF SignExtended

LEMMA PairOfBytes ==
    ASSUME NEW x \in SUBSET (0..7), NEW y \in SUBSET (0..7)
    PROVE  <<x, y>> \in [{1, 2} -> SUBSET (0..7)]
<1>1. DOMAIN <<x, y>> = {1, 2} /\ <<x, y>>[1] = x /\ <<x, y>>[2] = y
  OBVIOUS
<1>2. <<x, y>> = [h \in {1, 2} |-> <<x, y>>[h]]
  BY <1>1
<1> QED
  BY <1>1, <1>2

LEMMA BytesOfWord ==
    ASSUME NEW value, NEW high, NEW low,
           high = {k \in 0..7 : k + 8 \in value}, low = value \cap 0..7
    PROVE  /\ high \in SUBSET (0..7) /\ low \in SUBSET (0..7)
           /\ Shift(high, 8) \cup Shift(low, 0) = value \cap 0..15
<1>1. high \in SUBSET (0..7) /\ low \in SUBSET (0..7)
  OBVIOUS
<1>2. ASSUME NEW k \in 0..15
      PROVE  k \in Shift(high, 8) \cup Shift(low, 0) <=> k \in value
  <2>1. k \in Shift(high, 8) <=> k - 8 \in high
    BY <1>1, ShiftMember
  <2>2. k \in Shift(low, 0) <=> k - 0 \in low
    BY <1>1, ShiftMember
  <2>3. CASE k \in 0..7
    <3>1. k - 8 \notin 0..7 /\ k - 0 = k
      BY <2>3
    <3> QED
      BY <1>1, <2>1, <2>2, <2>3, <3>1
  <2>4. CASE k \in 8..15
    <3>1. k - 8 \in 0..7 /\ (k - 8) + 8 = k /\ k - 0 \notin 0..7
      BY <2>4
    <3>2. k - 8 \in high <=> k \in value
      BY <3>1
    <3> QED
      BY <1>1, <2>1, <2>2, <3>1, <3>2
  <2> QED
    BY <2>3, <2>4
<1>3. Shift(high, 8) \subseteq 0..15 /\ Shift(low, 0) \subseteq 0..15
  <2>1. 8 \in Nat /\ 0 \in Nat /\ 8..(8 + 7) \subseteq 0..15 /\ 0..(0 + 7) \subseteq 0..15
    OBVIOUS
  <2>2. Shift(high, 8) \subseteq 8..(8 + 7)
    BY <1>1, <2>1, ShiftBounds
  <2>3. Shift(low, 0) \subseteq 0..(0 + 7)
    BY <1>1, <2>1, ShiftBounds
  <2> QED
    BY <2>1, <2>2, <2>3
<1> QED
  BY <1>1, <1>2, <1>3

(* The 16 bits that setValue writes are the register's.                      *)
LEMMA RegisterWritten ==
    ASSUME Types, RegInv, Starts, devices = 1, PlainRegs,
           NEW c \in Addressed(hrRanges), NEW i \in 1..Len(hr), Readable(c, i),
           hr[i].bits = 16, hr[i].order = 0, NEW word \in SUBSET (0..15)
    PROVE  LET value == IF hr[i].sign THEN SignExtended(word, 16) ELSE word
               write == WriteHr(hr[i].num, value)
               mem   == [a \in (c - 1)..(c + hrRanges[c]) |->
                           IF a = write.addr THEN write.word ELSE <<{}, {}>>]
           IN Holding(Answer(mem, c, hrRanges[c]), Pointer(c, hr[i].num), hr[i])
                = Number(value)
<1> DEFINE e     == hr[i]
           value == IF e.sign THEN SignExtended(word, 16) ELSE word
           write == WriteHr(e.num, value)
           A     == (c - 1)..(c + hrRanges[c])
           mem   == [a \in A |-> IF a = write.addr THEN write.word ELSE <<{}, {}>>]
           b     == Answer(mem, c, hrRanges[c])
           p     == Pointer(c, e.num)
           high  == {k \in 0..7 : k + 8 \in value}
           low   == value \cap 0..7
<1>1. /\ e \in Entry /\ WellTyped(e) /\ e.bits = 16 /\ e.order = 0 /\ ~e.float
      /\ e.start = 0 /\ e.sign \in BOOLEAN /\ e.float \in BOOLEAN /\ e.num \in Nat
  <2>1. e \in Entry /\ WellTyped(e)
    BY RegisterFacts DEF Readable
  <2> QED
    BY <2>1 DEF WellTyped, Entry
<1>2. e.num \in c..(c + hrRanges[c] - 1)
  BY DEF Readable, In
<1>3. write.addr = e.num - 1 /\ write.word = <<high, low>> /\ e.num - 1 \in A
  <2> DEFINE j == e.num - c
  <2>1. c \in Nat /\ hrRanges[c] \in Nat
    BY DEF Addressed, Types, Ranges, IsRanges
  <2> HIDE DEF e
  <2>2. j \in 0..(hrRanges[c] - 1) /\ c + j = e.num /\ e.num - 1 \in A
    <3>1. c <= e.num /\ e.num <= c + hrRanges[c] - 1
      BY <1>1, <1>2, <2>1
    <3> HIDE DEF j
    <3>2. e.num - 1 \in A
      BY <1>1, <2>1, <3>1
    <3>3. j \in 0..(hrRanges[c] - 1) /\ c + j = e.num
      BY <1>1, <2>1, <3>1 DEF j
    <3> QED
      BY <3>2, <3>3
  <2>3. Ranges(hrRanges)
    BY DEF Types
  <2> HIDE DEF j, A
  <2>4. e.num > 0 /\ e.num <= Addresses
    BY <2>2, <2>3, AddressedFacts
  <2> HIDE DEF value
  <2>5. write.addr = e.num - 1
    BY <1>1, <2>4, AddressIs
  <2>6. write.word = <<high, low>>
    BY DEF WriteHr
  <2> QED
    BY <2>2, <2>5, <2>6
<1>4. value \cap 0..15 = word
  <2>1. word \cap 0..15 = word
    OBVIOUS
  <2> QED
    BY <2>1, SignedWord
<1> HIDE DEF e, value
<1>5. high \in SUBSET (0..7) /\ low \in SUBSET (0..7)
      /\ Shift(high, 8) \cup Shift(low, 0) = word
  BY <1>4, BytesOfWord
<1> HIDE DEF write, high, low
<1>6. mem \in Slave(hrRanges, c)
  <2>1. <<high, low>> \in [{1, 2} -> SUBSET (0..7)] /\ <<{}, {}>> \in [{1, 2} -> SUBSET (0..7)]
    <3>1. {} \in SUBSET (0..7)
      OBVIOUS
    <3> QED
      BY <1>5, <3>1, PairOfBytes
  <2>2. \A a \in A : (IF a = write.addr THEN write.word ELSE <<{}, {}>>)
                       \in [{1, 2} -> SUBSET (0..7)]
    BY <1>3, <2>1
  <2> HIDE DEF A
  <2>3. mem \in [A -> [{1, 2} -> SUBSET (0..7)]]
    BY <2>2
  <2> QED
    BY <2>3 DEF Slave, A
<1>7. mem[e.num - 1] = <<high, low>>
  <2> HIDE DEF A
  <2> QED
    BY <1>3
<1> HIDE DEF mem
<1>8. p \in Nat /\ Carries(b, p, mem, e)
  BY <1>6, AnswerCarries DEF e
<1> HIDE DEF b, p
<1>9. Word(mem, e) = word
  <2>1. Word(mem, e) = Shift(Byte(mem, e, 1), 8) \cup Shift(Byte(mem, e, 2), 0)
    BY <1>1, WordIs
  <2>2. Byte(mem, e, 1) = mem[e.num - 1][1] /\ Byte(mem, e, 2) = mem[e.num - 1][2]
    <3>1. /\ (1 - 1) \div 2 = 0 /\ 1 + ((1 - 1) % 2) = 1
          /\ (2 - 1) \div 2 = 0 /\ 1 + ((2 - 1) % 2) = 2
          /\ e.num - 1 + 0 = e.num - 1
      BY <1>1
    <3> QED
      BY <3>1, Zenon DEF Byte
  <2>3. Byte(mem, e, 1) = high /\ Byte(mem, e, 2) = low
    BY <1>7, <2>2
  <2> QED
    BY <1>5, <2>1, <2>3
<1>10. Assembled(b, p, e.bits \div 8, e.order) = word
  BY <1>1, <1>8, <1>9, AssembledIsWord
<1>11. Bat(word, 0, 16, e.sign) = value
  <2> DEFINE w == 16
  <2>1. w \in {16, 32} /\ word \in SUBSET (0..(w - 1))
    OBVIOUS
  <2> HIDE DEF w
  <2>2. Bat(word, 0, w, e.sign) = IF e.sign THEN SignExtended(word, w) ELSE word
    BY <1>1, <2>1, FieldIs
  <2> QED
    BY <2>2 DEF w, value
<1>12. Holding(b, p, e) = Number(value)
  BY <1>1, <1>10, <1>11 DEF Holding
<1> QED
  BY <1>12, Zenon DEF b, p, mem, write, value, e

(* writeHr and writeCo: what the platform sets is what is read back, for     *)
(* every word (RegisterWritten) and so for those of the run.                 *)
THEOREM WritesReadBack == Spec => []WrittenIsRead
<1>1. Types /\ RegInv /\ Starts => WrittenIsRead
  <2> SUFFICES ASSUME Types, RegInv, Starts, devices = 1 PROVE WrittenIsRead
    BY DEF WrittenIsRead
  <2> DEFINE Words16 == {{k} : k \in 0..15} \cup {{}, {3, 15}, 0..15}
  <2>1. Words16 \subseteq SUBSET (0..15)
    OBVIOUS
  <2> HIDE DEF Words16
  <2>2. ASSUME PlainRegs, NEW c \in Addressed(hrRanges),
               NEW i \in {j \in 1..Len(hr) : Readable(c, j)}, NEW word \in Words16,
               hr[i].bits = 16, hr[i].order = 0
        PROVE  LET value == IF hr[i].sign THEN SignExtended(word, 16) ELSE word
                   write == WriteHr(hr[i].num, value)
                   mem   == [a \in (c - 1)..(c + hrRanges[c]) |->
                               IF a = write.addr THEN write.word ELSE <<{}, {}>>]
               IN Holding(Answer(mem, c, hrRanges[c]), Pointer(c, hr[i].num), hr[i])
                    = Number(value)
    <3>1. i \in 1..Len(hr) /\ Readable(c, i)
      OBVIOUS
    <3>2. word \in SUBSET (0..15)
      BY <2>1
    <3> QED
      BY <2>2, <3>1, <3>2, RegisterWritten
  <2>3. ASSUME NEW c \in Addressed(coRanges), NEW j \in 0..(coRanges[c] - 1), NEW value
        PROVE  LET write == WriteCo(c + j, value)
                   on    == IF write.on THEN {write.addr} ELSE {}
               IN BitAt(CoilAnswer(on, c, coRanges[c]), coRanges[c], j) = (value # {})
    BY CoilWritten
  <2>4. PlainRegs =>
          \A c \in Addressed(hrRanges) :
          \A i \in {j \in 1..Len(hr) : Readable(c, j)} : \A word \in Words16 :
            hr[i].bits = 16 /\ hr[i].order = 0 =>
            LET value == IF hr[i].sign THEN SignExtended(word, 16) ELSE word
                write == WriteHr(hr[i].num, value)
                mem   == [a \in (c - 1)..(c + hrRanges[c]) |->
                            IF a = write.addr THEN write.word ELSE <<{}, {}>>]
            IN Holding(Answer(mem, c, hrRanges[c]), Pointer(c, hr[i].num), hr[i])
                 = Number(value)
    BY <2>2, Zenon
  <2>5. PlainCoils =>
          \A c \in Addressed(coRanges) : coRanges[c] <= 32 =>
          \A j \in 0..(coRanges[c] - 1) : \A value \in {{}, {0}, {4}} :
            LET write == WriteCo(c + j, value)
                on    == IF write.on THEN {write.addr} ELSE {}
            IN BitAt(CoilAnswer(on, c, coRanges[c]), coRanges[c], j) = (value # {})
    BY <2>3, Zenon
  <2> QED
    BY <2>4, <2>5, Zenon DEF WrittenIsRead, Words16
<1> QED
  BY <1>1, StartsInvariant, PTL
-----------------------------------------------------------------------------
(* crc16.  A table of 256 entries is linear in the bits of its index: it      *)
(* suffices to know which bits an entry takes over, and which depend on      *)
(* whether the index has an odd number of ones.                              *)
Differ(x, y) == ~(x <=> y)

Digit(A, i) == IF i \in A THEN 1 ELSE 0

Ones(A) == Digit(A, 0) + Digit(A, 1) + Digit(A, 2) + Digit(A, 3)
             + Digit(A, 4) + Digit(A, 5) + Digit(A, 6) + Digit(A, 7)

Odd(A) == Ones(A) % 2 = 1

Sum(b0, b1, b2, b3, b4, b5, b6, b7) ==
    b0 + (2 * b1) + (4 * b2) + (8 * b3) + (16 * b4) + (32 * b5) + (64 * b6) + (128 * b7)

(* The bits of a number are the digits of its sum.                           *)
LEMMA BitsOfSum ==
    ASSUME NEW b0 \in {0, 1}, NEW b1 \in {0, 1}, NEW b2 \in {0, 1}, NEW b3 \in {0, 1},
           NEW b4 \in {0, 1}, NEW b5 \in {0, 1}, NEW b6 \in {0, 1}, NEW b7 \in {0, 1}
    PROVE  LET x == Bits(Sum(b0, b1, b2, b3, b4, b5, b6, b7))
           IN /\ 0 \in x <=> b0 = 1
              /\ 1 \in x <=> b1 = 1
              /\ 2 \in x <=> b2 = 1
              /\ 3 \in x <=> b3 = 1
              /\ 4 \in x <=> b4 = 1
              /\ 5 \in x <=> b5 = 1
              /\ 6 \in x <=> b6 = 1
              /\ 7 \in x <=> b7 = 1
<1> DEFINE n == Sum(b0, b1, b2, b3, b4, b5, b6, b7)
<1>1. n = b0 + (2 * b1) + (4 * b2) + (8 * b3) + (16 * b4) + (32 * b5) + (64 * b6)
            + (128 * b7)
  BY Zenon DEF Sum
<1> HIDE DEF n
<1>2. \A i \in 0..7 : i \in Bits(n) <=> (n \div 2^i) % 2 = 1
  BY DEF Bits
<1>3. /\ 0 \in Bits(n) <=> (n \div 1) % 2 = 1
      /\ 1 \in Bits(n) <=> (n \div 2) % 2 = 1
      /\ 2 \in Bits(n) <=> (n \div 4) % 2 = 1
      /\ 3 \in Bits(n) <=> (n \div 8) % 2 = 1
      /\ 4 \in Bits(n) <=> (n \div 16) % 2 = 1
      /\ 5 \in Bits(n) <=> (n \div 32) % 2 = 1
      /\ 6 \in Bits(n) <=> (n \div 64) % 2 = 1
      /\ 7 \in Bits(n) <=> (n \div 128) % 2 = 1
  BY <1>2
<1>4. /\ 0 \in Bits(n) <=> b0 = 1
      /\ 1 \in Bits(n) <=> b1 = 1
      /\ 2 \in Bits(n) <=> b2 = 1
      /\ 3 \in Bits(n) <=> b3 = 1
      /\ 4 \in Bits(n) <=> b4 = 1
      /\ 5 \in Bits(n) <=> b5 = 1
      /\ 6 \in Bits(n) <=> b6 = 1
      /\ 7 \in Bits(n) <=> b7 = 1
  BY <1>1, <1>3
<1> QED
  BY <1>4 DEF n

(* Every number up to 255 is such a sum.                                     *)
LEMMA DigitsOf ==
    ASSUME NEW n \in 0..255
    PROVE  \E b0, b1, b2, b3, b4, b5, b6, b7 \in {0, 1} :
             n = Sum(b0, b1, b2, b3, b4, b5, b6, b7)
<1> DEFINE b(m) == m % 2
<1>1. \A m \in Nat : /\ b(m) \in {0, 1}
                     /\ m = b(m) + (2 * (m \div 2)) /\ m \div 2 \in Nat
  OBVIOUS
<1> DEFINE n1 == n \div 2
           n2 == n1 \div 2
           n3 == n2 \div 2
           n4 == n3 \div 2
           n5 == n4 \div 2
           n6 == n5 \div 2
           n7 == n6 \div 2
<1>2. n7 \in {0, 1}
  OBVIOUS
<1>3. /\ n \in Nat /\ n1 \in Nat /\ n2 \in Nat /\ n3 \in Nat /\ n4 \in Nat /\ n5 \in Nat
      /\ n6 \in Nat
  OBVIOUS
<1>4. n = b(n) + (2 * b(n1)) + (4 * b(n2)) + (8 * b(n3)) + (16 * b(n4)) + (32 * b(n5))
            + (64 * b(n6)) + (128 * n7)
  OBVIOUS
<1>5. /\ b(n) \in {0, 1} /\ b(n1) \in {0, 1} /\ b(n2) \in {0, 1} /\ b(n3) \in {0, 1}
      /\ b(n4) \in {0, 1} /\ b(n5) \in {0, 1} /\ b(n6) \in {0, 1}
  BY <1>1, <1>3
<1> HIDE DEF b, n1, n2, n3, n4, n5, n6, n7
<1>6. n = Sum(b(n), b(n1), b(n2), b(n3), b(n4), b(n5), b(n6), n7)
  BY <1>4, Zenon DEF Sum
<1> QED
  BY <1>2, <1>5, <1>6

(* The index of a byte is the number that has its bits.                      *)
SumOf(A) ==
    Sum(Digit(A, 0), Digit(A, 1), Digit(A, 2), Digit(A, 3),
        Digit(A, 4), Digit(A, 5), Digit(A, 6), Digit(A, 7))

LEMMA DigitIs ==
    ASSUME NEW A, NEW i
    PROVE  Digit(A, i) \in {0, 1} /\ (Digit(A, i) = 1 <=> i \in A)
  BY DEF Digit

LEMMA IndexIs ==
    ASSUME NEW A \in SUBSET (0..7)
    PROVE  Index[A] = SumOf(A)
<1> DEFINE n == Index[A]
           s == SumOf(A)
<1>1. /\ 0 \in Bits(s) <=> 0 \in A
      /\ 1 \in Bits(s) <=> 1 \in A
      /\ 2 \in Bits(s) <=> 2 \in A
      /\ 3 \in Bits(s) <=> 3 \in A
      /\ 4 \in Bits(s) <=> 4 \in A
      /\ 5 \in Bits(s) <=> 5 \in A
      /\ 6 \in Bits(s) <=> 6 \in A
      /\ 7 \in Bits(s) <=> 7 \in A
  BY DigitIs, BitsOfSum DEF SumOf
<1>2. s \in 0..255
  <2>1. /\ Digit(A, 0) \in {0, 1} /\ Digit(A, 1) \in {0, 1} /\ Digit(A, 2) \in {0, 1}
        /\ Digit(A, 3) \in {0, 1} /\ Digit(A, 4) \in {0, 1} /\ Digit(A, 5) \in {0, 1}
        /\ Digit(A, 6) \in {0, 1} /\ Digit(A, 7) \in {0, 1}
    BY DigitIs, Zenon
  <2> QED
    BY <2>1 DEF SumOf, Sum
<1> HIDE DEF s
<1>3. Bits(s) = A
  <2>1. Bits(s) \subseteq 0..7
    BY DEF Bits
  <2>2. \A i \in 0..7 : i \in Bits(s) <=> i \in A
    BY <1>1
  <2> QED
    BY <2>1, <2>2
<1>4. n \in 0..255 /\ Bits(n) = A
  <2>1. n = CHOOSE m \in 0..255 : Bits(m) = A
    BY Zenon DEF Index
  <2> HIDE DEF n
  <2> QED
    BY <1>2, <1>3, <2>1
<1> HIDE DEF n
<1>5. PICK b0, b1, b2, b3, b4, b5, b6, b7 \in {0, 1} :
        n = Sum(b0, b1, b2, b3, b4, b5, b6, b7)
  BY <1>4, DigitsOf
<1>6. /\ 0 \in A <=> b0 = 1
      /\ 1 \in A <=> b1 = 1
      /\ 2 \in A <=> b2 = 1
      /\ 3 \in A <=> b3 = 1
      /\ 4 \in A <=> b4 = 1
      /\ 5 \in A <=> b5 = 1
      /\ 6 \in A <=> b6 = 1
      /\ 7 \in A <=> b7 = 1
  BY <1>4, <1>5, BitsOfSum
<1>7. /\ Digit(A, 0) = b0 /\ Digit(A, 1) = b1 /\ Digit(A, 2) = b2 /\ Digit(A, 3) = b3
      /\ Digit(A, 4) = b4 /\ Digit(A, 5) = b5 /\ Digit(A, 6) = b6 /\ Digit(A, 7) = b7
  BY <1>6, DigitIs
<1> QED
  BY <1>5, <1>7, Zenon DEF n, s, SumOf

(* The entries of the tables, by the digits of the index.                    *)
Plus(x, y) == (x + y) % 2

LEMMA Tables ==
    ASSUME NEW b0 \in {0, 1}, NEW b1 \in {0, 1}, NEW b2 \in {0, 1}, NEW b3 \in {0, 1},
           NEW b4 \in {0, 1}, NEW b5 \in {0, 1}, NEW b6 \in {0, 1}, NEW b7 \in {0, 1}
    PROVE  LET n == Sum(b0, b1, b2, b3, b4, b5, b6, b7)
               p == (b0 + b1 + b2 + b3 + b4 + b5 + b6 + b7) % 2
           IN /\ G_auchCRCHi[n + 1] = Sum(p, 0, 0, 0, 0, 0, b0, Plus(b0, b1))
              /\ G_auchCRCLo[n + 1] = Sum(Plus(b1, b2), Plus(b2, b3), Plus(b3, b4),
                                          Plus(b4, b5), Plus(b5, b6), Plus(b6, b7),
                                          Plus(b7, p), p)
<1> DEFINE n == Sum(b0, b1, b2, b3, b4, b5, b6, b7)
           p == (b0 + b1 + b2 + b3 + b4 + b5 + b6 + b7) % 2
<1>1. n = b0 + (2 * b1) + (4 * b2) + (8 * b3) + (16 * b4) + (32 * b5) + (64 * b6)
            + (128 * b7)
  BY Zenon DEF Sum
<1> HIDE DEF n
<1>2. G_auchCRCHi[n + 1] = p + (64 * b0) + (128 * ((b0 + b1) % 2))
  BY <1>1 DEF G_auchCRCHi
<1>3. G_auchCRCLo[n + 1] =
        ((b1 + b2) % 2) + (2 * ((b2 + b3) % 2)) + (4 * ((b3 + b4) % 2))
          + (8 * ((b4 + b5) % 2)) + (16 * ((b5 + b6) % 2))
          + (32 * ((b6 + b7) % 2)) + (64 * ((b7 + p) % 2)) + (128 * p)
  BY <1>1 DEF G_auchCRCLo
<1>4. Sum(p, 0, 0, 0, 0, 0, b0, Plus(b0, b1)) = p + (64 * b0) + (128 * ((b0 + b1) % 2))
  BY DEF Sum, Plus
<1> HIDE DEF p
<1>5. G_auchCRCLo[n + 1] = Sum(Plus(b1, b2), Plus(b2, b3), Plus(b3, b4), Plus(b4, b5),
                               Plus(b5, b6), Plus(b6, b7), Plus(b7, p), p)
  BY <1>3, Zenon DEF Sum, Plus
<1> QED
  BY <1>2, <1>4, <1>5, Zenon DEF n, p

(* The same, as bits.                                                        *)
LEMMA TableBits ==
    ASSUME NEW A \in SUBSET (0..7)
    PROVE  LET hi == Bits(G_auchCRCHi[1 + Index[A]])
               lo == Bits(G_auchCRCLo[1 + Index[A]])
           IN /\ hi \subseteq 0..7
              /\ 0 \in hi <=> Odd(A)
              /\ 1 \notin hi /\ 2 \notin hi /\ 3 \notin hi /\ 4 \notin hi /\ 5 \notin hi
              /\ 6 \in hi <=> 0 \in A
              /\ 7 \in hi <=> Differ(0 \in A, 1 \in A)
              /\ lo \subseteq 0..7
              /\ 0 \in lo <=> Differ(1 \in A, 2 \in A)
              /\ 1 \in lo <=> Differ(2 \in A, 3 \in A)
              /\ 2 \in lo <=> Differ(3 \in A, 4 \in A)
              /\ 3 \in lo <=> Differ(4 \in A, 5 \in A)
              /\ 4 \in lo <=> Differ(5 \in A, 6 \in A)
              /\ 5 \in lo <=> Differ(6 \in A, 7 \in A)
              /\ 6 \in lo <=> Differ(7 \in A, Odd(A))
              /\ 7 \in lo <=> Odd(A)
<1> DEFINE d(i) == Digit(A, i)
           p == Ones(A) % 2
           n == Index[A]
           hi == Bits(G_auchCRCHi[n + 1])
           lo == Bits(G_auchCRCLo[n + 1])
<1>1. /\ d(0) \in {0, 1} /\ d(1) \in {0, 1} /\ d(2) \in {0, 1} /\ d(3) \in {0, 1}
      /\ d(4) \in {0, 1} /\ d(5) \in {0, 1} /\ d(6) \in {0, 1} /\ d(7) \in {0, 1}
  BY DigitIs, Zenon
<1>2. p \in {0, 1} /\ (p = 1 <=> Odd(A))
  <2>1. Ones(A) \in Nat
    BY <1>1 DEF Ones
  <2> QED
    BY <2>1 DEF Odd
<1>3. /\ n = Sum(d(0), d(1), d(2), d(3), d(4), d(5), d(6), d(7))
      /\ p = (d(0) + d(1) + d(2) + d(3) + d(4) + d(5) + d(6) + d(7)) % 2
  BY IndexIs, Zenon DEF SumOf, Ones
<1> HIDE DEF d, p, n
<1>4. /\ G_auchCRCHi[n + 1] = Sum(p, 0, 0, 0, 0, 0, d(0), Plus(d(0), d(1)))
      /\ G_auchCRCLo[n + 1] = Sum(Plus(d(1), d(2)), Plus(d(2), d(3)), Plus(d(3), d(4)),
                                  Plus(d(4), d(5)), Plus(d(5), d(6)), Plus(d(6), d(7)),
                                  Plus(d(7), p), p)
  BY <1>1, <1>3, Tables
<1>5. \A x, y \in {0, 1} :
        Plus(x, y) \in {0, 1} /\ (Plus(x, y) = 1 <=> Differ(x = 1, y = 1))
  BY DEF Plus, Differ
<1>6. /\ 0 \in hi <=> p = 1
      /\ 1 \notin hi /\ 2 \notin hi /\ 3 \notin hi /\ 4 \notin hi /\ 5 \notin hi
      /\ 6 \in hi <=> d(0) = 1
      /\ 7 \in hi <=> Plus(d(0), d(1)) = 1
  BY <1>1, <1>2, <1>4, <1>5, BitsOfSum
<1>7. /\ 0 \in lo <=> Plus(d(1), d(2)) = 1
      /\ 1 \in lo <=> Plus(d(2), d(3)) = 1
      /\ 2 \in lo <=> Plus(d(3), d(4)) = 1
      /\ 3 \in lo <=> Plus(d(4), d(5)) = 1
      /\ 4 \in lo <=> Plus(d(5), d(6)) = 1
      /\ 5 \in lo <=> Plus(d(6), d(7)) = 1
      /\ 6 \in lo <=> Plus(d(7), p) = 1
      /\ 7 \in lo <=> p = 1
  BY <1>1, <1>2, <1>4, <1>5, BitsOfSum
<1>8. hi \subseteq 0..7 /\ lo \subseteq 0..7 /\ 1 + n = n + 1
  <2>1. \A x, y \in Nat : x + y = y + x
    OBVIOUS
  <2>2. n \in Nat
    BY <1>1, <1>3 DEF Sum
  <2> QED
    BY <2>1, <2>2 DEF Bits
<1> HIDE DEF hi, lo
<1>9. /\ d(0) = 1 <=> 0 \in A
      /\ d(1) = 1 <=> 1 \in A
      /\ d(2) = 1 <=> 2 \in A
      /\ d(3) = 1 <=> 3 \in A
      /\ d(4) = 1 <=> 4 \in A
      /\ d(5) = 1 <=> 5 \in A
      /\ d(6) = 1 <=> 6 \in A
      /\ d(7) = 1 <=> 7 \in A
  BY DigitIs DEF d
<1>10. /\ hi \subseteq 0..7
       /\ 0 \in hi <=> Odd(A)
       /\ 1 \notin hi /\ 2 \notin hi /\ 3 \notin hi /\ 4 \notin hi /\ 5 \notin hi
       /\ 6 \in hi <=> 0 \in A
       /\ 7 \in hi <=> Differ(0 \in A, 1 \in A)
  BY <1>1, <1>2, <1>5, <1>6, <1>8, <1>9
<1>11. /\ Plus(d(1), d(2)) = 1 <=> Differ(1 \in A, 2 \in A)
       /\ Plus(d(2), d(3)) = 1 <=> Differ(2 \in A, 3 \in A)
       /\ Plus(d(3), d(4)) = 1 <=> Differ(3 \in A, 4 \in A)
       /\ Plus(d(4), d(5)) = 1 <=> Differ(4 \in A, 5 \in A)
       /\ Plus(d(5), d(6)) = 1 <=> Differ(5 \in A, 6 \in A)
       /\ Plus(d(6), d(7)) = 1 <=> Differ(6 \in A, 7 \in A)
  BY <1>1, <1>5, <1>9
<1>12. Plus(d(7), p) = 1 <=> Differ(7 \in A, Odd(A))
  BY <1>1, <1>2, <1>5, <1>9 DEF Differ
<1>13. /\ lo \subseteq 0..7
       /\ 0 \in lo <=> Differ(1 \in A, 2 \in A)
       /\ 1 \in lo <=> Differ(2 \in A, 3 \in A)
       /\ 2 \in lo <=> Differ(3 \in A, 4 \in A)
       /\ 3 \in lo <=> Differ(4 \in A, 5 \in A)
       /\ 4 \in lo <=> Differ(5 \in A, 6 \in A)
       /\ 5 \in lo <=> Differ(6 \in A, 7 \in A)
       /\ 6 \in lo <=> Differ(7 \in A, Odd(A))
       /\ 7 \in lo <=> Odd(A)
  BY <1>2, <1>7, <1>8, <1>11, <1>12
<1> QED
  BY <1>8, <1>10, <1>13 DEF hi, lo, n

-----------------------------------------------------------------------------
(* The division, one bit at a time.                                          *)
DivideBit(w) == LET half == {i - 1 : i \in w \ {0}}
           IN IF 0 \in w THEN Xor(half, Polynomial) ELSE half

LEMMA StepBits ==
    ASSUME NEW w \in SUBSET (0..15), NEW v, v = DivideBit(w)
    PROVE  /\ v \in SUBSET (0..15)
           /\ 0 \in v <=> Differ(1 \in w, 0 \in w)
           /\ \A i \in 1..12 : i \in v <=> i + 1 \in w
           /\ 13 \in v <=> Differ(14 \in w, 0 \in w)
           /\ 14 \in v <=> 15 \in w
           /\ 15 \in v <=> 0 \in w
<1> DEFINE half == {i - 1 : i \in w \ {0}}
<1>1. half \in SUBSET (0..14) /\ \A i \in 0..15 : i \in half <=> i + 1 \in w
  OBVIOUS
<1>2. 0 \in Polynomial /\ 13 \in Polynomial /\ 15 \in Polynomial /\ Polynomial \subseteq 0..15
      /\ \A i \in 1..14 : i \in Polynomial <=> i = 13
  BY DEF Polynomial
<1>3. v = IF 0 \in w THEN (half \ Polynomial) \cup (Polynomial \ half) ELSE half
  BY DEF DivideBit, Xor
<1> HIDE DEF half
<1>4. v \in SUBSET (0..15)
  BY <1>1, <1>2, <1>3
<1>5. \A i \in 0..15 : i \in v <=> Differ(i \in half, 0 \in w /\ i \in Polynomial)
  BY <1>3 DEF Differ
<1>6. \A i \in 0..15 : i \in v <=> Differ(i + 1 \in w, 0 \in w /\ i \in Polynomial)
  BY <1>1, <1>5
<1>7. 16 \notin w
  OBVIOUS
<1>8. /\ 0 \in v <=> Differ(1 \in w, 0 \in w)
      /\ 13 \in v <=> Differ(14 \in w, 0 \in w)
      /\ 14 \in v <=> 15 \in w
      /\ 15 \in v <=> 0 \in w
  BY <1>2, <1>6, <1>7 DEF Differ
<1>9. \A i \in 1..12 : i \in v <=> i + 1 \in w
  BY <1>2, <1>6 DEF Differ
<1> QED
  BY <1>4, <1>8, <1>9

(* Eight steps.                                                              *)
LEMMA DividedSteps ==
    ASSUME NEW w \in SUBSET (0..15)
    PROVE  Divided(w) = DivideBit(DivideBit(DivideBit(DivideBit(DivideBit(DivideBit(DivideBit(DivideBit(w))))))))
<1> DEFINE G(f) == f = [n \in 0..8 |-> IF n = 0 THEN w ELSE DivideBit(f[n - 1])]
           f == CHOOSE f : G(f)
<1>1. Divided(w) = f[8]
  BY Zenon DEF Divided, DivideBit
<1>2. \E g : G(g)
  <2> DEFINE w1 == DivideBit(w)
             w2 == DivideBit(w1)
             w3 == DivideBit(w2)
             w4 == DivideBit(w3)
             w5 == DivideBit(w4)
             w6 == DivideBit(w5)
             w7 == DivideBit(w6)
             w8 == DivideBit(w7)
             g == [n \in 0..8 |->
                     IF n = 0 THEN w ELSE IF n = 1 THEN w1 ELSE IF n = 2 THEN w2
                     ELSE IF n = 3 THEN w3 ELSE IF n = 4 THEN w4 ELSE IF n = 5 THEN w5
                     ELSE IF n = 6 THEN w6 ELSE IF n = 7 THEN w7 ELSE w8]
  <2>1. /\ g[0] = w /\ g[1] = w1 /\ g[2] = w2 /\ g[3] = w3 /\ g[4] = w4
        /\ g[5] = w5 /\ g[6] = w6 /\ g[7] = w7 /\ g[8] = w8
    <3> HIDE DEF w1, w2, w3, w4, w5, w6, w7, w8
    <3> QED
      OBVIOUS
  <2>2. g = [n \in 0..8 |-> g[n]]
    OBVIOUS
  <2> HIDE DEF g
  <2>3. \A n \in 0..8 : g[n] = IF n = 0 THEN w ELSE DivideBit(g[n - 1])
    BY <2>1
  <2>4. g = [n \in 0..8 |-> IF n = 0 THEN w ELSE DivideBit(g[n - 1])]
    BY <2>2, <2>3
  <2> QED
    BY <2>4
<1>3. G(f)
  BY <1>2, Zenon
<1> HIDE DEF f
<1>4. f[0] = w /\ \A n \in 1..8 : f[n] = DivideBit(f[n - 1])
  BY <1>3
<1>5. /\ f[1] = DivideBit(f[0]) /\ f[2] = DivideBit(f[1]) /\ f[3] = DivideBit(f[2])
      /\ f[4] = DivideBit(f[3]) /\ f[5] = DivideBit(f[4]) /\ f[6] = DivideBit(f[5])
      /\ f[7] = DivideBit(f[6]) /\ f[8] = DivideBit(f[7])
  BY <1>4
<1> QED
  BY <1>1, <1>4, <1>5, Zenon

(* A parity is a sum modulo two.                                             *)
LEMMA OddIs ==
    ASSUME NEW A
    PROVE  Odd(A) <=> Differ(0 \in A, Differ(1 \in A, Differ(2 \in A, Differ(3 \in A,
                        Differ(4 \in A, Differ(5 \in A, Differ(6 \in A, 7 \in A)))))))
<1> DEFINE d(i) == Digit(A, i)
<1>1. /\ d(0) = IF 0 \in A THEN 1 ELSE 0
      /\ d(1) = IF 1 \in A THEN 1 ELSE 0
      /\ d(2) = IF 2 \in A THEN 1 ELSE 0
      /\ d(3) = IF 3 \in A THEN 1 ELSE 0
      /\ d(4) = IF 4 \in A THEN 1 ELSE 0
      /\ d(5) = IF 5 \in A THEN 1 ELSE 0
      /\ d(6) = IF 6 \in A THEN 1 ELSE 0
      /\ d(7) = IF 7 \in A THEN 1 ELSE 0
  BY DEF Digit
<1>2. Odd(A) <=> (d(0) + d(1) + d(2) + d(3) + d(4) + d(5) + d(6) + d(7)) % 2 = 1
  BY DEF Odd, Ones
<1> HIDE DEF d
<1> QED
  BY <1>1, <1>2 DEF Differ

(* StepBits for each bit.                                                    *)
Stepped(w, v) ==
    /\ 0 \in v <=> Differ(1 \in w, 0 \in w)
    /\ 1 \in v <=> 2 \in w
    /\ 2 \in v <=> 3 \in w
    /\ 3 \in v <=> 4 \in w
    /\ 4 \in v <=> 5 \in w
    /\ 5 \in v <=> 6 \in w
    /\ 6 \in v <=> 7 \in w
    /\ 7 \in v <=> 8 \in w
    /\ 8 \in v <=> 9 \in w
    /\ 9 \in v <=> 10 \in w
    /\ 10 \in v <=> 11 \in w
    /\ 11 \in v <=> 12 \in w
    /\ 12 \in v <=> 13 \in w
    /\ 13 \in v <=> Differ(14 \in w, 0 \in w)
    /\ 14 \in v <=> 15 \in w
    /\ 15 \in v <=> 0 \in w

LEMMA StepsOf ==
    ASSUME NEW w \in SUBSET (0..15)
    PROVE  DivideBit(w) \in SUBSET (0..15) /\ Stepped(w, DivideBit(w))
  BY StepBits DEF Stepped

(* What eight steps leave: the upper byte moves down, and to it is added     *)
(* what the tables hold for the lower one.                                   *)
LEMMA DividedBits ==
    ASSUME NEW w \in SUBSET (0..15), NEW v, v = Divided(w)
    PROVE  /\ v \in SUBSET (0..15)
           /\ 0 \in v <=> Differ(8 \in w, Odd(w))
           /\ 1 \in v <=> 9 \in w
           /\ 2 \in v <=> 10 \in w
           /\ 3 \in v <=> 11 \in w
           /\ 4 \in v <=> 12 \in w
           /\ 5 \in v <=> 13 \in w
           /\ 6 \in v <=> Differ(14 \in w, 0 \in w)
           /\ 7 \in v <=> Differ(15 \in w, Differ(0 \in w, 1 \in w))
           /\ 8 \in v <=> Differ(1 \in w, 2 \in w)
           /\ 9 \in v <=> Differ(2 \in w, 3 \in w)
           /\ 10 \in v <=> Differ(3 \in w, 4 \in w)
           /\ 11 \in v <=> Differ(4 \in w, 5 \in w)
           /\ 12 \in v <=> Differ(5 \in w, 6 \in w)
           /\ 13 \in v <=> Differ(6 \in w, 7 \in w)
           /\ 14 \in v <=> Differ(7 \in w, Odd(w))
           /\ 15 \in v <=> Odd(w)
<1> DEFINE w1 == DivideBit(w)
           w2 == DivideBit(w1)
           w3 == DivideBit(w2)
           w4 == DivideBit(w3)
           w5 == DivideBit(w4)
           w6 == DivideBit(w5)
           w7 == DivideBit(w6)
           w8 == DivideBit(w7)
<1>1. w1 \in SUBSET (0..15) /\ Stepped(w, w1)
  BY StepsOf
<1> HIDE DEF w1
<1>2. w2 \in SUBSET (0..15) /\ Stepped(w1, w2)
  BY <1>1, StepsOf
<1> HIDE DEF w2
<1>3. w3 \in SUBSET (0..15) /\ Stepped(w2, w3)
  BY <1>2, StepsOf
<1> HIDE DEF w3
<1>4. w4 \in SUBSET (0..15) /\ Stepped(w3, w4)
  BY <1>3, StepsOf
<1> HIDE DEF w4
<1>5. w5 \in SUBSET (0..15) /\ Stepped(w4, w5)
  BY <1>4, StepsOf
<1> HIDE DEF w5
<1>6. w6 \in SUBSET (0..15) /\ Stepped(w5, w6)
  BY <1>5, StepsOf
<1> HIDE DEF w6
<1>7. w7 \in SUBSET (0..15) /\ Stepped(w6, w7)
  BY <1>6, StepsOf
<1> HIDE DEF w7
<1>8. w8 \in SUBSET (0..15) /\ Stepped(w7, w8)
  BY <1>7, StepsOf
<1> HIDE DEF w8
<1>9. v = w8
  BY DividedSteps, Zenon DEF w1, w2, w3, w4, w5, w6, w7, w8
<1>10. Odd(w) <=> Differ(0 \in w, Differ(1 \in w, Differ(2 \in w, Differ(3 \in w,
                    Differ(4 \in w, Differ(5 \in w, Differ(6 \in w, 7 \in w)))))))
  BY OddIs
<1> HIDE DEF Differ
<1> QED
  BY <1>1, <1>2, <1>3, <1>4, <1>5, <1>6, <1>7, <1>8, <1>9, <1>10, SMTT(60) DEF Stepped, Differ

-----------------------------------------------------------------------------
Octet == SUBSET (0..7)
Remainder == [hi : Octet, lo : Octet]

(* One turn of the loop is a division by the Modbus polynomial.              *)
LEMMA NextIsReference ==
    ASSUME NEW crc \in Remainder, NEW byte \in Octet
    PROVE  NextCrc(crc, byte) = Reference(crc, byte)
<1> DEFINE A == Xor(crc.hi, byte)
           l == crc.lo
           w == A \cup {i + 8 : i \in l}
           v == Divided(w)
           hi == Bits(G_auchCRCHi[1 + Index[A]])
           lo == Bits(G_auchCRCLo[1 + Index[A]])
<1>1. A \in SUBSET (0..7) /\ l \in SUBSET (0..7)
  BY DEF Remainder, Octet, Xor
<1>2. NextCrc(crc, byte) = [hi |-> Xor(l, hi), lo |-> lo]
  BY Zenon DEF NextCrc
<1>3. Reference(crc, byte) = [hi |-> v \cap 0..7, lo |-> {i - 8 : i \in v \cap 8..15}]
  BY Zenon DEF Reference
<1> HIDE DEF A, l
<1>4. /\ w \in SUBSET (0..15)
      /\ \A i \in 0..7 : (i \in w <=> i \in A) /\ (i + 8 \in w <=> i \in l)
  <2> DEFINE high == {i + 8 : i \in l}
  <2>1. high \in SUBSET (8..15) /\ \A i \in 0..7 : i + 8 \in high <=> i \in l
    BY <1>1
  <2> HIDE DEF high
  <2>2. w = A \cup high
    BY DEF high
  <2> HIDE DEF w
  <2>3. w \in SUBSET (0..15)
    BY <1>1, <2>1, <2>2
  <2>4. \A i \in 0..7 : i \notin high /\ i + 8 \notin A /\ i + 8 \in 8..15
    BY <1>1, <2>1
  <2> QED
    BY <2>1, <2>2, <2>3, <2>4
<1>5. Odd(w) = Odd(A)
  <2>1. \A i \in 0..7 : Digit(w, i) = Digit(A, i)
    BY <1>4 DEF Digit
  <2> HIDE DEF w
  <2>2. Ones(w) = Ones(A)
    BY <2>1 DEF Ones
  <2> QED
    BY <2>2 DEF Odd
<1>6. /\ (0 \in w <=> 0 \in A) /\ (8 \in w <=> 0 \in l)
      /\ (1 \in w <=> 1 \in A) /\ (9 \in w <=> 1 \in l)
      /\ (2 \in w <=> 2 \in A) /\ (10 \in w <=> 2 \in l)
      /\ (3 \in w <=> 3 \in A) /\ (11 \in w <=> 3 \in l)
      /\ (4 \in w <=> 4 \in A) /\ (12 \in w <=> 4 \in l)
      /\ (5 \in w <=> 5 \in A) /\ (13 \in w <=> 5 \in l)
      /\ (6 \in w <=> 6 \in A) /\ (14 \in w <=> 6 \in l)
      /\ (7 \in w <=> 7 \in A) /\ (15 \in w <=> 7 \in l)
  BY <1>4
<1> HIDE DEF w
<1>7. /\ v \in SUBSET (0..15)
      /\ 0 \in v <=> Differ(0 \in l, Odd(A))
      /\ 1 \in v <=> 1 \in l
      /\ 2 \in v <=> 2 \in l
      /\ 3 \in v <=> 3 \in l
      /\ 4 \in v <=> 4 \in l
      /\ 5 \in v <=> 5 \in l
      /\ 6 \in v <=> Differ(6 \in l, 0 \in A)
      /\ 7 \in v <=> Differ(7 \in l, Differ(0 \in A, 1 \in A))
      /\ 8 \in v <=> Differ(1 \in A, 2 \in A)
      /\ 9 \in v <=> Differ(2 \in A, 3 \in A)
      /\ 10 \in v <=> Differ(3 \in A, 4 \in A)
      /\ 11 \in v <=> Differ(4 \in A, 5 \in A)
      /\ 12 \in v <=> Differ(5 \in A, 6 \in A)
      /\ 13 \in v <=> Differ(6 \in A, 7 \in A)
      /\ 14 \in v <=> Differ(7 \in A, Odd(A))
      /\ 15 \in v <=> Odd(A)
  BY <1>4, <1>5, <1>6, DividedBits
<1>8. /\ hi \subseteq 0..7
      /\ 0 \in hi <=> Odd(A)
      /\ 1 \notin hi /\ 2 \notin hi /\ 3 \notin hi /\ 4 \notin hi /\ 5 \notin hi
      /\ 6 \in hi <=> 0 \in A
      /\ 7 \in hi <=> Differ(0 \in A, 1 \in A)
      /\ lo \subseteq 0..7
      /\ 0 \in lo <=> Differ(1 \in A, 2 \in A)
      /\ 1 \in lo <=> Differ(2 \in A, 3 \in A)
      /\ 2 \in lo <=> Differ(3 \in A, 4 \in A)
      /\ 3 \in lo <=> Differ(4 \in A, 5 \in A)
      /\ 4 \in lo <=> Differ(5 \in A, 6 \in A)
      /\ 5 \in lo <=> Differ(6 \in A, 7 \in A)
      /\ 6 \in lo <=> Differ(7 \in A, Odd(A))
      /\ 7 \in lo <=> Odd(A)
  BY <1>1, TableBits
<1> HIDE DEF v, hi, lo
<1>9. Xor(l, hi) = v \cap 0..7
  <2>1. \A i \in 0..7 : i \in v <=> Differ(i \in l, i \in hi)
    BY <1>7, <1>8 DEF Differ
  <2>2. \A i : i \in Xor(l, hi) <=> Differ(i \in l, i \in hi)
    BY DEF Xor, Differ
  <2>3. Xor(l, hi) \subseteq 0..7
    BY <1>1, <1>8 DEF Xor
  <2> QED
    BY <2>1, <2>2, <2>3
<1>10. lo = {i - 8 : i \in v \cap 8..15}
  <2>1. /\ (0 \in lo <=> 8 \in v) /\ (1 \in lo <=> 9 \in v) /\ (2 \in lo <=> 10 \in v)
        /\ (3 \in lo <=> 11 \in v) /\ (4 \in lo <=> 12 \in v) /\ (5 \in lo <=> 13 \in v)
        /\ (6 \in lo <=> 14 \in v) /\ (7 \in lo <=> 15 \in v)
    BY <1>7, <1>8
  <2>2. \A i \in 0..7 : i \in lo <=> i + 8 \in v
    BY <2>1
  <2>3. \A i : i \in {j - 8 : j \in v \cap 8..15} <=> i \in 0..7 /\ i + 8 \in v
    OBVIOUS
  <2> QED
    BY <1>8, <2>2, <2>3
<1> QED
  BY <1>2, <1>3, <1>9, <1>10

(* The remainder has two bytes, whatever it was before.                      *)
LEMMA RemainderTypes ==
    ASSUME NEW crc, NEW byte
    PROVE  /\ NextCrc(crc, byte).lo \in Octet
           /\ crc.lo \in Octet => NextCrc(crc, byte) \in Remainder
           /\ Reference(crc, byte) \in Remainder
<1>1. \A n : Bits(n) \in Octet
  BY DEF Bits, Octet
<1>2. NextCrc(crc, byte).lo \in Octet
  BY <1>1 DEF NextCrc
<1>3. ASSUME crc.lo \in Octet PROVE NextCrc(crc, byte) \in Remainder
  <2>1. \A a, b \in Octet : Xor(a, b) \in Octet
    BY DEF Xor, Octet
  <2>2. \A n : Xor(crc.lo, Bits(n)) \in Octet
    BY <1>1, <1>3, <2>1
  <2> HIDE DEF Octet
  <2> QED
    BY <1>1, <2>2 DEF NextCrc, Remainder
<1>4. Reference(crc, byte) \in Remainder
  <2> DEFINE v == Divided(Xor(crc.hi, byte) \cup {i + 8 : i \in crc.lo})
  <2>1. Reference(crc, byte) = [hi |-> v \cap 0..7, lo |-> {i - 8 : i \in v \cap 8..15}]
    BY Zenon DEF Reference
  <2> HIDE DEF v
  <2>2. v \cap 0..7 \in Octet /\ {i - 8 : i \in v \cap 8..15} \in Octet
    BY DEF Octet
  <2> QED
    BY <2>1, <2>2 DEF Remainder
<1> QED
  BY <1>2, <1>3, <1>4

(* FoldLeft takes the last element of a sequence off first.                  *)
LEMMA LastIndex ==
    ASSUME NEW n \in Nat, NEW s \in SUBSET (1..n), s # {}
    PROVE  Sequence!Max(s) \in s
<1> DEFINE T == {n - i : i \in s}
<1>1. T \in SUBSET Nat /\ T # {}
  <2>1. \A i \in s : i \in Nat /\ n - i \in Nat
    OBVIOUS
  <2>2. PICK i \in s : TRUE
    OBVIOUS
  <2>3. n - i \in T
    OBVIOUS
  <2>4. \A t \in T : t \in Nat
    BY <2>1
  <2> QED
    BY <2>3, <2>4
<1>2. PICK x \in T : \A y \in T : x <= y
  BY <1>1, Least
<1>3. PICK m \in s : x = n - m
  BY <1>2
<1>4. ASSUME NEW i \in s PROVE m >= i
  <2>1. n - i \in T /\ i \in Nat /\ m \in Nat
    OBVIOUS
  <2>2. n - m <= n - i
    BY <1>2, <1>3, <2>1
  <2> QED
    BY <2>1, <2>2
<1> QED
  BY <1>3, <1>4, Zenon DEF Sequence!Max

Octets == Seq(Octet)

(* The two loops do the same with any sequence of bytes: the function that   *)
(* one is defined by is that of the other.                                   *)
LEMMA FoldsAgree ==
    ASSUME NEW message \in Octets
    PROVE  Sequence!FoldLeft(NextCrc, Start, message)
             = Sequence!FoldLeft(Reference, Start, message)
<1> DEFINE D == DOMAIN message
           last(s) == Sequence!Max(s)
           F(f) == f = [s \in SUBSET D |->
                         IF s = {} THEN Start
                         ELSE NextCrc(f[s \ {last(s)}], message[last(s)])]
           R(f) == f = [s \in SUBSET D |->
                         IF s = {} THEN Start
                         ELSE Reference(f[s \ {last(s)}], message[last(s)])]
<1>1. \A s \in SUBSET D : s # {} =>
         /\ last(s) \in s /\ s \ {last(s)} \in SUBSET D
         /\ message[last(s)] \in Octet
  <2> TAKE s \in SUBSET D
  <2> HAVE s # {}
  <2>1. D = 1..Len(message) /\ Len(message) \in Nat
    BY DEF Octets
  <2>2. last(s) \in s
    BY <2>1, LastIndex
  <2> HIDE DEF last
  <2> QED
    BY <2>1, <2>2 DEF Octets
<1>2. Start \in Remainder /\ Start.lo \in Octet
  BY DEF Start, Remainder, Octet
<1>3. \A f : F(f) <=> R(f)
  <2> TAKE f
  <2> HIDE DEF D, last
  <2>1. ASSUME F(f) PROVE R(f)
    <3>1. \A s \in SUBSET D : f[s] = IF s = {} THEN Start
                              ELSE NextCrc(f[s \ {last(s)}], message[last(s)])
      BY <2>1
    <3>2. \A s \in SUBSET D : f[s].lo \in Octet
      BY <3>1, <1>2, RemainderTypes
    <3>3. \A s \in SUBSET D : f[s] \in Remainder
      <4> TAKE s \in SUBSET D
      <4>1. CASE s = {}
        BY <3>1, <4>1, <1>2
      <4>2. CASE s # {}
        <5>1. f[s] = NextCrc(f[s \ {last(s)}], message[last(s)])
          BY <3>1, <4>2
        <5>2. f[s \ {last(s)}].lo \in Octet
          BY <1>1, <3>2, <4>2
        <5> QED
          BY <5>1, <5>2, RemainderTypes, Zenon
      <4> QED
        BY <4>1, <4>2
    <3>4. \A s \in SUBSET D : s # {} =>
            NextCrc(f[s \ {last(s)}], message[last(s)])
              = Reference(f[s \ {last(s)}], message[last(s)])
      BY <1>1, <3>3, NextIsReference
    <3> QED
      BY <2>1, <3>4
  <2>2. ASSUME R(f) PROVE F(f)
    <3>1. \A s \in SUBSET D : f[s] = IF s = {} THEN Start
                              ELSE Reference(f[s \ {last(s)}], message[last(s)])
      BY <2>2
    <3>2. \A s \in SUBSET D : f[s] \in Remainder
      BY <3>1, <1>2, RemainderTypes
    <3>3. \A s \in SUBSET D : s # {} =>
            NextCrc(f[s \ {last(s)}], message[last(s)])
              = Reference(f[s \ {last(s)}], message[last(s)])
      BY <1>1, <3>2, NextIsReference
    <3> QED
      BY <2>2, <3>3
  <2> QED
    BY <2>1, <2>2
<1> HIDE DEF F, R
<1>4. (CHOOSE f : F(f)) = (CHOOSE f : R(f))
  BY <1>3, Zenon
<1>5. Sequence!FoldLeft(NextCrc, Start, message) = (CHOOSE f : F(f))[D]
  BY Zenon DEF Sequence!FoldLeft, Sequence!MapThenFoldSet, F, D, last
<1>6. Sequence!FoldLeft(Reference, Start, message) = (CHOOSE f : R(f))[D]
  BY Zenon DEF Sequence!FoldLeft, Sequence!MapThenFoldSet, R, D, last
<1> QED
  BY <1>4, <1>5, <1>6, Zenon

(* So is the checksum of every answer.                                       *)
LEMMA AllAccepted ==
    ASSUME NEW max \in Nat, NEW n \in 0..max
    PROVE  n \in Accepted(max)
<1> SUFFICES ASSUME NEW slave \in SUBSET (0..7), NEW byte \in {{}, 0..7}
             PROVE  Crc16(Frame(slave, n, byte))
                      = Sequence!FoldLeft(Reference, Start, Frame(slave, n, byte))
  BY Zenon DEF Accepted
<1> DEFINE data == [i \in 1..(2 * n) |-> byte]
<1>1. byte \in Octet /\ slave \in Octet
  BY DEF Octet
<1>2. data \in Octets
  BY <1>1 DEF Octets
<1>3. Bits(3) \in Octet /\ Bits(2 * n) \in Octet
  BY DEF Bits, Octet
<1> HIDE DEF data
<1>4. <<slave, Bits(3), Bits(2 * n)>> \in Octets
  BY <1>1, <1>3 DEF Octets
<1>5. Frame(slave, n, byte) = <<slave, Bits(3), Bits(2 * n)>> \o data
  BY Zenon DEF Frame, data
<1>6. Frame(slave, n, byte) \in Octets
  BY <1>2, <1>4, <1>5 DEF Octets
<1> QED
  BY <1>6, FoldsAgree, Zenon DEF Crc16

-----------------------------------------------------------------------------
(* crc16: of every message it is the checksum that Modbus demands, the       *)
(* remainder of the division by x^16 + x^15 + x^2 + 1.                       *)
THEOREM CrcIsModbus ==
    \A message \in Octets :
        Crc16(message) = Sequence!FoldLeft(Reference, Start, message)
  BY FoldsAgree, Zenon DEF Crc16

(* checkMsg: no whole answer to a range that is polled is rejected for its   *)
(* checksum.                                                                 *)
THEOREM AnswersAccepted == Spec => []CrcTrue
<1>1. Limit + 1 \in Nat
  BY PlanAssumption
<1>2. LimitNearly => CrcTrue
  <2> SUFFICES ASSUME LimitNearly, devices = 1, PlainRegs, NEW c \in DOMAIN hrRanges
               PROVE  hrRanges[c] \in AcceptedLengths
    BY Zenon DEF CrcTrue
  <2>1. hrRanges[c] \in 0..(Limit + 1)
    BY PlanAssumption DEF LimitNearly
  <2> QED
    BY <1>1, <2>1, AllAccepted, Zenon DEF AcceptedLengths
<1> QED
  BY <1>2, NearLimit, PTL
=============================================================================
