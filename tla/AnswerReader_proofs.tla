------------------------- MODULE AnswerReader_proofs -------------------------
(* Proofs about AnswerReader, for any frames, however many of them are sent, *)
(* split or altered.                                                         *)
EXTENDS AnswerReader, LeastNumber, SequenceTheorems

-----------------------------------------------------------------------------
(* Ends, the sums of lengths.                                                *)

LEMMA EndsDef ==
    ASSUME NEW s \in Seq(Frame)
    PROVE  Ends(s) = [i \in 0..Len(s) |->
                        IF i = 0 THEN 0 ELSE Ends(s)[i - 1] + s[i].len]
<1> DEFINE G(f, m) == f = [i \in 0..m |->
                             IF i = 0 THEN 0 ELSE f[i - 1] + s[i].len]
           S == {m \in 0..Len(s) : \E f : G(f, m)}
<1>1. Len(s) \in Nat
  OBVIOUS
<1>2. 0 \in S
  <2>1. G([i \in 0..0 |-> 0], 0)
    OBVIOUS
  <2> HIDE DEF G
  <2> QED
    BY <1>1, <2>1
<1>3. ASSUME NEW m \in 0..(Len(s) - 1), m \in S PROVE m + 1 \in S
  <2>1. PICK f : G(f, m)
    BY <1>3
  <2> DEFINE g == [i \in 0..(m + 1) |->
                     IF i = m + 1 THEN f[m] + s[m + 1].len ELSE f[i]]
  <2>2. G(g, m + 1)
    BY <1>1, <2>1
  <2> HIDE DEF G, g
  <2> QED
    BY <1>1, <2>2
<1>4. Len(s) \in S
  <2>1. 0..Len(s) \subseteq S
    <3> HIDE DEF S
    <3> QED
      BY <1>1, <1>2, <1>3, Induction
  <2> QED
    BY <1>1, <2>1
<1> QED
  BY <1>4 DEF Ends

LEMMA EndsType ==
    ASSUME NEW s \in Seq(Frame)
    PROVE  /\ Ends(s)[0] = 0
           /\ \A i \in 0..Len(s) : Ends(s)[i] \in Nat
           /\ \A i \in 1..Len(s) : Ends(s)[i] = Ends(s)[i - 1] + s[i].len
<1> DEFINE S == {i \in 0..Len(s) : Ends(s)[i] \in Nat}
<1>1. Len(s) \in Nat
  OBVIOUS
<1>2. /\ Ends(s)[0] = 0
      /\ \A i \in 1..Len(s) : Ends(s)[i] = Ends(s)[i - 1] + s[i].len
  BY <1>1, EndsDef
<1>3. ASSUME NEW i \in 0..(Len(s) - 1), i \in S PROVE i + 1 \in S
  <2>1. i + 1 \in 1..Len(s) /\ i + 1 \in 0..Len(s)
    BY <1>1
  <2>2. s[i + 1].len \in Nat
    <3>1. s[i + 1] \in Frame
      BY <2>1
    <3> QED
      BY <3>1 DEF Frame
  <2>3. Ends(s)[i + 1] = Ends(s)[i] + s[i + 1].len
    BY <1>2, <2>1
  <2> QED
    BY <1>3, <2>1, <2>2, <2>3
<1>4. 0..Len(s) \subseteq S
  <2>1. 0 \in S
    BY <1>1, <1>2
  <2> HIDE DEF S
  <2> QED
    BY <1>1, <1>3, <2>1, Induction
<1> QED
  BY <1>2, <1>4

(* Behind frames with bytes in them, the sums grow.                          *)
LEMMA EndsGrow ==
    ASSUME NEW s \in Seq(Frame), NEW j \in 0..Len(s),
           \A i \in (j + 1)..Len(s) : s[i].len > 0
    PROVE  \A i \in (j + 1)..Len(s) : Ends(s)[i] > Ends(s)[j]
<1> DEFINE S == {d \in 0..(Len(s) - j) : d > 0 => Ends(s)[j + d] > Ends(s)[j]}
<1>1. Len(s) \in Nat
  OBVIOUS
<1>2. 0 \in S
  BY <1>1
<1>3. ASSUME NEW d \in 0..(Len(s) - j - 1), d \in S PROVE d + 1 \in S
  <2>1. j + d \in 0..Len(s) /\ j + d + 1 \in (j + 1)..Len(s)
    BY <1>1
  <2>2. Ends(s)[j + d + 1] = Ends(s)[j + d] + s[j + d + 1].len
    BY <1>1, <2>1, EndsType
  <2>3. Ends(s)[j + d] \in Nat /\ Ends(s)[j] \in Nat
    BY <1>1, <2>1, EndsType
  <2>4. s[j + d + 1].len > 0 /\ s[j + d + 1].len \in Nat
    <3>1. s[j + d + 1] \in Frame
      BY <1>1, <2>1
    <3> QED
      BY <2>1, <3>1 DEF Frame
  <2>5. Ends(s)[j + d] >= Ends(s)[j]
    BY <1>3, <2>3
  <2>6. Ends(s)[j + d + 1] > Ends(s)[j]
    BY <2>2, <2>3, <2>4, <2>5
  <2>7. j + d + 1 = j + (d + 1) /\ d + 1 \in 0..(Len(s) - j)
    BY <1>1
  <2> QED
    BY <2>6, <2>7
<1>4. 0..(Len(s) - j) \subseteq S
  <2>1. Len(s) - j \in Nat
    BY <1>1
  <2> HIDE DEF S
  <2> QED
    BY <1>2, <1>3, <2>1, Induction
<1>5. ASSUME NEW i \in (j + 1)..Len(s) PROVE Ends(s)[i] > Ends(s)[j]
  <2>1. i - j \in 0..(Len(s) - j) /\ i - j > 0 /\ j + (i - j) = i
    BY <1>1
  <2>2. i - j \in S
    BY <1>4, <2>1
  <2> QED
    BY <2>1, <2>2
<1> QED
  BY <1>5

(* What Consume chooses: the frames that end within the first k bytes.       *)
Gone(k) == CHOOSE j \in 0..Len(stream) :
                /\ Upto(j) <= off + k
                /\ j < Len(stream) => off + k < Upto(j + 1)

LEMMA GoneExists ==
    ASSUME stream \in Seq(Frame), off \in Nat, NEW k \in Nat,
           off + k <= Upto(Len(stream))
    PROVE  Gone(k) \in 0..Len(stream) /\ Upto(Gone(k)) <= off + k
<1> DEFINE P(j) == /\ Upto(j) <= off + k
                   /\ j < Len(stream) => off + k < Upto(j + 1)
           T == {j \in 1..Len(stream) : off + k < Upto(j)}
<1>0. Gone(k) = CHOOSE j \in 0..Len(stream) : P(j)
  BY DEF Gone
<1>1. Len(stream) \in Nat
  OBVIOUS
<1>2. Upto(0) = 0 /\ \A j \in 0..Len(stream) : Upto(j) \in Nat
  BY EndsType DEF Upto
<1>3. CASE T = {}
  <2>1. P(Len(stream))
    <3>1. CASE Len(stream) = 0
      BY <1>2, <3>1
    <3>2. CASE Len(stream) # 0
      <4>1. Len(stream) \in 1..Len(stream) /\ Len(stream) \notin T
        BY <1>1, <1>3, <3>2
      <4>2. Upto(Len(stream)) \in Nat
        BY <1>1, <1>2
      <4> QED
        BY <4>1, <4>2
    <3> QED
      BY <3>1, <3>2
  <2>2. \E j \in 0..Len(stream) : P(j)
    BY <1>1, <2>1
  <2>3. Gone(k) \in 0..Len(stream) /\ P(Gone(k))
    <3> HIDE DEF P
    <3> QED
      BY <1>0, <2>2, Zenon
  <2> QED
    BY <2>3
<1>4. CASE T # {}
  <2>1. PICK m \in T : \A y \in T : m <= y
    <3>1. T \in SUBSET Nat
      BY <1>1
    <3> HIDE DEF T
    <3> QED
      BY <1>4, <3>1, Least
  <2>2. m - 1 \in 0..Len(stream) /\ m - 1 \notin T /\ m - 1 < Len(stream)
    BY <1>1, <2>1
  <2>3. Upto(m - 1) <= off + k
    <3>1. CASE m = 1
      BY <1>2, <3>1
    <3>2. CASE m # 1
      BY <1>1, <1>2, <2>2, <3>2
    <3> QED
      BY <3>1, <3>2
  <2>4. P(m - 1)
    BY <1>1, <2>3
  <2>5. \E j \in 0..Len(stream) : P(j)
    BY <2>2, <2>4
  <2>6. Gone(k) \in 0..Len(stream) /\ P(Gone(k))
    <3> HIDE DEF P
    <3> QED
      BY <1>0, <2>5, Zenon
  <2> QED
    BY <2>6
<1> QED
  BY <1>3, <1>4

(* The bytes of exactly the first frame are that frame.                      *)
LEMMA GoneFirst ==
    ASSUME stream \in Seq(Frame), stream # <<>>, off = 0,
           \A i \in 1..Len(stream) : stream[i].len > 0
    PROVE  Gone(stream[1].len) = 1 /\ Upto(1) = stream[1].len
<1> DEFINE k == stream[1].len
           P(j) == /\ Upto(j) <= off + k
                   /\ j < Len(stream) => off + k < Upto(j + 1)
<1>1. Len(stream) \in Nat /\ Len(stream) >= 1 /\ k \in Nat
  <2>1. Len(stream) \in Nat \ {0}
    BY EmptySeq
  <2>2. stream[1] \in Frame
    BY <2>1
  <2> QED
    BY <2>1, <2>2 DEF Frame
<1>2. /\ Upto(0) = 0 /\ \A j \in 0..Len(stream) : Upto(j) \in Nat
      /\ \A j \in 1..Len(stream) : Upto(j) = Upto(j - 1) + stream[j].len
  BY EndsType DEF Upto
<1>3. Upto(1) = k
  BY <1>1, <1>2
<1>4. \A j \in 2..Len(stream) : Upto(j) > Upto(1)
  BY <1>1, EndsGrow DEF Upto
<1>5. P(1)
  BY <1>1, <1>3, <1>4
<1>6. ASSUME NEW j \in 0..Len(stream), P(j) PROVE j = 1
  <2>1. j # 0
    BY <1>1, <1>2, <1>3, <1>6
  <2>2. j \notin 2..Len(stream)
    BY <1>1, <1>2, <1>3, <1>4, <1>6
  <2> QED
    BY <1>1, <2>1, <2>2
<1>7. Gone(k) = CHOOSE j \in 0..Len(stream) : P(j)
  BY DEF Gone
<1>8. Gone(k) = 1
  <2>1. 1 \in 0..Len(stream)
    BY <1>1
  <2> HIDE DEF P
  <2> QED
    BY <1>5, <1>6, <1>7, <2>1, Zenon
<1> QED
  BY <1>3, <1>8

-----------------------------------------------------------------------------
(* The invariant.                                                            *)

(* The registration package is the next to be read, but for a heartbeat.     *)
Registering ==
    phase = "reg" =>
        /\ off = 0 /\ n + want = RegistSize /\ want > 0
        /\ looks = {} /\ parsed = {}
        /\ \/ /\ stream[1] = Registration /\ Len(stream) = sends + 1
              /\ \A i \in 2..Len(stream) : stream[i] \in Frames
           \/ noisy /\ stream[1] = Heartbeat /\ Len(stream) = sends + 2

(* The buffer is filled to the end of a header, or of what it announces.     *)
Running ==
    phase = "run" =>
        /\ Len(stream) <= sends
        /\ \A i \in 1..Len(stream) : stream[i] \in Frames
        /\ IF looks = {} THEN n + want = HeaderLen ELSE n >= HeaderLen
        /\ \A f \in looks : f.kind # "tcp" => n + want = f.len

(* The line is good, and header and frame go together.                       *)
Clean ==
    ~noisy =>
        /\ phase \notin {"closed", "overrun"}
        /\ \A i \in 1..Len(intact) : intact[i]
        /\ phase = "reg" => stream[1] = Registration
        /\ phase = "run" =>
             /\ off = 0 /\ want > 0
             /\ looks # {} => stream # <<>> /\ looks = {stream[1]}

Inv == TypeOK /\ Registering /\ Running /\ Clean

(* While the line is good, what is asked for has room in the buffer.         *)
LEMMA Roomy == Inv /\ ~noisy => n + want <= Buffer
<1> SUFFICES ASSUME Inv, ~noisy PROVE n + want <= Buffer
  OBVIOUS
<1>1. /\ Buffer \in Nat /\ Buffer >= 19
      /\ \A f \in Frames : f.len <= Buffer /\ f.kind \in {"beat", "write", "exception", "read"}
  BY ReaderAssumption DEF RegistSize
<1>2. phase = "reg" \/ phase = "run"
  BY DEF Inv, TypeOK, Clean
<1>3. CASE phase = "reg"
  BY <1>1, <1>3 DEF Inv, Registering, RegistSize
<1>4. CASE phase = "run" /\ looks = {}
  BY <1>1, <1>4 DEF Inv, Running, HeaderLen
<1>5. CASE phase = "run" /\ looks # {}
  <2>1. stream # <<>> /\ looks = {stream[1]} /\ stream \in Seq(Frame)
    BY <1>5 DEF Inv, Clean, TypeOK
  <2>2. stream[1] \in Frames
    BY <1>5, <2>1, EmptySeq DEF Inv, Running
  <2>3. stream[1].kind # "tcp"
    BY <1>1, <2>2
  <2>4. n + want = stream[1].len
    BY <1>5, <2>1, <2>3 DEF Inv, Running
  <2> QED
    BY <1>1, <2>2, <2>4
<1> QED
  BY <1>2, <1>3, <1>4, <1>5

LEMMA FrameFacts ==
    /\ \A f \in Frames : f \in Frame /\ f.kind # "tcp" /\ f.len >= 3
    /\ \A f \in Frames : f.kind = "read" => f.len >= 6
    /\ \A f \in Altered : f \in Frame
    /\ Registration \in Frame /\ Heartbeat \in Frame
    /\ Registration \notin Frames /\ Heartbeat.kind # "reg"
    /\ Registration.len = RegistSize
    /\ \A f \in Frames \cup {Heartbeat} : f.kind # "reg"
<1>1. ASSUME NEW f \in Frames
      PROVE  /\ f \in Frame /\ f.kind # "tcp" /\ f.len >= 3 /\ f.kind # "reg"
             /\ f.kind = "read" => f.len >= 6
  <2>1. f \in Frame /\ f.kind \in {"beat", "write", "exception", "read"}
    BY ReaderAssumption
  <2>2. /\ f.kind = "beat" => f.len = 3
        /\ f.kind = "write" => f.len = 8
        /\ f.kind = "exception" => f.len = 5
        /\ f.kind = "read" => f.len \in 6..260
    BY ReaderAssumption DEF HeaderLen
  <2> QED
    BY <2>1, <2>2
<1>2. /\ Registration \in Frame /\ Heartbeat \in Frame
      /\ Registration.kind = "reg" /\ Heartbeat.kind = "beat"
      /\ Registration.len = RegistSize
  BY DEF Frame, Kinds, Registration, Heartbeat, RegistSize, HeaderLen
<1>3. \A f \in Altered : f \in Frame
  BY ReaderAssumption
<1> QED
  BY <1>1, <1>2, <1>3

LEMMA Arrived ==
    ASSUME TypeOK, NEW k \in Received
    PROVE  /\ k \in Nat /\ k > n /\ k <= n + want /\ off + k <= Upto(Len(stream))
           /\ off = 0 => stream # <<>>
<1>1. Len(stream) \in Nat /\ Upto(Len(stream)) \in Nat
  BY EndsType DEF TypeOK, Upto
<1>2. k \in (n + 1)..(n + want) /\ k <= n + (Upto(Len(stream)) - off - n)
  BY DEF Received, Available
<1>3. k \in Nat /\ k > n /\ k <= n + want /\ off + k <= Upto(Len(stream))
  BY <1>1, <1>2 DEF TypeOK
<1>4. ASSUME off = 0, stream = <<>> PROVE FALSE
  <2>1. Upto(Len(stream)) = 0
    BY <1>4, EndsType DEF TypeOK, Upto
  <2> QED
    BY <1>3, <1>4, <2>1 DEF TypeOK
<1> QED
  BY <1>3, <1>4

LEMMA Taken ==
    ASSUME TypeOK, NEW k \in Nat, off + k <= Upto(Len(stream)), Consume(k)
    PROVE  /\ stream' \in Seq(Frame) /\ intact' \in Seq(BOOLEAN)
           /\ Len(intact') = Len(stream') /\ off' \in Nat
           /\ Gone(k) \in 0..Len(stream)
           /\ stream' = SubSeq(stream, Gone(k) + 1, Len(stream))
           /\ Len(stream') = Len(stream) - Gone(k)
           /\ \A i \in 1..Len(stream') : /\ i + Gone(k) \in 1..Len(stream)
                                         /\ stream'[i] = stream[i + Gone(k)]
                                         /\ intact'[i] = intact[i + Gone(k)]
           /\ off' = off + k - Upto(Gone(k))
<1> DEFINE g == Gone(k)
<1>1. /\ stream' = SubSeq(stream, g + 1, Len(stream))
      /\ intact' = SubSeq(intact, g + 1, Len(stream))
      /\ off' = off + k - Upto(g)
  BY DEF Consume, Gone
<1>2. g \in 0..Len(stream) /\ Upto(g) <= off + k
  BY GoneExists DEF TypeOK
<1> HIDE DEF g
<1>3. Len(stream) \in Nat /\ Len(intact) = Len(stream) /\ Upto(g) \in Nat
  BY <1>2, EndsType DEF TypeOK, Upto
<1>4. ASSUME NEW S, NEW s \in Seq(S), Len(s) = Len(stream)
      PROVE  LET t == SubSeq(s, g + 1, Len(stream))
             IN  /\ t \in Seq(S) /\ Len(t) = Len(stream) - g
                 /\ \A i \in 1..Len(t) : t[i] = s[i + g]
  <2> DEFINE t == SubSeq(s, g + 1, Len(stream))
  <2>1. g + 1 \in 1..(Len(s) + 1) /\ Len(stream) \in 0..Len(s)
    BY <1>2, <1>3, <1>4
  <2>2. /\ t \in Seq(S)
        /\ Len(t) = IF g + 1 <= Len(stream) THEN Len(stream) - (g + 1) + 1 ELSE 0
        /\ \A i \in 1..(Len(stream) - (g + 1) + 1) : t[i] = s[g + 1 + i - 1]
    BY <2>1, SubSeqProperties
  <2> HIDE DEF t
  <2>3. Len(t) = Len(stream) - g
    BY <1>2, <1>3, <2>2
  <2>4. ASSUME NEW i \in 1..Len(t) PROVE t[i] = s[i + g]
    <3>1. i \in 1..(Len(stream) - (g + 1) + 1) /\ g + 1 + i - 1 = i + g
      BY <1>2, <1>3, <2>3
    <3> QED
      BY <2>2, <3>1
  <2> QED
    BY <2>2, <2>3, <2>4 DEF t
<1>5. /\ stream' \in Seq(Frame) /\ Len(stream') = Len(stream) - g
      /\ \A i \in 1..Len(stream') : stream'[i] = stream[i + g]
  BY <1>1, <1>4 DEF TypeOK
<1>7. /\ intact' \in Seq(BOOLEAN) /\ Len(intact') = Len(stream) - g
      /\ \A i \in 1..Len(intact') : intact'[i] = intact[i + g]
  BY <1>1, <1>3, <1>4 DEF TypeOK
<1>6. off' \in Nat
  BY <1>1, <1>2, <1>3 DEF TypeOK
<1>8. \A i \in 1..Len(stream') : i + g \in 1..Len(stream)
  BY <1>2, <1>3, <1>5
<1>9. Len(intact') = Len(stream')
  BY <1>5, <1>7
<1> QED
  BY <1>1, <1>2, <1>5, <1>6, <1>7, <1>8, <1>9 DEF g

LEMMA InvInit == Init => Inv
<1> SUFFICES ASSUME Init PROVE Inv
  OBVIOUS
<1>1. Registration # Heartbeat
  BY DEF Registration, Heartbeat
<1>2. /\ \/ stream = <<Registration>>
         \/ stream = <<Heartbeat, Registration>>
      /\ off = 0 /\ n = 0 /\ want = 19 /\ phase = "reg" /\ looks = {}
      /\ parsed = {} /\ sends = 0
  BY DEF Init, RegistSize
<1>3. PICK ok \in BOOLEAN :
        /\ intact = [i \in 1..Len(stream) |-> ok]
        /\ noisy = (~ok \/ stream[1] # Registration)
  BY DEF Init
<1>4. stream \in Seq(Frame) /\ Len(stream) \in Nat
  <2>1. CASE stream = <<Registration>>
    BY <2>1, FrameFacts
  <2>2. CASE stream = <<Heartbeat, Registration>>
    BY <2>2, FrameFacts
  <2> QED
    BY <1>2, <2>1, <2>2
<1>5. intact \in Seq(BOOLEAN) /\ Len(intact) = Len(stream)
  BY <1>3, <1>4
<1>6. \/ Len(stream) = 1 /\ stream[1] = Registration
      \/ Len(stream) = 2 /\ stream[1] = Heartbeat
  BY <1>2
<1>7. noisy \in BOOLEAN /\ MaxFrames \in Nat
  BY <1>3, ReaderAssumption
<1>8. TypeOK
  BY <1>2, <1>4, <1>5, <1>7 DEF TypeOK
<1>9. stream[1] # Registration => noisy
  BY <1>3, Zenon
<1>10. ~noisy => ok
  BY <1>3, Zenon
<1>11. Registering
  BY <1>1, <1>2, <1>6, <1>9 DEF Registering, RegistSize
<1>12. Running
  BY <1>2 DEF Running
<1>13. ~noisy => \A i \in 1..Len(intact) : intact[i]
  BY <1>3, <1>5, <1>10
<1>14. Clean
  BY <1>2, <1>9, <1>13 DEF Clean
<1> QED
  BY <1>8, <1>11, <1>12, <1>14 DEF Inv

LEMMA InvImplies == Inv => OneFrame
<1> SUFFICES ASSUME Inv, ~noisy
             PROVE  /\ phase # "overrun" /\ n + want <= Buffer
                    /\ phase = "run" =>
                         /\ off = 0 /\ n + want > 0
                         /\ stream # <<>> => n + want <= stream[1].len
  BY DEF OneFrame
<1>0. phase # "overrun" /\ n + want <= Buffer
  BY Roomy DEF Inv, Clean
<1> SUFFICES ASSUME phase = "run"
             PROVE  /\ off = 0 /\ n + want > 0
                    /\ stream # <<>> => n + want <= stream[1].len
  BY <1>0
<1>1. off = 0 /\ want > 0 /\ n \in Nat /\ want \in Nat /\ stream \in Seq(Frame)
  BY DEF Inv, Clean, TypeOK
<1>2. ASSUME stream # <<>> PROVE n + want <= stream[1].len
  <2>1. stream[1] \in Frames
    BY <1>1, <1>2, EmptySeq DEF Inv, Running
  <2>2. stream[1].kind # "tcp" /\ stream[1].len >= 3 /\ stream[1].len \in Nat
    BY <2>1, FrameFacts DEF Frame
  <2> QED
    BY <1>1, <2>1, <2>2 DEF Inv, Running, Clean, HeaderLen
<1> QED
  BY <1>1, <1>2

LEMMA SendInv == Inv /\ Send => Inv'
<1> SUFFICES ASSUME Inv, Send PROVE Inv'
  OBVIOUS
<1>1. PICK f \in Frames : stream' = Append(stream, f)
  BY DEF Send
<1>2. PICK ok \in BOOLEAN : intact' = Append(intact, ok) /\ noisy' = (noisy \/ ~ok)
  BY DEF Send
<1>3. /\ sends' = sends + 1 /\ sends < MaxFrames
      /\ UNCHANGED <<off, n, want, phase, looks, parsed>>
  BY DEF Send
<1>4. /\ stream \in Seq(Frame) /\ intact \in Seq(BOOLEAN) /\ Len(intact) = Len(stream)
      /\ Len(stream) \in Nat /\ sends \in Nat /\ f \in Frame
  BY FrameFacts DEF Inv, TypeOK
<1>5. /\ stream' \in Seq(Frame) /\ intact' \in Seq(BOOLEAN)
      /\ Len(stream') = Len(stream) + 1 /\ Len(intact') = Len(stream) + 1
      /\ \A i \in 1..Len(stream) : stream'[i] = stream[i] /\ intact'[i] = intact[i]
      /\ stream'[Len(stream) + 1] = f /\ intact'[Len(stream) + 1] = ok
  BY <1>1, <1>2, <1>4
<1>6. TypeOK'
  BY <1>2, <1>3, <1>4, <1>5, ReaderAssumption DEF Inv, TypeOK
<1>7. \A i \in 1..Len(stream') : i \in 1..Len(stream) \/ i = Len(stream) + 1
  BY <1>4, <1>5
<1>8. noisy => noisy'
  BY <1>2
<1>9. Registering'
  <2> SUFFICES ASSUME phase' = "reg" PROVE Registering'
    BY DEF Registering
  <2>1. /\ off' = 0 /\ n' + want' = RegistSize /\ want' > 0
        /\ looks' = {} /\ parsed' = {}
    BY <1>3 DEF Inv, Registering
  <2>2. CASE /\ stream[1] = Registration /\ Len(stream) = sends + 1
             /\ \A i \in 2..Len(stream) : stream[i] \in Frames
    <3>1. stream'[1] = Registration /\ Len(stream') = sends' + 1
      BY <1>3, <1>4, <1>5, <2>2
    <3>2. ASSUME NEW i \in 2..Len(stream') PROVE stream'[i] \in Frames
      <4>1. CASE i = Len(stream) + 1
        BY <1>5, <4>1
      <4>2. CASE i \in 2..Len(stream)
        BY <1>4, <1>5, <2>2, <4>2
      <4> QED
        BY <1>4, <1>5, <4>1, <4>2
    <3> QED
      BY <2>1, <3>1, <3>2 DEF Registering
  <2>3. CASE noisy /\ stream[1] = Heartbeat /\ Len(stream) = sends + 2
    <3>1. noisy' /\ stream'[1] = Heartbeat /\ Len(stream') = sends' + 2
      BY <1>3, <1>4, <1>5, <1>8, <2>3
    <3> QED
      BY <2>1, <3>1 DEF Registering
  <2> QED
    BY <1>3, <2>2, <2>3 DEF Inv, Registering
<1>10. Running'
  <2> SUFFICES ASSUME phase' = "run" PROVE Running'
    BY DEF Running
  <2>1. /\ Len(stream') <= sends'
        /\ IF looks' = {} THEN n' + want' = HeaderLen ELSE n' >= HeaderLen
        /\ \A g \in looks' : g.kind # "tcp" => n' + want' = g.len
    BY <1>3, <1>4, <1>5 DEF Inv, Running
  <2>2. ASSUME NEW i \in 1..Len(stream') PROVE stream'[i] \in Frames
    BY <1>3, <1>5, <1>7 DEF Inv, Running
  <2> QED
    BY <2>1, <2>2 DEF Running
<1>11. Clean'
  <2> SUFFICES ASSUME ~noisy' PROVE Clean'
    BY DEF Clean
  <2>1. ~noisy /\ ok
    BY <1>2
  <2>2. \A i \in 1..Len(intact') : intact'[i]
    <3>1. \A i \in 1..Len(intact) : intact[i]
      BY <2>1 DEF Inv, Clean
    <3> QED
      BY <1>4, <1>5, <1>7, <2>1, <3>1
  <2>3. phase' = "reg" => stream'[1] = Registration
    BY <1>3, <1>4, <1>5, <2>1 DEF Inv, Registering, Clean
  <2>4. ASSUME phase' = "run"
        PROVE  /\ off' = 0 /\ want' > 0
               /\ looks' # {} => stream' # <<>> /\ looks' = {stream'[1]}
    <3>1. off' = 0 /\ want' > 0
      BY <1>3, <2>1, <2>4 DEF Inv, Clean
    <3>2. ASSUME looks' # {} PROVE stream' # <<>> /\ looks' = {stream'[1]}
      <4>1. stream # <<>> /\ looks = {stream[1]}
        BY <1>3, <2>1, <2>4, <3>2 DEF Inv, Clean
      <4>2. Len(stream) \in Nat \ {0}
        BY <1>4, <4>1, EmptySeq
      <4> QED
        BY <1>3, <1>5, <4>1, <4>2
    <3> QED
      BY <3>1, <3>2
  <2>5. phase' \notin {"closed", "overrun"}
    BY <1>3, <2>1 DEF Inv, Clean
  <2> QED
    BY <2>2, <2>3, <2>4, <2>5 DEF Clean
<1> QED
  BY <1>6, <1>9, <1>10, <1>11 DEF Inv

-----------------------------------------------------------------------------
(* What a read does.                                                         *)

(* The bytes of one frame leave the stream together.                         *)
LEMMA FirstTaken ==
    ASSUME TypeOK, stream # <<>>, off = 0, \A i \in 1..Len(stream) : stream[i].len > 0,
           stream[1].len <= Upto(Len(stream)), Consume(stream[1].len)
    PROVE  stream' = Tail(stream) /\ off' = 0
<1> DEFINE k == stream[1].len
<1>1. Len(stream) \in Nat \ {0} /\ stream[1] \in Frame
  BY EmptySeq DEF TypeOK
<1>2. k \in Nat
  BY <1>1 DEF Frame
<1>3. Gone(k) = 1 /\ Upto(1) = k
  BY GoneFirst DEF TypeOK
<1> HIDE DEF k
<1>4. stream' = SubSeq(stream, Gone(k) + 1, Len(stream)) /\ off' = off + k - Upto(Gone(k))
  BY <1>2, Taken DEF k
<1> QED
  BY <1>1, <1>2, <1>3, <1>4, TailIsSubSeq DEF TypeOK

Still == UNCHANGED <<stream, intact, off, parsed, sends, noisy>>

(* More of the registration package is asked for; it is accepted; more of a  *)
(* header is asked for, or of a package; a package is handled; the session   *)
(* is closed.                                                                *)
RegPart ==
    /\ n' \in Nat /\ want' \in Nat /\ n' + want' = RegistSize /\ want' > 0
    /\ Still /\ UNCHANGED <<phase, looks>>

RegDone ==
    /\ phase' = "run" /\ stream[1] = Registration
    /\ Len(stream) = sends + 1
    /\ \A i \in 2..Len(stream) : stream[i] \in Frames
    /\ stream' = Tail(stream) /\ off' = 0 /\ n' = 0 /\ want' = HeaderLen
    /\ intact' \in Seq(BOOLEAN) /\ Len(intact') = Len(stream')
    /\ \A i \in 1..Len(intact') : \E j \in 1..Len(intact) : intact'[i] = intact[j]
    /\ UNCHANGED <<looks, parsed, sends, noisy>>

HeaderPart ==
    /\ looks = {} /\ n' \in Nat /\ want' \in Nat /\ want' > 0
    /\ n' + want' = HeaderLen
    /\ Still /\ UNCHANGED <<phase, looks>>

PackagePart(f) ==
    /\ looks' = {f}
    /\ f.kind # "tcp" => n' + want' = f.len
    /\ ~noisy => stream # <<>> /\ f = stream[1]
    /\ n' \in Nat /\ want' \in Nat /\ n' >= HeaderLen /\ want' > 0
    /\ Still /\ UNCHANGED phase

Answers == {f \in Frames : IsAnswer(f)}

Handled ==
    /\ \E g \in 0..Len(stream) : stream' = SubSeq(stream, g + 1, Len(stream))
    /\ stream' \in Seq(Frame) /\ intact' \in Seq(BOOLEAN)
    /\ Len(intact') = Len(stream') /\ Len(stream') <= Len(stream)
    /\ \A i \in 1..Len(stream') : \E j \in 1..Len(stream) :
          stream'[i] = stream[j] /\ intact'[i] = intact[j]
    /\ off' \in Nat /\ n' = 0 /\ want' = HeaderLen /\ looks' = {}
    /\ ~noisy \/ parsed' # {} =>
          /\ stream # <<>> /\ stream' = Tail(stream) /\ off' = 0
          /\ parsed' = {stream[1]} \cap Answers
    /\ parsed' \subseteq Frames /\ \A f, g \in parsed' : f = g
    /\ UNCHANGED <<phase, sends, noisy>>

Closing ==
    /\ noisy /\ phase' = "closed" /\ want' = 0
    /\ Still /\ UNCHANGED <<n, looks>>

Overrunning ==
    /\ noisy /\ phase' = "overrun" /\ want' = 0 /\ n' \in Nat
    /\ Still /\ UNCHANGED looks

LEMMA RegCases ==
    ASSUME Inv, OnReadReg
    PROVE  RegPart \/ RegDone \/ Closing
<1>1. PICK k \in Received :
        IF k < RegistSize THEN More(k, RegistSize)
        ELSE \/ /\ off = 0 /\ stream[1].kind = "reg"
                /\ Restart(k) /\ phase' = "run" /\ UNCHANGED parsed
             \/ ~(InStep /\ stream[1].kind = "reg") /\ Close
  BY DEF OnReadReg
<1>2. UNCHANGED <<looks, sends, noisy>> /\ phase = "reg"
  BY DEF OnReadReg
<1>3. /\ off = 0 /\ n + want = RegistSize /\ n \in Nat /\ want \in Nat
      /\ stream \in Seq(Frame) /\ TypeOK
  BY <1>2 DEF Inv, Registering, TypeOK
<1>4. /\ k \in Nat /\ k > n /\ k <= RegistSize /\ k <= Upto(Len(stream))
      /\ stream # <<>>
  BY <1>3, Arrived DEF RegistSize
<1>5. Len(stream) \in Nat \ {0}
  BY <1>3, <1>4, EmptySeq
<1>6. CASE k < RegistSize
  BY <1>1, <1>2, <1>4, <1>6 DEF More, RegistSize, Still, RegPart
<1>7. CASE ~(k < RegistSize) /\ off = 0 /\ stream[1].kind = "reg" /\ Restart(k)
           /\ phase' = "run" /\ UNCHANGED parsed
  <2>1. k = RegistSize
    BY <1>4, <1>7 DEF RegistSize
  <2>2. /\ stream[1] = Registration /\ Len(stream) = sends + 1
        /\ \A i \in 2..Len(stream) : stream[i] \in Frames
    BY <1>2, <1>7, FrameFacts DEF Inv, Registering
  <2>3. ASSUME NEW i \in 1..Len(stream) PROVE stream[i].len > 0
    <3>1. CASE i = 1
      BY <2>2, <3>1, FrameFacts DEF RegistSize
    <3>2. CASE i # 1
      <4>1. stream[i] \in Frames
        BY <1>5, <2>2, <3>2
      <4> QED
        BY <4>1, FrameFacts DEF Frame
    <3> QED
      BY <3>1, <3>2
  <2>4. stream[1].len = k
    BY <2>1, <2>2, FrameFacts
  <2>5. Consume(k) /\ n' = 0 /\ want' = HeaderLen
    BY <1>7 DEF Restart
  <2>6. stream' = Tail(stream) /\ off' = 0
    BY <1>3, <1>4, <2>3, <2>4, <2>5, FirstTaken
  <2>7. /\ intact' \in Seq(BOOLEAN) /\ Len(intact') = Len(stream') /\ Len(stream') \in Nat
        /\ Gone(k) \in Nat
        /\ \A i \in 1..Len(stream') : /\ i + Gone(k) \in 1..Len(stream)
                                      /\ intact'[i] = intact[i + Gone(k)]
    BY <1>3, <1>4, <2>5, Taken
  <2>8. \A i \in 1..Len(intact') : \E j \in 1..Len(intact) : intact'[i] = intact[j]
    BY <1>3, <2>7 DEF TypeOK
  <2> QED
    BY <1>2, <1>7, <2>2, <2>5, <2>6, <2>7, <2>8 DEF RegDone
<1>8. CASE ~(InStep /\ stream[1].kind = "reg") /\ Close
  <2>1. noisy
    <3>1. SUFFICES ASSUME ~noisy PROVE InStep /\ stream[1].kind = "reg"
      BY <1>8
    <3>2. stream[1] = Registration /\ \A i \in 1..Len(intact) : intact[i]
      BY <1>2, <3>1 DEF Inv, Clean
    <3> QED
      BY <1>3, <1>5, <3>2 DEF InStep, TypeOK, Registration
  <2> QED
    BY <1>2, <1>8, <2>1 DEF Close, Still, Closing
<1> QED
  BY <1>1, <1>6, <1>7, <1>8

LEMMA ReadCases ==
    ASSUME Inv, OnRead
    PROVE  \/ HeaderPart \/ Handled \/ Closing \/ Overrunning
           \/ \E f \in Frames \cup Altered : PackagePart(f)
<1>1. /\ phase = "run" /\ UNCHANGED <<sends, noisy>>
      /\ \E k \in Received :
           IF k > Buffer THEN Overrun(k) /\ UNCHANGED looks
           ELSE IF k < HeaderLen THEN More(k, HeaderLen) /\ UNCHANGED looks
           ELSE \E f \in Header :
               \/ k < Size(f, k) /\ looks' = {f} /\ More(k, Size(f, k))
               \/ /\ k >= Size(f, k) /\ Accepts(f)
                  /\ Restart(k) /\ looks' = {}
                  /\ parsed' = {g \in {f} : IsAnswer(g)}
                  /\ UNCHANGED phase
               \/ k >= Size(f, k) /\ ~Accepts(f) /\ Close /\ UNCHANGED looks
  BY DEF OnRead
<1>2. PICK k \in Received :
           IF k > Buffer THEN Overrun(k) /\ UNCHANGED looks
           ELSE IF k < HeaderLen THEN More(k, HeaderLen) /\ UNCHANGED looks
           ELSE \E f \in Header :
               \/ k < Size(f, k) /\ looks' = {f} /\ More(k, Size(f, k))
               \/ /\ k >= Size(f, k) /\ Accepts(f)
                  /\ Restart(k) /\ looks' = {}
                  /\ parsed' = {g \in {f} : IsAnswer(g)}
                  /\ UNCHANGED phase
               \/ k >= Size(f, k) /\ ~Accepts(f) /\ Close /\ UNCHANGED looks
  BY <1>1
<1>3. /\ TypeOK /\ stream \in Seq(Frame) /\ Len(stream) \in Nat /\ off \in Nat
      /\ intact \in Seq(BOOLEAN) /\ Len(intact) = Len(stream)
      /\ n \in Nat /\ want \in Nat /\ Len(stream) <= sends
      /\ \A i \in 1..Len(stream) : stream[i] \in Frames
      /\ IF looks = {} THEN n + want = 3 ELSE n >= 3
      /\ \A f \in looks : f.kind # "tcp" => n + want = f.len
      /\ \A f, g \in looks : f = g
      /\ looks \subseteq Frames \cup Altered
  BY <1>1 DEF Inv, Running, TypeOK, HeaderLen
<1>4. /\ k \in Nat /\ k > n /\ k <= n + want /\ off + k <= Upto(Len(stream))
      /\ off = 0 => stream # <<>>
  BY <1>3, Arrived
<1>7. CASE k > Buffer
  <2>1. noisy
    BY <1>3, <1>4, <1>7, Roomy, ReaderAssumption
  <2> QED
    BY <1>1, <1>2, <1>4, <1>7, <2>1 DEF Overrun, Still, Overrunning
<1>5. CASE ~(k > Buffer) /\ k < HeaderLen
  <2>1. looks = {}
    BY <1>3, <1>4, <1>5 DEF HeaderLen
  <2> QED
    BY <1>1, <1>2, <1>4, <1>5, <2>1 DEF More, HeaderLen, Still, HeaderPart
<1>6. CASE ~(k > Buffer) /\ k >= HeaderLen
  <2>1. PICK f \in Header :
               \/ k < Size(f, k) /\ looks' = {f} /\ More(k, Size(f, k))
               \/ /\ k >= Size(f, k) /\ Accepts(f)
                  /\ Restart(k) /\ looks' = {}
                  /\ parsed' = {g \in {f} : IsAnswer(g)}
                  /\ UNCHANGED phase
               \/ k >= Size(f, k) /\ ~Accepts(f) /\ Close /\ UNCHANGED looks
    BY <1>2, <1>4, <1>6 DEF HeaderLen
  <2>2. off = 0 => stream[1] \in Frames /\ Len(stream) \in Nat \ {0}
    BY <1>3, <1>4, EmptySeq
  <2>3. f \in Frames \cup Altered
    BY <1>3, <2>2 DEF Header, InStep
  <2>4. ~noisy => /\ off = 0 /\ stream # <<>> /\ f = stream[1] /\ InStep
    <3>1. SUFFICES ASSUME ~noisy
                   PROVE  off = 0 /\ stream # <<>> /\ f = stream[1] /\ InStep
      OBVIOUS
    <3>2. off = 0 /\ (looks # {} => looks = {stream[1]}) /\ \A i \in 1..Len(intact) : intact[i]
      BY <1>1, <3>1 DEF Inv, Clean
    <3>3. InStep
      BY <1>3, <2>2, <3>2 DEF InStep
    <3> QED
      BY <1>4, <3>2, <3>3 DEF Header
  <2>5. f \in Frame /\ Size(f, k) \in Nat /\ (f.kind # "tcp" => Size(f, k) = f.len)
    <3>1. f \in Frame
      BY <2>3, FrameFacts
    <3> QED
      BY <3>1 DEF Frame, Size, TcpHeaderLen
  <2>6. CASE k < Size(f, k) /\ looks' = {f} /\ More(k, Size(f, k))
    <3>1. /\ n' = k /\ want' = Size(f, k) - k /\ UNCHANGED <<stream, intact, off, phase, parsed>>
      BY <2>6 DEF More
    <3>2. n' \in Nat /\ want' \in Nat /\ n' >= HeaderLen /\ want' > 0
      BY <1>4, <1>6, <2>5, <2>6, <3>1
    <3>3. f.kind # "tcp" => n' + want' = f.len
      BY <1>4, <2>5, <3>1
    <3> QED
      BY <1>1, <2>3, <2>4, <2>6, <3>1, <3>2, <3>3 DEF Still, PackagePart
  <2>7. CASE /\ k >= Size(f, k) /\ Accepts(f) /\ Restart(k) /\ looks' = {}
             /\ parsed' = {g \in {f} : IsAnswer(g)} /\ UNCHANGED phase
    <3>1. Consume(k) /\ n' = 0 /\ want' = HeaderLen
      BY <2>7 DEF Restart
    <3>2. /\ stream' \in Seq(Frame) /\ intact' \in Seq(BOOLEAN)
          /\ Len(intact') = Len(stream') /\ off' \in Nat
          /\ Gone(k) \in 0..Len(stream)
          /\ stream' = SubSeq(stream, Gone(k) + 1, Len(stream))
          /\ Len(stream') = Len(stream) - Gone(k)
          /\ \A i \in 1..Len(stream') : /\ i + Gone(k) \in 1..Len(stream)
                                        /\ stream'[i] = stream[i + Gone(k)]
                                        /\ intact'[i] = intact[i + Gone(k)]
      BY <1>3, <1>4, <3>1, Taken
    <3>3. /\ Len(stream') <= Len(stream)
          /\ \A i \in 1..Len(stream') : \E j \in 1..Len(stream) :
                stream'[i] = stream[j] /\ intact'[i] = intact[j]
      <4>1. Len(stream') <= Len(stream)
        BY <1>3, <3>2
      <4> QED
        BY <3>2, <4>1
    <3>4. ASSUME ~noisy \/ parsed' # {}
          PROVE  /\ stream # <<>> /\ stream' = Tail(stream) /\ off' = 0
                 /\ parsed' = {stream[1]} \cap Answers
      <4>1. off = 0 /\ f = stream[1] /\ InStep
        BY <2>4, <2>7, <3>4 DEF Accepts, IsAnswer, InStep
      <4>2. f \in Frames /\ stream # <<>>
        BY <1>4, <2>2, <4>1
      <4>3. /\ f.len >= 3 /\ f.kind # "tcp" /\ Size(f, k) = f.len /\ f.len \in Nat
            /\ \A i \in 1..Len(stream) : stream[i].len > 0
        <5>1. f.len >= 3 /\ f.kind # "tcp" /\ Size(f, k) = f.len /\ f.len \in Nat
          BY <2>5, <4>2, FrameFacts DEF Frame
        <5>2. ASSUME NEW i \in 1..Len(stream) PROVE stream[i].len > 0
          <6>1. stream[i] \in Frames
            BY <1>3
          <6>2. stream[i].len >= 3 /\ stream[i].len \in Nat
            BY <6>1, FrameFacts DEF Frame
          <6> QED
            BY <6>2
        <5> QED
          BY <5>1, <5>2
      <4>4. k = f.len
        <5>1. CASE looks = {}
          BY <1>3, <1>4, <2>7, <4>3, <5>1
        <5>2. CASE looks # {}
          <6>1. f \in looks
            BY <5>2 DEF Header
          <6>2. n + want = f.len
            BY <1>3, <4>3, <6>1
          <6> QED
            BY <1>3, <1>4, <2>7, <4>3, <6>2
        <5> QED
          BY <5>1, <5>2
      <4>5. stream' = Tail(stream) /\ off' = 0
        BY <1>3, <1>4, <3>1, <4>1, <4>2, <4>3, <4>4, FirstTaken
      <4>6. parsed' = {stream[1]} \cap Answers
        BY <2>7, <4>1, <4>2 DEF Answers
      <4> QED
        BY <4>2, <4>5, <4>6
    <3>5. parsed' \subseteq Frames /\ \A g, h \in parsed' : g = h
      BY <2>7, <3>4 DEF Answers
    <3> QED
      BY <1>1, <2>7, <3>1, <3>2, <3>3, <3>4, <3>5 DEF Handled
  <2>8. CASE k >= Size(f, k) /\ ~Accepts(f) /\ Close /\ UNCHANGED looks
    <3>1. noisy
      BY <2>4, <2>8 DEF Accepts
    <3> QED
      BY <1>1, <2>8, <3>1 DEF Close, Still, Closing
  <2> QED
    BY <2>1, <2>6, <2>7, <2>8
<1> QED
  BY <1>4, <1>5, <1>6, <1>7 DEF HeaderLen

LEMMA RegInv == Inv /\ OnReadReg => Inv'
<1> SUFFICES ASSUME Inv, OnReadReg PROVE Inv'
  OBVIOUS
<1>1. TypeOK /\ phase = "reg"
  BY DEF Inv, OnReadReg
<1>2. CASE RegPart
  BY <1>1, <1>2 DEF Inv, TypeOK, Registering, Running, Clean, Still, RegPart
<1>3. CASE RegDone
  <2> USE DEF RegDone
  <2>1. /\ stream \in Seq(Frame) /\ sends \in Nat /\ stream # <<>> /\ looks = {}
        /\ intact \in Seq(BOOLEAN)
    <3>1. stream \in Seq(Frame) /\ sends \in Nat /\ intact \in Seq(BOOLEAN)
      BY <1>1 DEF TypeOK
    <3>2. stream # <<>> /\ looks = {}
      BY <1>1, <1>3, <3>1 DEF Inv, Registering
    <3> QED
      BY <3>1, <3>2
  <2>2. /\ stream' \in Seq(Frame) /\ Len(stream') = sends
        /\ \A i \in 1..Len(stream') : stream'[i] = stream[i + 1]
    BY <1>3, <2>1, HeadTailProperties
  <2>3. \A i \in 1..Len(stream') : stream'[i] \in Frames
    BY <1>3, <2>1, <2>2
  <2>4. TypeOK'
    BY <1>1, <1>3, <2>2 DEF TypeOK, HeaderLen
  <2>5. Registering' /\ Running'
    BY <1>3, <2>1, <2>2, <2>3 DEF Registering, Running, HeaderLen
  <2>6. Clean'
    BY <1>3, <2>1 DEF Inv, Clean, HeaderLen
  <2> QED
    BY <2>4, <2>5, <2>6 DEF Inv
<1>4. CASE Closing
  BY <1>1, <1>4 DEF Inv, TypeOK, Registering, Running, Clean, Still, Closing
<1> QED
  BY <1>2, <1>3, <1>4, RegCases

LEMMA ReadInv == Inv /\ OnRead => Inv'
<1> SUFFICES ASSUME Inv, OnRead PROVE Inv'
  OBVIOUS
<1>1. /\ TypeOK /\ phase = "run" /\ Len(stream) <= sends
      /\ \A i \in 1..Len(stream) : stream[i] \in Frames
  BY DEF Inv, OnRead, Running
<1>2. CASE HeaderPart
  BY <1>1, <1>2 DEF Inv, TypeOK, Registering, Running, Clean, Still, HeaderPart
<1>3. ASSUME NEW f \in Frames \cup Altered, PackagePart(f) PROVE Inv'
  <2> USE DEF PackagePart
  <2>1. UNCHANGED <<stream, intact, off, parsed, sends, noisy, phase>>
    BY <1>3 DEF Still
  <2>2. /\ looks' \subseteq Frames \cup Altered /\ looks' # {}
        /\ \A g, h \in looks' : g = h
        /\ \A g \in looks' : g.kind # "tcp" => n' + want' = g.len
    BY <1>3
  <2>3. TypeOK'
    BY <1>1, <1>3, <2>1, <2>2 DEF TypeOK
  <2>4. Registering' /\ Running'
    BY <1>1, <1>3, <2>1, <2>2 DEF Registering, Running
  <2>5. ~noisy' => looks' = {stream'[1]} /\ stream' # <<>>
    BY <1>3, <2>1
  <2>6. Clean'
    BY <1>1, <1>3, <2>1, <2>5 DEF Inv, Clean
  <2> QED
    BY <2>3, <2>4, <2>6 DEF Inv
<1>4. CASE Handled
  <2> USE DEF Handled
  <2>1. TypeOK'
    BY <1>1, <1>4 DEF TypeOK, HeaderLen
  <2>2. Len(stream') <= sends' /\ \A i \in 1..Len(stream') : stream'[i] \in Frames
    <3>1. Len(stream) \in Nat /\ sends \in Nat /\ Len(stream') \in Nat
      BY <1>1, <1>4 DEF TypeOK
    <3>2. ASSUME NEW i \in 1..Len(stream') PROVE stream'[i] \in Frames
      <4>1. PICK j \in 1..Len(stream) : stream'[i] = stream[j]
        BY <1>4
      <4> QED
        BY <1>1, <4>1
    <3> QED
      BY <1>1, <1>4, <3>1, <3>2
  <2>3. Registering' /\ Running'
    BY <1>1, <1>4, <2>2 DEF Registering, Running, HeaderLen
  <2>4. Clean'
    <3> SUFFICES ASSUME ~noisy' PROVE Clean'
      BY DEF Clean
    <3>1. off' = 0 /\ phase' = "run" /\ want' > 0 /\ looks' = {}
      BY <1>1, <1>4 DEF HeaderLen
    <3>2. \A i \in 1..Len(intact) : intact[i]
      BY <1>4 DEF Inv, Clean
    <3>3. \A i \in 1..Len(intact') : intact'[i]
      BY <1>1, <1>4, <3>2 DEF TypeOK
    <3> QED
      BY <3>1, <3>3 DEF Clean
  <2> QED
    BY <2>1, <2>3, <2>4 DEF Inv
<1>5. CASE Closing
  BY <1>1, <1>5 DEF Inv, TypeOK, Registering, Running, Clean, Still, Closing
<1>6. CASE Overrunning
  BY <1>1, <1>6 DEF Inv, TypeOK, Registering, Running, Clean, Still, Overrunning
<1> QED
  BY <1>2, <1>3, <1>4, <1>5, <1>6, ReadCases

LEMMA UndefinedInv == Inv /\ Undefined => Inv'
<1> SUFFICES ASSUME Inv, Undefined PROVE Inv'
  OBVIOUS
<1>1. /\ phase = "overrun" /\ \E f \in Frames : parsed' = {f}
      /\ UNCHANGED <<stream, intact, off, n, want, phase, looks, sends, noisy>>
  BY DEF Undefined
<1> QED
  BY <1>1 DEF Inv, TypeOK, Registering, Running, Clean

LEMMA InvNext == Inv /\ [Next]_vars => Inv'
<1>1. Inv /\ UNCHANGED vars => Inv'
  BY DEF Inv, TypeOK, Registering, Running, Clean, vars
<1> QED
  BY <1>1, SendInv, RegInv, ReadInv, UndefinedInv DEF Next

(* What readReg and read have asked of the socket always ends with the       *)
(* registration package, with a header, or with what the header announces.   *)
THEOREM InvAlways == Spec => []Inv
<1> QED
  BY InvInit, InvNext, PTL DEF Spec

(* The buffer never counts below zero, and at most one header and one answer *)
(* are held between two reads.                                               *)
THEOREM ReaderTypes == Spec => []TypeOK
<1>1. Inv => TypeOK
  BY DEF Inv
<1> QED
  BY <1>1, InvAlways, PTL

(* OneFrame: while the line alters nothing, checkMsg's lengths ask for no byte *)
(* of the frame behind the one being read, however the socket splits them.   *)
THEOREM FramesStayWhole == Spec => []OneFrame
<1> QED
  BY InvImplies, InvAlways, PTL

-----------------------------------------------------------------------------
(* The refinement of FrameQueue.                                             *)

LEMMA QueueInit == Init => Queue!Init
<1> SUFFICES ASSUME Init PROVE Queue!Init
  OBVIOUS
<1>1. stream \in Seq(Frame) /\ sends = 0 /\ parsed = {}
  BY InvInit DEF Inv, TypeOK, Init
<1>2. Later = <<>>
  <2>1. Len(stream) \in Nat
    BY <1>1
  <2>2. CASE Len(stream) = 0
    BY <1>1, <2>2, SubSeqEmpty DEF Later
  <2>3. CASE Len(stream) > 0
    BY <1>1, <2>1, <2>3, SubSeqEmpty DEF Later
  <2> QED
    BY <2>1, <2>2, <2>3
<1>3. phase = "reg"
  BY DEF Init
<1> QED
  BY <1>1, <1>2, <1>3 DEF Queue!Init

LEMMA LaterAll ==
    ASSUME stream \in Seq(Frame), sends \in Nat, Len(stream) <= sends
    PROVE  Later = stream
<1>1. ~(sends < Len(stream))
  OBVIOUS
<1> QED
  BY <1>1, SubSeqFull DEF Later

LEMMA SubSeqAppend ==
    ASSUME NEW S, NEW s \in Seq(S), NEW f \in S, NEW a \in 1..(Len(s) + 1)
    PROVE  SubSeq(Append(s, f), a, Len(s) + 1) = Append(SubSeq(s, a, Len(s)), f)
<1> DEFINE all == Append(s, f)
           L == SubSeq(s, a, Len(s))
           M == SubSeq(all, a, Len(s) + 1)
           m == Len(s) - a + 1
<1>1. /\ all \in Seq(S) /\ Len(all) = Len(s) + 1 /\ Len(s) \in Nat
      /\ \A i \in 1..Len(s) : all[i] = s[i]
      /\ all[Len(s) + 1] = f
  BY AppendProperties
<1>2. m \in Nat /\ m + a = Len(s) + 1 /\ Len(s) + 1 - a + 1 = m + 1
  BY <1>1
<1>3. \A i \in a..Len(s) : s[i] \in S
  OBVIOUS
<1>4. /\ L \in Seq(S) /\ Len(L) = m
      /\ \A i \in 1..m : L[i] = s[a + i - 1]
  <2>1. CASE a <= Len(s) + 1
    BY <1>1, <1>3, <2>1, SubSeqProperties
  <2> QED
    BY <1>1, <2>1
<1> HIDE DEF all
<1>5. \A i \in a..(Len(s) + 1) : all[i] \in S
  BY <1>1
<1>6. /\ M \in Seq(S) /\ Len(M) = m + 1
      /\ \A i \in 1..(m + 1) : M[i] = all[a + i - 1]
  <2>1. a \in 1..(Len(s) + 1 + 1) /\ Len(s) + 1 \in (a - 1)..Len(all)
    BY <1>1
  <2> QED
    BY <1>1, <1>2, <1>5, <2>1, SubSeqProperties
<1> HIDE DEF L, M
<1>7. /\ Append(L, f) \in Seq(S) /\ Len(Append(L, f)) = m + 1
      /\ \A i \in 1..m : Append(L, f)[i] = L[i]
      /\ Append(L, f)[m + 1] = f
  BY <1>4, AppendProperties
<1> HIDE DEF m
<1>8. ASSUME NEW i \in 1..(m + 1) PROVE M[i] = Append(L, f)[i]
  <2>1. CASE i = m + 1
    <3>1. a + i - 1 = Len(s) + 1
      BY <1>1, <1>2, <2>1
    <3> QED
      BY <1>1, <1>6, <1>7, <2>1, <3>1
  <2>2. CASE i # m + 1
    <3>1. i \in 1..m /\ a + i - 1 \in 1..Len(s)
      BY <1>1, <1>2, <2>2
    <3> QED
      BY <1>1, <1>4, <1>6, <1>7, <3>1
  <2> QED
    BY <2>1, <2>2
<1>9. M = Append(L, f)
  BY <1>2, <1>6, <1>7, <1>8, SeqEqual
<1> QED
  BY <1>9 DEF M, L, all

LEMMA LaterSend ==
    ASSUME stream \in Seq(Frame), sends \in Nat, NEW f \in Frame,
           stream' = Append(stream, f), sends' = sends + 1
    PROVE  Later' = Append(Later, f)
<1> DEFINE a == IF sends < Len(stream) THEN Len(stream) - sends + 1 ELSE 1
           b == IF sends' < Len(stream') THEN Len(stream') - sends' + 1 ELSE 1
<1>1. Len(stream') = Len(stream) + 1 /\ Len(stream) \in Nat
  BY AppendProperties
<1>2. a = b /\ a \in 1..(Len(stream) + 1)
  BY <1>1
<1>3. Later = SubSeq(stream, a, Len(stream)) /\ Later' = SubSeq(stream', a, Len(stream) + 1)
  BY <1>1, <1>2 DEF Later
<1> HIDE DEF a, b
<1> QED
  BY <1>2, <1>3, SubSeqAppend

(* Each step is one of the queue, or changes nothing of it.                  *)
LEMMA QueueNext == Inv /\ [Next]_vars => [Queue!Next]_(Queue!vars)
<1> SUFFICES ASSUME Inv, [Next]_vars PROVE [Queue!Next]_(Queue!vars)
  OBVIOUS
<1>1. /\ TypeOK /\ stream \in Seq(Frame) /\ sends \in Nat
      /\ phase \in {"reg", "run", "closed", "overrun"} /\ noisy \in BOOLEAN
  BY DEF Inv, TypeOK
<1>2. ASSUME UNCHANGED <<stream, parsed, sends, noisy>>,
             UNCHANGED phase \/ (noisy /\ phase' = "closed" /\ phase # "overrun")
      PROVE  UNCHANGED Queue!vars
  <2>1. Later' = Later
    BY <1>2 DEF Later
  <2>2. (noisy \/ phase = "closed")' = (noisy \/ phase = "closed")
    BY <1>2
  <2>3. (phase = "overrun")' = (phase = "overrun")
    BY <1>2
  <2> QED
    BY <1>2, <2>1, <2>2, <2>3 DEF Queue!vars
<1>3. CASE Send
  <2>1. PICK f \in Frames : stream' = Append(stream, f)
    BY <1>3 DEF Send
  <2>2. /\ sends' = sends + 1 /\ UNCHANGED <<phase, parsed>>
        /\ \E ok : noisy' = (noisy \/ ~ok)
    BY <1>3 DEF Send
  <2>3. Later' = Append(Later, f)
    BY <1>1, <2>1, <2>2, FrameFacts, LaterSend
  <2>4. /\ (noisy \/ phase = "closed")' \in {noisy \/ phase = "closed", TRUE}
        /\ (phase = "overrun")' = (phase = "overrun")
    BY <1>1, <2>2
  <2>5. Queue!Send
    BY <2>1, <2>2, <2>3, <2>4 DEF Queue!Send
  <2> QED
    BY <2>5 DEF Queue!Next
<1>4. CASE OnReadReg
  <2>1. CASE RegPart
    BY <1>2, <2>1 DEF RegPart, Still
  <2>2. CASE RegDone
    <3>1. stream # <<>>
      BY <1>1, <2>2 DEF RegDone
    <3>2. Later = Tail(stream)
      BY <1>1, <2>2, <3>1, TailIsSubSeq DEF RegDone, Later
    <3>3. Tail(stream) \in Seq(Frame) /\ Len(Tail(stream)) = sends
      BY <1>1, <2>2, <3>1, HeadTailProperties DEF RegDone
    <3>4. Later' = Tail(stream)
      BY <2>2, <3>3, SubSeqFull DEF RegDone, Later
    <3>5. (noisy \/ phase = "closed")' = (noisy \/ phase = "closed")
      BY <1>4, <2>2 DEF RegDone, OnReadReg
    <3>6. (phase = "overrun")' = (phase = "overrun")
      BY <1>4, <2>2 DEF RegDone, OnReadReg
    <3> QED
      BY <2>2, <3>2, <3>4, <3>5, <3>6 DEF RegDone, Queue!vars
  <2>3. CASE Closing
    <3>1. phase # "overrun"
      BY <1>4 DEF OnReadReg
    <3> QED
      BY <1>2, <2>3, <3>1 DEF Closing, Still
  <2> QED
    BY <1>4, <2>1, <2>2, <2>3, RegCases
<1>5. CASE OnRead
  <2>1. CASE HeaderPart
    BY <1>2, <2>1 DEF HeaderPart, Still
  <2>2. ASSUME NEW f \in Frames \cup Altered, PackagePart(f)
        PROVE  [Queue!Next]_(Queue!vars)
    BY <1>2, <2>2 DEF PackagePart, Still
  <2>3. CASE Handled
    <3>1. phase = "run" /\ Later = stream
      BY <1>1, <1>5, LaterAll DEF OnRead, Inv, Running
    <3>2. Later' = stream'
      <4>1. stream' \in Seq(Frame) /\ sends' \in Nat /\ Len(stream') <= sends'
        <5>1. Len(stream) <= sends /\ Len(stream) \in Nat
          BY <1>1, <3>1 DEF Inv, Running
        <5> QED
          BY <1>1, <2>3, <5>1 DEF Handled
      <4> QED
        BY <4>1, SubSeqFull DEF Later
    <3>3. /\ (noisy \/ phase = "closed")' = (noisy \/ phase = "closed")
          /\ (phase = "overrun")' = (phase = "overrun")
      BY <2>3 DEF Handled
    <3>4. CASE ~noisy \/ parsed' # {}
      <4>1. Queue!Handle
        BY <2>3, <3>1, <3>2, <3>3, <3>4 DEF Handled, Queue!Handle, Answers
      <4> QED
        BY <4>1 DEF Queue!Next
    <3>5. CASE noisy /\ parsed' = {}
      <4>1. Queue!Lose
        BY <2>3, <3>1, <3>2, <3>3, <3>5 DEF Handled, Queue!Lose
      <4> QED
        BY <4>1 DEF Queue!Next
    <3> QED
      BY <1>1, <3>4, <3>5
  <2>4. CASE Closing
    <3>1. phase # "overrun"
      BY <1>5 DEF OnRead
    <3> QED
      BY <1>2, <2>4, <3>1 DEF Closing, Still
  <2>5. CASE Overrunning
    BY <2>5 DEF Overrunning, Queue!Broken, Queue!Next
  <2> QED
    BY <1>5, <2>1, <2>2, <2>3, <2>4, <2>5, ReadCases
<1>7. CASE Undefined
  <2>1. noisy /\ phase' = "overrun"
    BY <1>7 DEF Undefined, Inv, Clean
  <2> QED
    BY <2>1 DEF Queue!Broken, Queue!Next
<1>6. CASE UNCHANGED vars
  BY <1>2, <1>6 DEF vars
<1> QED
  BY <1>3, <1>4, <1>5, <1>6, <1>7 DEF Next

(* QueueSpec: onReadReg and onRead take the frames of a good line one by one *)
(* and in order, and whatever the line does, an answer that is parsed is one *)
(* that the DTU sent.                                                        *)
THEOREM ReadsInOrder == Spec => QueueSpec
<1> QED
  BY QueueInit, QueueNext, InvAlways, PTL DEF Spec, QueueSpec, Queue!Spec
=============================================================================
