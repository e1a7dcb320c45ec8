---------------------------- MODULE Upload_proofs ----------------------------
(* Proofs about Upload, for any number of devices, any points and ranges of  *)
(* them, any values, any number of requests without answer, lost posts and   *)
(* new connections.                                                          *)
EXTENDS Upload, LeastNumber, FiniteSetTheorems

(* The maps from ids to sequences of values.                                 *)
Messages == UNION {[S -> Seq(Value)] : S \in SUBSET Id}

TypeInv ==
    /\ pc \in {"begin", "wait", "send"} /\ dev \in Dev
    /\ IF pc = "begin" THEN pos = 1 ELSE pos \in 1..Len(Ends[dev])
    /\ tm \in [Dev -> Messages] /\ fm \in [Dev -> Messages]
    /\ have \in [Dev -> Messages]
    /\ count \in [Dev -> [Kind -> Nat]]
    /\ lastMsg \in [dev : 0..NDev, messages : Messages]
    /\ lastForward \in Messages /\ forwarded \in Messages
    /\ seen \in Seq(Value) /\ done \in [Dev -> Seq(Value)]
    /\ forwardDone \in [dev : 0..NDev, values : Seq(Value)]
    /\ lost \subseteq Dev /\ lostForward \in BOOLEAN
    /\ fresh \in BOOLEAN /\ pure \in BOOLEAN
    /\ troubles \in 0..MaxTroubles

(* The points of the ranges the sweep has behind it, of kind k.              *)
Behind == IF pc = "send" THEN Ends[dev][pos] ELSE Start(dev, pos)
Passed(k) == Cardinality(At(Kinds(dev), k, Behind))

AllRead == \A k \in Kind : count[dev][k] = Passed(k)

AlarmIds(d) == {Points[d][i].alarm : i \in 1..Len(Points[d])}

(* The messages m are those that the first n values of device d call for.    *)
Fits(d, m, values, n) ==
    /\ HoldsUpto(m, Measurements(d), values, n)
    /\ HoldsUpto(m, Statuses(d), values, n)
    /\ DOMAIN m \cap AlarmIds(d) = Alarmed(d, values, n)

CountInv == \A d \in Dev : \A k \in Kind : count[d][k] <= Size[d][k]

(* No more is counted than the sweep has behind it; and as much only if no   *)
(* range was missed, when the messages are those of the values read.         *)
SweepInv ==
    pc # "begin" =>
        /\ \A k \in Kind : count[dev][k] <= Passed(k)
        /\ AllRead =>
             /\ Len(seen) = Behind
             /\ Fits(dev, tm[dev], seen, Behind)
             /\ fresh => HoldsUpto(fm[dev], ForwardedAs(dev), seen, Behind)

(* What h has includes the messages m.                                       *)
Covers(h, m) == \A id \in DOMAIN m : id \in DOMAIN h /\ h[id] = m[id]

(* What the session remembers as posted the platform has.                    *)
PostInv ==
    /\ \A d \in Dev \ lost : lastMsg.dev = d => Covers(have[d], lastMsg.messages)
    /\ ~lostForward /\ lastForward # NoMessages => Covers(forwarded, lastForward)

Inv == TypeInv /\ CountInv /\ SweepInv /\ PostInv /\ PlatformTrue /\ ForwardTrue
-----------------------------------------------------------------------------
(* What the assumptions say of a device.                                     *)
LEMMA DeviceFacts ==
    ASSUME NEW d \in Dev
    PROVE  /\ Points[d] \in Seq(Point) /\ Len(Points[d]) \in Nat
           /\ Ends[d] \in Seq(Nat) /\ Len(Ends[d]) \in Nat
           /\ RangesOf(d) /\ RolesOf(d)
  BY UploadAssumption

LEMMA PointFacts ==
    ASSUME NEW d \in Dev, NEW i \in 1..Len(Points[d])
    PROVE  /\ Points[d][i] \in Point
           /\ Points[d][i].kind \in Kind
           /\ Points[d][i].alarm \in Id \cup {None}
           /\ Points[d][i].event \in Id \cup {None}
           /\ Points[d][i].status \in Id \cup {None}
           /\ Points[d][i].measurement \in Id \cup {None}
           /\ Points[d][i].forward \in BOOLEAN
<1>1. Points[d][i] \in Point
  BY DeviceFacts
<1> QED
  BY <1>1 DEF Point

(* Ranges follow one another, and the last one ends with the points.         *)
LEMMA RangeFacts ==
    ASSUME NEW d \in Dev, NEW r \in 1..Len(Ends[d])
    PROVE  /\ Start(d, r) \in Nat /\ Ends[d][r] \in Nat
           /\ Start(d, r) < Ends[d][r]
           /\ r < Len(Ends[d]) => Start(d, r + 1) = Ends[d][r]
           /\ r = Len(Ends[d]) => Ends[d][r] = Len(Points[d])
<1>1. Ends[d] \in Seq(Nat) /\ Len(Ends[d]) \in Nat /\ RangesOf(d)
  BY DeviceFacts
<1>2. Ends[d][r] \in Nat
  BY <1>1
<1>3. Start(d, r) \in Nat
  <2>1. CASE r = 1
    BY <2>1 DEF Start
  <2>2. CASE r # 1
    <3>1. r - 1 \in 1..Len(Ends[d])
      BY <1>1, <2>2
    <3>2. Ends[d][r - 1] \in Nat
      BY <1>1, <3>1
    <3> QED
      BY <2>2, <3>2 DEF Start
  <2> QED
    BY <2>1, <2>2
<1>4. Start(d, r) < Ends[d][r]
  BY <1>1 DEF RangesOf
<1>5. r < Len(Ends[d]) => Start(d, r + 1) = Ends[d][r]
  BY <1>1 DEF Start
<1>6. r = Len(Ends[d]) => Ends[d][r] = Len(Points[d])
  BY <1>1 DEF RangesOf
<1> QED
  BY <1>2, <1>3, <1>4, <1>5, <1>6

LEMMA RangeEnd ==
    ASSUME NEW d \in Dev, NEW r \in 1..Len(Ends[d])
    PROVE  Ends[d][r] <= Len(Points[d])
<1> DEFINE L == Len(Ends[d])
           S == {j \in 0..(L - 1) : Ends[d][L - j] <= Len(Points[d])}
<1>1. L \in Nat /\ L - 1 \in Nat /\ Len(Points[d]) \in Nat
  BY DeviceFacts
<1>2. 0 \in S
  <2>1. L \in 1..L /\ L - 0 = L
    BY <1>1
  <2>2. Ends[d][L] = Len(Points[d])
    BY <2>1, RangeFacts
  <2> QED
    BY <1>1, <2>1, <2>2
<1>3. ASSUME NEW j \in 0..(L - 1 - 1), j \in S PROVE j + 1 \in S
  <2>1. /\ L - j \in 1..L /\ L - (j + 1) \in 1..L
        /\ (L - (j + 1)) + 1 = L - j /\ L - (j + 1) < L
        /\ j + 1 \in 0..(L - 1)
    BY <1>1
  <2>2. Start(d, L - j) = Ends[d][L - (j + 1)]
    BY <2>1, RangeFacts
  <2>3. Start(d, L - j) < Ends[d][L - j] /\ Ends[d][L - j] \in Nat
        /\ Start(d, L - j) \in Nat
    BY <2>1, RangeFacts
  <2>4. Ends[d][L - j] <= Len(Points[d])
    BY <1>3
  <2>5. Ends[d][L - (j + 1)] <= Len(Points[d])
    BY <1>1, <2>2, <2>3, <2>4
  <2> QED
    BY <2>1, <2>5
<1>4. 0..(L - 1) \subseteq S
  <2> HIDE DEF S, L
  <2> QED
    BY <1>1, <1>2, <1>3, Induction
<1>5. L - r \in 0..(L - 1) /\ L - (L - r) = r
  BY <1>1
<1>6. L - r \in S
  BY <1>4, <1>5
<1> QED
  BY <1>5, <1>6

-----------------------------------------------------------------------------
(* Maps of messages, and what is entered in them.                            *)
LEMMA MessagesAre ==
    ASSUME NEW m
    PROVE  m \in Messages <=> IsMessages(m)
  BY DEF Messages, IsMessages

LEMMA ValuesType ==
    ASSUME NEW m \in Messages, NEW id
    PROVE  ValuesOf(m, id) \in Seq(Value)
<1>1. IsMessages(m)
  BY MessagesAre
<1> QED
  BY <1>1 DEF IsMessages, ValuesOf

LEMMA NoMessagesType == NoMessages \in Messages /\ DOMAIN NoMessages = {}
<1>1. DOMAIN NoMessages = {}
  BY DEF NoMessages
<1>2. IsMessages(NoMessages)
  BY DEF NoMessages, IsMessages
<1> QED
  BY <1>1, <1>2, MessagesAre

LEMMA NoneIsNothing ==
    ASSUME NEW m \in Messages, DOMAIN m = {}
    PROVE  m = NoMessages
<1>1. m \in [DOMAIN m -> Seq(Value)]
  BY MessagesAre DEF IsMessages
<1> QED
  BY <1>1 DEF NoMessages

LEMMA PutFacts ==
    ASSUME NEW m \in Messages, NEW id \in Id \cup {None}, NEW v \in Seq(Value)
    PROVE  /\ Put(m, id, v) \in Messages
           /\ DOMAIN Put(m, id, v) = DOMAIN m \cup ({id} \ {None})
           /\ id # None => ValuesOf(Put(m, id, v), id) = v
           /\ \A x : x # id \/ x = None =>
                ValuesOf(Put(m, id, v), x) = ValuesOf(m, x)
<1>1. CASE id = None
  <2>1. Put(m, id, v) = m
    BY <1>1 DEF Put
  <2> QED
    BY <1>1, <2>1
<1>2. CASE id # None
  <2>1. IsMessages(m) /\ id \in Id /\ None \notin Id
    BY <1>2, MessagesAre, UploadAssumption
  <2>2. Put(m, id, v) =
          [i \in DOMAIN m \cup {id} |-> IF i = id THEN v ELSE m[i]]
    BY <1>2 DEF Put
  <2>3. DOMAIN Put(m, id, v) = DOMAIN m \cup {id}
    BY <2>2
  <2>4. \A i \in DOMAIN m \cup {id} :
          Put(m, id, v)[i] = IF i = id THEN v ELSE m[i]
    BY <2>2
  <2>5. IsMessages(Put(m, id, v))
    BY <2>1, <2>2 DEF IsMessages
  <2>6. ValuesOf(Put(m, id, v), id) = v
    BY <2>3, <2>4 DEF ValuesOf
  <2>7. \A x : x # id => ValuesOf(Put(m, id, v), x) = ValuesOf(m, x)
    BY <2>3, <2>4 DEF ValuesOf
  <2> QED
    BY <1>2, <2>3, <2>5, <2>6, <2>7, MessagesAre
<1> QED
  BY <1>1, <1>2

LEMMA PushFacts ==
    ASSUME NEW m \in Messages, NEW id \in Id \cup {None}, NEW v \in Value
    PROVE  /\ Push(m, id, v) \in Messages
           /\ DOMAIN Push(m, id, v) = DOMAIN m \cup ({id} \ {None})
           /\ id # None =>
                ValuesOf(Push(m, id, v), id) = Append(ValuesOf(m, id), v)
           /\ \A x : x # id \/ x = None =>
                ValuesOf(Push(m, id, v), x) = ValuesOf(m, x)
<1>1. ValuesOf(m, id) \in Seq(Value)
  BY ValuesType
<1>2. Append(ValuesOf(m, id), v) \in Seq(Value)
  BY <1>1
<1> QED
  BY <1>2, PutFacts DEF Push

-----------------------------------------------------------------------------
(* Counting the points of one message or of one kind.                        *)
LEMMA AtFinite ==
    ASSUME NEW ids, NEW x, NEW n \in Nat
    PROVE  /\ IsFiniteSet(At(ids, x, n))
           /\ Cardinality(At(ids, x, n)) \in Nat
<1>1. IsFiniteSet(1..n)
  <2>1. 1 \in Int /\ n \in Int
    OBVIOUS
  <2> QED
    BY <2>1, FS_Interval
<1>2. At(ids, x, n) \subseteq 1..n
  BY DEF At
<1>3. IsFiniteSet(At(ids, x, n))
  BY <1>1, <1>2, FS_Subset
<1> QED
  BY <1>3, FS_CardinalityType

LEMMA AtNone ==
    ASSUME NEW ids, NEW x
    PROVE  At(ids, x, 0) = {} /\ Cardinality(At(ids, x, 0)) = 0
<1>1. At(ids, x, 0) = {}
  BY DEF At
<1> QED
  BY <1>1, FS_EmptySet

LEMMA AtMore ==
    ASSUME NEW ids, NEW x, NEW n \in Nat
    PROVE  /\ ids[n + 1] = x =>
                 /\ At(ids, x, n + 1) = At(ids, x, n) \cup {n + 1}
                 /\ Cardinality(At(ids, x, n + 1)) = Cardinality(At(ids, x, n)) + 1
           /\ ids[n + 1] # x => At(ids, x, n + 1) = At(ids, x, n)
<1>1. 1..(n + 1) = (1..n) \cup {n + 1} /\ n + 1 \notin 1..n
  OBVIOUS
<1>2. ids[n + 1] # x => At(ids, x, n + 1) = At(ids, x, n)
  BY <1>1 DEF At
<1>3. ASSUME ids[n + 1] = x
      PROVE  /\ At(ids, x, n + 1) = At(ids, x, n) \cup {n + 1}
             /\ Cardinality(At(ids, x, n + 1)) = Cardinality(At(ids, x, n)) + 1
  <2>1. At(ids, x, n + 1) = At(ids, x, n) \cup {n + 1}
    BY <1>1, <1>3 DEF At
  <2>2. n + 1 \notin At(ids, x, n)
    BY <1>1 DEF At
  <2>3. Cardinality(At(ids, x, n) \cup {n + 1}) = Cardinality(At(ids, x, n)) + 1
    BY <2>2, AtFinite, FS_AddElement
  <2> QED
    BY <2>1, <2>3
<1> QED
  BY <1>2, <1>3

LEMMA AtLess ==
    ASSUME NEW ids, NEW x, NEW a \in Nat, NEW b \in Nat, a <= b
    PROVE  /\ Cardinality(At(ids, x, a)) <= Cardinality(At(ids, x, b))
           /\ (\E i \in (a + 1)..b : ids[i] = x) =>
                Cardinality(At(ids, x, a)) < Cardinality(At(ids, x, b))
<1>1. At(ids, x, a) \subseteq At(ids, x, b)
  BY DEF At
<1>2. IsFiniteSet(At(ids, x, b))
  BY AtFinite
<1>3. Cardinality(At(ids, x, a)) <= Cardinality(At(ids, x, b))
  BY <1>1, <1>2, FS_Subset
<1>4. ASSUME NEW i \in (a + 1)..b, ids[i] = x
      PROVE  Cardinality(At(ids, x, a)) < Cardinality(At(ids, x, b))
  <2>1. i \in At(ids, x, b) /\ i \notin At(ids, x, a)
    BY <1>4 DEF At
  <2>2. Cardinality(At(ids, x, a)) # Cardinality(At(ids, x, b))
    BY <1>1, <1>2, <2>1, FS_Subset
  <2> QED
    BY <1>3, <2>2, AtFinite
<1> QED
  BY <1>3, <1>4

(* When the points after the first a, up to the b-th, are all of x or all of *)
(* something else.                                                           *)
LEMMA AtRange ==
    ASSUME NEW ids, NEW x, NEW a \in Nat, NEW b \in Nat, a <= b
    PROVE  /\ (\A i \in (a + 1)..b : ids[i] = x) =>
                Cardinality(At(ids, x, b)) = Cardinality(At(ids, x, a)) + (b - a)
           /\ (\A i \in (a + 1)..b : ids[i] # x) =>
                At(ids, x, b) = At(ids, x, a)
<1>1. ASSUME \A i \in (a + 1)..b : ids[i] # x
      PROVE  At(ids, x, b) = At(ids, x, a)
  <2>1. 1..b = (1..a) \cup ((a + 1)..b)
    OBVIOUS
  <2> QED
    BY <1>1, <2>1 DEF At
<1>2. ASSUME \A i \in (a + 1)..b : ids[i] = x
      PROVE  Cardinality(At(ids, x, b)) = Cardinality(At(ids, x, a)) + (b - a)
  <2> DEFINE C(n) == Cardinality(At(ids, x, n))
             S == {j \in 0..(b - a) : C(a + j) = C(a) + j}
  <2>1. 0 \in S
    BY AtFinite
  <2>2. ASSUME NEW j \in 0..(b - a - 1), j \in S PROVE j + 1 \in S
    <3>1. /\ (a + j) + 1 \in (a + 1)..b /\ a + j \in Nat
          /\ (a + j) + 1 = a + (j + 1) /\ j + 1 \in 0..(b - a)
      OBVIOUS
    <3>2. ids[(a + j) + 1] = x
      BY <1>2, <3>1
    <3>3. C((a + j) + 1) = C(a + j) + 1
      BY <3>1, <3>2, AtMore
    <3>4. C(a + j) = C(a) + j /\ C(a) \in Nat
      BY <2>2, AtFinite
    <3>5. C(a + (j + 1)) = C(a) + (j + 1)
      <4> HIDE DEF C
      <4> QED
        BY <3>1, <3>3, <3>4
    <3> QED
      BY <3>1, <3>5
  <2>3. b - a \in Nat /\ b - a \in 0..(b - a) /\ a + (b - a) = b
    OBVIOUS
  <2>4. 0..(b - a) \subseteq S
    <3> HIDE DEF S
    <3> QED
      BY <2>1, <2>2, <2>3, Induction
  <2>5. b - a \in S
    BY <2>3, <2>4
  <2> QED
    BY <2>3, <2>5
<1> QED
  BY <1>1, <1>2
-----------------------------------------------------------------------------
(* Messages that hold values.                                                *)
IdsOf(ids) == {ids[i] : i \in DOMAIN ids} \ {None}

(* No values, when there is no message.                                      *)
LEMMA HoldsNothing ==
    ASSUME NEW ids, NEW values,
           NEW m, \A id \in IdsOf(ids) : ValuesOf(m, id) = <<>>
    PROVE  HoldsUpto(m, ids, values, 0)
<1> SUFFICES ASSUME NEW id \in IdsOf(ids)
             PROVE  /\ Len(ValuesOf(m, id)) = Cardinality(At(ids, id, 0))
                    /\ \A i \in At(ids, id, 0) :
                         ValuesOf(m, id)[Cardinality(At(ids, id, i))] = values[i]
  BY DEF HoldsUpto, IdsOf
<1> QED
  BY AtNone

(* It is about no more than the first n values, and the messages of ids.     *)
LEMMA HoldsSame ==
    ASSUME NEW ids, NEW m, NEW w, NEW values, NEW others, NEW n \in Nat,
           HoldsUpto(m, ids, values, n),
           \A i \in 1..n : others[i] = values[i],
           \A id \in IdsOf(ids) : ValuesOf(w, id) = ValuesOf(m, id)
    PROVE  HoldsUpto(w, ids, others, n)
<1> SUFFICES ASSUME NEW id \in IdsOf(ids)
             PROVE  /\ Len(ValuesOf(w, id)) = Cardinality(At(ids, id, n))
                    /\ \A i \in At(ids, id, n) :
                         ValuesOf(w, id)[Cardinality(At(ids, id, i))] = others[i]
  BY DEF HoldsUpto, IdsOf
<1>1. /\ Len(ValuesOf(m, id)) = Cardinality(At(ids, id, n))
      /\ \A i \in At(ids, id, n) :
           ValuesOf(m, id)[Cardinality(At(ids, id, i))] = values[i]
  BY DEF HoldsUpto, IdsOf
<1>2. At(ids, id, n) \subseteq 1..n
  BY DEF At
<1> QED
  BY <1>1, <1>2

(* The value of the next point is added to the message of that point.        *)
LEMMA HoldsPush ==
    ASSUME NEW n \in Nat, NEW ids \in Seq(Id \cup {None}), n < Len(ids),
           NEW m \in Messages, NEW values, values[n + 1] \in Value,
           HoldsUpto(m, ids, values, n)
    PROVE  HoldsUpto(Push(m, ids[n + 1], values[n + 1]), ids, values, n + 1)
<1> DEFINE w == Push(m, ids[n + 1], values[n + 1])
<1>1. n + 1 \in 1..Len(ids) /\ n + 1 \in DOMAIN ids /\ n + 1 \in Nat
  OBVIOUS
<1>2. ids[n + 1] \in Id \cup {None}
  BY <1>1
<1> SUFFICES ASSUME NEW id \in IdsOf(ids)
             PROVE  /\ Len(ValuesOf(w, id)) = Cardinality(At(ids, id, n + 1))
                    /\ \A i \in At(ids, id, n + 1) :
                         ValuesOf(w, id)[Cardinality(At(ids, id, i))] = values[i]
  BY DEF HoldsUpto, IdsOf
<1>3. /\ Len(ValuesOf(m, id)) = Cardinality(At(ids, id, n))
      /\ \A i \in At(ids, id, n) :
           ValuesOf(m, id)[Cardinality(At(ids, id, i))] = values[i]
  BY DEF HoldsUpto, IdsOf
<1>4. id # None
  BY DEF IdsOf
<1>5. CASE ids[n + 1] # id
  <2>1. ValuesOf(w, id) = ValuesOf(m, id)
    <3>1. \A x : x # ids[n + 1] \/ x = None => ValuesOf(w, x) = ValuesOf(m, x)
      BY <1>2, PushFacts
    <3> QED
      BY <1>5, <3>1
  <2>2. At(ids, id, n + 1) = At(ids, id, n)
    BY <1>5, AtMore
  <2> HIDE DEF w
  <2> QED
    BY <1>3, <2>1, <2>2
<1>6. CASE ids[n + 1] = id
  <2> DEFINE old == ValuesOf(m, id)
             C(i) == Cardinality(At(ids, id, i))
  <2>1. ValuesOf(w, id) = Append(old, values[n + 1])
    BY <1>2, <1>4, <1>6, PushFacts
  <2>2. old \in Seq(Value)
    BY ValuesType
  <2>3. C(n + 1) = C(n) + 1 /\ At(ids, id, n + 1) = At(ids, id, n) \cup {n + 1}
    BY <1>6, AtMore
  <2>4. Len(old) = C(n) /\ C(n) \in Nat
    BY <1>3, AtFinite
  <2>5. ASSUME NEW i \in At(ids, id, n)
        PROVE  C(i) \in 1..C(n) /\ old[C(i)] = values[i]
    <3>1. i \in 1..n /\ i \in Nat /\ i - 1 \in Nat /\ (i - 1) + 1 = i /\ ids[i] = id
      BY <2>5 DEF At
    <3>2. C(i) <= C(n)
      BY <3>1, AtLess
    <3>3. C((i - 1) + 1) = C(i - 1) + 1
      <4>1. ids[(i - 1) + 1] = id
        BY <3>1
      <4> QED
        BY <3>1, <4>1, AtMore
    <3>4. C(i - 1) \in Nat /\ C(i) \in Nat
      BY <3>1, AtFinite
    <3>5. C(i) = C(i - 1) + 1
      <4> HIDE DEF C
      <4> QED
        BY <3>1, <3>3
    <3>6. old[C(i)] = values[i]
      BY <1>3, <2>5
    <3> HIDE DEF C, old
    <3> QED
      BY <2>4, <3>2, <3>4, <3>5, <3>6
  <2>6. ASSUME NEW i \in At(ids, id, n + 1)
        PROVE  Append(old, values[n + 1])[C(i)] = values[i]
    <3>1. CASE i = n + 1
      <4> HIDE DEF old
      <4>1. C(i) = Len(old) + 1
        BY <2>3, <2>4, <3>1
      <4> HIDE DEF C
      <4> QED
        BY <2>2, <3>1, <4>1
    <3>2. CASE i # n + 1
      <4>1. i \in At(ids, id, n)
        BY <2>3, <3>2
      <4>2. C(i) \in 1..C(n) /\ old[C(i)] = values[i]
        BY <2>5, <4>1
      <4> HIDE DEF C, old
      <4> QED
        BY <2>2, <2>4, <4>2
    <3> QED
      BY <3>1, <3>2
  <2>7. Len(Append(old, values[n + 1])) = C(n + 1)
    <3> HIDE DEF C, old
    <3> QED
      BY <2>2, <2>3, <2>4
  <2> QED
    BY <2>1, <2>6, <2>7
<1> QED
  BY <1>5, <1>6

-----------------------------------------------------------------------------
(* The messages of one role are none of another's.                           *)
LEMMA RoleIds ==
    ASSUME NEW d \in Dev
    PROVE  /\ Measurements(d) \in Seq(Id \cup {None})
           /\ Len(Measurements(d)) = Len(Points[d])
           /\ Statuses(d) \in Seq(Id \cup {None})
           /\ Len(Statuses(d)) = Len(Points[d])
           /\ ForwardedAs(d) \in Seq(Id \cup {None})
           /\ Len(ForwardedAs(d)) = Len(Points[d])
<1>1. Len(Points[d]) \in Nat
  BY DeviceFacts
<1>2. \A i \in 1..Len(Points[d]) : /\ Points[d][i].measurement \in Id \cup {None}
                                   /\ Points[d][i].status \in Id \cup {None}
  BY PointFacts
<1>3. /\ Measurements(d) \in Seq(Id \cup {None})
      /\ Len(Measurements(d)) = Len(Points[d])
  BY <1>1, <1>2 DEF Measurements
<1>4. /\ Statuses(d) \in Seq(Id \cup {None})
      /\ Len(Statuses(d)) = Len(Points[d])
  BY <1>1, <1>2 DEF Statuses
<1>5. /\ ForwardedAs(d) \in Seq(Id \cup {None})
      /\ Len(ForwardedAs(d)) = Len(Points[d])
  BY <1>1, <1>2 DEF ForwardedAs
<1> QED
  BY <1>3, <1>4, <1>5

LEMMA RolesApart ==
    ASSUME NEW d \in Dev, NEW i \in 1..Len(Points[d])
    PROVE  LET p == Points[d][i] IN
           /\ p.alarm # None =>
                p.alarm \notin IdsOf(Measurements(d)) \cup IdsOf(Statuses(d))
           /\ p.event # None =>
                p.event \notin IdsOf(Measurements(d)) \cup IdsOf(Statuses(d))
                               \cup AlarmIds(d)
           /\ p.measurement # None =>
                p.measurement \notin IdsOf(Statuses(d)) \cup AlarmIds(d)
           /\ p.status # None =>
                p.status \notin IdsOf(Measurements(d)) \cup AlarmIds(d)
<1>1. RolesOf(d)
  BY DeviceFacts
<1>2. ASSUME NEW j \in 1..Len(Points[d])
      PROVE  LET p == Points[d][i]
                 q == Points[d][j]
             IN /\ p.alarm # None => p.alarm \notin {q.measurement, q.status}
                /\ p.event # None =>
                     p.event \notin {q.measurement, q.status, q.alarm}
                /\ p.measurement # None => p.measurement \notin {q.status, q.alarm}
                /\ p.status # None => p.status \notin {q.measurement, q.alarm}
  BY <1>1 DEF RolesOf
<1>3. \A id \in IdsOf(Measurements(d)) :
        \E j \in 1..Len(Points[d]) : id = Points[d][j].measurement
  BY DEF IdsOf, Measurements
<1>4. \A id \in IdsOf(Statuses(d)) :
        \E j \in 1..Len(Points[d]) : id = Points[d][j].status
  BY DEF IdsOf, Statuses
<1>5. \A id \in AlarmIds(d) : \E j \in 1..Len(Points[d]) : id = Points[d][j].alarm
  BY DEF AlarmIds
<1> QED
  BY <1>2, <1>3, <1>4, <1>5
-----------------------------------------------------------------------------
(* One value more: its messages are those of one point more.                 *)
LEMMA AlarmedMore ==
    ASSUME NEW d \in Dev, NEW n \in Nat, NEW values
    PROVE  Alarmed(d, values, n + 1) =
             Alarmed(d, values, n) \cup
               (IF Alarms(Points[d][n + 1], values[n + 1])
                THEN {Points[d][n + 1].alarm} \ {None} ELSE {})
<1>1. 1..(n + 1) = (1..n) \cup {n + 1}
  OBVIOUS
<1> QED
  BY <1>1 DEF Alarmed

LEMMA EnteredFits ==
    ASSUME NEW d \in Dev, NEW n \in Nat, n < Len(Points[d]),
           NEW m \in Messages, NEW values, values[n + 1] \in Value
    PROVE  /\ Entered(m, Points[d][n + 1], values[n + 1]) \in Messages
           /\ Fits(d, m, values, n) =>
                Fits(d, Entered(m, Points[d][n + 1], values[n + 1]), values, n + 1)
<1> DEFINE p == Points[d][n + 1]
           v == values[n + 1]
           m1 == IF Alarms(p, v) THEN Put(m, p.alarm, <<>>) ELSE m
           m2 == IF Happens(p, v) THEN Push(m1, p.event, v) ELSE m1
           m3 == Push(m2, p.measurement, v)
           m4 == Push(m3, p.status, v)
           M == IdsOf(Measurements(d))
           S == IdsOf(Statuses(d))
<1>1. Entered(m, p, v) = m4
  BY DEF Entered
<1>2. n + 1 \in 1..Len(Points[d]) /\ n + 1 \in Nat
  BY DeviceFacts
<1>3. /\ p.alarm \in Id \cup {None} /\ p.event \in Id \cup {None}
      /\ p.status \in Id \cup {None} /\ p.measurement \in Id \cup {None}
  BY <1>2, PointFacts
<1>4. /\ p.alarm # None => p.alarm \notin M \cup S
      /\ p.event # None => p.event \notin M \cup S \cup AlarmIds(d)
      /\ p.measurement # None => p.measurement \notin S \cup AlarmIds(d)
      /\ p.status # None => p.status \notin M \cup AlarmIds(d)
  BY <1>2, RolesApart
<1>5. None \notin M \cup S
  BY DEF IdsOf
<1>6. p.measurement = Measurements(d)[n + 1] /\ p.status = Statuses(d)[n + 1]
  BY <1>2 DEF Measurements, Statuses
<1>7. p.alarm \in AlarmIds(d)
  BY <1>2 DEF AlarmIds
<1>8. v \in Value /\ <<>> \in Seq(Value)
  OBVIOUS
<1> HIDE DEF p, v, M, S
<1>9. /\ m1 \in Messages
      /\ \A x \in M \cup S : ValuesOf(m1, x) = ValuesOf(m, x)
      /\ DOMAIN m1 = DOMAIN m \cup
                       (IF Alarms(p, v) THEN {p.alarm} \ {None} ELSE {})
  <2>1. CASE Alarms(p, v)
    <3>1. /\ Put(m, p.alarm, <<>>) \in Messages
          /\ DOMAIN Put(m, p.alarm, <<>>) = DOMAIN m \cup ({p.alarm} \ {None})
          /\ \A x : x # p.alarm \/ x = None =>
               ValuesOf(Put(m, p.alarm, <<>>), x) = ValuesOf(m, x)
      BY <1>3, <1>8, PutFacts
    <3> QED
      BY <1>4, <1>5, <2>1, <3>1
  <2>2. CASE ~Alarms(p, v)
    BY <2>2
  <2> QED
    BY <2>1, <2>2
<1> HIDE DEF m1
<1>10. /\ m2 \in Messages
       /\ \A x \in M \cup S : ValuesOf(m2, x) = ValuesOf(m1, x)
       /\ DOMAIN m2 \cap AlarmIds(d) = DOMAIN m1 \cap AlarmIds(d)
  <2>1. CASE Happens(p, v)
    <3>1. /\ Push(m1, p.event, v) \in Messages
          /\ DOMAIN Push(m1, p.event, v) = DOMAIN m1 \cup ({p.event} \ {None})
          /\ \A x : x # p.event \/ x = None =>
               ValuesOf(Push(m1, p.event, v), x) = ValuesOf(m1, x)
      BY <1>3, <1>8, <1>9, PushFacts
    <3> QED
      BY <1>4, <1>5, <2>1, <3>1
  <2>2. CASE ~Happens(p, v)
    BY <1>9, <2>2
  <2> QED
    BY <2>1, <2>2
<1> HIDE DEF m2
<1>11. /\ m3 \in Messages
       /\ \A x \in S : ValuesOf(m3, x) = ValuesOf(m2, x)
       /\ DOMAIN m3 \cap AlarmIds(d) = DOMAIN m2 \cap AlarmIds(d)
  <2>1. /\ m3 \in Messages
        /\ DOMAIN m3 = DOMAIN m2 \cup ({p.measurement} \ {None})
        /\ \A x : x # p.measurement \/ x = None =>
             ValuesOf(m3, x) = ValuesOf(m2, x)
    BY <1>3, <1>8, <1>10, PushFacts
  <2> HIDE DEF m3
  <2> QED
    BY <1>4, <1>5, <2>1
<1>12. /\ m4 \in Messages
       /\ \A x \in M : ValuesOf(m4, x) = ValuesOf(m3, x)
       /\ DOMAIN m4 \cap AlarmIds(d) = DOMAIN m3 \cap AlarmIds(d)
  <2> HIDE DEF m3
  <2>1. /\ m4 \in Messages
        /\ DOMAIN m4 = DOMAIN m3 \cup ({p.status} \ {None})
        /\ \A x : x # p.status \/ x = None => ValuesOf(m4, x) = ValuesOf(m3, x)
    BY <1>3, <1>8, <1>11, PushFacts
  <2> HIDE DEF m4
  <2> QED
    BY <1>4, <1>5, <2>1
<1>13. ASSUME Fits(d, m, values, n) PROVE Fits(d, m4, values, n + 1)
  <2>1. /\ Measurements(d) \in Seq(Id \cup {None}) /\ n < Len(Measurements(d))
        /\ Statuses(d) \in Seq(Id \cup {None}) /\ n < Len(Statuses(d))
    BY RoleIds
  <2>2. HoldsUpto(m4, Measurements(d), values, n + 1)
    <3>1. HoldsUpto(m2, Measurements(d), values, n)
      <4>1. \A x \in IdsOf(Measurements(d)) : ValuesOf(m2, x) = ValuesOf(m, x)
        BY <1>9, <1>10 DEF M
      <4> QED
        BY <1>13, <4>1, HoldsSame DEF Fits
    <3>2. HoldsUpto(m3, Measurements(d), values, n + 1)
      <4>1. HoldsUpto(Push(m2, Measurements(d)[n + 1], values[n + 1]),
                      Measurements(d), values, n + 1)
        BY <1>10, <2>1, <3>1, HoldsPush
      <4> QED
        BY <1>6, <4>1 DEF v
    <3>3. \A x \in IdsOf(Measurements(d)) : ValuesOf(m4, x) = ValuesOf(m3, x)
      BY <1>12 DEF M
    <3> HIDE DEF m3, m4
    <3> QED
      BY <1>2, <3>2, <3>3, HoldsSame
  <2>3. HoldsUpto(m4, Statuses(d), values, n + 1)
    <3> HIDE DEF m3
    <3>1. HoldsUpto(m3, Statuses(d), values, n)
      <4>1. \A x \in IdsOf(Statuses(d)) : ValuesOf(m3, x) = ValuesOf(m, x)
        BY <1>9, <1>10, <1>11 DEF S
      <4> QED
        BY <1>13, <4>1, HoldsSame DEF Fits
    <3>2. HoldsUpto(Push(m3, Statuses(d)[n + 1], values[n + 1]),
                    Statuses(d), values, n + 1)
      BY <1>11, <2>1, <3>1, HoldsPush
    <3> QED
      BY <1>6, <3>2 DEF v
  <2>4. DOMAIN m4 \cap AlarmIds(d) = Alarmed(d, values, n + 1)
    <3>1. DOMAIN m4 \cap AlarmIds(d) = DOMAIN m1 \cap AlarmIds(d)
      BY <1>10, <1>11, <1>12
    <3>2. DOMAIN m \cap AlarmIds(d) = Alarmed(d, values, n)
      BY <1>13 DEF Fits
    <3>3. Alarmed(d, values, n + 1) =
            Alarmed(d, values, n) \cup
              (IF Alarms(p, v) THEN {p.alarm} \ {None} ELSE {})
      BY AlarmedMore DEF p, v
    <3> HIDE DEF m3, m4
    <3> QED
      BY <1>7, <1>9, <3>1, <3>2, <3>3
  <2> HIDE DEF m3, m4
  <2> QED
    BY <2>2, <2>3, <2>4 DEF Fits
<1> HIDE DEF m4
<1> QED
  BY <1>1, <1>12, <1>13 DEF p, v

LEMMA ForwardedFits ==
    ASSUME NEW d \in Dev, NEW n \in Nat, n < Len(Points[d]),
           NEW m \in Messages, NEW values, values[n + 1] \in Value
    PROVE  /\ Forwarded(m, Points[d][n + 1], values[n + 1]) \in Messages
           /\ HoldsUpto(m, ForwardedAs(d), values, n) =>
                HoldsUpto(Forwarded(m, Points[d][n + 1], values[n + 1]),
                          ForwardedAs(d), values, n + 1)
<1> DEFINE p == Points[d][n + 1]
           v == values[n + 1]
           F == ForwardedAs(d)
<1>1. n + 1 \in 1..Len(Points[d])
  BY DeviceFacts
<1>2. F[n + 1] = IF p.forward THEN p.measurement ELSE None
  BY <1>1 DEF ForwardedAs
<1>3. F \in Seq(Id \cup {None}) /\ n < Len(F) /\ F[n + 1] \in Id \cup {None}
  <2>1. F \in Seq(Id \cup {None}) /\ Len(F) = Len(Points[d])
    BY RoleIds
  <2> HIDE DEF F
  <2> QED
    BY <1>1, <2>1
<1>4. Forwarded(m, p, v) = Push(m, F[n + 1], v)
  BY <1>2 DEF Forwarded, Push, Put
<1> HIDE DEF F, p
<1>5. Push(m, F[n + 1], v) \in Messages
  BY <1>3, PushFacts
<1>6. HoldsUpto(m, F, values, n) =>
        HoldsUpto(Push(m, F[n + 1], values[n + 1]), F, values, n + 1)
  BY <1>3, HoldsPush
<1> QED
  BY <1>4, <1>5, <1>6 DEF F, p

-----------------------------------------------------------------------------
(* The values of an answer: Entries is what its recursion says.              *)
LEMMA EntriesDef ==
    ASSUME NEW d, NEW n, NEW values, Len(values) \in Nat
    PROVE  Entries(d, n, values) =
             [i \in 0..Len(values) |->
                IF i = 0 THEN [tm |-> tm[d], fm |-> fm[d]]
                ELSE [tm |-> Entered(Entries(d, n, values)[i - 1].tm,
                                     Points[d][n + i], values[i]),
                      fm |-> Forwarded(Entries(d, n, values)[i - 1].fm,
                                       Points[d][n + i], values[i])]]
<1> DEFINE Step(x, i) == [tm |-> Entered(x.tm, Points[d][n + i], values[i]),
                          fm |-> Forwarded(x.fm, Points[d][n + i], values[i])]
           first == [tm |-> tm[d], fm |-> fm[d]]
           G(f, k) == f = [i \in 0..k |-> IF i = 0 THEN first ELSE Step(f[i - 1], i)]
           S == {k \in 0..Len(values) : \E f : G(f, k)}
<1>1. 0 \in S
  <2> HIDE DEF Step, first
  <2>1. G([i \in 0..0 |-> first], 0)
    OBVIOUS
  <2> HIDE DEF G
  <2> QED
    BY <2>1
<1>2. ASSUME NEW k \in 0..(Len(values) - 1), k \in S PROVE k + 1 \in S
  <2> HIDE DEF Step, first
  <2>1. PICK f : G(f, k)
    BY <1>2
  <2> DEFINE g == [i \in 0..(k + 1) |-> IF i = k + 1 THEN Step(f[k], k + 1) ELSE f[i]]
  <2>2. G(g, k + 1)
    BY <2>1
  <2> HIDE DEF G, g
  <2> QED
    BY <2>2
<1>3. Len(values) \in S
  <2>1. 0..Len(values) \subseteq S
    <3> HIDE DEF S
    <3> QED
      BY <1>1, <1>2, Induction
  <2> QED
    BY <2>1
<1> QED
  BY <1>3 DEF Entries

(* What is entered of an answer's values, those after the first n of all     *)
(* values: the messages of n values become those of n + Len(values).         *)
LEMMA EntriesFit ==
    ASSUME tm \in [Dev -> Messages], fm \in [Dev -> Messages],
           NEW d \in Dev, NEW n \in Nat, NEW values \in Seq(Value),
           n + Len(values) <= Len(Points[d]),
           NEW all, \A i \in 1..Len(values) : all[n + i] = values[i]
    PROVE  LET after == Entries(d, n, values)[Len(values)] IN
           /\ after.tm \in Messages /\ after.fm \in Messages
           /\ Fits(d, tm[d], all, n) => Fits(d, after.tm, all, n + Len(values))
           /\ HoldsUpto(fm[d], ForwardedAs(d), all, n) =>
                HoldsUpto(after.fm, ForwardedAs(d), all, n + Len(values))
<1> DEFINE E == Entries(d, n, values)
           S == {i \in 0..Len(values) :
                   /\ E[i].tm \in Messages /\ E[i].fm \in Messages
                   /\ Fits(d, tm[d], all, n) => Fits(d, E[i].tm, all, n + i)
                   /\ HoldsUpto(fm[d], ForwardedAs(d), all, n) =>
                        HoldsUpto(E[i].fm, ForwardedAs(d), all, n + i)}
<1>1. Len(values) \in Nat /\ Len(Points[d]) \in Nat
  BY DeviceFacts
<1>2. /\ E[0] = [tm |-> tm[d], fm |-> fm[d]]
      /\ \A i \in 1..Len(values) :
           E[i] = [tm |-> Entered(E[i - 1].tm, Points[d][n + i], values[i]),
                   fm |-> Forwarded(E[i - 1].fm, Points[d][n + i], values[i])]
  <2>1. E = [i \in 0..Len(values) |->
               IF i = 0 THEN [tm |-> tm[d], fm |-> fm[d]]
               ELSE [tm |-> Entered(E[i - 1].tm, Points[d][n + i], values[i]),
                     fm |-> Forwarded(E[i - 1].fm, Points[d][n + i], values[i])]]
    BY <1>1, EntriesDef, SMT
  <2> HIDE DEF E
  <2>2. 0 \in 0..Len(values) /\ \A i \in 1..Len(values) : i \in 0..Len(values) /\ i # 0
    BY <1>1
  <2> QED
    BY <2>1, <2>2, Zenon
<1> HIDE DEF E
<1>3. 0 \in S
  <2>1. tm[d] \in Messages /\ fm[d] \in Messages
    OBVIOUS
  <2>2. E[0].tm = tm[d] /\ E[0].fm = fm[d]
    BY <1>2
  <2>3. n + 0 = n /\ 0 \in 0..Len(values)
    BY <1>1
  <2> QED
    BY <2>1, <2>2, <2>3
<1>4. ASSUME NEW i \in 0..(Len(values) - 1), i \in S PROVE i + 1 \in S
  <2>1. /\ i + 1 \in 1..Len(values) /\ i + 1 \in 0..Len(values)
        /\ (i + 1) - 1 = i /\ n + (i + 1) = (n + i) + 1
        /\ n + i \in Nat /\ n + i < Len(Points[d])
    BY <1>1
  <2>2. all[(n + i) + 1] = values[i + 1] /\ values[i + 1] \in Value
    BY <2>1
  <2>3. /\ E[i + 1].tm = Entered(E[i].tm, Points[d][(n + i) + 1], all[(n + i) + 1])
        /\ E[i + 1].fm = Forwarded(E[i].fm, Points[d][(n + i) + 1], all[(n + i) + 1])
    <3>1. ASSUME NEW j \in 1..Len(values)
          PROVE  /\ E[j].tm = Entered(E[j - 1].tm, Points[d][n + j], values[j])
                 /\ E[j].fm = Forwarded(E[j - 1].fm, Points[d][n + j], values[j])
      <4> DEFINE a == Entered(E[j - 1].tm, Points[d][n + j], values[j])
                 b == Forwarded(E[j - 1].fm, Points[d][n + j], values[j])
      <4>1. E[j] = [tm |-> a, fm |-> b]
        BY <1>2, Zenon
      <4> HIDE DEF a, b
      <4>2. E[j].tm = a /\ E[j].fm = b
        BY <4>1
      <4> QED
        BY <4>2 DEF a, b
    <3>2. PICK j \in 1..Len(values) : j = i + 1
      BY <2>1
    <3>3. j - 1 = i /\ n + j = (n + i) + 1 /\ values[j] = all[(n + i) + 1]
      BY <2>1, <2>2, <3>2
    <3> QED
      BY <3>1, <3>2, <3>3
  <2>4. E[i].tm \in Messages /\ E[i].fm \in Messages
    BY <1>4
  <2>5. /\ E[i + 1].tm \in Messages
        /\ Fits(d, E[i].tm, all, n + i) => Fits(d, E[i + 1].tm, all, (n + i) + 1)
    BY <2>1, <2>2, <2>3, <2>4, EnteredFits
  <2>6. /\ E[i + 1].fm \in Messages
        /\ HoldsUpto(E[i].fm, ForwardedAs(d), all, n + i) =>
             HoldsUpto(E[i + 1].fm, ForwardedAs(d), all, (n + i) + 1)
    BY <2>1, <2>2, <2>3, <2>4, ForwardedFits
  <2> QED
    BY <1>4, <2>1, <2>5, <2>6
<1>5. Len(values) \in S
  <2>1. 0..Len(values) \subseteq S
    <3> HIDE DEF S
    <3> QED
      BY <1>1, <1>3, <1>4, Induction
  <2> QED
    BY <1>1, <2>1
<1> QED
  BY <1>5 DEF E
-----------------------------------------------------------------------------
(* The step to the next range or device.                                     *)
LEMMA NextDeviceType ==
    ASSUME dev \in Dev, NextDevice
    PROVE  dev' \in Dev /\ pc' = "begin" /\ pos' = 1
<1>1. NDev \in Nat \ {0} /\ dev \in 1..NDev
  BY UploadAssumption DEF Dev
<1>2. dev % NDev \in 0..(NDev - 1)
  BY <1>1
<1> QED
  BY <1>1, <1>2 DEF NextDevice, Dev

LEMMA AdvanceFacts ==
    ASSUME dev \in Dev, pos \in 1..Len(Ends[dev]), Advance
    PROVE  /\ dev' \in Dev /\ pc' \in {"begin", "wait"}
           /\ IF pc' = "begin" THEN pos' = 1 ELSE pos' \in 1..Len(Ends[dev'])
           /\ pc' # "begin" =>
                /\ pos < Len(Ends[dev]) /\ dev' = dev /\ pos' = pos + 1
                /\ Start(dev', pos') = Ends[dev][pos]
<1>1. CASE pos < Len(Ends[dev])
  <2>1. pos' = pos + 1 /\ pc' = "wait" /\ dev' = dev
    BY <1>1 DEF Advance
  <2>2. pos + 1 \in 1..Len(Ends[dev])
    BY <1>1, DeviceFacts
  <2>3. Start(dev, pos + 1) = Ends[dev][pos]
    BY <1>1, RangeFacts
  <2> QED
    BY <1>1, <2>1, <2>2, <2>3
<1>2. CASE ~(pos < Len(Ends[dev]))
  BY <1>2, NextDeviceType DEF Advance
<1> QED
  BY <1>1, <1>2

(* What the parsing of an answer does.                                       *)
LEMMA ParseFacts ==
    ASSUME TypeInv, NEW k \in Kind, Parse(k)
    PROVE  LET start == Start(dev, pos)
               end == Ends[dev][pos]
           IN /\ pc = "wait" /\ pc' = "send" /\ dev' = dev /\ pos' = pos
              /\ dev \in Dev /\ pos \in 1..Len(Ends[dev])
              /\ start \in Nat /\ end \in Nat /\ start < end
              /\ end <= Len(Points[dev])
              /\ \A i \in (start + 1)..end : Kinds(dev)[i] = k
              /\ \E values \in Seq(Value) :
                   /\ Len(values) = end - start
                   /\ tm' = [tm EXCEPT ![dev] =
                               Entries(dev, start, values)[Len(values)].tm]
                   /\ fm' = [fm EXCEPT ![dev] =
                               Entries(dev, start, values)[Len(values)].fm]
                   /\ seen' = seen \o values
              /\ count' = [count EXCEPT ![dev] =
                             [count[dev] EXCEPT ![k] = count[dev][k] + (end - start)]]
              /\ UNCHANGED <<lastMsg, lastForward, have, forwarded, done,
                             forwardDone, lost, lostForward, fresh, pure, troubles>>
<1> DEFINE start == Start(dev, pos)
           end == Ends[dev][pos]
<1>1. pc = "wait" /\ pc' = "send" /\ dev' = dev /\ pos' = pos
  BY DEF Parse
<1>2. dev \in Dev /\ pos \in 1..Len(Ends[dev])
  BY <1>1 DEF TypeInv
<1>3. /\ start \in Nat /\ end \in Nat /\ start < end
      /\ end <= Len(Points[dev]) /\ Len(Points[dev]) \in Nat
  BY <1>2, RangeFacts, RangeEnd, DeviceFacts
<1>4. \A i \in (start + 1)..end : Kinds(dev)[i] = k
  <2>1. \A i \in (start + 1)..end : Points[dev][i].kind = Points[dev][end].kind
    BY <1>2, DeviceFacts DEF RangesOf, Within
  <2>2. Points[dev][end].kind = k
    BY DEF Parse
  <2>3. \A i \in (start + 1)..end : i \in 1..Len(Points[dev])
    BY <1>3
  <2> QED
    BY <2>1, <2>2, <2>3 DEF Kinds
<1>5. \E values \in Seq(Value) :
        /\ Len(values) = end - start
        /\ tm' = [tm EXCEPT ![dev] = Entries(dev, start, values)[Len(values)].tm]
        /\ fm' = [fm EXCEPT ![dev] = Entries(dev, start, values)[Len(values)].fm]
        /\ seen' = seen \o values
  <2>1. PICK values \in [1..(end - start) -> IF k \in Coils THEN {0, 1} ELSE Value] :
          /\ tm' = [tm EXCEPT ![dev] = Entries(dev, start, values)[end - start].tm]
          /\ fm' = [fm EXCEPT ![dev] = Entries(dev, start, values)[end - start].fm]
          /\ seen' = seen \o values
    BY DEF Parse
  <2>2. {0, 1} \subseteq Value
    BY UploadAssumption
  <2>3. values \in [1..(end - start) -> Value] /\ end - start \in Nat
    BY <1>3, <2>2
  <2>4. values \in Seq(Value) /\ Len(values) = end - start
    BY <2>3
  <2> QED
    BY <2>1, <2>4
<1>6. count' = [count EXCEPT ![dev] =
                  [count[dev] EXCEPT ![k] = count[dev][k] + (end - start)]]
  BY DEF Parse
<1>7. UNCHANGED <<lastMsg, lastForward, have, forwarded, done,
                  forwardDone, lost, lostForward, fresh, pure, troubles>>
  BY DEF Parse, lastVars, platVars
<1> QED
  BY <1>1, <1>2, <1>3, <1>4, <1>5, <1>6, <1>7

LEMMA AnswerIsParse ==
    ASSUME Answer
    PROVE  \E k \in Kind : Parse(k)
  BY DEF Answer, ParseCO, ParseDI, ParseHR, ParseIR, Kind

LEMMA NothingType ==
    /\ Nothing \in [Dev -> Messages] /\ NoText \in [dev : 0..NDev, messages : Messages]
    /\ NoCount \in [Kind -> Nat]
<1>1. NoMessages \in Messages /\ NDev \in Nat
  BY NoMessagesType, UploadAssumption
<1> QED
  BY <1>1 DEF Nothing, NoText, NoCount

LEMMA TextType ==
    ASSUME NEW d \in Dev, NEW m \in Messages
    PROVE  Text(d, m) \in [dev : 0..NDev, messages : Messages]
<1>1. d \in 0..NDev /\ 0 \in 0..NDev
  BY UploadAssumption DEF Dev
<1> QED
  BY <1>1 DEF Text

-----------------------------------------------------------------------------
(* Types.                                                                    *)
LEMMA TypesInit == Init => TypeInv
<1> SUFFICES ASSUME Init PROVE TypeInv
  OBVIOUS
<1>1. 1 \in Dev /\ NDev \in Nat /\ MaxTroubles \in Nat
  BY UploadAssumption DEF Dev
<1>2. [d \in Dev |-> NoCount] \in [Dev -> [Kind -> Nat]]
  BY NothingType
<1>3. /\ <<>> \in Seq(Value) /\ [d \in Dev |-> <<>>] \in [Dev -> Seq(Value)]
      /\ [dev |-> 0, values |-> <<>>] \in [dev : 0..NDev, values : Seq(Value)]
  BY <1>1
<1>4. tm \in [Dev -> Messages] /\ fm \in [Dev -> Messages] /\ have \in [Dev -> Messages]
  BY NothingType DEF Init
<1>5. /\ lastMsg \in [dev : 0..NDev, messages : Messages]
      /\ lastForward \in Messages /\ forwarded \in Messages
  BY NothingType, NoMessagesType DEF Init
<1>6. lost \subseteq Dev /\ lostForward \in BOOLEAN /\ fresh \in BOOLEAN /\ pure \in BOOLEAN
  BY DEF Init
<1>7. /\ pc = "begin" /\ dev = 1 /\ pos = 1 /\ troubles = 0
      /\ count = [d \in Dev |-> NoCount] /\ seen = <<>>
      /\ done = [d \in Dev |-> <<>>] /\ forwardDone = [dev |-> 0, values |-> <<>>]
  BY DEF Init
<1> QED
  BY <1>1, <1>2, <1>3, <1>4, <1>5, <1>6, <1>7 DEF TypeInv

(* What the platform has after messages m.                                   *)
LEMMA ReceivedFacts ==
    ASSUME NEW h \in Messages, NEW m \in Messages
    PROVE  Received(h, m) \in Messages /\ Covers(Received(h, m), m)
<1> DEFINE S == DOMAIN h \cup DOMAIN m
<1>1. /\ DOMAIN h \subseteq Id /\ h \in [DOMAIN h -> Seq(Value)]
      /\ DOMAIN m \subseteq Id /\ m \in [DOMAIN m -> Seq(Value)]
  BY DEF Messages
<1>2. Received(h, m) \in [S -> Seq(Value)] /\ S \in SUBSET Id
  BY <1>1 DEF Received
<1>3. Covers(Received(h, m), m)
  BY DEF Received, Covers
<1>4. Received(h, m) \in Messages
  <2> HIDE DEF S
  <2> QED
    BY <1>2 DEF Messages
<1> QED
  BY <1>3, <1>4

LEMMA SendTypes ==
    ASSUME TypeInv, SendMsg
    PROVE  TypeInv'
<1>1. /\ dev \in Dev /\ pos \in 1..Len(Ends[dev]) /\ pc = "send"
  BY DEF TypeInv, SendMsg
<1>2. /\ pc' \in {"begin", "wait", "send"} /\ dev' \in Dev
      /\ IF pc' = "begin" THEN pos' = 1 ELSE pos' \in 1..Len(Ends[dev'])
  BY <1>1, AdvanceFacts DEF SendMsg
<1>3. /\ tm' \in [Dev -> Messages] /\ fm' \in [Dev -> Messages]
      /\ tm[dev] \in Messages /\ fm[dev] \in Messages
  BY <1>1, NoMessagesType DEF SendMsg, TypeInv
<1>4. count' \in [Dev -> [Kind -> Nat]]
  BY <1>1, NothingType DEF SendMsg, ClearCount, TypeInv
<1>5. PICK fails \in SUBSET {"msg", "forward"} :
        /\ troubles' = troubles + Cardinality(fails) /\ troubles' <= MaxTroubles
        /\ PostMsg("msg" \in fails) /\ PostForward("forward" \in fails)
  BY DEF SendMsg
<1>6. /\ lastMsg' \in [dev : 0..NDev, messages : Messages]
      /\ have' \in [Dev -> Messages] /\ lost' \subseteq Dev
  <2>1. Text(dev, tm[dev]) \in [dev : 0..NDev, messages : Messages]
    BY <1>1, <1>3, TextType
  <2>2. /\ lastMsg \in [dev : 0..NDev, messages : Messages]
        /\ have \in [Dev -> Messages] /\ lost \subseteq Dev
    BY DEF TypeInv
  <2>3. Received(have[dev], tm[dev]) \in Messages
    BY <1>1, <1>3, <2>2, ReceivedFacts
  <2>4. /\ lastMsg' \in {lastMsg, Text(dev, tm[dev])}
        /\ have' \in {have, [have EXCEPT ![dev] = Received(have[dev], tm[dev])]}
        /\ lost' \in {lost, lost \cup {dev}, lost \ {dev}}
    BY <1>5 DEF PostMsg
  <2> QED
    BY <1>1, <2>1, <2>2, <2>3, <2>4
<1>7. lastForward' \in Messages /\ forwarded' \in Messages /\ lostForward' \in BOOLEAN
  <2>1. lastForward \in Messages /\ forwarded \in Messages /\ lostForward \in BOOLEAN
    BY DEF TypeInv
  <2>2. \/ UNCHANGED <<lastForward, forwarded, lostForward>>
        \/ /\ lastForward' = fm[dev]
           /\ forwarded' \in {forwarded, Received(forwarded, fm[dev])}
           /\ lostForward' = ("forward" \in fails)
    BY <1>5 DEF PostForward
  <2>3. ("forward" \in fails) \in BOOLEAN
    OBVIOUS
  <2>4. lostForward' \in BOOLEAN
    BY <2>1, <2>2, <2>3, Zenon
  <2>5. lastForward' \in Messages /\ forwarded' \in Messages
    BY <1>3, <2>1, <2>2, ReceivedFacts
  <2> QED
    BY <2>4, <2>5
<1>8. troubles' \in 0..MaxTroubles
  <2>1. Cardinality(fails) \in Nat
    <3>1. IsFiniteSet({"msg", "forward"})
      <4>1. IsFiniteSet({"msg"})
        BY FS_Singleton
      <4>2. IsFiniteSet({"msg"} \cup {"forward"})
        BY <4>1, FS_AddElement
      <4>3. {"msg", "forward"} = {"msg"} \cup {"forward"}
        OBVIOUS
      <4> QED
        BY <4>2, <4>3
    <3>2. IsFiniteSet(fails)
      BY <3>1, FS_Subset
    <3> QED
      BY <3>2, FS_CardinalityType
  <2>2. troubles \in 0..MaxTroubles /\ MaxTroubles \in Nat
    BY UploadAssumption DEF TypeInv
  <2> QED
    BY <1>5, <2>1, <2>2
<1>9. /\ seen' \in Seq(Value) /\ done' \in [Dev -> Seq(Value)]
      /\ forwardDone' \in [dev : 0..NDev, values : Seq(Value)]
      /\ fresh' \in BOOLEAN /\ pure' \in BOOLEAN
  <2>1. /\ seen \in Seq(Value) /\ done \in [Dev -> Seq(Value)] /\ fresh \in BOOLEAN
    BY DEF TypeInv
  <2>2. dev \in 0..NDev
    BY <1>1, UploadAssumption DEF Dev
  <2>3. /\ seen' = <<>> /\ done' = [done EXCEPT ![dev] = seen] /\ pure' = fresh
        /\ fresh' = fresh /\ forwardDone' = [dev |-> dev, values |-> seen]
    BY DEF SendMsg
  <2> QED
    BY <1>1, <2>1, <2>2, <2>3
<1> QED
  BY <1>2, <1>3, <1>4, <1>6, <1>7, <1>8, <1>9 DEF TypeInv

LEMMA ParseTypes ==
    ASSUME TypeInv, NEW k \in Kind, Parse(k)
    PROVE  TypeInv'
<1> DEFINE start == Start(dev, pos)
           n == Ends[dev][pos] - start
<1>1. /\ pc' = "send" /\ dev' = dev /\ pos' = pos
      /\ dev \in Dev /\ pos \in 1..Len(Ends[dev])
      /\ start \in Nat /\ n \in Nat /\ start + n <= Len(Points[dev])
      /\ count' = [count EXCEPT ![dev] =
                     [count[dev] EXCEPT ![k] = count[dev][k] + n]]
      /\ UNCHANGED <<lastMsg, lastForward, have, forwarded, done,
                     forwardDone, lost, lostForward, fresh, pure, troubles>>
  BY ParseFacts
<1>2. PICK values \in Seq(Value) :
        /\ Len(values) = n
        /\ tm' = [tm EXCEPT ![dev] = Entries(dev, start, values)[Len(values)].tm]
        /\ fm' = [fm EXCEPT ![dev] = Entries(dev, start, values)[Len(values)].fm]
        /\ seen' = seen \o values
  BY ParseFacts
<1> HIDE DEF start, n
<1>3. tm \in [Dev -> Messages] /\ fm \in [Dev -> Messages]
  BY DEF TypeInv
<1>4. /\ Entries(dev, start, values)[Len(values)].tm \in Messages
      /\ Entries(dev, start, values)[Len(values)].fm \in Messages
  <2> DEFINE all == [i \in Nat |-> values[i - start]]
  <2>1. \A i \in 1..Len(values) : all[start + i] = values[i]
    BY <1>1
  <2> HIDE DEF all
  <2> QED
    BY <1>1, <1>2, <1>3, <2>1, EntriesFit
<1>5. tm' \in [Dev -> Messages] /\ fm' \in [Dev -> Messages]
  BY <1>2, <1>3, <1>4
<1>6. count' \in [Dev -> [Kind -> Nat]]
  BY <1>1 DEF TypeInv
<1>7. seen' \in Seq(Value)
  BY <1>2 DEF TypeInv
<1> QED
  BY <1>1, <1>5, <1>6, <1>7 DEF TypeInv

LEMMA TypesStep == TypeInv /\ [Next]_vars => TypeInv'
<1> SUFFICES ASSUME TypeInv, [Next]_vars PROVE TypeInv'
  OBVIOUS
<1>1. CASE Begin
  <2>1. dev \in Dev /\ pos = 1 /\ Len(Ends[dev]) \in Nat /\ Ends[dev] \in Seq(Nat)
    BY <1>1, DeviceFacts DEF TypeInv, Begin
  <2>2. /\ pc' \in {"begin", "wait", "send"} /\ dev' \in Dev
        /\ IF pc' = "begin" THEN pos' = 1 ELSE pos' \in 1..Len(Ends[dev'])
    <3>1. CASE Ends[dev] = <<>>
      BY <1>1, <2>1, <3>1, NextDeviceType DEF Begin
    <3>2. CASE Ends[dev] # <<>>
      <4>1. 1 \in 1..Len(Ends[dev])
        BY <2>1, <3>2
      <4> QED
        BY <1>1, <2>1, <3>2, <4>1 DEF Begin
    <3> QED
      BY <3>1, <3>2
  <2>3. tm' \in [Dev -> Messages] /\ count' \in [Dev -> [Kind -> Nat]]
    BY <1>1, <2>1, NoMessagesType, NothingType
    DEF TypeInv, Begin, ClearMessages, ClearCount
  <2>4. seen' \in Seq(Value) /\ fresh' \in BOOLEAN
    BY <1>1 DEF Begin
  <2>5. UNCHANGED <<fm, lastMsg, lastForward, have, forwarded, done, forwardDone,
                    lost, lostForward, pure, troubles>>
    BY <1>1 DEF Begin, lastVars, platVars
  <2> QED
    BY <2>2, <2>3, <2>4, <2>5 DEF TypeInv
<1>2. CASE Answer
  BY <1>2, AnswerIsParse, ParseTypes
<1>3. CASE Miss
  <2>1. dev \in Dev /\ pos \in 1..Len(Ends[dev])
    BY <1>3 DEF TypeInv, Miss
  <2>2. /\ pc' \in {"begin", "wait", "send"} /\ dev' \in Dev
        /\ IF pc' = "begin" THEN pos' = 1 ELSE pos' \in 1..Len(Ends[dev'])
    BY <1>3, <2>1, AdvanceFacts DEF Miss
  <2>3. troubles' \in 0..MaxTroubles
    BY <1>3, UploadAssumption DEF TypeInv, Miss
  <2> QED
    BY <1>3, <2>2, <2>3
    DEF TypeInv, Miss, modelVars, lastVars, platVars, histVars
<1>4. CASE Reconnect
  <2>1. 1 \in Dev
    BY UploadAssumption DEF Dev
  <2>2. troubles' \in 0..MaxTroubles
    BY <1>4, UploadAssumption DEF TypeInv, Reconnect
  <2>3. [d \in Dev |-> NoCount] \in [Dev -> [Kind -> Nat]]
    BY NothingType
  <2> QED
    BY <1>4, <2>1, <2>2, <2>3, NothingType, NoMessagesType
    DEF TypeInv, Reconnect, platVars
<1>5. CASE SendNothing
  <2>1. dev \in Dev /\ pos \in 1..Len(Ends[dev])
    BY <1>5 DEF TypeInv, SendNothing
  <2>2. /\ pc' \in {"begin", "wait", "send"} /\ dev' \in Dev
        /\ IF pc' = "begin" THEN pos' = 1 ELSE pos' \in 1..Len(Ends[dev'])
    BY <1>5, <2>1, AdvanceFacts DEF SendNothing
  <2> QED
    BY <1>5, <2>2
    DEF TypeInv, SendNothing, modelVars, lastVars, platVars, histVars
<1>6. CASE SendMsg
  BY <1>6, SendTypes
<1>7. CASE UNCHANGED vars
  BY <1>7 DEF TypeInv, vars, sweepVars, modelVars, lastVars, platVars, histVars
<1> QED
  BY <1>1, <1>2, <1>3, <1>4, <1>5, <1>6, <1>7 DEF Next
-----------------------------------------------------------------------------
(* The counts.                                                               *)
LEMMA KindsType ==
    ASSUME NEW d \in Dev
    PROVE  /\ Len(Points[d]) \in Nat
           /\ \A i \in 1..Len(Points[d]) :
                Kinds(d)[i] = Points[d][i].kind /\ Kinds(d)[i] \in Kind
           /\ \A k \in Kind :
                /\ Size[d][k] = Cardinality(At(Kinds(d), k, Len(Points[d])))
                /\ Size[d][k] \in Nat
<1>1. Len(Points[d]) \in Nat
  BY DeviceFacts
<1>2. \A i \in 1..Len(Points[d]) :
        Kinds(d)[i] = Points[d][i].kind /\ Kinds(d)[i] \in Kind
  BY PointFacts DEF Kinds
<1>3. ASSUME NEW k \in Kind
      PROVE  /\ Size[d][k] = Cardinality(At(Kinds(d), k, Len(Points[d])))
             /\ Size[d][k] \in Nat
  BY <1>1, AtFinite DEF Size
<1> QED
  BY <1>1, <1>2, <1>3

LEMMA BehindType ==
    ASSUME TypeInv, pc # "begin"
    PROVE  /\ dev \in Dev /\ pos \in 1..Len(Ends[dev])
           /\ Behind \in Nat /\ Behind <= Len(Points[dev])
           /\ \A k \in Kind : Passed(k) \in Nat /\ count[dev][k] \in Nat
<1>1. dev \in Dev /\ pos \in 1..Len(Ends[dev])
  BY DEF TypeInv
<1>2. Behind \in Nat /\ Behind <= Len(Points[dev])
  BY <1>1, RangeFacts, RangeEnd, DeviceFacts DEF Behind
<1>3. \A k \in Kind : Passed(k) \in Nat
  BY <1>2, AtFinite DEF Passed
<1>4. \A k \in Kind : count[dev][k] \in Nat
  BY <1>1 DEF TypeInv
<1> QED
  BY <1>1, <1>2, <1>3, <1>4

(* The counts alone say that a sweep is at its end and has missed nothing.   *)
LEMMA CompleteIsAll ==
    ASSUME TypeInv, SweepInv, pc = "send", Complete
    PROVE  /\ AllRead /\ Behind = Len(Points[dev])
           /\ pos = Len(Ends[dev])
<1>1. /\ dev \in Dev /\ pos \in 1..Len(Ends[dev]) /\ Behind = Ends[dev][pos]
      /\ Behind \in Nat /\ Behind <= Len(Points[dev]) /\ Len(Points[dev]) \in Nat
      /\ Len(Ends[dev]) \in Nat
  BY BehindType, DeviceFacts DEF Behind
<1>2. ASSUME NEW k \in Kind
      PROVE  count[dev][k] = Passed(k) /\ Passed(k) = Size[dev][k]
  <2>1. count[dev][k] <= Passed(k) /\ count[dev][k] = Size[dev][k]
    BY DEF SweepInv, Complete
  <2>2. Passed(k) <= Size[dev][k]
    BY <1>1, AtLess, KindsType DEF Passed
  <2>3. Passed(k) \in Nat /\ Size[dev][k] \in Nat
    BY <1>1, BehindType, KindsType
  <2> QED
    BY <2>1, <2>2, <2>3
<1>3. Behind = Len(Points[dev])
  <2> SUFFICES ASSUME Behind < Len(Points[dev]) PROVE FALSE
    BY <1>1
  <2>1. Behind + 1 \in 1..Len(Points[dev])
        /\ Behind + 1 \in (Behind + 1)..Len(Points[dev])
    BY <1>1
  <2>2. PICK k \in Kind : Kinds(dev)[Behind + 1] = k
    BY <1>1, <2>1, KindsType
  <2>3. Cardinality(At(Kinds(dev), k, Behind))
          < Cardinality(At(Kinds(dev), k, Len(Points[dev])))
    BY <1>1, <2>1, <2>2, AtLess
  <2>4. Passed(k) < Size[dev][k]
    BY <1>1, <2>3, KindsType DEF Passed
  <2> QED
    BY <1>1, <1>2, <2>4, KindsType
<1>4. pos = Len(Ends[dev])
  <2> SUFFICES ASSUME pos < Len(Ends[dev]) PROVE FALSE
    BY <1>1
  <2>1. pos + 1 \in 1..Len(Ends[dev])
    BY <1>1
  <2>2. Start(dev, pos + 1) = Ends[dev][pos] /\ Start(dev, pos + 1) < Ends[dev][pos + 1]
    BY <1>1, <2>1, RangeFacts
  <2>3. Ends[dev][pos + 1] <= Len(Points[dev]) /\ Ends[dev][pos + 1] \in Nat
    BY <1>1, <2>1, RangeFacts, RangeEnd
  <2> QED
    BY <1>1, <1>3, <2>2, <2>3
<1> QED
  BY <1>2, <1>3, <1>4 DEF AllRead

LEMMA NoCountFits ==
    ASSUME NEW c, c = [k \in Kind |-> 0]
    PROVE  \A d \in Dev : \A k \in Kind : c[k] = 0 /\ c[k] <= Size[d][k]
  BY KindsType

LEMMA CountStep == TypeInv /\ CountInv /\ SweepInv /\ [Next]_vars => CountInv'
<1> SUFFICES ASSUME TypeInv, CountInv, SweepInv, [Next]_vars PROVE CountInv'
  OBVIOUS
<1>1. ASSUME dev \in Dev, ClearCount PROVE CountInv'
  <2>1. count \in [Dev -> [Kind -> Nat]]
    BY DEF TypeInv
  <2>2. \A d \in Dev : count'[d] = IF d = dev THEN NoCount ELSE count[d]
    BY <1>1, <2>1 DEF ClearCount
  <2>3. \A d \in Dev : \A k \in Kind : NoCount[k] <= Size[d][k]
    BY NoCountFits DEF NoCount
  <2> QED
    BY <2>2, <2>3 DEF CountInv
<1>2. dev \in Dev
  BY DEF TypeInv
<1>3. CASE Begin
  BY <1>1, <1>2, <1>3 DEF Begin
<1>4. CASE Answer
  <2>1. PICK k \in Kind : Parse(k)
    BY <1>4, AnswerIsParse
  <2> DEFINE start == Start(dev, pos)
             end == Ends[dev][pos]
  <2>2. /\ pc = "wait" /\ start \in Nat /\ end \in Nat /\ start < end
        /\ end <= Len(Points[dev])
        /\ \A i \in (start + 1)..end : Kinds(dev)[i] = k
        /\ count' = [count EXCEPT ![dev] =
                       [count[dev] EXCEPT ![k] = count[dev][k] + (end - start)]]
    BY <2>1, ParseFacts
  <2>3. count[dev][k] <= Cardinality(At(Kinds(dev), k, start))
    BY <2>2 DEF SweepInv, Passed, Behind
  <2> HIDE DEF start, end
  <2>4. /\ Cardinality(At(Kinds(dev), k, end)) =
             Cardinality(At(Kinds(dev), k, start)) + (end - start)
        /\ Cardinality(At(Kinds(dev), k, start)) \in Nat
    BY <2>2, AtRange, AtFinite
  <2>5. Cardinality(At(Kinds(dev), k, end)) <= Size[dev][k] /\ Size[dev][k] \in Nat
    BY <1>2, <2>2, AtLess, KindsType
  <2>6. count \in [Dev -> [Kind -> Nat]]
    BY DEF TypeInv
  <2>7. count[dev][k] + (end - start) <= Size[dev][k]
    <3>1. count[dev][k] \in Nat
      BY <1>2, <2>6
    <3> QED
      BY <2>2, <2>3, <2>4, <2>5, <3>1
  <2>8. \A d \in Dev : \A j \in Kind :
          count'[d][j] = IF d = dev /\ j = k THEN count[dev][k] + (end - start)
                         ELSE count[d][j]
    BY <2>2, <2>6
  <2> QED
    BY <2>7, <2>8 DEF CountInv
<1>5. CASE Miss
  BY <1>5 DEF CountInv, Miss, modelVars
<1>6. CASE Reconnect
  <2>1. \A d \in Dev : \A k \in Kind : NoCount[k] <= Size[d][k]
    BY NoCountFits DEF NoCount
  <2> QED
    BY <1>6, <2>1 DEF CountInv, Reconnect
<1>7. CASE SendNothing
  BY <1>7 DEF CountInv, SendNothing, modelVars
<1>8. CASE SendMsg
  BY <1>1, <1>2, <1>8 DEF SendMsg
<1>9. CASE UNCHANGED vars
  BY <1>9 DEF CountInv, vars, modelVars
<1> QED
  BY <1>3, <1>4, <1>5, <1>6, <1>7, <1>8, <1>9 DEF Next

-----------------------------------------------------------------------------
(* The sweep.                                                                *)
LEMMA NothingFits ==
    ASSUME NEW d \in Dev, NEW values
    PROVE  /\ Fits(d, NoMessages, values, 0)
           /\ HoldsUpto(NoMessages, ForwardedAs(d), values, 0)
<1>1. \A id : ValuesOf(NoMessages, id) = <<>>
  BY NoMessagesType DEF ValuesOf
<1>2. /\ HoldsUpto(NoMessages, Measurements(d), values, 0)
      /\ HoldsUpto(NoMessages, Statuses(d), values, 0)
      /\ HoldsUpto(NoMessages, ForwardedAs(d), values, 0)
  BY <1>1, HoldsNothing
<1>3. Alarmed(d, values, 0) = {}
  BY DEF Alarmed
<1> QED
  BY <1>2, <1>3, NoMessagesType DEF Fits

(* Messages of some values are so too when these are followed by others.     *)
LEMMA FitsLonger ==
    ASSUME NEW d \in Dev, NEW m, NEW values, NEW longer, NEW n \in Nat,
           \A i \in 1..n : longer[i] = values[i]
    PROVE  /\ Fits(d, m, values, n) => Fits(d, m, longer, n)
           /\ HoldsUpto(m, ForwardedAs(d), values, n) =>
                HoldsUpto(m, ForwardedAs(d), longer, n)
<1>1. \A ids : HoldsUpto(m, ids, values, n) => HoldsUpto(m, ids, longer, n)
  BY HoldsSame
<1>2. Alarmed(d, longer, n) = Alarmed(d, values, n)
  BY DEF Alarmed
<1> QED
  BY <1>1, <1>2 DEF Fits

LEMMA Joined ==
    ASSUME NEW s \in Seq(Value), NEW t \in Seq(Value)
    PROVE  /\ Len(s \o t) = Len(s) + Len(t)
           /\ \A i \in 1..Len(s) : (s \o t)[i] = s[i]
           /\ \A i \in 1..Len(t) : (s \o t)[Len(s) + i] = t[i]
  OBVIOUS

LEMMA SweepParse ==
    ASSUME TypeInv, SweepInv, NEW k \in Kind, Parse(k)
    PROVE  SweepInv'
<1> DEFINE start == Start(dev, pos)
           end == Ends[dev][pos]
           C(j, n) == Cardinality(At(Kinds(dev), j, n))
<1>1. /\ pc = "wait" /\ pc' = "send" /\ dev' = dev /\ pos' = pos
      /\ dev \in Dev /\ pos \in 1..Len(Ends[dev])
      /\ start \in Nat /\ end \in Nat /\ start < end /\ end <= Len(Points[dev])
      /\ \A i \in (start + 1)..end : Kinds(dev)[i] = k
      /\ count' = [count EXCEPT ![dev] =
                     [count[dev] EXCEPT ![k] = count[dev][k] + (end - start)]]
      /\ fresh' = fresh
  BY ParseFacts
<1>2. PICK values \in Seq(Value) :
        /\ Len(values) = end - start
        /\ tm' = [tm EXCEPT ![dev] = Entries(dev, start, values)[Len(values)].tm]
        /\ fm' = [fm EXCEPT ![dev] = Entries(dev, start, values)[Len(values)].fm]
        /\ seen' = seen \o values
  BY ParseFacts
<1>3. Behind = start /\ Behind' = end
  BY <1>1 DEF Behind
<1>4. /\ \A j \in Kind : Passed(j) = C(j, start)
      /\ \A j \in Kind : (Passed(j))' = C(j, end)
  BY <1>1, <1>3 DEF Passed
<1>5. /\ \A j \in Kind : count[dev][j] <= C(j, start)
      /\ (\A j \in Kind : count[dev][j] = C(j, start)) =>
           /\ Len(seen) = start /\ Fits(dev, tm[dev], seen, start)
           /\ fresh => HoldsUpto(fm[dev], ForwardedAs(dev), seen, start)
  BY <1>1, <1>3, <1>4 DEF SweepInv, AllRead
<1>6. /\ tm \in [Dev -> Messages] /\ fm \in [Dev -> Messages]
      /\ count \in [Dev -> [Kind -> Nat]] /\ seen \in Seq(Value)
  BY DEF TypeInv
<1> HIDE DEF start, end
<1>7. /\ C(k, end) = C(k, start) + (end - start)
      /\ \A j \in Kind : j # k => C(j, end) = C(j, start)
      /\ \A j \in Kind : C(j, start) \in Nat
  <2>1. C(k, end) = C(k, start) + (end - start)
    BY <1>1, AtRange
  <2>2. ASSUME NEW j \in Kind, j # k PROVE C(j, end) = C(j, start)
    <3>1. At(Kinds(dev), j, end) = At(Kinds(dev), j, start)
      BY <1>1, <2>2, AtRange
    <3> QED
      BY <3>1
  <2> QED
    BY <1>1, <2>1, <2>2, AtFinite
<1> HIDE DEF C
<1>8. \A j \in Kind :
        count'[dev][j] = IF j = k THEN count[dev][k] + (end - start)
                         ELSE count[dev][j]
  BY <1>1, <1>6
<1>9. ASSUME NEW j \in Kind PROVE count'[dev][j] <= C(j, end)
  <2>1. /\ count[dev][j] \in Nat /\ C(j, start) \in Nat /\ end - start \in Nat
        /\ count[dev][j] <= C(j, start)
    BY <1>1, <1>5, <1>6, <1>7
  <2>2. CASE j = k
    BY <1>7, <1>8, <2>1, <2>2
  <2>3. CASE j # k
    BY <1>7, <1>8, <2>1, <2>3
  <2> QED
    BY <2>2, <2>3
<1>10. ASSUME \A j \in Kind : count'[dev][j] = C(j, end)
       PROVE  /\ Len(seen') = end /\ Fits(dev, tm'[dev], seen', end)
              /\ fresh => HoldsUpto(fm'[dev], ForwardedAs(dev), seen', end)
  <2>1. ASSUME NEW j \in Kind PROVE count[dev][j] = C(j, start)
    <3>1. count[dev][j] \in Nat /\ C(j, start) \in Nat /\ end - start \in Nat
      BY <1>1, <1>6, <1>7
    <3>2. CASE j = k
      <4>1. count[dev][k] + (end - start) = C(k, start) + (end - start)
        BY <1>7, <1>8, <1>10
      <4> QED
        BY <3>1, <3>2, <4>1
    <3>3. CASE j # k
      BY <1>7, <1>8, <1>10, <3>3
    <3> QED
      BY <3>2, <3>3
  <2>2. /\ Len(seen) = start /\ Fits(dev, tm[dev], seen, start)
        /\ fresh => HoldsUpto(fm[dev], ForwardedAs(dev), seen, start)
    BY <1>5, <2>1
  <2>3. /\ Len(seen') = end /\ start + Len(values) = end
        /\ \A i \in 1..start : seen'[i] = seen[i]
        /\ \A i \in 1..Len(values) : seen'[start + i] = values[i]
    <3>1. /\ Len(seen \o values) = Len(seen) + Len(values)
          /\ \A i \in 1..Len(seen) : (seen \o values)[i] = seen[i]
          /\ \A i \in 1..Len(values) :
               (seen \o values)[Len(seen) + i] = values[i]
      BY <1>6, Joined
    <3>2. Len(seen) = start /\ Len(values) = end - start /\ seen' = seen \o values
      BY <1>2, <2>2
    <3>3. start + Len(values) = end
      BY <1>1, <3>2
    <3> QED
      BY <3>1, <3>2, <3>3, Zenon
  <2>4. /\ Fits(dev, tm[dev], seen', start)
        /\ fresh => HoldsUpto(fm[dev], ForwardedAs(dev), seen', start)
    BY <1>1, <2>2, <2>3, FitsLonger
  <2>5. PICK all : all = seen'
    OBVIOUS
  <2> DEFINE after == Entries(dev, start, values)[Len(values)]
  <2>6. /\ Fits(dev, tm[dev], all, start) => Fits(dev, after.tm, all, end)
        /\ HoldsUpto(fm[dev], ForwardedAs(dev), all, start) =>
             HoldsUpto(after.fm, ForwardedAs(dev), all, end)
    BY <1>1, <1>2, <1>6, <2>3, <2>5, EntriesFit
  <2>7. tm'[dev] = after.tm /\ fm'[dev] = after.fm
    BY <1>1, <1>2, <1>6
  <2> HIDE DEF after
  <2> QED
    BY <2>3, <2>4, <2>5, <2>6, <2>7
<1>11. AllRead' <=> \A j \in Kind : count'[dev][j] = C(j, end)
  BY <1>1, <1>4 DEF AllRead
<1>12. (\A j \in Kind : count[dev][j] <= Passed(j))'
  BY <1>1, <1>4, <1>9
<1> QED
  BY <1>1, <1>3, <1>10, <1>11, <1>12 DEF SweepInv

LEMMA SweepStep == TypeInv /\ SweepInv /\ [Next]_vars => SweepInv'
<1> SUFFICES ASSUME TypeInv, SweepInv, [Next]_vars PROVE SweepInv'
  OBVIOUS
<1>1. CASE Begin
  <2>1. CASE Ends[dev] = <<>>
    BY <1>1, <2>1 DEF Begin, NextDevice, SweepInv
  <2>2. CASE Ends[dev] # <<>>
    <3>1. pos = 1 /\ dev \in Dev /\ pc' = "wait" /\ dev' = dev /\ pos' = pos
      BY <1>1, <2>2 DEF Begin, TypeInv
    <3>2. Behind' = 0
      BY <3>1 DEF Behind, Start
    <3>3. \A k \in Kind : (Passed(k))' = 0
      BY <3>2, AtNone DEF Passed
    <3>4. /\ count'[dev] = NoCount /\ tm'[dev] = NoMessages /\ seen' = <<>>
          /\ fm' = fm /\ fresh' = (fm[dev] = NoMessages)
      BY <1>1, <3>1 DEF Begin, ClearCount, ClearMessages, TypeInv
    <3>5. \A k \in Kind : count'[dev][k] = 0
      BY <3>4 DEF NoCount
    <3>6. (\A k \in Kind : count[dev][k] <= Passed(k))'
      BY <3>1, <3>3, <3>5
    <3>7. Len(seen') = 0 /\ Fits(dev, tm'[dev], seen', 0)
      BY <3>1, <3>4, NothingFits
    <3>8. fresh' => HoldsUpto(fm'[dev], ForwardedAs(dev), seen', 0)
      BY <3>1, <3>4, NothingFits
    <3> QED
      BY <3>1, <3>2, <3>6, <3>7, <3>8 DEF SweepInv
  <2> QED
    BY <2>1, <2>2
<1>2. CASE Answer
  BY <1>2, AnswerIsParse, SweepParse
<1>3. ASSUME pc # "begin", pc' # "begin", Advance, UNCHANGED <<modelVars, histVars>>,
             pc = "send" \/ pc = "wait"
      PROVE  SweepInv'
  <2>1. /\ dev \in Dev /\ pos \in 1..Len(Ends[dev]) /\ dev' = dev /\ pos' = pos + 1
        /\ Start(dev', pos') = Ends[dev][pos] /\ pc' = "wait"
    BY <1>3, AdvanceFacts, BehindType
  <2>2. Behind' = Ends[dev][pos]
    BY <2>1 DEF Behind
  <2>3. count' = count /\ tm' = tm /\ fm' = fm /\ seen' = seen /\ fresh' = fresh
    BY <1>3 DEF modelVars, histVars
  <2>4. CASE pc = "send"
    <3>1. Behind' = Behind
      BY <2>2, <2>4 DEF Behind
    <3>2. \A k \in Kind : (Passed(k))' = Passed(k)
      BY <2>1, <3>1 DEF Passed
    <3>3. AllRead' <=> AllRead
      BY <2>1, <2>3, <3>2 DEF AllRead
    <3>4. (\A k \in Kind : count[dev][k] <= Passed(k))'
      BY <1>3, <2>1, <2>3, <3>2 DEF SweepInv
    <3> QED
      BY <1>3, <2>1, <2>3, <3>1, <3>3, <3>4 DEF SweepInv
  <2>5. CASE pc = "wait"
    <3> DEFINE start == Start(dev, pos)
               end == Ends[dev][pos]
    <3>1. start \in Nat /\ end \in Nat /\ start < end /\ end <= Len(Points[dev])
          /\ end \in 1..Len(Points[dev]) /\ end \in (start + 1)..end
      BY <2>1, RangeFacts, RangeEnd, DeviceFacts
    <3>2. Behind = start /\ Behind' = end
      BY <2>2, <2>5 DEF Behind
    <3> HIDE DEF start, end
    <3>3. PICK k \in Kind : Kinds(dev)[end] = k
      BY <2>1, <3>1, KindsType
    <3>4. /\ \A j \in Kind : Passed(j) = Cardinality(At(Kinds(dev), j, start))
          /\ \A j \in Kind : (Passed(j))' = Cardinality(At(Kinds(dev), j, end))
      BY <2>1, <3>2 DEF Passed
    <3>5. \A j \in Kind : Cardinality(At(Kinds(dev), j, start))
                            <= Cardinality(At(Kinds(dev), j, end))
      BY <3>1, AtLess
    <3>6. Cardinality(At(Kinds(dev), k, start))
            < Cardinality(At(Kinds(dev), k, end))
      BY <3>1, <3>3, AtLess
    <3>7. \A j \in Kind : /\ count[dev][j] \in Nat
                          /\ count[dev][j] <= Cardinality(At(Kinds(dev), j, start))
                          /\ Cardinality(At(Kinds(dev), j, start)) \in Nat
                          /\ Cardinality(At(Kinds(dev), j, end)) \in Nat
      BY <1>3, <3>1, <3>4, BehindType, AtFinite DEF SweepInv
    <3>8. /\ \A j \in Kind : count[dev][j] <= Cardinality(At(Kinds(dev), j, end))
          /\ count[dev][k] < Cardinality(At(Kinds(dev), k, end))
      BY <3>5, <3>6, <3>7
    <3>9. ~AllRead'
      <4>1. count'[dev'][k] # (Passed(k))'
        BY <2>1, <2>3, <3>4, <3>7, <3>8
      <4> QED
        BY <4>1 DEF AllRead
    <3>10. (\A j \in Kind : count[dev][j] <= Passed(j))'
      BY <2>1, <2>3, <3>4, <3>8
    <3> QED
      BY <3>9, <3>10 DEF SweepInv
  <2> QED
    BY <1>3, <2>4, <2>5
<1>4. CASE Miss
  BY <1>3, <1>4 DEF Miss, SweepInv
<1>5. CASE Reconnect
  BY <1>5 DEF Reconnect, SweepInv
<1>6. CASE SendNothing
  BY <1>3, <1>6 DEF SendNothing, SweepInv
<1>7. CASE SendMsg
  <2>1. pc = "send" /\ Complete /\ Advance /\ dev \in Dev /\ pos \in 1..Len(Ends[dev])
    BY <1>7 DEF SendMsg, TypeInv
  <2>2. pos = Len(Ends[dev])
    BY <2>1, CompleteIsAll
  <2>3. pc' = "begin"
    BY <2>1, <2>2, AdvanceFacts
  <2> QED
    BY <2>3 DEF SweepInv
<1>8. CASE UNCHANGED vars
  BY <1>8 DEF SweepInv, AllRead, Passed, Behind, vars, sweepVars, modelVars, histVars
<1> QED
  BY <1>1, <1>2, <1>4, <1>5, <1>6, <1>7, <1>8 DEF Next
-----------------------------------------------------------------------------
(* What is posted.                                                           *)
LEMMA PostStep == TypeInv /\ PostInv /\ [Next]_vars => PostInv'
<1> SUFFICES ASSUME TypeInv, PostInv, [Next]_vars PROVE PostInv'
  OBVIOUS
<1>1. ASSUME UNCHANGED <<lastMsg, lastForward, have, forwarded, lost, lostForward>>
      PROVE  PostInv'
  BY <1>1 DEF PostInv
<1>2. CASE Begin
  BY <1>1, <1>2 DEF Begin, lastVars, platVars
<1>3. CASE Answer
  <2>1. PICK k \in Kind : Parse(k)
    BY <1>3, AnswerIsParse
  <2> QED
    BY <1>1, <2>1, ParseFacts
<1>4. CASE Miss
  BY <1>1, <1>4 DEF Miss, lastVars, platVars, histVars
<1>5. CASE Reconnect
  <2>1. lastMsg'.dev = 0 /\ lastForward' = NoMessages /\ 0 \notin Dev
    BY <1>5 DEF Reconnect, NoText, Dev
  <2> QED
    BY <2>1, UploadAssumption DEF PostInv, Dev
<1>6. CASE SendNothing
  BY <1>1, <1>6 DEF SendNothing, lastVars, platVars, histVars
<1>7. CASE SendMsg
  <2>1. PICK fails \in SUBSET {"msg", "forward"} :
          PostMsg("msg" \in fails) /\ PostForward("forward" \in fails)
    BY <1>7 DEF SendMsg
  <2>2. /\ dev \in Dev /\ have \in [Dev -> Messages] /\ forwarded \in Messages
        /\ tm[dev] \in Messages /\ fm[dev] \in Messages
    BY DEF TypeInv
  <2>3. ASSUME NEW d \in Dev, d \notin lost', lastMsg'.dev = d
        PROVE  Covers(have'[d], lastMsg'.messages)
    <3>1. CASE lastMsg = Text(dev, tm[dev]) \/ ~Speaks
      <4>1. lastMsg' = lastMsg /\ have' = have /\ lost' = lost
        BY <2>1, <3>1 DEF PostMsg
      <4> QED
        BY <2>3, <4>1 DEF PostInv
    <3>2. CASE ~(lastMsg = Text(dev, tm[dev]) \/ ~Speaks)
      <4>1. /\ lastMsg' = Text(dev, tm[dev])
            /\ have' = IF "msg" \in fails THEN have
                       ELSE [have EXCEPT ![dev] = Received(have[dev], tm[dev])]
            /\ lost' = IF "msg" \in fails THEN lost \cup {dev} ELSE lost \ {dev}
        BY <2>1, <3>2 DEF PostMsg
      <4>2. d = dev /\ lastMsg'.messages = tm[dev]
        <5>1. 0 \notin Dev
          BY DEF Dev
        <5> QED
          BY <2>3, <4>1, <5>1 DEF Text
      <4>3. "msg" \notin fails
        BY <2>3, <4>1, <4>2
      <4>4. have'[d] = Received(have[dev], tm[dev]) /\ have[dev] \in Messages
        BY <2>2, <4>1, <4>2, <4>3
      <4> QED
        BY <2>2, <4>2, <4>4, ReceivedFacts
    <3> QED
      BY <3>1, <3>2
  <2>4. ASSUME ~lostForward', lastForward' # NoMessages
        PROVE  Covers(forwarded', lastForward')
    <3>1. CASE lastForward = fm[dev] \/ ~Speaks
      <4>1. UNCHANGED <<lastForward, forwarded, lostForward>>
        BY <2>1, <3>1 DEF PostForward
      <4> QED
        BY <2>4, <4>1 DEF PostInv
    <3>2. CASE ~(lastForward = fm[dev] \/ ~Speaks)
      <4>1. forwarded' = Received(forwarded, fm[dev]) /\ lastForward' = fm[dev]
        BY <2>1, <2>4, <3>2 DEF PostForward
      <4> QED
        BY <2>2, <4>1, ReceivedFacts
    <3> QED
      BY <3>1, <3>2
  <2> QED
    BY <2>3, <2>4 DEF PostInv
<1>8. CASE UNCHANGED vars
  BY <1>1, <1>8 DEF vars, lastVars, platVars, histVars
<1> QED
  BY <1>2, <1>3, <1>4, <1>5, <1>6, <1>7, <1>8 DEF Next

(* Without messages there was nothing to hold.                               *)
LEMMA EmptyHolds ==
    ASSUME NEW ids \in Seq(Id \cup {None}), NEW values,
           HoldsUpto(NoMessages, ids, values, Len(ids))
    PROVE  /\ \A i \in 1..Len(ids) : ids[i] = None
           /\ \A m : HoldsUpto(m, ids, values, Len(ids))
<1>1. \A id : Len(ValuesOf(NoMessages, id)) = 0
  BY NoMessagesType DEF ValuesOf
<1>2. ASSUME NEW i \in 1..Len(ids) PROVE ids[i] = None
  <2> SUFFICES ASSUME ids[i] # None PROVE FALSE
    OBVIOUS
  <2>1. ids[i] \in {ids[j] : j \in DOMAIN ids} \ {None} /\ Len(ids) \in Nat
    OBVIOUS
  <2>2. Cardinality(At(ids, ids[i], Len(ids))) = 0
    BY <1>1, <2>1 DEF HoldsUpto
  <2>3. i \in At(ids, ids[i], Len(ids)) /\ IsFiniteSet(At(ids, ids[i], Len(ids)))
    BY <2>1, AtFinite DEF At
  <2> QED
    BY <2>2, <2>3, FS_EmptySet
<1>3. {ids[j] : j \in DOMAIN ids} \ {None} = {}
  BY <1>2
<1> QED
  BY <1>2, <1>3 DEF HoldsUpto

(* A complete sweep: whatever of its messages the platform has, or if there  *)
(* are none, what it has suits the values.                                   *)
Suits(d, m, values) ==
    /\ Holds(m, Measurements(d), values) /\ Holds(m, Statuses(d), values)
    /\ Alarmed(d, values, Len(values)) \subseteq DOMAIN m

(* What holds values, more of other messages than it had does not change.    *)
LEMMA HoldsCovered ==
    ASSUME NEW ids \in Seq(Id \cup {None}), NEW values, NEW m, NEW h,
           Holds(m, ids, values), Covers(h, m)
    PROVE  Holds(h, ids, values)
<1>1. Len(values) = Len(ids) /\ Len(ids) \in Nat /\ HoldsUpto(m, ids, values, Len(ids))
  BY DEF Holds
<1>2. ASSUME NEW id \in IdsOf(ids) PROVE ValuesOf(h, id) = ValuesOf(m, id)
  <2>1. PICK i \in DOMAIN ids : ids[i] = id
    BY <1>2 DEF IdsOf
  <2>2. i \in 1..Len(ids)
    BY <2>1
  <2>3. i \in At(ids, id, Len(ids))
    BY <2>1, <2>2 DEF At
  <2>4. IsFiniteSet(At(ids, id, Len(ids)))
    BY <1>1, AtFinite
  <2>5. Cardinality(At(ids, id, Len(ids))) # 0
    BY <2>3, <2>4, FS_EmptySet
  <2>6. Len(ValuesOf(m, id)) = Cardinality(At(ids, id, Len(ids)))
    BY <1>1, <1>2 DEF HoldsUpto, IdsOf
  <2>7. id \in DOMAIN m
    BY <2>5, <2>6 DEF ValuesOf
  <2> QED
    BY <2>7 DEF Covers, ValuesOf
<1>3. HoldsUpto(h, ids, values, Len(ids))
  BY <1>1, <1>2, HoldsSame
<1> QED
  BY <1>1, <1>3 DEF Holds

LEMMA SuitsCovered ==
    ASSUME NEW d \in Dev, NEW values, NEW m, NEW h, Suits(d, m, values), Covers(h, m)
    PROVE  Suits(d, h, values)
<1>1. /\ Measurements(d) \in Seq(Id \cup {None}) /\ Statuses(d) \in Seq(Id \cup {None})
  BY RoleIds
<1>2. Holds(h, Measurements(d), values) /\ Holds(h, Statuses(d), values)
  BY <1>1, HoldsCovered DEF Suits
<1>3. Alarmed(d, values, Len(values)) \subseteq DOMAIN h
  BY DEF Suits, Covers
<1> QED
  BY <1>2, <1>3 DEF Suits

LEMMA FitsSuits ==
    ASSUME NEW d \in Dev, NEW m, NEW values, Len(values) = Len(Points[d]),
           Fits(d, m, values, Len(values))
    PROVE  Suits(d, m, values)
<1>1. /\ HoldsUpto(m, Measurements(d), values, Len(values))
      /\ HoldsUpto(m, Statuses(d), values, Len(values))
      /\ Alarmed(d, values, Len(values)) \subseteq DOMAIN m
  BY DEF Fits
<1>2. Len(values) = Len(Measurements(d)) /\ Len(values) = Len(Statuses(d))
  BY RoleIds
<1> QED
  BY <1>1, <1>2 DEF Suits, Holds

LEMMA EmptySuits ==
    ASSUME NEW d \in Dev, NEW values, Len(values) = Len(Points[d]),
           Fits(d, NoMessages, values, Len(values))
    PROVE  \A m : Suits(d, m, values)
<1>1. /\ Measurements(d) \in Seq(Id \cup {None}) /\ Statuses(d) \in Seq(Id \cup {None})
      /\ Len(values) = Len(Measurements(d)) /\ Len(values) = Len(Statuses(d))
  BY RoleIds
<1>2. /\ \A i \in 1..Len(Points[d]) : Measurements(d)[i] = None
      /\ \A i \in 1..Len(Points[d]) : Statuses(d)[i] = None
      /\ \A m : Holds(m, Measurements(d), values) /\ Holds(m, Statuses(d), values)
  BY <1>1, EmptyHolds DEF Fits, Holds
<1>3. Alarmed(d, values, Len(values)) = {}
  BY NoMessagesType DEF Fits
<1> QED
  BY <1>2, <1>3 DEF Suits

LEMMA PlatformAs ==
    PlatformTrue <=> \A d \in Dev \ lost : done[d] # <<>> => Suits(d, have[d], done[d])
  BY DEF PlatformTrue, Suits

(* When sendMsg has something to send the sweep was whole.                   *)
LEMMA SendIsWhole ==
    ASSUME TypeInv, SweepInv, SendMsg
    PROVE  /\ dev \in Dev /\ seen \in Seq(Value) /\ Len(seen) = Len(Points[dev])
           /\ Fits(dev, tm[dev], seen, Len(seen))
           /\ fresh => Holds(fm[dev], ForwardedAs(dev), seen)
<1>1. pc = "send" /\ Complete
  BY DEF SendMsg
<1>2. AllRead /\ Behind = Len(Points[dev])
  BY <1>1, CompleteIsAll
<1>3. dev \in Dev /\ seen \in Seq(Value)
  BY DEF TypeInv
<1>4. /\ Len(seen) = Behind /\ Fits(dev, tm[dev], seen, Behind)
      /\ fresh => HoldsUpto(fm[dev], ForwardedAs(dev), seen, Behind)
  BY <1>1, <1>2 DEF SweepInv
<1>5. Len(ForwardedAs(dev)) = Len(Points[dev])
  BY <1>3, RoleIds
<1> QED
  BY <1>2, <1>3, <1>4, <1>5 DEF Holds

LEMMA PlatformStep ==
    TypeInv /\ SweepInv /\ PostInv /\ PlatformTrue /\ [Next]_vars => PlatformTrue'
<1> SUFFICES ASSUME TypeInv, SweepInv, PostInv, PlatformTrue, [Next]_vars
             PROVE  PlatformTrue'
  OBVIOUS
<1>1. ASSUME UNCHANGED <<have, done, lost>> PROVE PlatformTrue'
  BY <1>1 DEF PlatformTrue
<1>2. CASE Begin
  BY <1>1, <1>2 DEF Begin, platVars
<1>3. CASE Answer
  <2>1. PICK k \in Kind : Parse(k)
    BY <1>3, AnswerIsParse
  <2> QED
    BY <1>1, <2>1, ParseFacts
<1>4. CASE Miss
  BY <1>1, <1>4 DEF Miss, platVars, histVars
<1>5. CASE Reconnect
  BY <1>1, <1>5 DEF Reconnect, platVars
<1>6. CASE SendNothing
  BY <1>1, <1>6 DEF SendNothing, platVars, histVars
<1>7. CASE SendMsg
  <2>1. /\ dev \in Dev /\ seen \in Seq(Value) /\ Len(seen) = Len(Points[dev])
        /\ Fits(dev, tm[dev], seen, Len(seen))
    BY <1>7, SendIsWhole
  <2>2. /\ have \in [Dev -> Messages] /\ done \in [Dev -> Seq(Value)]
        /\ tm[dev] \in Messages
    BY <2>1 DEF TypeInv
  <2>3. done' = [done EXCEPT ![dev] = seen]
    BY <1>7 DEF SendMsg
  <2>4. PICK fails \in SUBSET {"msg", "forward"} : PostMsg("msg" \in fails)
    BY <1>7 DEF SendMsg
  <2>5. ASSUME NEW d \in Dev \ {dev}
        PROVE  have'[d] = have[d] /\ done'[d] = done[d] /\ (d \in lost' <=> d \in lost)
    BY <2>1, <2>2, <2>3, <2>4, <2>5 DEF PostMsg
  <2>6. ASSUME dev \notin lost' PROVE Suits(dev, have'[dev], seen)
    <3>1. CASE tm[dev] = NoMessages
      BY <2>1, <3>1, EmptySuits
    <3>2. CASE tm[dev] # NoMessages
      <4>1. Covers(have'[dev], tm[dev])
        <5>1. Speaks /\ Text(dev, tm[dev]) = [dev |-> dev, messages |-> tm[dev]]
          BY <3>2 DEF Speaks, Text
        <5>2. CASE lastMsg = Text(dev, tm[dev])
          <6>1. lastMsg.dev = dev /\ lastMsg.messages = tm[dev]
            BY <5>1, <5>2
          <6>2. have' = have /\ lost' = lost
            BY <2>4, <5>2 DEF PostMsg
          <6> QED
            BY <2>1, <2>6, <6>1, <6>2 DEF PostInv
        <5>3. CASE lastMsg # Text(dev, tm[dev])
          <6>1. /\ have' = IF "msg" \in fails THEN have
                           ELSE [have EXCEPT ![dev] = Received(have[dev], tm[dev])]
                /\ lost' = IF "msg" \in fails THEN lost \cup {dev} ELSE lost \ {dev}
            BY <2>4, <5>1, <5>3 DEF PostMsg
          <6>2. have'[dev] = Received(have[dev], tm[dev]) /\ have[dev] \in Messages
            BY <2>1, <2>2, <2>6, <6>1
          <6> QED
            BY <2>2, <6>2, ReceivedFacts
        <5> QED
          BY <5>2, <5>3
      <4>2. Suits(dev, tm[dev], seen)
        BY <2>1, FitsSuits
      <4> QED
        BY <2>1, <4>1, <4>2, SuitsCovered
    <3> QED
      BY <3>1, <3>2
  <2>7. \A d \in Dev \ lost : done[d] # <<>> => Suits(d, have[d], done[d])
    BY PlatformAs
  <2>8. \A d \in Dev \ lost' : done'[d] # <<>> => Suits(d, have'[d], done'[d])
    BY <2>1, <2>2, <2>3, <2>5, <2>6, <2>7
  <2> QED
    BY <2>8 DEF PlatformTrue, Suits
<1>8. CASE UNCHANGED vars
  BY <1>1, <1>8 DEF vars, platVars, histVars
<1> QED
  BY <1>2, <1>3, <1>4, <1>5, <1>6, <1>7, <1>8 DEF Next

LEMMA ForwardStep ==
    TypeInv /\ SweepInv /\ PostInv /\ ForwardTrue /\ [Next]_vars => ForwardTrue'
<1> SUFFICES ASSUME TypeInv, SweepInv, PostInv, ForwardTrue, [Next]_vars
             PROVE  ForwardTrue'
  OBVIOUS
<1>1. ASSUME UNCHANGED <<forwarded, forwardDone, lostForward, pure>>
      PROVE  ForwardTrue'
  BY <1>1 DEF ForwardTrue
<1>2. CASE Begin
  BY <1>1, <1>2 DEF Begin, platVars
<1>3. CASE Answer
  <2>1. PICK k \in Kind : Parse(k)
    BY <1>3, AnswerIsParse
  <2> QED
    BY <1>1, <2>1, ParseFacts
<1>4. CASE Miss
  BY <1>1, <1>4 DEF Miss, platVars, histVars
<1>5. CASE Reconnect
  BY <1>1, <1>5 DEF Reconnect, platVars
<1>6. CASE SendNothing
  BY <1>1, <1>6 DEF SendNothing, platVars, histVars
<1>7. CASE SendMsg
  <2>1. PICK fails \in SUBSET {"msg", "forward"} : PostForward("forward" \in fails)
    BY <1>7 DEF SendMsg
  <2>2. /\ forwardDone'.dev = dev /\ forwardDone'.values = seen /\ pure' = fresh
    BY <1>7 DEF SendMsg
  <2>3. ASSUME fresh, ~lostForward' PROVE Holds(forwarded', ForwardedAs(dev), seen)
    <3>1. /\ dev \in Dev /\ Holds(fm[dev], ForwardedAs(dev), seen)
          /\ ForwardedAs(dev) \in Seq(Id \cup {None})
      BY <1>7, <2>3, SendIsWhole, RoleIds
    <3>2. CASE fm[dev] = NoMessages
      BY <3>1, <3>2, EmptyHolds DEF Holds
    <3>3. CASE fm[dev] # NoMessages
      <4>1. Covers(forwarded', fm[dev])
        <5>1. Speaks
          BY <3>3 DEF Speaks
        <5>2. CASE lastForward = fm[dev]
          <6>1. forwarded' = forwarded /\ lostForward' = lostForward
            BY <2>1, <5>2 DEF PostForward
          <6> QED
            BY <2>3, <3>3, <5>2, <6>1 DEF PostInv
        <5>3. CASE lastForward # fm[dev]
          <6>1. /\ forwarded' = IF "forward" \in fails THEN forwarded
                                ELSE Received(forwarded, fm[dev])
                /\ lostForward' = ("forward" \in fails)
            BY <2>1, <5>1, <5>3 DEF PostForward
          <6>2. forwarded \in Messages /\ fm[dev] \in Messages
            BY <3>1 DEF TypeInv
          <6> QED
            BY <2>3, <6>1, <6>2, ReceivedFacts
        <5> QED
          BY <5>2, <5>3
      <4> QED
        BY <3>1, <4>1, HoldsCovered
    <3> QED
      BY <3>2, <3>3
  <2> QED
    BY <2>2, <2>3 DEF ForwardTrue
<1>8. CASE UNCHANGED vars
  BY <1>1, <1>8 DEF vars, platVars, histVars
<1> QED
  BY <1>2, <1>3, <1>4, <1>5, <1>6, <1>7, <1>8 DEF Next

-----------------------------------------------------------------------------
LEMMA InvInit == Init => Inv
<1> SUFFICES ASSUME Init PROVE Inv
  OBVIOUS
<1>1. TypeInv
  BY TypesInit
<1>2. CountInv
  <2>1. \A d \in Dev : \A k \in Kind : NoCount[k] <= Size[d][k]
    BY NoCountFits DEF NoCount
  <2> QED
    BY <2>1 DEF Init, CountInv
<1>3. SweepInv
  BY DEF Init, SweepInv
<1>4. PostInv
  <2>1. lastMsg.dev = 0 /\ lastForward = NoMessages /\ 0 \notin Dev
    BY DEF Init, NoText, Dev
  <2> QED
    BY <2>1 DEF PostInv
<1>5. PlatformTrue /\ ForwardTrue
  <2>1. (\A d \in Dev : done[d] = <<>>) /\ forwardDone.dev \notin Dev
    BY DEF Init, Dev
  <2> QED
    BY <2>1 DEF PlatformTrue, ForwardTrue
<1> QED
  BY <1>1, <1>2, <1>3, <1>4, <1>5 DEF Inv

LEMMA InvStep == Inv /\ [Next]_vars => Inv'
  BY TypesStep, CountStep, SweepStep, PostStep, PlatformStep, ForwardStep DEF Inv

LEMMA Invariant == Spec => []Inv
  BY InvInit, InvStep, PTL DEF Spec

LEMMA InvTypes == Inv => TypeOK
<1> SUFFICES ASSUME TypeInv, CountInv PROVE TypeOK
  BY DEF Inv
<1>1. \A m \in Messages : IsMessages(m)
  BY MessagesAre
<1>2. \A d \in Dev : IsMessages(tm[d]) /\ IsMessages(fm[d]) /\ IsMessages(have[d])
  BY <1>1 DEF TypeInv
<1>3. \A d \in Dev : \A k \in Kind : count[d][k] \in 0..Size[d][k]
  BY KindsType DEF TypeInv, CountInv
<1>4. /\ lastMsg = [dev |-> lastMsg.dev, messages |-> lastMsg.messages]
      /\ lastMsg.dev \in 0..NDev /\ IsMessages(lastMsg.messages)
  BY <1>1 DEF TypeInv
<1>5. IsMessages(lastForward) /\ IsMessages(forwarded)
  BY <1>1 DEF TypeInv
<1>6. /\ seen \in Seq(Value) /\ \A d \in Dev : done[d] \in Seq(Value)
      /\ forwardDone.dev \in 0..NDev /\ forwardDone.values \in Seq(Value)
  BY DEF TypeInv
<1> QED
  BY <1>2, <1>3, <1>4, <1>5, <1>6 DEF TypeOK, TypeInv

(* Every variable keeps its type; in particular no sweep counts more values  *)
(* of a device than it has points (co_num to ir_num of MbDevices).           *)
THEOREM UploadTypes == Spec => []TypeOK
  BY Invariant, InvTypes, PTL

(* The platform has what the last complete sweep of each device read, each   *)
(* value at its place and each alarm it calls for, although sendMsg looks at no more than four counts and*)
(* leaves out what equals the last message of the session; a lost post aside.*)
THEOREM PlatformIsTrue == Spec => []PlatformTrue
<1>1. Inv => PlatformTrue
  BY DEF Inv
<1> QED
  BY <1>1, Invariant, PTL

(* So it has what was forwarded for the DTU, when no sweep of that device had*)
(* been cut short just before.                                               *)
THEOREM ForwardIsTrue == Spec => []ForwardTrue
<1>1. Inv => ForwardTrue
  BY DEF Inv
<1> QED
  BY <1>1, Invariant, PTL
=============================================================================
