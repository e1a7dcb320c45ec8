------------------------ MODULE PollSession_proofs ------------------------
(* Theorems of PollSession.                                                  *)
EXTENDS PollSession, SequenceTheorems, FiniteSetTheorems, TLAPS

(* Where the loops of operator() are.                                        *)
Position ==
    /\ pc \in {"locked", "prepared", "send"} => fc \in Code
    /\ pc \in {"point", "locked", "prepared", "send"} /\ fc \in Code =>
         dev \in 1..NDev /\ ix \in 1..Len(Plan[dev][fc])

TypeInv == TypeOK /\ Position

LEMMA PlanType ==
    ASSUME NEW d \in 1..NDev, NEW f \in Code
    PROVE  /\ Plan[d][f] \in Seq(Addr)
           /\ Len(Plan[d][f]) \in Nat
           /\ \A i \in 1..Len(Plan[d][f]) : Plan[d][f][i] \in Addr
  BY PollAssumption

LEMMA NDevType == NDev \in Nat \ {0} /\ Addressable \subseteq 1..NDev
  BY PollAssumption

LEMMA TypeInit == Init => TypeInv
<1> SUFFICES ASSUME Init PROVE TypeInv
  OBVIOUS
<1>1. /\ mutex \in BOOLEAN /\ armed \in BOOLEAN
      /\ rd \in BOOLEAN /\ stray \in BOOLEAN
      /\ isClose \in BOOLEAN /\ open \in BOOLEAN /\ active \in BOOLEAN
      /\ heard \in BOOLEAN /\ released \in BOOLEAN
  BY Zenon DEF Init
<1> QED
  BY <1>1, NDevType DEF Init, TypeInv, TypeOK, Position, Dev, Pcs, Code, Request,
                        NoReply

LEMMA FirstCodeType ==
    ASSUME NEW d \in 1..NDev, NEW f \in 1..5, NEW g, FirstCode(d, f, g)
    PROVE  /\ g \in 1..5
           /\ g \in Code => 1 \in 1..Len(Plan[d][g])
<1>1. g \in 1..5
  BY DEF FirstCode
<1>2. ASSUME g \in Code PROVE 1 \in 1..Len(Plan[d][g])
  <2>1. Plan[d][g] # <<>>
    BY <1>2 DEF FirstCode, Code
  <2>2. Plan[d][g] \in Seq(Addr)
    BY <1>2, PlanType
  <2> QED
    BY <2>1, <2>2
<1> QED
  BY <1>1, <1>2

LEMMA WriteType ==
    ASSUME NEW r \in Request, wire \in Seq(Request), wq \in Nat, Write(r)
    PROVE  wire' \in Seq(Request) /\ wq' \in Nat
  BY DEF Write

LEMMA PollTyping == TypeInv /\ PollStep => TypeInv'
<1> SUFFICES ASSUME TypeInv, PollStep PROVE TypeInv'
  OBVIOUS
<1> USE NDevType DEF TypeInv, TypeOK, Position, Dev, Code, Pcs, timerVars, pollVars,
        currVars, ioVars, agentVars, sockVars
<1>1. CASE Wake
  BY <1>1 DEF Wake
<1>2. CASE Gate
  BY <1>2 DEF Gate
<1>3. CASE GateOpen
  <2>1. mutex' \in BOOLEAN
    BY <1>3, Zenon DEF GateOpen
  <2> QED
    BY <1>3, <2>1 DEF GateOpen
<1>4. CASE CheckClose
  BY <1>4 DEF CheckClose
<1>5. CASE Reset
  BY <1>5 DEF Reset
<1>6. CASE Select
  <2>1. armed' \in BOOLEAN /\ released' \in BOOLEAN
    BY <1>6, Zenon DEF Select
  <2> QED
    BY <1>6, <2>1, FirstCodeType DEF Select
<1>7. CASE NextDevice
  BY <1>7 DEF NextDevice
<1>8. CASE Lock
  BY <1>8 DEF Lock
<1>9. CASE Skip
  <2>1. mutex' \in BOOLEAN
    BY <1>9, Zenon DEF Skip
  <2> QED
    BY <1>9, <2>1, FirstCodeType DEF Skip, NextCode
<1>10. CASE Prepare
  BY <1>10, PlanType DEF Prepare
<1>11. CASE CheckClosePoint
  BY <1>11 DEF CheckClosePoint
<1>12. CASE Send
  <2>1. /\ dev \in 1..NDev /\ fc \in Code /\ ix \in 1..Len(Plan[dev][fc])
        /\ Len(Plan[dev][fc]) \in Nat /\ Plan[dev][fc][ix] \in Addr
    BY <1>12, PlanType DEF Send
  <2>2. [dev |-> dev, fc |-> fc, addr |-> Plan[dev][fc][ix]] \in Request
    BY <2>1 DEF Request
  <2>3. wire' \in Seq(Request) /\ wq' \in Nat
    BY <1>12, <2>2, WriteType DEF Send
  <2>4. pc' = "point" /\ ix' \in Nat \ {0} /\ fc' \in 1..5
        /\ (fc' \in Code => ix' \in 1..Len(Plan[dev][fc']))
    <3>1. CASE ix < Len(Plan[dev][fc])
      BY <1>12, <2>1, <3>1 DEF Send
    <3>2. CASE ~(ix < Len(Plan[dev][fc]))
      <4>1. pc' = "point" /\ ix' = 1 /\ NextCode
        BY <1>12, <3>2 DEF Send
      <4>2. PICK g \in 2..5 : FirstCode(dev, fc + 1, g) /\ fc' = g
        BY <4>1 DEF NextCode
      <4>3. fc + 1 \in 1..5
        BY <2>1
      <4>4. g \in 1..5 /\ (g \in Code => 1 \in 1..Len(Plan[dev][g]))
        BY <2>1, <4>2, <4>3, FirstCodeType
      <4> QED
        BY <4>1, <4>2, <4>4
    <3> QED
      BY <3>1, <3>2
  <2> QED
    BY <1>12, <2>1, <2>3, <2>4 DEF Send
<1> QED
  BY <1>1, <1>2, <1>3, <1>4, <1>5, <1>6, <1>7, <1>8, <1>9, <1>10, <1>11, <1>12
     DEF PollStep

LEMMA SalveTyping == TypeInv /\ (Expire \/ SalveStep) => TypeInv'
<1> SUFFICES ASSUME TypeInv, Expire \/ SalveStep PROVE TypeInv'
  OBVIOUS
<1> USE DEF TypeInv, TypeOK, Position, Dev, Code, Pcs, timerVars, pollVars, currVars,
        ioVars, agentVars, sockVars
<1>1. CASE Expire
  <2>1. armed' \in BOOLEAN
    BY <1>1, Zenon DEF Expire
  <2> QED
    BY <1>1, <2>1 DEF Expire
<1>2. CASE SalveTest
  <2>1. mutex' \in BOOLEAN /\ released' \in BOOLEAN
    BY <1>2, Zenon DEF SalveTest
  <2> QED
    BY <1>2, <2>1 DEF SalveTest
<1>3. CASE SalveFlag
  BY <1>3 DEF SalveFlag
<1>4. CASE SalveRelease
  <2>1. mutex' \in BOOLEAN
    BY <1>4, Zenon DEF SalveRelease
  <2> QED
    BY <1>4, <2>1 DEF SalveRelease
<1> QED
  BY <1>1, <1>2, <1>3, <1>4 DEF SalveStep

(* Closing the socket drops the requests, but for one answer that has been   *)
(* read already.                                                             *)
LEMMA CloseType ==
    ASSUME TypeOK,
           CloseSocket \/ UNCHANGED <<active, open, strand, wire>>
    PROVE  /\ active' \in BOOLEAN /\ open' \in BOOLEAN
           /\ strand' \in {"idle", "shut", "cancelled"}
           /\ wire' \in Seq(Request)
<1>1. active' \in BOOLEAN /\ open' \in BOOLEAN
  BY Zenon DEF TypeOK, CloseSocket
<1>2. wire' \in Seq(Request)
  <2>1. wire \in Seq(Request)
    BY DEF TypeOK
  <2>2. CASE wire' = <<>>
    BY <2>2
  <2>3. CASE wire # <<>> /\ wire' = <<Head(wire)>>
    <3>1. Head(wire) \in Request
      BY <2>1, <2>3
    <3> QED
      BY <2>3, <3>1
  <2>4. CASE wire' = wire
    BY <2>1, <2>4
  <2> QED
    BY <2>2, <2>3, <2>4 DEF CloseSocket
<1>3. strand' \in {"idle", "shut", "cancelled"}
  BY DEF TypeOK, CloseSocket
<1> QED
  BY <1>1, <1>2, <1>3

LEMMA IoTyping ==
    ASSUME TypeInv,
           \/ OnReadParse \/ OnReadError \/ OnReadUpload \/ OnReadRelease
           \/ OnReadClose \/ CheckDeadline \/ OnWriteStep \/ CloseStep \/ Lose
    PROVE  TypeInv'
<1> USE DEF TypeInv, TypeOK, Position, Dev, Code, Pcs, timerVars, pollVars, currVars,
        ioVars, agentVars, sockVars
<1>1. CASE OnReadParse
  <2> DEFINE r == Head(wire)
  <2>1. r \in Request /\ wire' \in Seq(Request) /\ reply' \in Request
    BY <1>1 DEF OnReadParse
  <2>2. r.fc \in 0..4 /\ r.addr \in Addr \cup {NoAddr}
    BY <2>1 DEF Request
  <2>3. heard' \in BOOLEAN /\ isClose' \in BOOLEAN /\ rd' \in BOOLEAN
        /\ stray' \in BOOLEAN
    BY <1>1, Zenon DEF OnReadParse
  <2>4. vals' \in Seq(Reading)
    <3>1. CASE UNCHANGED vals
      BY <3>1
    <3>2. CASE r.fc # 0 /\ vals' = Append(vals, [fc |-> r.fc, addr |-> curAddr,
                                                 actual |-> r.addr])
      <4>1. [fc |-> r.fc, addr |-> curAddr, actual |-> r.addr] \in Reading
        BY <2>2, <3>2 DEF Reading
      <4> HIDE DEF r
      <4> QED
        BY <3>2, <4>1
    <3> QED
      BY <1>1, <3>1, <3>2 DEF OnReadParse
  <2>5. io' \in {"parsed", "crashed"}
    BY <1>1 DEF OnReadParse
  <2> QED
    BY <1>1, <2>1, <2>3, <2>4, <2>5 DEF OnReadParse
<1>2. CASE OnReadError
  <2>1. heard' \in BOOLEAN /\ isClose' \in BOOLEAN /\ rd' \in BOOLEAN
    BY <1>2, Zenon DEF OnReadError
  <2> QED
    BY <1>2, <2>1 DEF OnReadError
<1>3. CASE OnReadUpload
  <2>1. stray' \in BOOLEAN
    BY <1>3, Zenon DEF OnReadUpload
  <2> QED
    BY <1>3, <2>1 DEF OnReadUpload
<1>4. CASE OnReadRelease
  <2>1. mutex' \in BOOLEAN /\ rd' \in BOOLEAN
    BY <1>4, Zenon DEF OnReadRelease
  <2>2. reply' \in Request
    BY <1>4, NDevType DEF OnReadRelease, NoReply, Request
  <2> QED
    BY <1>4, <2>1, <2>2 DEF OnReadRelease
<1>5. CASE OnReadClose
  <2> HIDE DEF TypeOK
  <2>1. /\ active' \in BOOLEAN /\ open' \in BOOLEAN /\ wire' \in Seq(Request)
        /\ strand' \in {"idle", "shut", "cancelled"}
    BY <1>5, CloseType DEF OnReadClose
  <2> QED
    BY <1>5, <2>1 DEF OnReadClose, TypeOK
<1>6. CASE CheckDeadline
  <2> HIDE DEF TypeOK
  <2>1. /\ active' \in BOOLEAN /\ open' \in BOOLEAN /\ wire' \in Seq(Request)
        /\ strand' \in {"idle", "shut", "cancelled"}
    BY <1>6, CloseType DEF CheckDeadline
  <2>2. heard' \in BOOLEAN
    BY <1>6, Zenon DEF CheckDeadline
  <2>3. io' \in {io, "ending"}
    BY <1>6 DEF CheckDeadline
  <2> QED
    BY <1>6, <2>1, <2>2, <2>3 DEF CheckDeadline, TypeOK
<1>7. CASE OnWriteBegin
  <2>1. isClose' \in BOOLEAN
    BY <1>7, Zenon DEF OnWriteBegin
  <2> QED
    BY <1>7, <2>1 DEF OnWriteBegin
<1>8. CASE OnWriteEnd
  <2> HIDE DEF TypeOK
  <2>1. /\ active' \in BOOLEAN /\ open' \in BOOLEAN /\ wire' \in Seq(Request)
        /\ strand' \in {"idle", "shut", "cancelled"}
    BY <1>8, CloseType DEF OnWriteEnd
  <2>2. isClose' \in BOOLEAN
    BY <1>8, Zenon DEF OnWriteEnd
  <2> QED
    BY <1>8, <2>1, <2>2 DEF OnWriteEnd, TypeOK
<1>9. CASE Lose
  BY <1>9 DEF Lose
<1>10. CASE CloseTimer
  <2>1. armed' \in BOOLEAN
    BY <1>10, Zenon DEF CloseTimer
  <2> QED
    BY <1>10, <2>1 DEF CloseTimer
<1>11. CASE CloseUnlock
  <2>1. mutex' \in BOOLEAN /\ released' \in BOOLEAN
    BY <1>11, Zenon DEF CloseUnlock
  <2>2. io' \in {"idle", io}
    BY <1>11 DEF CloseUnlock
  <2> QED
    BY <1>11, <2>1, <2>2 DEF CloseUnlock
<1> QED
  BY <1>1, <1>2, <1>3, <1>4, <1>5, <1>6, <1>7, <1>8, <1>9, <1>10, <1>11
     DEF OnWriteStep, CloseStep

LEMMA AgentTyping ==
    ASSUME TypeInv, AgentBegin \/ AgentStep
    PROVE  TypeInv'
<1> USE DEF TypeInv, TypeOK, Position, Dev, Code, Pcs, timerVars, pollVars, currVars,
        ioVars, agentVars, sockVars
<1>1. CASE AgentBegin
  BY <1>1, NDevType DEF AgentBegin
<1>2. CASE AgentLock
  BY <1>2 DEF AgentLock
<1>3. CASE AgentBusy
  BY <1>3, NDevType DEF AgentBusy
<1>4. CASE AgentWrite
  <2>1. [dev |-> opDev, fc |-> 0, addr |-> NoAddr] \in Request
    BY DEF Request
  <2>2. wire' \in Seq(Request) /\ wq' \in Nat
    BY <1>4, <2>1, WriteType DEF AgentWrite
  <2> QED
    BY <1>4, <2>2, NDevType DEF AgentWrite
<1> QED
  BY <1>1, <1>2, <1>3, <1>4 DEF AgentStep

LEMMA StutterTyping == TypeInv /\ UNCHANGED vars => TypeInv'
  BY DEF vars, timerVars, pollVars, currVars, ioVars, agentVars, sockVars, TypeInv,
         TypeOK, Position

LEMMA TypeStep == TypeInv /\ [Next]_vars => TypeInv'
  BY PollTyping, SalveTyping, IoTyping, AgentTyping, StutterTyping DEF Next

(* Every variable keeps its type; in particular the poll loop never asks for *)
(* a range that the device does not have.                                    *)
THEOREM TypeCorrect == Spec => []TypeOK
<1>1. TypeInv => TypeOK
  BY DEF TypeInv
<1> QED
  BY <1>1, TypeInit, TypeStep, PTL DEF Spec

-----------------------------------------------------------------------------
(* The invariant behind the three statements about the line.  Nobody but the *)
(* poll thread moves _current_sid and _current_num, and it does so only      *)
(* behind the gate, when no read request is under way, or holding the lock.  *)
Cursor ==
    /\ pc \in {"point", "locked", "prepared", "send"} => curDev = dev
    /\ pc \in {"prepared", "send"} => curAddr = Plan[dev][fc][ix]

OnlyWrites ==
    /\ \A i \in 1..Len(wire) : wire[i].fc = 0
    /\ IoHolds => reply.fc = 0

AtGate == pc \in {"gateHeld", "gateOpen", "reset", "select"}

Sync == ~released => /\ AtGate => OnlyWrites
                     /\ CommentReplyInSync
                     /\ \A i \in 1..Len(vals) : vals[i].addr = vals[i].actual
                     /\ io # "crashed"

LineInv == TypeInv /\ Cursor /\ LineDiscipline /\ Sync

Others == \/ Expire \/ SalveStep
          \/ OnReadParse \/ OnReadError \/ OnReadUpload \/ OnReadRelease
          \/ OnReadClose \/ CheckDeadline \/ OnWriteStep \/ CloseStep
          \/ AgentBegin \/ AgentStep \/ Lose

LEMMA OthersLeavePoll == Others => UNCHANGED <<pollVars, currVars>>
  BY DEF Others, SalveStep, OnWriteStep, AgentStep, Expire, SalveTest, SalveFlag,
         SalveRelease, OnReadParse, OnReadError, OnReadUpload, OnReadRelease,
         OnReadClose, CheckDeadline, OnWriteBegin, OnWriteEnd, CloseStep, CloseTimer,
         CloseUnlock, AgentBegin, AgentLock, AgentBusy, AgentWrite, Lose

LEMMA CursorStep == TypeInv /\ Cursor /\ [Next]_vars => Cursor'
<1> SUFFICES ASSUME TypeInv, Cursor, [Next]_vars PROVE Cursor'
  OBVIOUS
<1> USE DEF Cursor, currVars, pollVars
<1>1. CASE Wake
  BY <1>1 DEF Wake
<1>2. CASE Gate
  BY <1>2 DEF Gate
<1>3. CASE GateOpen
  BY <1>3 DEF GateOpen
<1>4. CASE CheckClose
  BY <1>4 DEF CheckClose
<1>5. CASE Reset
  BY <1>5 DEF Reset
<1>6. CASE Select
  BY <1>6 DEF Select
<1>7. CASE NextDevice
  BY <1>7 DEF NextDevice
<1>8. CASE Lock
  BY <1>8 DEF Lock
<1>9. CASE Skip
  BY <1>9 DEF Skip
<1>10. CASE Prepare
  BY <1>10 DEF Prepare
<1>11. CASE CheckClosePoint
  BY <1>11 DEF CheckClosePoint
<1>12. CASE Send
  BY <1>12 DEF Send
<1>13. CASE Others
  BY <1>13, OthersLeavePoll
<1>14. CASE UNCHANGED vars
  BY <1>14 DEF vars
<1> QED
  BY <1>1, <1>2, <1>3, <1>4, <1>5, <1>6, <1>7, <1>8, <1>9, <1>10, <1>11, <1>12,
     <1>13, <1>14 DEF Next, PollStep, Others

(* What a request does to an idle line, and an answer to a line with one     *)
(* request.                                                                  *)
LEMMA WireAppend ==
    ASSUME NEW r \in Request, NEW w \in Seq(Request), w = <<>>
    PROVE  /\ Append(w, r) # <<>> /\ Len(Append(w, r)) = 1
           /\ Append(w, r)[1] = r
  OBVIOUS

LEMMA WireOne ==
    ASSUME NEW w \in Seq(Request), w # <<>>, Len(w) <= 1
    PROVE  Len(w) = 1 /\ Tail(w) = <<>> /\ Head(w) = w[1]
<1>1. Len(w) \in Nat \ {0}
  BY EmptySeq
<1>2. Tail(w) \in Seq(Request) /\ Len(Tail(w)) = Len(w) - 1
  BY HeadTailProperties
<1>3. Len(w) = 1
  <2> DEFINE n == Len(w)
  <2>1. n \in Nat \ {0} /\ n <= 1
    BY <1>1
  <2> HIDE DEF n
  <2>2. n = 1
    BY <2>1
  <2> QED
    BY <2>2 DEF n
<1>4. Tail(w) = <<>>
  <2>1. Len(Tail(w)) \notin Nat \ {0}
    BY <1>2, <1>3
  <2> QED
    BY <1>2, <2>1, EmptySeq
<1>5. Head(w) = w[1]
  OBVIOUS
<1> QED
  BY <1>3, <1>4, <1>5

LEMMA WireSingle ==
    ASSUME NEW r
    PROVE  <<r>> # <<>> /\ Len(<<r>>) = 1 /\ <<r>>[1] = r
  OBVIOUS

(* The socket is closed with one request on the line, answered or not.       *)
LEMMA CloseWire ==
    ASSUME TypeInv, LineDiscipline, ~released,
           CloseSocket \/ UNCHANGED <<active, open, strand, wire>>
    PROVE  wire' = wire \/ wire' = <<>>
<1>1. wire \in Seq(Request) /\ Len(wire) <= 1
  BY DEF TypeInv, TypeOK, LineDiscipline
<1>2. CASE wire # <<>> /\ wire' = <<Head(wire)>>
  <2>1. Len(wire) = 1 /\ Head(wire) = wire[1]
    BY <1>1, <1>2, WireOne
  <2>2. wire = <<wire[1]>>
    BY <1>1, <2>1
  <2> QED
    BY <1>2, <2>1, <2>2
<1> QED
  BY <1>2 DEF CloseSocket

(* A request is put on the line by the one who holds the lock.               *)
LEMMA RequestType ==
    ASSUME TypeInv, pc = "send"
    PROVE  [dev |-> dev, fc |-> fc, addr |-> Plan[dev][fc][ix]] \in Request
<1>1. dev \in 1..NDev /\ fc \in Code /\ ix \in 1..Len(Plan[dev][fc])
  BY DEF TypeInv, Position
<1>2. \A i \in 1..Len(Plan[dev][fc]) : Plan[dev][fc][i] \in Addr
  BY <1>1, PlanType
<1>3. Plan[dev][fc][ix] \in Addr
  BY <1>1, <1>2
<1> QED
  BY <1>1, <1>3 DEF Request, Code, Dev

LEMMA LineStep == TypeInv /\ LineDiscipline /\ [Next]_vars => LineDiscipline'
<1> SUFFICES ASSUME TypeInv, LineDiscipline, [Next]_vars PROVE LineDiscipline'
  OBVIOUS
<1>a. wire \in Seq(Request)
  BY DEF TypeInv, TypeOK
<1>b. SUFFICES ASSUME ~released' PROVE LineDiscipline'
  BY DEF LineDiscipline
<1> USE <1>b DEF LineDiscipline, InUse, PollHolds, AgentHolds, SalveHolds, IoHolds,
        WireHolds, currVars, pollVars, timerVars, ioVars, agentVars, sockVars
<1>1. CASE Wake
  BY <1>1 DEF Wake
<1>2. CASE Gate
  BY <1>2 DEF Gate
<1>3. CASE GateOpen
  BY <1>3 DEF GateOpen
<1>4. CASE CheckClose
  BY <1>4 DEF CheckClose
<1>5. CASE Reset
  BY <1>5 DEF Reset
<1>6. CASE Select
  <2>1. CASE Quiet
    <3>1. Len(wire) <= 1
      BY <2>1 DEF Quiet
    <3> QED
      BY <1>6, <2>1, <3>1 DEF Select, Quiet
  <2>2. CASE ~Quiet
    BY <1>6, <2>2 DEF Select
  <2> QED
    BY <2>1, <2>2
<1>7. CASE NextDevice
  BY <1>7 DEF NextDevice
<1>8. CASE Lock
  BY <1>8 DEF Lock
<1>9. CASE Skip
  BY <1>9 DEF Skip
<1>10. CASE Prepare
  BY <1>10 DEF Prepare
<1>11. CASE CheckClosePoint
  BY <1>11 DEF CheckClosePoint
<1>12. CASE Send
  <2>1. UNCHANGED wire \/ (wire' # <<>> /\ Len(wire') = 1)
    <3>1. [dev |-> dev, fc |-> fc, addr |-> Plan[dev][fc][ix]] \in Request
      BY <1>12, RequestType DEF Send
    <3> DEFINE q == [dev |-> dev, fc |-> fc, addr |-> Plan[dev][fc][ix]]
    <3>2. UNCHANGED wire \/ wire' = Append(wire, q)
      BY <1>12 DEF Send, Write
    <3>3. wire = <<>>
      BY <1>12 DEF Send
    <3> HIDE DEF q
    <3> QED
      BY <1>a, <3>1, <3>2, <3>3, WireAppend DEF q
  <2>2. mutex' /\ ~PollHolds' /\ ~AgentHolds' /\ ~SalveHolds' /\ ~IoHolds'
    BY <1>12 DEF Send
  <2>3. Len(wire') <= 1
    <3>1. CASE UNCHANGED wire
      BY <1>12, <3>1 DEF Send
    <3>2. CASE Len(wire') = 1
      BY <3>2
    <3> QED
      BY <2>1, <3>1, <3>2
  <2> QED
    BY <2>2, <2>3 DEF LineDiscipline, InUse
<1>13. CASE Expire
  BY <1>13 DEF Expire
<1>14. CASE SalveTest
  BY <1>14 DEF SalveTest
<1>15. CASE SalveFlag
  BY <1>15 DEF SalveFlag
<1>16. CASE SalveRelease
  BY <1>16 DEF SalveRelease
<1>17. CASE OnReadParse
  <2>1. ~released /\ wire # <<>> /\ wire' = Tail(wire)
    BY <1>17 DEF OnReadParse
  <2>2. wire' = <<>> /\ Len(wire') <= 1
    BY <1>a, <2>1, WireOne
  <2> QED
    BY <1>17, <2>1, <2>2 DEF OnReadParse
<1>18. CASE OnReadError
  BY <1>18 DEF OnReadError
<1>19. CASE OnReadUpload
  BY <1>19 DEF OnReadUpload
<1>20. CASE OnReadRelease
  BY <1>20 DEF OnReadRelease
<1>c. ASSUME UNCHANGED <<mutex, pc, agent, salve, released>>, wire' = wire \/ wire' = <<>>,
             IoHolds' => IoHolds
      PROVE  LineDiscipline'
  <2>1. CASE wire' = wire
    BY <1>c, <2>1
  <2>2. CASE wire' = <<>>
    BY <1>c, <2>2
  <2> QED
    BY <1>c, <2>1, <2>2
<1>21. CASE OnReadClose
  <2>1. wire' = wire \/ wire' = <<>>
    BY <1>21, CloseWire DEF OnReadClose
  <2> QED
    BY <1>c, <1>21, <2>1 DEF OnReadClose
<1>22. CASE CheckDeadline
  <2>1. wire' = wire \/ wire' = <<>>
    BY <1>22, CloseWire DEF CheckDeadline
  <2> QED
    BY <1>c, <1>22, <2>1 DEF CheckDeadline
<1>23. CASE OnWriteBegin
  BY <1>23 DEF OnWriteBegin
<1>24. CASE OnWriteEnd
  <2>1. wire' = wire \/ wire' = <<>>
    BY <1>24, CloseWire DEF OnWriteEnd
  <2> QED
    BY <1>c, <1>24, <2>1 DEF OnWriteEnd
<1>25. CASE AgentBegin
  BY <1>25 DEF AgentBegin
<1>26. CASE AgentLock
  BY <1>26 DEF AgentLock
<1>27. CASE AgentBusy
  BY <1>27 DEF AgentBusy
<1>28. CASE AgentWrite
  <2>1. [dev |-> opDev, fc |-> 0, addr |-> NoAddr] \in Request
    BY DEF TypeInv, TypeOK, Request
  <2>2. UNCHANGED wire \/ (wire' # <<>> /\ Len(wire') = 1)
    BY <1>28, <1>a, <2>1, WireAppend DEF AgentWrite, Write
  <2>3. mutex' /\ ~PollHolds' /\ ~AgentHolds' /\ ~SalveHolds' /\ ~IoHolds'
    BY <1>28 DEF AgentWrite
  <2>4. Len(wire') <= 1
    <3>1. CASE UNCHANGED wire
      BY <1>28, <3>1 DEF AgentWrite
    <3>2. CASE Len(wire') = 1
      BY <3>2
    <3> QED
      BY <2>2, <3>1, <3>2
  <2> QED
    BY <2>3, <2>4 DEF LineDiscipline, InUse
<1>29. CASE Lose
  <2>1. ~released /\ wire # <<>> /\ wire' = Tail(wire)
    BY <1>29 DEF Lose
  <2>2. wire' = <<>> /\ Len(wire') <= 1
    BY <1>a, <2>1, WireOne
  <2> QED
    BY <1>29, <2>1, <2>2 DEF Lose
<1>30. CASE UNCHANGED vars
  BY <1>30 DEF vars
<1>31. CASE CloseTimer
  BY <1>31 DEF CloseTimer
<1>32. CASE CloseUnlock
  <2>1. ~(released \/ InUse \/ SalveHolds)
    BY <1>32, Zenon DEF CloseUnlock
  <2>2. /\ UNCHANGED <<pc, agent, salve, wire>> /\ io' \in {io, "idle"}
    BY <1>32 DEF CloseUnlock
  <2>3. wire = <<>> /\ Len(wire) <= 1
    BY <2>1
  <2>4. ~PollHolds' /\ ~AgentHolds' /\ ~SalveHolds' /\ ~IoHolds' /\ ~WireHolds'
    BY <2>1, <2>2
  <2>5. Len(wire') <= 1
    BY <2>2, <2>3
  <2> QED
    BY <2>4, <2>5
<1> QED
  BY <1>1, <1>2, <1>3, <1>4, <1>5, <1>6, <1>7, <1>8, <1>9, <1>10, <1>11, <1>12,
     <1>13, <1>14, <1>15, <1>16, <1>17, <1>18, <1>19, <1>20, <1>21, <1>22, <1>23,
     <1>24, <1>25, <1>26, <1>27, <1>28, <1>29, <1>30, <1>31, <1>32
     DEF Next, PollStep, SalveStep, OnWriteStep, CloseStep, AgentStep

LEMMA SyncKept ==
    ASSUME Sync, ~released,
           UNCHANGED <<wire, io, reply, curDev, curAddr, vals>>,
           AtGate' => AtGate
    PROVE  Sync'
  BY DEF Sync, OnlyWrites, CommentReplyInSync, Matches, IoHolds

(* Nobody is using the line: no request can be mistaken for another.         *)
LEMMA SyncIdle ==
    ASSUME wire' = <<>>, io' \notin {"parsed", "uploaded", "crashed"},
           \A i \in 1..Len(vals') : vals'[i].addr = vals'[i].actual
    PROVE  Sync'
  BY DEF Sync, OnlyWrites, CommentReplyInSync, IoHolds

LEMMA SyncSent ==
    ASSUME NEW r \in Request, wire = <<>>, wire' = Append(wire, r),
           Sync, ~released, io = "idle",
           UNCHANGED <<io, curDev, curAddr, vals>>,
           r.fc # 0 => r.dev = curDev /\ r.addr = curAddr /\ ~AtGate'
    PROVE  Sync'
<1>1. wire \in Seq(Request)
  OBVIOUS
<1>2. Len(wire') = 1 /\ wire'[1] = r
  BY <1>1, WireAppend
<1>3. \A i \in 1..Len(wire') : wire'[i] = r
  BY <1>2
<1> QED
  BY <1>3 DEF Sync, OnlyWrites, CommentReplyInSync, Matches, IoHolds

LEMMA SyncClose ==
    ASSUME TypeInv, LineDiscipline, Sync, ~released,
           UNCHANGED <<reply, curDev, curAddr, vals, pc, released>>,
           io' \in {io, "idle", "ending"},
           CloseSocket \/ UNCHANGED <<active, open, strand, wire>>
    PROVE  Sync'
<1>1. wire' = wire \/ wire' = <<>>
  BY CloseWire
<1>2. io' # "crashed" /\ (IoHolds' => IoHolds)
  BY DEF IoHolds, Sync
<1>3. CASE wire' = wire
  BY <1>2, <1>3 DEF Sync, OnlyWrites, CommentReplyInSync, Matches, AtGate
<1>4. CASE wire' = <<>>
  BY <1>2, <1>4 DEF Sync, OnlyWrites, CommentReplyInSync, Matches, AtGate
<1> QED
  BY <1>1, <1>3, <1>4

(* The answer is that of the only request on the line.                       *)
LEMMA SyncParse ==
    ASSUME TypeInv, LineDiscipline, Sync, ~released, OnReadParse
    PROVE  Sync'
<1>1. wire \in Seq(Request) /\ wire # <<>> /\ Len(wire) <= 1
  BY DEF TypeInv, TypeOK, LineDiscipline, OnReadParse
<1>2. Len(wire) = 1 /\ Tail(wire) = <<>> /\ Head(wire) = wire[1]
  BY <1>1, WireOne
<1> DEFINE r == wire[1]
<1>3. reply' = r /\ wire' = <<>>
  BY <1>2 DEF OnReadParse
<1>4. /\ r.fc # 0 => r.dev = curDev /\ r.addr = curAddr
      /\ AtGate => r.fc = 0
  <2>1. 1 \in 1..Len(wire)
    BY <1>2
  <2> QED
    BY <2>1 DEF Sync, CommentReplyInSync, Matches, OnlyWrites
<1>5. io' = "parsed"
  BY <1>2, <1>4 DEF OnReadParse, GetSid
<1>6. \A i \in 1..Len(vals') : vals'[i].addr = vals'[i].actual
  <2> DEFINE v == [fc |-> r.fc, addr |-> curAddr, actual |-> r.addr]
  <2>1. vals \in Seq(Reading)
        /\ \A i \in 1..Len(vals) : vals[i].addr = vals[i].actual
    BY DEF TypeInv, TypeOK, Sync
  <2>2. CASE UNCHANGED vals
    BY <2>1, <2>2
  <2>3. CASE vals' = Append(vals, v) /\ r.fc # 0
    <3>1. v.addr = v.actual
      BY <1>4, <2>3
    <3> HIDE DEF v
    <3>2. \A i \in 1..Len(vals') : vals'[i] = IF i <= Len(vals) THEN vals[i] ELSE v
      BY <2>1, <2>3
    <3>3. Len(vals) \in Nat /\ Len(vals') = Len(vals) + 1
      BY <2>1, <2>3
    <3> QED
      BY <2>1, <3>1, <3>2, <3>3
  <2> QED
    BY <1>2, <2>2, <2>3 DEF OnReadParse
<1>7. UNCHANGED <<curDev, curAddr, pc>>
  BY DEF OnReadParse, currVars, pollVars
<1> HIDE DEF r
<1> QED
  BY <1>3, <1>4, <1>5, <1>6, <1>7
     DEF Sync, OnlyWrites, CommentReplyInSync, Matches, IoHolds, AtGate

LEMMA SyncStep == LineInv /\ [Next]_vars => Sync'
<1> SUFFICES ASSUME LineInv, [Next]_vars PROVE Sync'
  OBVIOUS
<1>a. SUFFICES ASSUME ~released' PROVE Sync'
  BY DEF Sync
<1>b. TypeInv /\ Cursor /\ LineDiscipline /\ Sync
  BY DEF LineInv
<1>c. /\ Sync
      /\ ~released /\ ~mutex => wire = <<>> /\ ~IoHolds
      /\ ~released /\ PollHolds => wire = <<>> /\ ~IoHolds
      /\ ~released /\ AgentHolds => wire = <<>> /\ ~IoHolds
  BY <1>b DEF LineDiscipline, InUse, WireHolds
<1>d. ~released => /\ \A i \in 1..Len(vals) : vals[i].addr = vals[i].actual
                   /\ io # "crashed"
  BY <1>b DEF Sync
<1> USE <1>a, <1>c, <1>d DEF currVars, pollVars, timerVars, ioVars, agentVars,
        sockVars, AtGate
<1>1. CASE Wake
  BY <1>1, SyncKept DEF Wake
<1>2. CASE Gate
  BY <1>2, SyncIdle DEF Gate, IoHolds
<1>3. CASE GateOpen
  BY <1>3, SyncKept DEF GateOpen
<1>4. CASE CheckClose
  BY <1>4, SyncKept DEF CheckClose
<1>5. CASE Reset
  BY <1>5, SyncKept DEF Reset
<1>6. CASE Select
  <2>1. \A i \in 1..Len(vals') : vals'[i].addr = vals'[i].actual
    BY <1>6 DEF Select
  <2>2. CASE Quiet
    <3>1. io # "crashed"
      BY <1>6 DEF Next, Select, vars
    <3> QED
      BY <1>6, <2>1, <2>2, <3>1, SyncIdle
         DEF Select, Quiet, InUse, WireHolds, IoHolds
  <2>3. CASE ~released
    <3>1. OnlyWrites /\ io # "crashed"
      BY <1>6, <2>3 DEF Select, Sync
    <3> QED
      BY <1>6, <2>1, <3>1
         DEF Select, Sync, OnlyWrites, CommentReplyInSync, Matches, IoHolds
  <2> QED
    BY <1>6, <2>2, <2>3 DEF Select
<1>7. CASE NextDevice
  BY <1>7, SyncKept DEF NextDevice
<1>8. CASE Lock
  BY <1>8, SyncKept DEF Lock
<1>9. CASE Skip
  BY <1>9, SyncKept DEF Skip
<1>10. CASE Prepare
  BY <1>10, SyncIdle DEF Prepare, PollHolds, IoHolds
<1>11. CASE CheckClosePoint
  BY <1>11, SyncKept DEF CheckClosePoint
<1>12. CASE Send
  <2> DEFINE r == [dev |-> dev, fc |-> fc, addr |-> Plan[dev][fc][ix]]
  <2>1. r \in Request
    BY <1>12, <1>b, RequestType DEF Send
  <2>2. r.dev = curDev /\ r.addr = curAddr
    BY <1>12, <1>b DEF Send, Cursor
  <2>3. /\ wire = <<>> /\ ~released /\ io = "idle" /\ pc' = "point"
        /\ UNCHANGED <<io, reply, curDev, curAddr, vals>>
        /\ wire' = Append(wire, r) \/ UNCHANGED wire
    BY <1>12 DEF Send, Write, PollHolds
  <2> HIDE DEF r
  <2>4. CASE wire' = Append(wire, r)
    BY <2>1, <2>2, <2>3, <2>4, SyncSent
  <2>5. CASE UNCHANGED wire
    BY <2>3, <2>5, SyncKept
  <2> QED
    BY <2>3, <2>4, <2>5
<1>13. CASE Expire
  BY <1>13, SyncKept DEF Expire
<1>14. CASE SalveTest
  BY <1>14, SyncKept DEF SalveTest
<1>15. CASE SalveFlag
  BY <1>15, SyncKept DEF SalveFlag
<1>16. CASE SalveRelease
  BY <1>16, SyncKept DEF SalveRelease
<1>17. CASE OnReadParse
  <2>1. ~released
    BY <1>17 DEF OnReadParse
  <2> QED
    BY <1>17, <1>b, <2>1, SyncParse
<1>18. CASE OnReadError
  BY <1>18 DEF OnReadError, Sync, OnlyWrites, CommentReplyInSync, Matches, IoHolds
<1>19. CASE OnReadUpload
  <2>1. \A i \in 1..Len(vals') : vals'[i].addr = vals'[i].actual
    BY <1>19 DEF OnReadUpload
  <2> QED
    BY <1>19, <2>1
       DEF OnReadUpload, Sync, OnlyWrites, CommentReplyInSync, Matches, IoHolds
<1>20. CASE OnReadRelease
  BY <1>20 DEF OnReadRelease, Sync, OnlyWrites, CommentReplyInSync, Matches, IoHolds
<1>21. CASE OnReadClose
  BY <1>21, <1>b, SyncClose DEF OnReadClose
<1>22. CASE CheckDeadline
  BY <1>22, <1>b, SyncClose DEF CheckDeadline
<1>23. CASE OnWriteBegin
  BY <1>23, SyncKept DEF OnWriteBegin
<1>24. CASE OnWriteEnd
  BY <1>24, <1>b, SyncClose DEF OnWriteEnd
<1>25. CASE AgentBegin
  BY <1>25, SyncKept DEF AgentBegin
<1>26. CASE AgentLock
  BY <1>26, SyncKept DEF AgentLock
<1>27. CASE AgentBusy
  BY <1>27, SyncKept DEF AgentBusy
<1>28. CASE AgentWrite
  <2> DEFINE r == [dev |-> opDev, fc |-> 0, addr |-> NoAddr]
  <2>1. r \in Request /\ r.fc = 0
    BY <1>b DEF TypeInv, TypeOK, Request
  <2>2. /\ wire = <<>> /\ ~released
        /\ UNCHANGED <<io, reply, curDev, curAddr, vals, pc>>
        /\ (io = "idle" /\ wire' = Append(wire, r)) \/ UNCHANGED wire
    BY <1>28 DEF AgentWrite, Write, AgentHolds
  <2> HIDE DEF r
  <2>3. CASE io = "idle" /\ wire' = Append(wire, r)
    BY <2>1, <2>2, <2>3, SyncSent
  <2>4. CASE UNCHANGED wire
    BY <2>2, <2>4, SyncKept
  <2> QED
    BY <2>2, <2>3, <2>4
<1>29. CASE Lose
  <2>1. wire \in Seq(Request) /\ wire # <<>> /\ Len(wire) <= 1
    BY <1>29, <1>b DEF Lose, TypeInv, TypeOK, LineDiscipline
  <2>2. wire' = <<>>
    BY <1>29, <2>1, WireOne DEF Lose
  <2>3. UNCHANGED <<pc, io, reply, vals, curDev, curAddr, released>>
    BY <1>29 DEF Lose
  <2> QED
    BY <2>2, <2>3 DEF Sync, OnlyWrites, CommentReplyInSync, Matches, IoHolds
<1>30. CASE UNCHANGED vars
  BY <1>30, SyncKept DEF vars
<1>31. CASE CloseTimer
  BY <1>31, SyncKept DEF CloseTimer
<1>32. CASE CloseUnlock
  <2>1. ~(released \/ InUse \/ SalveHolds)
    BY <1>32, Zenon DEF CloseUnlock
  <2>2. wire' = <<>> /\ vals' = vals /\ io' \in {io, "idle"}
    BY <1>32, <2>1 DEF CloseUnlock, InUse, WireHolds
  <2>3. io' \notin {"parsed", "uploaded", "crashed"}
    BY <2>1, <2>2 DEF InUse, IoHolds
  <2> QED
    BY <2>1, <2>2, <2>3, SyncIdle
<1> QED
  BY <1>1, <1>2, <1>3, <1>4, <1>5, <1>6, <1>7, <1>8, <1>9, <1>10, <1>11, <1>12,
     <1>13, <1>14, <1>15, <1>16, <1>17, <1>18, <1>19, <1>20, <1>21, <1>22, <1>23,
     <1>24, <1>25, <1>26, <1>27, <1>28, <1>29, <1>30, <1>31, <1>32
     DEF Next, PollStep, SalveStep, OnWriteStep, CloseStep, AgentStep

LEMMA LineInit == Init => LineInv
<1> SUFFICES ASSUME Init PROVE LineInv
  OBVIOUS
<1>1. TypeInv
  BY TypeInit
<1>2. Cursor
  BY DEF Init, Cursor
<1>3. Len(wire) <= 1
  BY DEF Init
<1>4. LineDiscipline
  BY <1>3 DEF Init, LineDiscipline, InUse, PollHolds, AgentHolds, SalveHolds,
              IoHolds, WireHolds
<1>5. Sync
  BY DEF Init, Sync, AtGate, CommentReplyInSync, IoHolds
<1> QED
  BY <1>1, <1>2, <1>4, <1>5 DEF LineInv

LEMMA LineInvariant == Spec => []LineInv
<1>1. LineInv /\ [Next]_vars => LineInv'
  BY TypeStep, CursorStep, LineStep, SyncStep DEF LineInv
<1> QED
  BY <1>1, LineInit, PTL DEF Spec

(* The line has one user at a time, who has _mutex locked, unless the lock   *)
(* was freed under a request in progress: by checkSalveDeadline or by Close. *)
THEOREM OneUser == Spec => []LineDiscipline
<1>1. LineInv => LineDiscipline
  BY DEF LineInv
<1> QED
  BY <1>1, LineInvariant, PTL

(* Until then _current_sid and _current_num are those of the request whose   *)
(* answer is awaited or being handled.                                       *)
THEOREM AnswersInSync == Spec => []ReplyInSync
<1>1. LineInv => ReplyInSync
  BY DEF LineInv, Sync, ReplyInSync
<1> QED
  BY <1>1, LineInvariant, PTL

(* Until then every value kept for upload was read from the address it is    *)
(* kept under, and no answer of another slave has been parsed.               *)
THEOREM ValuesAreTrue == Spec => []ValuesTrue
<1>1. LineInv => ValuesTrue
  BY DEF LineInv, Sync, ValuesTrue
<1> QED
  BY <1>1, LineInvariant, PTL
-----------------------------------------------------------------------------
(* What is kept for upload, range by range.  pos[i] is the place in the plan *)
(* of the range that reading i was filed for; no place has two readings.     *)
Placed(d, v, pos) ==
    /\ pos \in [1..Len(v) -> Nat]
    /\ \A i \in 1..Len(v) :
          /\ d # 0
          /\ pos[i] \in 1..Len(Plan[d][v[i].fc])
          /\ Plan[d][v[i].fc][pos[i]] = v[i].addr
    /\ \A i, j \in 1..Len(v) : v[i].fc = v[j].fc /\ pos[i] = pos[j] => i = j

(* The loops of operator() have the place still before them.                 *)
Ahead(f, k) ==
    /\ pc \in {"point", "locked", "prepared", "send"}
    /\ fc < f \/ (fc = f /\ ix <= k)

Past(pos) == \A i \in 1..Len(vals) : ~Ahead(vals[i].fc, pos[i])

(* The answer that is awaited will be filed for a place of its own.          *)
Fresh(pos) ==
    wire # <<>> /\ wire[1].fc # 0 =>
        /\ curDev # 0
        /\ \E k \in 1..Len(Plan[curDev][wire[1].fc]) :
              /\ Plan[curDev][wire[1].fc][k] = curAddr
              /\ ~Ahead(wire[1].fc, k)
              /\ \A i \in 1..Len(vals) : vals[i].fc = wire[1].fc => pos[i] # k

FiledAt(pos) == Placed(curDev, vals, pos) /\ Past(pos) /\ Fresh(pos)

Filed == ~released => \E pos \in [1..Len(vals) -> Nat] : FiledAt(pos)

FiledInv == LineInv /\ Filed

LEMMA ReadingType ==
    TypeInv => /\ vals \in Seq(Reading) /\ wire \in Seq(Request)
               /\ \A i \in 1..Len(vals) : vals[i] \in Reading /\ vals[i].fc \in Code
<1>1. TypeInv => vals \in Seq(Reading) /\ wire \in Seq(Request)
  BY DEF TypeInv, TypeOK
<1>2. \A r \in Reading : r.fc \in Code
  BY DEF Reading
<1> QED
  BY <1>1, <1>2

LEMMA FirstRequest ==
    ASSUME NEW w \in Seq(Request), w # <<>>
    PROVE  w[1] \in Request /\ (w[1].fc # 0 => w[1].fc \in Code) /\ Head(w) = w[1]
<1>1. Len(w) \in Nat \ {0}
  BY EmptySeq
<1>2. w[1] \in Request /\ Head(w) = w[1]
  BY <1>1
<1> QED
  BY <1>2 DEF Request, Code

LEMMA FiledInit == Init => Filed
<1> SUFFICES ASSUME Init PROVE Filed
  OBVIOUS
<1>0. PICK pos \in [1..0 -> Nat] : TRUE
  <2>1. [i \in 1..0 |-> 0] \in [1..0 -> Nat]
    OBVIOUS
  <2> QED
    BY <2>1
<1>1. vals = <<>> /\ wire = <<>> /\ Len(vals) = 0
  BY DEF Init
<1>2. pos \in [1..Len(vals) -> Nat] /\ FiledAt(pos)
  BY <1>1 DEF FiledAt, Placed, Past, Fresh
<1> QED
  BY <1>2 DEF Filed

(* Nothing is filed for a while.                                             *)
LEMMA FiledEmpty ==
    ASSUME vals' = <<>>, ~released' => \A i \in 1..Len(wire') : wire'[i].fc = 0,
           ~released' => wire' \in Seq(Request)
    PROVE  Filed'
<1> SUFFICES ASSUME ~released' PROVE \E pos \in [1..Len(vals') -> Nat] : FiledAt(pos)'
  BY DEF Filed
<1>0. PICK pos \in [1..0 -> Nat] : TRUE
  <2>1. [i \in 1..0 |-> 0] \in [1..0 -> Nat]
    OBVIOUS
  <2> QED
    BY <2>1
<1>1. Len(vals') = 0
  OBVIOUS
<1>2. wire' # <<>> => wire'[1].fc = 0
  <2> SUFFICES ASSUME wire' # <<>> PROVE wire'[1].fc = 0
    OBVIOUS
  <2>1. Len(wire') \in Nat \ {0}
    BY EmptySeq
  <2> QED
    BY <2>1
<1>3. pos \in [1..Len(vals') -> Nat] /\ Placed(curDev, vals, pos)' /\ Past(pos)'
  BY <1>1 DEF Placed, Past
<1>4. Fresh(pos)'
  BY <1>2 DEF Fresh
<1> QED
  BY <1>3, <1>4 DEF FiledAt

(* The reading are left alone, and no read request is sent.                  *)
LEMMA FiledKept ==
    ASSUME Filed, ~released' => ~released, vals' = vals, curDev' = curDev,
           \A f \in Code, k \in Nat : Ahead(f, k)' => Ahead(f, k),
           \/ wire' = <<>> \/ wire'[1].fc = 0
           \/ wire # <<>> /\ wire'[1] = wire[1] /\ curAddr' = curAddr,
           TypeInv
    PROVE  Filed'
<1> SUFFICES ASSUME ~released' PROVE \E pos \in [1..Len(vals') -> Nat] : FiledAt(pos)'
  BY DEF Filed
<1>1. PICK pos \in [1..Len(vals) -> Nat] : FiledAt(pos)
  BY DEF Filed
<1>2. Placed(curDev, vals, pos)'
  BY <1>1 DEF FiledAt, Placed
<1>3. \A i \in 1..Len(vals) : vals[i].fc \in Code
  BY ReadingType
<1>4. Past(pos)'
  BY <1>1, <1>3 DEF FiledAt, Past
<1>5. Fresh(pos)'
  <2> SUFFICES ASSUME wire' # <<>>, wire'[1].fc # 0 PROVE Fresh(pos)'
    BY DEF Fresh
  <2>1. wire # <<>> /\ wire'[1] = wire[1] /\ curAddr' = curAddr
    OBVIOUS
  <2>2. wire[1].fc \in Code
    BY <2>1, ReadingType, FirstRequest
  <2>3. PICK k \in 1..Len(Plan[curDev][wire[1].fc]) :
              /\ Plan[curDev][wire[1].fc][k] = curAddr
              /\ ~Ahead(wire[1].fc, k)
              /\ \A i \in 1..Len(vals) : vals[i].fc = wire[1].fc => pos[i] # k
    BY <1>1, <2>1 DEF FiledAt, Fresh
  <2>4. k \in Nat
    OBVIOUS
  <2>5. curDev # 0
    BY <1>1, <2>1 DEF FiledAt, Fresh
  <2> QED
    BY <2>1, <2>2, <2>3, <2>4, <2>5 DEF Fresh
<1> QED
  BY <1>1, <1>2, <1>4, <1>5 DEF FiledAt

LEMMA FiledSend == FiledInv /\ Send => Filed'
<1> SUFFICES ASSUME FiledInv, Send PROVE Filed'
  OBVIOUS
<1> SUFFICES ASSUME ~released' PROVE \E pos \in [1..Len(vals') -> Nat] : FiledAt(pos)'
  BY DEF Filed
<1> DEFINE r == [dev |-> dev, fc |-> fc, addr |-> Plan[dev][fc][ix]]
<1>1. /\ ~released /\ pc = "send" /\ pc' = "point"
      /\ vals' = vals /\ curDev' = curDev /\ curAddr' = curAddr
  BY DEF Send, currVars, ioVars
<1>2. PICK pos \in [1..Len(vals) -> Nat] : FiledAt(pos)
  BY <1>1 DEF FiledInv, Filed
<1>3. /\ curDev = dev /\ curAddr = Plan[dev][fc][ix] /\ dev \in 1..NDev /\ fc \in Code
      /\ ix \in 1..Len(Plan[dev][fc]) /\ ix \in Nat
  BY <1>1, PlanType DEF FiledInv, LineInv, Cursor, TypeInv, TypeOK, Position
<1>4. wire = <<>> /\ wire \in Seq(Request)
  BY <1>1 DEF FiledInv, LineInv, LineDiscipline, PollHolds, WireHolds, TypeInv, TypeOK
<1>5. wire' = wire \/ (wire' # <<>> /\ wire'[1] = r)
  <2>1. r \in Request
    BY <1>1, RequestType DEF FiledInv, LineInv
  <2>2. wire' = wire \/ wire' = Append(wire, r)
    BY DEF Send, Write
  <2> QED
    BY <1>4, <2>1, <2>2, WireAppend
<1>6. \A f \in Code, k \in Nat : Ahead(f, k)' => Ahead(f, k) /\ ~(f = fc /\ k = ix)
  <2>1. CASE ix' = ix + 1 /\ fc' = fc
    BY <1>1, <1>3, <2>1 DEF Ahead, Code
  <2>2. CASE ix' = 1 /\ NextCode
    <3>1. fc' \in Nat /\ fc' >= fc + 1
      BY <1>3, <2>2 DEF NextCode, FirstCode, Code
    <3> QED
      BY <1>1, <1>3, <2>2, <3>1 DEF Ahead, Code
  <2> QED
    BY <2>1, <2>2 DEF Send
<1>7. Placed(curDev, vals, pos)'
  BY <1>1, <1>2 DEF FiledAt, Placed
<1>8. \A i \in 1..Len(vals) : vals[i].fc \in Code
  BY ReadingType DEF FiledInv, LineInv
<1>9. Past(pos)'
  BY <1>1, <1>2, <1>6, <1>8 DEF FiledAt, Past
<1>10. Fresh(pos)'
  <2> SUFFICES ASSUME wire' # <<>>, wire'[1].fc # 0 PROVE Fresh(pos)'
    BY DEF Fresh
  <2>0. PICK f \in Code, k \in Nat : f = fc /\ k = ix
    BY <1>3
  <2>1. wire'[1].fc = f
    BY <1>4, <1>5, <2>0
  <2>2. curDev # 0 /\ ~Ahead(f, k)'
    BY <1>3, <1>6, <2>0, NDevType
  <2>3. \A i \in 1..Len(vals) : vals[i].fc = f => pos[i] # k
    <3>1. Ahead(f, k)
      BY <1>1, <1>3, <2>0 DEF Ahead
    <3> QED
      BY <1>2, <3>1 DEF FiledAt, Past
  <2> QED
    BY <1>1, <1>3, <2>0, <2>1, <2>2, <2>3 DEF Fresh
<1> QED
  BY <1>1, <1>2, <1>7, <1>9, <1>10 DEF FiledAt

(* The answer is filed where it was expected.                                *)
LEMMA FiledParse == FiledInv /\ OnReadParse => Filed'
<1> SUFFICES ASSUME FiledInv, OnReadParse, ~released'
             PROVE  \E pos \in [1..Len(vals') -> Nat] : FiledAt(pos)'
  BY DEF Filed
<1>1. /\ ~released /\ wire # <<>> /\ wire' = Tail(wire)
      /\ curDev' = curDev /\ curAddr' = curAddr
      /\ \A f \in Code, k \in Nat : Ahead(f, k)' => Ahead(f, k)
  BY DEF OnReadParse, currVars, pollVars, Ahead
<1>2. PICK pos \in [1..Len(vals) -> Nat] : FiledAt(pos)
  BY <1>1 DEF FiledInv, Filed
<1>3. TypeInv
  BY DEF FiledInv, LineInv
<1>4. /\ wire' = <<>> /\ Head(wire) = wire[1] /\ (wire[1].fc # 0 => wire[1].fc \in Code)
  <2>1. Len(wire) <= 1
    BY <1>1 DEF FiledInv, LineInv, LineDiscipline
  <2> QED
    BY <1>1, <1>3, <2>1, ReadingType, WireOne, FirstRequest
<1>5. CASE vals' = vals
  <2>1. Filed'
    BY <1>1, <1>3, <1>4, <1>5, FiledKept DEF FiledInv
  <2> QED
    BY <2>1 DEF Filed
<1>6. CASE vals' # vals
  <2> DEFINE f == wire[1].fc
             v == [fc |-> f, addr |-> curAddr, actual |-> wire[1].addr]
             n == Len(vals)
  <2>1. f \in Code /\ wire[1].fc # 0 /\ vals' = Append(vals, v)
    BY <1>4, <1>6 DEF OnReadParse, Code
  <2>2. PICK k \in 1..Len(Plan[curDev][f]) :
              /\ Plan[curDev][f][k] = curAddr
              /\ ~Ahead(f, k)
              /\ \A i \in 1..n : vals[i].fc = f => pos[i] # k
    BY <1>1, <1>2, <2>1 DEF FiledAt, Fresh
  <2>3. curDev # 0 /\ k \in Nat /\ n \in Nat
    BY <1>1, <1>2, <1>3, <2>1, ReadingType DEF FiledAt, Fresh
  <2>4. PICK all \in [1..n + 1 -> Nat] :
          all[n + 1] = k /\ \A i \in 1..n : all[i] = pos[i]
    <3> DEFINE g == [i \in 1..n + 1 |-> IF i = n + 1 THEN k ELSE pos[i]]
    <3>1. g \in [1..n + 1 -> Nat] /\ g[n + 1] = k /\ \A i \in 1..n : g[i] = pos[i]
      <4> HIDE DEF n
      <4> QED
        BY <2>3 DEF n
    <3> HIDE DEF g
    <3> QED
      BY <3>1
  <2>5. v \in Reading
    <3>1. wire[1] \in Request /\ curAddr \in Addr \cup {NoAddr}
      BY <1>1, <1>3, ReadingType, FirstRequest DEF TypeInv, TypeOK
    <3> QED
      BY <2>1, <3>1 DEF Reading, Request
  <2>6. /\ Len(vals') = n + 1 /\ vals'[n + 1] = v
        /\ \A i \in 1..n : vals'[i] = vals[i]
    BY <1>3, <2>1, <2>5, ReadingType, AppendProperties
  <2>7. v.fc = f /\ v.addr = curAddr
    OBVIOUS
  <2> HIDE DEF v
  <2>8. \A i \in 1..n + 1 : i \in 1..n \/ i = n + 1
    BY <2>3
  <2>9. Placed(curDev, vals, all)'
    <3>1. Placed(curDev, vals, pos)
      BY <1>2 DEF FiledAt
    <3>2. ASSUME NEW i \in 1..n + 1
          PROVE  /\ all[i] \in 1..Len(Plan[curDev][vals'[i].fc])
                 /\ Plan[curDev][vals'[i].fc][all[i]] = vals'[i].addr
      BY <2>2, <2>3, <2>4, <2>6, <2>7, <2>8, <3>1 DEF Placed
    <3>3. ASSUME NEW i \in 1..n + 1, NEW j \in 1..n + 1, vals'[i].fc = vals'[j].fc,
                 all[i] = all[j]
          PROVE  i = j
      BY <2>2, <2>4, <2>6, <2>7, <2>8, <3>1, <3>3 DEF Placed
    <3> QED
      BY <1>1, <2>3, <2>4, <2>6, <3>2, <3>3 DEF Placed
  <2>10. Past(all)'
    <3>1. ASSUME NEW i \in 1..n + 1 PROVE ~Ahead(vals[i].fc, all[i])'
      <4>1. CASE i \in 1..n
        <5>1. vals'[i].fc = vals[i].fc /\ vals[i].fc \in Code /\ all[i] = pos[i]
              /\ pos[i] \in Nat /\ ~Ahead(vals[i].fc, pos[i])
          BY <1>2, <1>3, <2>4, <2>6, <4>1, ReadingType DEF FiledAt, Past
        <5> QED
          BY <1>1, <5>1 DEF Ahead, OnReadParse, pollVars
      <4>2. CASE i = n + 1
        BY <1>1, <2>1, <2>2, <2>3, <2>4, <2>6, <2>7, <4>2 DEF Ahead, OnReadParse, pollVars
      <4> QED
        BY <2>8, <4>1, <4>2
    <3> QED
      BY <2>6, <3>1 DEF Past
  <2>11. Fresh(all)'
    BY <1>4 DEF Fresh
  <2> QED
    BY <2>4, <2>6, <2>9, <2>10, <2>11 DEF FiledAt
<1> QED
  BY <1>5, <1>6

LEMMA FiledPoll == FiledInv /\ PollStep => Filed'
<1> SUFFICES ASSUME FiledInv, PollStep PROVE Filed'
  OBVIOUS
<1> USE DEF currVars, pollVars, ioVars
<1>0. TypeInv /\ Filed
  BY DEF FiledInv, LineInv
<1>t. fc \in 1..5 /\ ix \in Nat \ {0}
  BY <1>0 DEF TypeInv, TypeOK
<1>1. CASE Wake \/ Gate \/ GateOpen \/ CheckClose \/ Reset \/ NextDevice \/ Lock
           \/ CheckClosePoint
  <2>1. /\ UNCHANGED <<vals, curDev, wire, curAddr, released>>
        /\ \A f \in Code, k \in Nat : Ahead(f, k)' => Ahead(f, k)
    BY <1>1 DEF Wake, Gate, GateOpen, CheckClose, Reset, NextDevice, Lock,
       CheckClosePoint, Ahead
  <2> QED
    BY <1>0, <2>1, FiledKept
<1>2. CASE Skip
  <2>1. fc' \in Nat /\ fc' >= fc + 1 /\ ix' = 1 /\ pc = "locked"
    BY <1>2, <1>t DEF Skip, NextCode, FirstCode
  <2>2. UNCHANGED <<vals, curDev, wire, curAddr, released>>
    BY <1>2 DEF Skip
  <2>3. \A f \in Code, k \in Nat : Ahead(f, k)' => Ahead(f, k)
    BY <1>t, <2>1 DEF Ahead, Code
  <2> QED
    BY <1>0, <2>2, <2>3, FiledKept
<1>3. CASE Prepare
  <2>1. /\ UNCHANGED <<vals, curDev, wire, released>> /\ pc = "locked"
        /\ \A f \in Code, k \in Nat : Ahead(f, k)' => Ahead(f, k)
    BY <1>3 DEF Prepare, Ahead
  <2>2. ~released => wire' = <<>>
    BY <2>1 DEF FiledInv, LineInv, LineDiscipline, PollHolds, WireHolds
  <2> QED
    BY <1>0, <2>1, <2>2, FiledKept DEF Filed
<1>4. CASE Select
  <2>1. vals' = <<>> /\ wire' = wire /\ released' = (released /\ ~Quiet) /\ pc = "select"
    BY <1>4 DEF Select
  <2>2. ~released' => \A i \in 1..Len(wire') : wire'[i].fc = 0
    <3>1. CASE ~released
      BY <2>1, <3>1 DEF FiledInv, LineInv, Sync, AtGate, OnlyWrites
    <3>2. CASE released
      <4>1. ~released' => wire = <<>>
        BY <2>1, <3>2 DEF Quiet, InUse, WireHolds
      <4> QED
        BY <2>1, <4>1
    <3> QED
      BY <3>1, <3>2
  <2>3. wire' \in Seq(Request)
    BY <1>0, <2>1, ReadingType
  <2> QED
    BY <2>1, <2>2, <2>3, FiledEmpty
<1>5. CASE Send
  BY <1>5, FiledSend
<1> QED
  BY <1>1, <1>2, <1>3, <1>4, <1>5 DEF PollStep

LEMMA FiledUpload == FiledInv /\ OnReadUpload => Filed'
<1> SUFFICES ASSUME FiledInv, OnReadUpload PROVE Filed'
  OBVIOUS
<1>1. /\ UNCHANGED <<curDev, wire, curAddr, released, pollVars>> /\ IoHolds
      /\ \A f \in Code, k \in Nat : Ahead(f, k)' => Ahead(f, k)
      /\ vals' = vals \/ vals' = <<>>
  BY DEF OnReadUpload, currVars, pollVars, Ahead, IoHolds
<1>2. ~released => wire' = <<>>
  BY <1>1 DEF FiledInv, LineInv, LineDiscipline, WireHolds
<1>3. CASE vals' = vals
  BY <1>1, <1>3, FiledKept DEF FiledInv, LineInv
<1>4. CASE vals' = <<>>
  <2>1. ~released' => wire' \in Seq(Request) /\ Len(wire') = 0
    BY <1>1, <1>2
  <2> QED
    BY <1>4, <2>1, FiledEmpty
<1> QED
  BY <1>1, <1>3, <1>4

LEMMA FiledRest ==
    ASSUME FiledInv,
           \/ Expire \/ SalveStep \/ OnReadError \/ OnReadRelease \/ OnReadClose
           \/ CheckDeadline \/ OnWriteStep \/ CloseStep \/ AgentBegin \/ AgentStep
           \/ Lose \/ UNCHANGED vars
    PROVE  Filed'
<1> USE DEF currVars, pollVars, ioVars, agentVars, sockVars, timerVars
<1>0. TypeInv /\ Filed /\ wire \in Seq(Request)
  BY ReadingType DEF FiledInv, LineInv
<1>1. UNCHANGED <<vals, curDev, curAddr, pollVars>>
  BY DEF SalveStep, OnWriteStep, AgentStep, Expire, SalveTest, SalveFlag, SalveRelease,
     OnReadError, OnReadRelease, OnReadClose, CheckDeadline, OnWriteBegin, OnWriteEnd,
     CloseStep, CloseTimer, CloseUnlock, AgentBegin, AgentLock, AgentBusy, AgentWrite, Lose, vars
<1>2. \A f \in Code, k \in Nat : Ahead(f, k)' => Ahead(f, k)
  BY <1>1 DEF Ahead
<1>3. CASE /\ Expire \/ SalveStep \/ OnReadError \/ OnReadRelease \/ OnWriteBegin
              \/ AgentBegin \/ AgentLock \/ AgentBusy \/ UNCHANGED vars
  <2>1. CASE SalveTest
    <3>1. wire' = wire
      BY <2>1 DEF SalveTest
    <3>2. released' = (released \/ InUse) \/ released' = released
      BY <2>1, Zenon DEF SalveTest
    <3>3. released => released'
      BY <3>2, Zenon
    <3> QED
      BY <1>0, <1>1, <1>2, <3>1, <3>3, FiledKept
  <2>2. CASE wire' = wire /\ released' = released
    BY <1>0, <1>1, <1>2, <2>2, FiledKept
  <2> QED
    BY <1>3, <2>1, <2>2 DEF SalveStep, Expire, SalveFlag, SalveRelease, OnReadError,
       OnReadRelease, OnWriteBegin, AgentBegin, AgentLock, AgentBusy, vars
<1>4. CASE CheckDeadline \/ OnReadClose \/ OnWriteEnd
  <2>1. released' = released
    BY <1>4 DEF CheckDeadline, OnReadClose, OnWriteEnd
  <2>2. ~released => wire' = wire \/ wire' = <<>>
    BY <1>4, CloseWire DEF CheckDeadline, OnReadClose, OnWriteEnd, FiledInv, LineInv
  <2>3. CASE released
    BY <2>1, <2>3 DEF Filed
  <2>4. CASE ~released
    BY <1>0, <1>1, <1>2, <2>1, <2>2, <2>4, FiledKept
  <2> QED
    BY <2>3, <2>4
<1>7. CASE CloseStep
  <2>1. wire' = wire
    BY <1>7 DEF CloseStep, CloseTimer, CloseUnlock
  <2>2. released' = ((released \/ InUse) \/ SalveHolds) \/ released' = released
    BY <1>7, Zenon DEF CloseStep, CloseTimer, CloseUnlock
  <2>3. released => released'
    BY <2>2, Zenon
  <2> QED
    BY <1>0, <1>1, <1>2, <2>1, <2>3, FiledKept
<1>5. CASE AgentWrite
  <2>1. agent = "locked" /\ released' = released
    BY <1>5 DEF AgentWrite
  <2>2. ~released => wire = <<>>
    BY <2>1 DEF FiledInv, LineInv, LineDiscipline, AgentHolds, WireHolds
  <2>3. [dev |-> opDev, fc |-> 0, addr |-> NoAddr] \in Request
    BY <1>0 DEF TypeInv, TypeOK, Request
  <2>4. wire' = wire \/ wire' = Append(wire, [dev |-> opDev, fc |-> 0, addr |-> NoAddr])
    BY <1>5 DEF AgentWrite, Write
  <2>5. ~released => wire' = <<>> \/ wire'[1].fc = 0
    BY <1>0, <2>2, <2>3, <2>4, WireAppend
  <2> QED
    BY <1>0, <1>1, <1>2, <2>1, <2>5, FiledKept DEF Filed
<1>6. CASE Lose
  <2>1. wire # <<>> /\ wire' = Tail(wire) /\ released' = released
    BY <1>6 DEF Lose
  <2>2. ~released => wire' = <<>>
    BY <1>0, <2>1, WireOne DEF FiledInv, LineInv, LineDiscipline
  <2> QED
    BY <1>0, <1>1, <1>2, <2>1, <2>2, FiledKept DEF Filed
<1> QED
  BY <1>3, <1>4, <1>5, <1>6, <1>7 DEF OnWriteStep, AgentStep

LEMMA FiledInvariant == Spec => []FiledInv
<1>1. Init => FiledInv
  BY LineInit, FiledInit DEF FiledInv
<1>2. FiledInv /\ [Next]_vars => FiledInv'
  <2>1. LineInv /\ [Next]_vars => LineInv'
    BY TypeStep, CursorStep, LineStep, SyncStep DEF LineInv
  <2>2. FiledInv /\ [Next]_vars => Filed'
    BY FiledPoll, FiledParse, FiledUpload, FiledRest DEF Next
  <2> QED
    BY <2>1, <2>2 DEF FiledInv
<1> QED
  BY <1>1, <1>2, PTL DEF Spec
-----------------------------------------------------------------------------
(* The counts that sendMsg compares: as many readings as places are one for  *)
(* each place.                                                               *)
OfCode(v, f) == {i \in 1..Len(v) : v[i].fc = f}

OfAddress(v, f, a) == {i \in 1..Len(v) : v[i].fc = f /\ v[i].addr = a}

PlacesOf(d, f, a) == {k \in 1..Len(Plan[d][f]) : Plan[d][f][k] = a}

LEMMA OnePerPlace ==
    ASSUME NEW d \in 1..NDev, NEW v \in Seq(Reading), NEW pos, Placed(d, v, pos),
           NEW f \in Code,
           Cardinality(OfCode(v, f)) = Len(Plan[d][f])
    PROVE  /\ \A k \in 1..Len(Plan[d][f]) : \E i \in 1..Len(v) : v[i].fc = f /\ pos[i] = k
           /\ \A a : Cardinality(OfAddress(v, f, a)) = Cardinality(PlacesOf(d, f, a))
<1> DEFINE N == Len(Plan[d][f])
           S == OfCode(v, f)
           g == [i \in S |-> pos[i]]
<1>0. N \in Nat
  BY PlanType
<1>1. N \in Nat /\ IsFiniteSet(1..N) /\ Cardinality(1..N) = N
  <2> HIDE DEF N
  <2>1. 1 \in Int /\ N \in Int
    BY <1>0
  <2>2. /\ IsFiniteSet(1..N)
        /\ Cardinality(1..N) = IF 1 > N THEN 0 ELSE N - 1 + 1
    BY <2>1, FS_Interval
  <2> QED
    BY <1>0, <2>2
<1>2. g \in Injection(S, 1..N)
  <2>1. ASSUME NEW i \in S PROVE i \in 1..Len(v) /\ v[i].fc = f /\ pos[i] \in 1..N
    <3>1. i \in 1..Len(v) /\ v[i].fc = f
      BY DEF OfCode
    <3> QED
      BY <3>1 DEF Placed
  <2>2. ASSUME NEW i \in S, NEW j \in S, pos[i] = pos[j] PROVE i = j
    BY <2>1, <2>2 DEF Placed
  <2> HIDE DEF S, N
  <2> QED
    BY <2>1, <2>2 DEF Injection, IsInjective
<1>3. g \in Surjection(S, 1..N)
  <2> HIDE DEF S, g, N
  <2>1. Cardinality(S) = N
    BY DEF S, N
  <2> QED
    BY <1>1, <1>2, <2>1, FS_Injection
<1>4. ASSUME NEW k \in 1..N PROVE \E i \in 1..Len(v) : v[i].fc = f /\ pos[i] = k
  BY <1>3 DEF Surjection, OfCode
<1>5. ASSUME NEW a
      PROVE  Cardinality(OfAddress(v, f, a)) = Cardinality(PlacesOf(d, f, a))
  <2> DEFINE U == OfAddress(v, f, a)
             T == PlacesOf(d, f, a)
             h == [i \in U |-> pos[i]]
  <2>1. IsFiniteSet(T)
    <3>1. T \in SUBSET (1..N)
      BY DEF PlacesOf
    <3> QED
      BY <1>1, <3>1, FS_Subset
  <2>2. h \in Injection(U, T)
    <3>1. ASSUME NEW i \in U
          PROVE  i \in 1..Len(v) /\ v[i].fc = f /\ pos[i] \in T
      <4>1. i \in 1..Len(v) /\ v[i].fc = f /\ v[i].addr = a
        BY DEF OfAddress
      <4> QED
        BY <4>1 DEF Placed, PlacesOf
    <3>2. ASSUME NEW i \in U, NEW j \in U, pos[i] = pos[j] PROVE i = j
      BY <3>1, <3>2 DEF Placed
    <3> HIDE DEF U, T
    <3> QED
      BY <3>1, <3>2 DEF Injection, IsInjective
  <2>3. h \in Surjection(U, T)
    <3>1. ASSUME NEW k \in T PROVE \E i \in U : h[i] = k
      <4>1. k \in 1..N /\ Plan[d][f][k] = a
        BY DEF PlacesOf
      <4>2. PICK i \in 1..Len(v) : v[i].fc = f /\ pos[i] = k
        BY <1>4, <4>1
      <4>3. v[i].addr = a
        BY <4>1, <4>2 DEF Placed
      <4> QED
        BY <4>2, <4>3 DEF OfAddress
    <3>2. h \in [U -> T]
      BY <2>2 DEF Injection
    <3> QED
      BY <3>1, <3>2 DEF Surjection
  <2> HIDE DEF U, T, h
  <2>4. Cardinality(U) = Cardinality(T)
    BY <2>1, <2>2, <2>3, FS_Injection
  <2> QED
    BY <2>4 DEF U, T
<1> QED
  BY <1>4, <1>5

Known == {<<vals[i].fc, vals[i].actual>> : i \in 1..Len(vals)}

(* When the counts agree the report is complete and has nothing twice.       *)
LEMMA CompleteIsWhole ==
    ASSUME FiledInv, ~released, Complete
    PROVE  /\ \A f \in Code : \A i \in 1..Len(Plan[curDev][f]) :
                Cardinality({j \in 1..Len(vals) :
                               vals[j].fc = f /\ vals[j].actual = Plan[curDev][f][i]})
                  = Cardinality({j \in 1..Len(Plan[curDev][f]) :
                               Plan[curDev][f][j] = Plan[curDev][f][i]})
           /\ Known = RangesOf[curDev]
<1>1. PICK pos \in [1..Len(vals) -> Nat] : Placed(curDev, vals, pos)
  BY DEF FiledInv, Filed, FiledAt
<1>2. curDev \in 1..NDev
  BY NDevType DEF Complete, FiledInv, LineInv, TypeInv, TypeOK, Dev
<1>3. /\ vals \in Seq(Reading)
      /\ \A i \in 1..Len(vals) : vals[i].fc \in Code /\ vals[i].addr = vals[i].actual
  BY ReadingType DEF FiledInv, LineInv, Sync
<1>4. \A f \in Code : Cardinality(OfCode(vals, f)) = Len(Plan[curDev][f])
  BY DEF Complete, Count, OfCode
<1>5. ASSUME NEW f \in Code
      PROVE  /\ \A k \in 1..Len(Plan[curDev][f]) :
                  \E i \in 1..Len(vals) : vals[i].fc = f /\ pos[i] = k
             /\ \A a : Cardinality(OfAddress(vals, f, a)) = Cardinality(PlacesOf(curDev, f, a))
  BY <1>1, <1>2, <1>3, <1>4, OnePerPlace
<1>6. ASSUME NEW f \in Code, NEW i \in 1..Len(Plan[curDev][f])
      PROVE  Cardinality({j \in 1..Len(vals) :
                            vals[j].fc = f /\ vals[j].actual = Plan[curDev][f][i]})
               = Cardinality({j \in 1..Len(Plan[curDev][f]) :
                            Plan[curDev][f][j] = Plan[curDev][f][i]})
  <2> DEFINE a == Plan[curDev][f][i]
  <2>1. {j \in 1..Len(vals) : vals[j].fc = f /\ vals[j].actual = a} = OfAddress(vals, f, a)
    BY <1>3 DEF OfAddress
  <2>2. {j \in 1..Len(Plan[curDev][f]) : Plan[curDev][f][j] = a} = PlacesOf(curDev, f, a)
    BY DEF PlacesOf
  <2>3. Cardinality(OfAddress(vals, f, a)) = Cardinality(PlacesOf(curDev, f, a))
    BY <1>5
  <2> QED
    BY <2>1, <2>2, <2>3, Zenon
<1>7. RangesOf[curDev] = UNION {{<<f, Plan[curDev][f][i]>> : i \in 1..Len(Plan[curDev][f])} : f \in Code}
  BY <1>2, NDevType DEF RangesOf, Dev
<1>8. ASSUME NEW x PROVE x \in RangesOf[curDev] <=>
         \E f \in Code : \E k \in 1..Len(Plan[curDev][f]) : x = <<f, Plan[curDev][f][k]>>
  BY <1>7
<1>9. Known \subseteq RangesOf[curDev]
  <2>1. ASSUME NEW i \in 1..Len(vals)
        PROVE  <<vals[i].fc, vals[i].actual>> \in RangesOf[curDev]
    <3>1. /\ vals[i].fc \in Code /\ pos[i] \in 1..Len(Plan[curDev][vals[i].fc])
          /\ Plan[curDev][vals[i].fc][pos[i]] = vals[i].actual
      BY <1>1, <1>3 DEF Placed
    <3> QED
      BY <1>8, <3>1
  <2> QED
    BY <2>1 DEF Known
<1>10. ASSUME NEW f \in Code, NEW k \in 1..Len(Plan[curDev][f])
       PROVE  <<f, Plan[curDev][f][k]>> \in Known
  <2>1. PICK i \in 1..Len(vals) : vals[i].fc = f /\ pos[i] = k
    BY <1>5
  <2>2. vals[i].actual = Plan[curDev][f][k]
    BY <1>1, <1>3, <2>1 DEF Placed
  <2> QED
    BY <2>1, <2>2 DEF Known
<1>11. RangesOf[curDev] \subseteq Known
  <2> SUFFICES ASSUME NEW x \in RangesOf[curDev] PROVE x \in Known
    OBVIOUS
  <2>1. PICK f \in Code : \E k \in 1..Len(Plan[curDev][f]) : x = <<f, Plan[curDev][f][k]>>
    BY <1>8
  <2> QED
    BY <1>10, <2>1
<1> QED
  BY <1>6, <1>9, <1>11

(* What sendMsg uploads for a device, when its counts agree, is one value of *)
(* each range of its template and no range twice, until a timeout or a close *)
(* has freed _mutex under a request.                                         *)
THEOREM UploadsEachRangeOnce == Spec => UploadFaithful
<1>1. FiledInv /\ [Next]_vars =>
        [~released /\ OnReadUpload /\ Complete =>
           \A f \in Code : \A i \in 1..Len(Plan[curDev][f]) :
              Cardinality({j \in 1..Len(vals) :
                              vals[j].fc = f /\ vals[j].actual = Plan[curDev][f][i]})
                = Cardinality({j \in 1..Len(Plan[curDev][f]) :
                              Plan[curDev][f][j] = Plan[curDev][f][i]})]_vars
  BY CompleteIsWhole
<1> QED
  BY <1>1, FiledInvariant, PTL DEF Spec, UploadFaithful

LEMMA ReportInit == Init => Report!Init
<1> SUFFICES ASSUME Init PROVE Report!Init
  OBVIOUS
<1>1. vals = <<>> /\ curDev = 0 /\ ~released /\ Len(vals) = 0
  BY DEF Init
<1>2. {<<vals[i].fc, vals[i].actual>> : i \in 1..Len(vals)} = {}
  BY <1>1
<1>3. curDev \in Dev
  BY <1>1, NDevType DEF Dev
<1> QED
  BY <1>1, <1>2, <1>3 DEF Report!Init

LEMMA Bystanders ==
    ASSUME [Next]_vars
    PROVE  \/ Select \/ OnReadUpload \/ OnReadParse
           \/ released' \/ (UNCHANGED <<vals, curDev>> /\ ~released)
<1> USE DEF currVars, pollVars, ioVars, agentVars, sockVars, timerVars
<1>1. CASE PollStep
  BY <1>1 DEF PollStep, Wake, Gate, GateOpen, CheckClose, Reset, NextDevice, Lock, Skip,
     Prepare, CheckClosePoint, Send
<1>2. CASE SalveTest
  <2>1. UNCHANGED <<vals, curDev>>
    BY <1>2 DEF SalveTest
  <2>2. released' = (released \/ InUse) \/ released' = released
    BY <1>2, Zenon DEF SalveTest
  <2>3. released' \/ ~released
    BY <2>2, Zenon
  <2> QED
    BY <2>1, <2>3
<1>3. CASE CheckDeadline \/ OnReadClose \/ OnWriteEnd
  BY <1>3 DEF CheckDeadline, OnReadClose, OnWriteEnd
<1>5. CASE CloseStep
  <2>1. UNCHANGED <<vals, curDev>>
    BY <1>5 DEF CloseStep, CloseTimer, CloseUnlock
  <2>2. released' = ((released \/ InUse) \/ SalveHolds) \/ released' = released
    BY <1>5, Zenon DEF CloseStep, CloseTimer, CloseUnlock
  <2>3. released' \/ ~released
    BY <2>2, Zenon
  <2> QED
    BY <2>1, <2>3
<1>4. CASE \/ Expire \/ SalveFlag \/ SalveRelease \/ OnReadError \/ OnReadRelease
           \/ OnWriteBegin \/ AgentBegin \/ AgentStep \/ Lose \/ UNCHANGED vars
  BY <1>4 DEF Expire, SalveFlag, SalveRelease, OnReadError, OnReadRelease, OnWriteBegin,
     AgentBegin, AgentStep, AgentLock, AgentBusy, AgentWrite, Lose, vars
<1> QED
  BY <1>1, <1>2, <1>3, <1>4, <1>5 DEF Next, SalveStep, OnWriteStep

(* Every step of the session is a step of the report, or none.               *)
LEMMA ReportNext ==
    FiledInv /\ FiledInv' /\ [Next]_vars => [Report!Next]_(Report!vars)
<1> SUFFICES ASSUME FiledInv, FiledInv', [Next]_vars
             PROVE  [Report!Next]_(Report!vars)
  OBVIOUS
<1>1. /\ vals \in Seq(Reading) /\ curDev \in Dev /\ curDev' \in Dev
      /\ released \in BOOLEAN /\ released' \in BOOLEAN
  <2>1. TypeOK /\ TypeOK'
    BY DEF FiledInv, LineInv, TypeInv
  <2>2. Dev' = Dev
    BY DEF Dev
  <2> QED
    BY <2>1, <2>2 DEF TypeOK
<1>2. ASSUME UNCHANGED <<vals, curDev, released>> PROVE UNCHANGED Report!vars
  BY <1>2 DEF Report!vars
<1>3. CASE released'
  BY <1>1, <1>3 DEF Report!Next, Report!Disturb
<1>4. CASE ~released' /\ Select
  <2>1. vals' = <<>> /\ Len(vals') = 0
    BY <1>4 DEF Select
  <2>2. {<<vals[i].fc, vals[i].actual>> : i \in 1..Len(vals)}' = {}
    BY <2>1
  <2> QED
    BY <1>1, <1>4, <2>2 DEF Report!Next, Report!Begin
<1>5. CASE ~released' /\ OnReadUpload
  <2>1. released' = released /\ curDev' = curDev
    BY <1>5 DEF OnReadUpload, currVars
  <2>2. CASE ~Complete
    BY <1>2, <1>5, <2>1, <2>2 DEF OnReadUpload
  <2>3. CASE Complete
    <3>1. Known = RangesOf[curDev]
      BY <1>5, <2>1, <2>3, CompleteIsWhole
    <3>2. vals' = <<>> /\ Len(vals') = 0
      BY <1>5, <2>3 DEF OnReadUpload
    <3>3. {<<vals[i].fc, vals[i].actual>> : i \in 1..Len(vals)}' = {}
      BY <3>2
    <3> QED
      BY <1>5, <2>1, <3>1, <3>3 DEF Report!Next, Report!Report, Known
  <2> QED
    BY <2>2, <2>3
<1>6. CASE ~released' /\ OnReadParse
  <2>1. released' = released /\ curDev' = curDev /\ wire # <<>>
    BY <1>6 DEF OnReadParse, currVars
  <2>2. CASE vals' = vals
    BY <1>2, <2>1, <2>2
  <2>3. CASE vals' # vals
    <3> DEFINE r == Head(wire)
               v == [fc |-> r.fc, addr |-> curAddr, actual |-> r.addr]
               n == Len(vals)
    <3>1. /\ r = wire[1] /\ r \in Request /\ r.fc # 0 /\ r.fc \in Code
          /\ InBlock(curDev, r.fc, curAddr) /\ vals' = Append(vals, v)
      <4>1. r.fc # 0 /\ InBlock(curDev, r.fc, curAddr) /\ vals' = Append(vals, v)
        BY <1>6, <2>3 DEF OnReadParse, Code
      <4>2. wire \in Seq(Request)
        BY ReadingType DEF FiledInv, LineInv
      <4> QED
        BY <2>1, <4>1, <4>2, FirstRequest
    <3>2. r.addr = curAddr
      <4>1. Len(wire) \in Nat \ {0}
        BY <2>1, ReadingType, EmptySeq DEF FiledInv, LineInv
      <4>2. Matches(wire[1])
        BY <1>6, <2>1, <4>1 DEF FiledInv, LineInv, Sync, CommentReplyInSync
      <4> QED
        BY <3>1, <4>2 DEF Matches
    <3>3. <<r.fc, r.addr>> \in RangesOf[curDev]
      <4>1. curDev # 0
        BY <3>1 DEF InBlock
      <4>2. \E i \in 1..Len(Plan[curDev][r.fc]) : Plan[curDev][r.fc][i] = r.addr
        BY <3>1, <3>2 DEF InBlock
      <4>3. RangesOf[curDev] = UNION {{<<f, Plan[curDev][f][i]>> : i \in 1..Len(Plan[curDev][f])} : f \in Code}
        BY <1>1, <4>1 DEF RangesOf
      <4> QED
        BY <3>1, <4>2, <4>3
    <3>4. v \in Reading
      <4>1. curAddr \in Addr \cup {NoAddr}
        BY DEF FiledInv, LineInv, TypeInv, TypeOK
      <4> QED
        BY <3>1, <4>1 DEF Reading, Request
    <3>5. /\ n \in Nat /\ Len(vals') = n + 1 /\ vals'[n + 1] = v
          /\ \A i \in 1..n : vals'[i] = vals[i]
      BY <1>1, <3>1, <3>4, AppendProperties
    <3>6. v.fc = r.fc /\ v.actual = r.addr
      OBVIOUS
    <3>7. Known' = Known \cup {<<r.fc, r.addr>>}
      <4> HIDE DEF v, r
      <4>1. \A i \in 1..n + 1 : i \in 1..n \/ i = n + 1
        BY <3>5
      <4>2. n + 1 \in 1..n + 1 /\ \A i \in 1..n : i \in 1..n + 1
        BY <3>5
      <4>3. Known' = {<<vals'[i].fc, vals'[i].actual>> : i \in 1..n + 1}
        BY <3>5 DEF Known
      <4> QED
        BY <3>5, <3>6, <4>1, <4>2, <4>3 DEF Known
    <3>8. CASE <<r.fc, r.addr>> \in Known
      <4>1. Known' = Known
        BY <3>7, <3>8
      <4> QED
        BY <2>1, <4>1 DEF Known, Report!vars
    <3>9. CASE <<r.fc, r.addr>> \notin Known
      <4>1. <<r.fc, r.addr>> \in RangesOf[curDev] \ Known
        BY <3>3, <3>9
      <4> QED
        BY <1>6, <2>1, <3>7, <4>1 DEF Known, Report!Next, Report!Learn
    <3> QED
      BY <3>8, <3>9
  <2> QED
    BY <2>2, <2>3
<1> QED
  BY <1>1, <1>2, <1>3, <1>4, <1>5, <1>6, Bystanders

(* What template_msg collects in a sweep is what DeviceReport promises: true *)
(* values of ranges of the device that is polled, all of them and from this  *)
(* sweep when they are uploaded, and no promise from a timeout or a close    *)
(* that frees _mutex under a request until the next device.                  *)
THEOREM ReportsAsPromised == Spec => ReportSpec
<1> QED
  BY ReportInit, ReportNext, FiledInvariant, PTL DEF Spec, ReportSpec, Report!Spec
=============================================================================
