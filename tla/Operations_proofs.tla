-------------------------- MODULE Operations_proofs --------------------------
(* Proofs about Operations, for any number of sessions, DTUs and operations. *)
EXTENDS Operations, TLAPS

HttpType ==
    /\ io \in [Sess -> {"idle", "reg", "did", "sid", "kids", "data"}]
    /\ http \in [Sess -> {"null", "pool", "agent"}]

HttpInv == HttpType /\ HandlerHasHttp

LEMMA HttpSession ==
    ASSUME NEW s \in Sess, HttpInv, SessionStep(s)
    PROVE  HttpInv'
<1> USE DEF HttpInv, HttpType, HandlerHasHttp
<1>1. CASE Connect(s) \/ OnReadBegin(s)
  BY <1>1 DEF Connect, OnReadBegin
<1>2. CASE LoadKids(s) \/ OnReadEnd(s)
  BY <1>2 DEF LoadKids, OnReadEnd
<1>3. CASE GetRate(s) \/ SetDid(s) \/ SetSid(s)
  BY <1>3 DEF GetRate, SetDid, SetSid
<1>4. CASE PollLock(s) \/ CloseBegin(s) \/ CloseEnd(s)
  BY <1>4 DEF PollLock, CloseBegin, CloseEnd
<1> QED
  BY <1>1, <1>2, <1>3, <1>4 DEF SessionStep

LEMMA HttpStep == HttpInv /\ [Next]_vars => HttpInv'
<1> SUFFICES ASSUME HttpInv, [Next]_vars PROVE HttpInv'
  OBVIOUS
<1>1. CASE UNCHANGED <<io, http>>
  BY <1>1 DEF HttpInv, HttpType, HandlerHasHttp
<1>2. CASE AddDevice
  BY <1>2 DEF AddDevice, HttpInv, HttpType, HandlerHasHttp
<1>3. CASE Arrival \/ (AgentStep /\ ~AddDevice)
  BY <1>1, <1>3 DEF Arrival, BeginSet, BeginAdd, BeginRate, AgentStep, Scan, ScanEnd,
     TryLock, Busy, SetValue, Write, GetModel, ForgetHttp, SetInterval, TellRate,
     sessVars
<1> QED
  BY <1>1, <1>2, <1>3, HttpSession DEF Next, vars, sessVars

(* A handler never loses its connection to the platform, although the agent  *)
(* thread puts its own in the same place.                                    *)
THEOREM HandlersKeepHttp == Spec => []HandlerHasHttp
<1>1. Init => HttpInv
  BY DEF Init, HttpInv, HttpType, HandlerHasHttp
<1>2. HttpInv => HandlerHasHttp
  BY DEF HttpInv
<1> QED
  BY <1>1, <1>2, HttpStep, PTL DEF Spec

-----------------------------------------------------------------------------
RateType ==
    /\ conn \in [Sess -> {"new", "up", "leaving", "closed"}]
    /\ dtu \in [Sess -> Dtu \cup {Absent}]
    /\ io \in [Sess -> {"idle", "reg", "did", "sid", "kids", "data"}]
    /\ rate \in [Sess -> Rates]
    /\ sidTo \in [Dtu -> Sess \cup {Absent}]
    /\ told \in [Dtu -> Rates] /\ want \in Rates /\ untold \subseteq Dtu
    /\ at \in {"rate", "tell"} => goal \in Dtu

Open(s) == conn[s] \in {"up", "leaving"}

(* A session in sid_to_cs is open, has registered, and is under its name.    *)
Named ==
    /\ \A s \in Sess : io[s] # "idle" => conn[s] = "up"
    /\ \A s \in Sess : conn[s] # "new" => dtu[s] \in Dtu
    /\ \A d \in Dtu : \A s \in Sess : sidTo[d] = s =>
         dtu[s] = d /\ Open(s) /\ io[s] \notin {"reg", "did", "sid"}

(* A DTU with two open sessions has moved.                                   *)
Single ==
    \A s, t \in Sess : s # t /\ dtu[s] = dtu[t] /\ Open(s) /\ Open(t)
        => dtu[s] \in moved

(* A session that is registering has the rate of the platform already, unless *)
(* the platform did not get it.                                              *)
Asked ==
    \A s \in Sess : io[s] \in {"did", "sid"} /\ dtu[s] \notin moved \cup untold
        => rate[s] = told[dtu[s]]

(* Before the platform is told the rate, the session has it.                 *)
Telling ==
    at = "tell" /\ goal \notin moved
        => sidTo[goal] # Absent /\ rate[sidTo[goal]] = want

RateInv == RateType /\ Named /\ Single /\ Asked /\ Telling /\ RatesAgree

LEMMA Constants == Absent \notin Sess /\ Default \in Rates
  BY OperationsAssumption

LEMMA Working ==
    ASSUME NEW s \in Sess, RateInv, io[s] # "idle"
    PROVE  conn[s] = "up" /\ dtu[s] \in Dtu
<1>1. conn[s] = "up"
  BY DEF RateInv, Named
<1> QED
  BY <1>1 DEF RateInv, Named

LEMMA RateInit == Init => RateInv
  BY Constants DEF Init, RateInv, RateType, Named, Single, Asked, Telling,
     RatesAgree, Open

LEMMA ConnectRate ==
    ASSUME NEW s \in Sess, RateInv, Connect(s)
    PROVE  RateInv'
<1> USE DEF RateInv, RateType, Named, Single, Asked, Telling, RatesAgree, Open
<1>1. PICK d \in Dtu :
        /\ dtu' = [dtu EXCEPT ![s] = d]
        /\ moved' = IF at # "idle" \/ \E t \in Sess : dtu[t] = d /\ conn[t] # "closed"
                    THEN moved \cup {d} ELSE moved
  BY DEF Connect
<1>2. /\ conn[s] = "new" /\ conn' = [conn EXCEPT ![s] = "up"]
      /\ io' = [io EXCEPT ![s] = "reg"]
      /\ UNCHANGED <<rate, sidTo, told, untold, at, goal, want>>
  BY DEF Connect, mapVars, platVars, opVars, agentVars
<1>3. /\ RateType'
      /\ \A t \in Sess \ {s} : conn'[t] = conn[t] /\ dtu'[t] = dtu[t] /\ io'[t] = io[t]
      /\ conn'[s] = "up" /\ dtu'[s] = d /\ io'[s] = "reg"
  BY <1>1, <1>2
<1>4. \A e \in Dtu : sidTo[e] # s
  BY <1>2
<1>5. Named'
  BY <1>2, <1>3, <1>4
<1>6. Single'
  BY <1>1, <1>3
<1>7. Asked' /\ Telling' /\ RatesAgree'
  BY <1>1, <1>2, <1>3
<1> QED
  BY <1>3, <1>5, <1>6, <1>7

LEMMA GetRateRate ==
    ASSUME NEW s \in Sess, RateInv, GetRate(s)
    PROVE  RateInv'
<1> USE DEF RateInv, RateType, Named, Single, Asked, Telling, RatesAgree, Open
<1>1. /\ io[s] = "reg" /\ io' = [io EXCEPT ![s] = "did"]
      /\ UNCHANGED <<conn, dtu, sidTo, at, goal, want>>
  BY DEF GetRate, mapVars, opVars, agentVars
<1>2. dtu[s] \in Dtu /\ told[dtu[s]] \in Rates /\ \A e \in Dtu : sidTo[e] # s
  <2>1. dtu[s] \in Dtu
    BY <1>1, Working
  <2> QED
    BY <1>1, <2>1
<1>3. /\ moved \subseteq moved'
      /\ at # "idle" => dtu[s] \in moved'
      /\ \A t \in Sess \ {s} : rate'[t] = rate[t] /\ io'[t] = io[t]
      /\ \A e \in Dtu \ {dtu[s]} : told'[e] = told[e] /\ (e \in untold' <=> e \in untold)
      /\ io'[s] = "did" /\ RateType'
  BY <1>1, <1>2, OperationsAssumption DEF GetRate, Tell, Moves
<1>4. rate'[s] = told'[dtu[s]] \/ dtu[s] \in untold'
  BY <1>1, <1>2, OperationsAssumption DEF GetRate, Tell
<1>5. conn[s] = "up"
  BY <1>1, Working
<1>6. \A t \in Sess \ {s} : Open(t) /\ dtu[t] = dtu[s] => dtu[s] \in moved
  BY <1>5
<1>7. Named'
  BY <1>1, <1>2, <1>3
<1>8. Single'
  BY <1>1, <1>3
<1>9. Asked'
  <2>1. SUFFICES ASSUME NEW t \in Sess, io'[t] \in {"did", "sid"}, dtu'[t] \notin moved' \cup untold'
                 PROVE  rate'[t] = told'[dtu'[t]]
    OBVIOUS
  <2>2. CASE t = s
    BY <1>1, <1>4, <2>1, <2>2
  <2>3. CASE t # s
    <3>1. io[t] \in {"did", "sid"} /\ dtu[t] \notin moved /\ conn[t] = "up"
      BY <1>1, <1>3, <2>1, <2>3, Working
    <3>2. dtu[t] # dtu[s] /\ dtu[t] \in Dtu
      BY <1>6, <2>3, <3>1, Working
    <3>3. dtu[t] \notin untold
      BY <1>1, <1>3, <2>1, <3>2
    <3> QED
      BY <1>1, <1>3, <2>3, <3>1, <3>2, <3>3
  <2> QED
    BY <2>2, <2>3
<1>10. RatesAgree'
  <2>1. SUFFICES ASSUME NEW d \in Dtu, sidTo[d] # Absent, d \notin moved' \cup untold',
                        ~(at = "tell" /\ goal = d)
                 PROVE  rate'[sidTo[d]] = told'[d]
    BY <1>1
  <2>2. /\ sidTo[d] \in Sess /\ sidTo[d] # s /\ d \notin moved
        /\ dtu[sidTo[d]] = d /\ Open(sidTo[d])
    BY <1>2, <1>3, <2>1
  <2>3. d # dtu[s]
    BY <1>6, <2>2
  <2> QED
    BY <1>3, <2>1, <2>2, <2>3
<1>11. Telling'
  BY <1>1, <1>2, <1>3
<1> QED
  BY <1>3, <1>7, <1>8, <1>9, <1>10, <1>11

LEMMA SetSidRate ==
    ASSUME NEW s \in Sess, RateInv, SetSid(s)
    PROVE  RateInv'
<1> USE DEF RateInv, RateType, Named, Single, Asked, Telling, RatesAgree, Open
<1>1. /\ io[s] = "sid" /\ io' = [io EXCEPT ![s] = "kids"]
      /\ sidTo' = [sidTo EXCEPT ![dtu[s]] = s]
      /\ moved' = IF at # "idle" THEN moved \cup {dtu[s]} ELSE moved
      /\ UNCHANGED <<conn, dtu, rate, told, untold, at, goal, want>>
  BY DEF SetSid, Moves, platVars, opVars, agentVars
<1>2. /\ RateType'
      /\ \A t \in Sess \ {s} : io'[t] = io[t]
      /\ io'[s] = "kids"
      /\ \A d \in Dtu : sidTo'[d] = IF d = dtu[s] THEN s ELSE sidTo[d]
  <2>1. io' \in [Sess -> {"idle", "reg", "did", "sid", "kids", "data"}]
    BY <1>1
  <2>2. /\ \A t \in Sess \ {s} : io'[t] = io[t]
        /\ io'[s] = "kids"
    BY <1>1
  <2>3. sidTo' \in [Dtu -> Sess \cup {Absent}]
    BY <1>1
  <2>4. \A d \in Dtu : sidTo'[d] = IF d = dtu[s] THEN s ELSE sidTo[d]
    BY <1>1
  <2> QED
    BY <1>1, <2>1, <2>2, <2>3, <2>4
<1>3. Named' /\ Single' /\ Asked'
  <2>1. conn[s] = "up" /\ dtu[s] \in Dtu
    BY <1>1, Working
  <2>2. Named'
    BY <1>1, <1>2, <2>1
  <2>3. Single' /\ Asked'
    BY <1>1, <1>2
  <2> QED
    BY <2>2, <2>3
<1>4. Telling' /\ RatesAgree'
  BY <1>1, <1>2
<1> QED
  BY <1>2, <1>3, <1>4

LEMMA CloseEndRate ==
    ASSUME NEW s \in Sess, RateInv, CloseEnd(s)
    PROVE  RateInv'
<1> USE Constants DEF RateInv, RateType, Named, Single, Asked, Telling, RatesAgree, Open
<1>1. /\ io[s] = "idle" /\ conn' = [conn EXCEPT ![s] = "closed"]
      /\ sidTo' = [sidTo EXCEPT ![dtu[s]] = Absent]
      /\ moved' = IF at # "idle" THEN moved \cup {dtu[s]} ELSE moved
      /\ UNCHANGED <<io, dtu, rate, told, untold, at, goal, want>>
  BY DEF CloseEnd, Moves, platVars, opVars, agentVars
<1>2. /\ RateType'
      /\ \A t \in Sess \ {s} : conn'[t] = conn[t]
      /\ conn'[s] = "closed"
      /\ \A d \in Dtu : sidTo'[d] = IF d = dtu[s] THEN Absent ELSE sidTo[d]
  <2>1. conn' \in [Sess -> {"new", "up", "leaving", "closed"}]
    BY <1>1
  <2>2. /\ \A t \in Sess \ {s} : conn'[t] = conn[t]
        /\ conn'[s] = "closed"
    BY <1>1
  <2>3. sidTo' \in [Dtu -> Sess \cup {Absent}]
    BY <1>1
  <2>4. \A d \in Dtu : sidTo'[d] = IF d = dtu[s] THEN Absent ELSE sidTo[d]
    BY <1>1
  <2> QED
    BY <1>1, <2>1, <2>2, <2>3, <2>4
<1>3. Named' /\ Single' /\ Asked'
  BY <1>1, <1>2
<1>4. Telling' /\ RatesAgree'
  BY <1>1, <1>2
<1> QED
  BY <1>2, <1>3, <1>4

(* The other actions of a session, which change neither names nor rates.     *)
LEMMA SessionRate ==
    ASSUME NEW s \in Sess, RateInv,
           \/ SetDid(s) \/ LoadKids(s) \/ OnReadBegin(s) \/ OnReadEnd(s)
           \/ PollLock(s) \/ CloseBegin(s)
    PROVE  RateInv'
<1> USE DEF RateInv, RateType, Named, Single, Asked, Telling, RatesAgree, Open
<1>1. UNCHANGED <<dtu, rate, sidTo, told, untold, at, goal, want>>
  BY DEF SetDid, LoadKids, OnReadBegin, OnReadEnd, PollLock, CloseBegin, mapVars,
         platVars, opVars, agentVars
<1>2. moved \subseteq moved'
  BY DEF SetDid, LoadKids, OnReadBegin, OnReadEnd, PollLock, CloseBegin, Moves
<1>3. /\ conn' \in [Sess -> {"new", "up", "leaving", "closed"}]
      /\ io' \in [Sess -> {"idle", "reg", "did", "sid", "kids", "data"}]
      /\ \A t \in Sess \ {s} : conn'[t] = conn[t] /\ io'[t] = io[t]
  BY DEF SetDid, LoadKids, OnReadBegin, OnReadEnd, PollLock, CloseBegin
<1>4. /\ Open(s)' <=> Open(s)
      /\ io'[s] # "idle" => conn'[s] = "up"
      /\ conn'[s] # "new" => dtu[s] \in Dtu
      /\ io'[s] \in {"reg", "did", "sid"} => io[s] \in {"reg", "did", "sid"}
      /\ io'[s] \in {"did", "sid"} => io[s] \in {"did", "sid"}
  <2>1. CASE SetDid(s)
    BY <2>1, Working DEF SetDid
  <2>2. CASE LoadKids(s) \/ OnReadEnd(s)
    <3>1. io[s] # "idle" /\ io'[s] = "idle" /\ UNCHANGED conn
      BY <2>2 DEF LoadKids, OnReadEnd
    <3> QED
      BY <3>1
  <2>3. CASE OnReadBegin(s) \/ PollLock(s)
    BY <2>3 DEF OnReadBegin, PollLock
  <2>4. CASE CloseBegin(s)
    BY <2>4 DEF CloseBegin
  <2> QED
    BY <2>1, <2>2, <2>3, <2>4
<1>5. Named'
  BY <1>1, <1>3, <1>4
<1>6. Single'
  BY <1>1, <1>2, <1>3, <1>4
<1>7. Asked' /\ Telling' /\ RatesAgree'
  BY <1>1, <1>2, <1>3, <1>4
<1> QED
  BY <1>1, <1>3, <1>5, <1>6, <1>7

(* The agent thread.                                                         *)
LEMMA SetIntervalRate == RateInv /\ SetInterval => RateInv'
<1> SUFFICES ASSUME RateInv, SetInterval PROVE RateInv'
  OBVIOUS
<1> USE DEF RateInv, RateType, Named, Single, Asked, Telling, RatesAgree, Open
<1>1. /\ at = "rate" /\ goal \in Dtu
      /\ UNCHANGED <<conn, dtu, io, sidTo, told, untold, goal, want, moved>>
  BY DEF SetInterval, mapVars, platVars, opVars
<1>2. CASE sidTo[goal] = Absent
  <2>1. at' = "idle" /\ UNCHANGED rate
    BY <1>2 DEF SetInterval, Ends
  <2> QED
    BY <1>1, <2>1
<1>3. CASE sidTo[goal] # Absent
  <2> DEFINE s == sidTo[goal]
  <2>1. s \in Sess /\ at' = "tell" /\ rate' = [rate EXCEPT ![s] = want]
    BY <1>1, <1>3 DEF SetInterval, NewRate
  <2>2. dtu[s] = goal /\ io[s] \notin {"did", "sid"}
    BY <1>1, <2>1
  <2>3. /\ rate' \in [Sess -> Rates] /\ rate'[s] = want
        /\ \A t \in Sess \ {s} : rate'[t] = rate[t]
    BY <2>1
  <2> HIDE DEF s
  <2>4. Named' /\ Single' /\ Asked'
    BY <1>1, <2>1, <2>2, <2>3
  <2>5. Telling'
    BY <1>1, <1>3, <2>1, <2>3 DEF s
  <2>6. RatesAgree'
    BY <1>1, <2>1, <2>2, <2>3
  <2> QED
    BY <1>1, <2>1, <2>3, <2>4, <2>5, <2>6
<1> QED
  BY <1>2, <1>3

LEMMA TellRateRate == RateInv /\ TellRate => RateInv'
<1> SUFFICES ASSUME RateInv, TellRate PROVE RateInv'
  OBVIOUS
<1> USE DEF RateInv, RateType, Named, Single, Asked, Telling, RatesAgree, Open
<1>1. /\ at = "tell" /\ goal \in Dtu /\ at' = "idle"
      /\ told' \in {told, [told EXCEPT ![goal] = want]}
      /\ untold' = IF told'[goal] = want THEN untold \ {goal} ELSE untold \cup {goal}
      /\ UNCHANGED <<conn, dtu, io, rate, sidTo, goal, want, moved>>
  BY DEF TellRate, Tell, Ends, sessVars, mapVars, opVars
<1>2. /\ told' \in [Dtu -> Rates] /\ untold' \subseteq Dtu
      /\ \A d \in Dtu \ {goal} : told'[d] = told[d] /\ (d \in untold' <=> d \in untold)
      /\ goal \in untold' \/ told'[goal] = want
  BY <1>1
<1>3. RatesAgree'
  BY <1>1, <1>2
<1>4. ASSUME NEW s \in Sess, io[s] \in {"did", "sid"}, dtu[s] \notin moved \cup untold'
      PROVE  rate[s] = told'[dtu[s]]
  <2>1. conn[s] = "up" /\ dtu[s] \in Dtu
    BY <1>4, Working
  <2>2. CASE dtu[s] # goal
    BY <1>2, <1>4, <2>1, <2>2
  <2>3. CASE dtu[s] = goal
    <3>1. sidTo[goal] \in Sess
      BY <1>1, <1>4, <2>3
    <3>2. dtu[sidTo[goal]] = goal /\ Open(sidTo[goal]) /\ sidTo[goal] # s
      BY <1>1, <1>4, <3>1
    <3> QED
      BY <1>4, <2>1, <2>3, <3>1, <3>2
  <2> QED
    BY <2>2, <2>3
<1> QED
  BY <1>1, <1>2, <1>3, <1>4

(* The other actions of the agent thread.                                    *)
LEMMA OtherRate ==
    ASSUME RateInv, UNCHANGED <<conn, dtu, io, rate, sidTo, told, untold, moved>>,
           at # "tell", at' # "tell",
           want' \in Rates, at' = "rate" => goal' \in Dtu
    PROVE  RateInv'
BY DEF RateInv, RateType, Named, Single, Asked, Telling, RatesAgree, Open

LEMMA ArrivalRate == RateInv /\ Arrival => RateInv'
<1> SUFFICES ASSUME RateInv, Arrival PROVE RateInv'
  OBVIOUS
<1>1. UNCHANGED <<conn, dtu, io, rate, sidTo, told, untold, moved>> /\ at # "tell"
  BY DEF Arrival, BeginSet, BeginAdd, BeginRate, Begin, sessVars, mapVars, platVars
<1>2. at' # "tell" /\ want' \in Rates /\ (at' = "rate" => goal' \in Dtu)
  BY Constants DEF Arrival, BeginSet, BeginAdd, BeginRate, Begin
<1> QED
  BY <1>1, <1>2, OtherRate

LEMMA AgentRate == RateInv /\ AgentStep => RateInv'
<1> SUFFICES ASSUME RateInv, AgentStep PROVE RateInv'
  OBVIOUS
<1>1. CASE SetInterval \/ TellRate
  BY <1>1, SetIntervalRate, TellRateRate
<1>2. CASE ~(SetInterval \/ TellRate)
  <2>1. /\ UNCHANGED <<conn, dtu, io, rate, sidTo, told, untold, moved, goal, want>>
        /\ at \notin {"rate", "tell"} /\ at' \notin {"rate", "tell"}
    <3>1. CASE Scan \/ ScanEnd \/ TryLock \/ Busy
      BY <3>1 DEF Scan, ScanEnd, TryLock, Busy, Ends, sessVars, mapVars, platVars, opVars
    <3>2. CASE SetValue \/ Write
      BY <3>2 DEF SetValue, Write, Ends, sessVars, mapVars, platVars, opVars
    <3>3. CASE AddDevice \/ GetModel
      BY <3>3 DEF AddDevice, GetModel, Ends, sessVars, mapVars, platVars, opVars
    <3> QED
      BY <1>2, <3>1, <3>2, <3>3 DEF AgentStep
  <2>2. want' \in Rates
    BY <2>1 DEF RateInv, RateType
  <2> QED
    BY <2>1, <2>2, OtherRate
<1> QED
  BY <1>1, <1>2

LEMMA RateStep == RateInv /\ [Next]_vars => RateInv'
<1> SUFFICES ASSUME RateInv, [Next]_vars PROVE RateInv'
  OBVIOUS
<1>1. ASSUME NEW s \in Sess, SessionStep(s) PROVE RateInv'
  BY <1>1, ConnectRate, GetRateRate, SetSidRate, CloseEndRate, SessionRate
     DEF SessionStep
<1>2. CASE UNCHANGED vars
  BY <1>2 DEF vars, sessVars, mapVars, platVars, opVars, agentVars, RateInv,
     RateType, Named, Single, Asked, Telling, RatesAgree, Open
<1> QED
  BY <1>1, <1>2, ArrivalRate, AgentRate DEF Next

(* The rate a registered session polls at is the one the platform has, for   *)
(* every DTU whose sessions were left alone by all operations and whose last *)
(* 321 got through, however registrations and changes of the rate follow     *)
(* each other.                                                               *)
THEOREM SameRate == Spec => []RatesAgree
<1>1. RateInv => RatesAgree
  BY DEF RateInv
<1> QED
  BY <1>1, RateInit, RateStep, PTL DEF Spec
-----------------------------------------------------------------------------
(* The operation that is under way has its DTU, and the session it works on  *)
(* has connected.                                                            *)
Engaged ==
    /\ at \in {"spin", "init", "write", "model"} =>
         cs \in Sess /\ conn[cs] # "new"
    /\ at \in {"add", "model", "rate", "tell"} => goal \in Dtu
    /\ at = "model" => dtu[cs] = goal
    /\ at \in {"scan", "spin", "init", "write"} => kind = "set"
    /\ at \in {"add", "model"} => kind = "add"
    /\ kind = "set" => at \in {"idle", "scan", "spin", "init", "write"}
    /\ kind \in {"set", "add"} =>
         child \in Child /\ goal = Owner[child] /\ goal \in Dtu

(* A session in did_to_cs is under its name.                                 *)
Entries ==
    \A d \in Dtu : \A s \in Sess : didTo[d] = s => dtu[s] = d /\ conn[s] # "new"

(* A session holds child devices of its own DTU only.                        *)
OwnKids == \A s \in Sess : /\ \A c \in kids[s] : dtu[s] = Owner[c]
                           /\ conn[s] = "new" => kids[s] = {}

OpInv == RateInv /\ TypeOK /\ Engaged /\ Entries /\ OwnKids

(* A session lacks nothing but the device that is being added to it.         *)
Coming(d) == IF at \in {"add", "model"} /\ goal = d THEN {child} ELSE {}

Loaded ==
    \A d \in Dtu : \A s \in Sess :
        /\ sidTo[d] = s /\ io[s] \in {"idle", "data"}
        /\ d \notin moved /\ s \notin deaf
        => {c \in listed : Owner[c] = d} \subseteq kids[s] \cup Coming(d)

Adding == at = "model" /\ goal \notin moved => cs = sidTo[goal]

KidsInv == OpInv /\ Loaded /\ Adding

(* While the DTU of a set-value operation stays as it is, its session is the *)
(* one the loop comes to, and the one its request is written to.             *)
Aimed == kind = "set" /\ target # Absent /\ goal \notin moved

Failed == Len(log) >= 2 /\ log[2] = "FAILED"

Aiming ==
    Aimed /\ at # "idle" =>
        /\ target \in Sess /\ didTo[goal] = target /\ sidTo[goal] = target
        /\ child \in kids[target]

Progress ==
    Aimed /\ at # "idle" =>
        \/ Failed
        \/ /\ log = <<"EXECUTING">> /\ wrote = <<>>
           /\ IF at = "scan" THEN cursor < goal ELSE cs = target

SetInv == KidsInv /\ Aiming /\ Progress /\ SuccessTrue

LEMMA OwnersInDtu == \A c \in Child : Owner[c] \in Dtu
  BY OperationsAssumption

LEMMA OpInit == Init => SetInv
<1> SUFFICES ASSUME Init PROVE SetInv
  OBVIOUS
<1>1. 0 \in 0..MaxOps /\ 0 \in 0..NDtu /\ Early \subseteq Child
  BY OperationsAssumption
<1>2. RateInv
  BY RateInit
<1>3. /\ http \in [Sess -> {"null", "pool", "agent"}]
      /\ mutex \in [Sess -> BOOLEAN] /\ kids \in [Sess -> SUBSET Child]
      /\ didTo \in [Dtu -> Sess \cup {Absent}]
  BY DEF Init
<1>4. /\ listed = Early /\ at = "idle" /\ kind = "none" /\ goal = Absent
      /\ child = Absent /\ cursor = 0 /\ cs = Absent /\ log = <<>> /\ wrote = <<>>
      /\ target = Absent /\ moved = {} /\ deaf = {} /\ ops = 0
  BY DEF Init
<1>5. TypeOK
  BY <1>1, <1>2, <1>3, <1>4 DEF TypeOK, RateInv, RateType
<1>6. Engaged /\ Adding /\ Aiming /\ Progress /\ SuccessTrue
  BY <1>4 DEF Engaged, Adding, Aiming, Progress, Aimed, SuccessTrue
<1>7. Entries /\ OwnKids /\ Loaded
  BY Constants DEF Init, Entries, OwnKids, Loaded
<1> QED
  BY <1>2, <1>5, <1>6, <1>7 DEF SetInv, KidsInv, OpInv

(* What a step of a session leaves to the others and to the agent thread.    *)
Beside(s) ==
    /\ UNCHANGED <<listed, kind, goal, child, want, target, ops, at, cursor, cs,
                   log, wrote>>
    /\ \A t \in Sess : conn[t] # "new" => conn'[t] # "new" /\ dtu'[t] = dtu[t]
    /\ \A t \in Sess \ {s} : io'[t] = io[t] /\ kids'[t] = kids[t]
    /\ kids[s] \subseteq kids'[s]
    /\ moved \subseteq moved' /\ deaf \subseteq deaf'
    /\ dtu'[s] \in Dtu

(* A map changes at the DTU of s only, and not unnoticed.                    *)
Noticed(s) ==
    /\ \A d \in Dtu : d # dtu'[s] => didTo'[d] = didTo[d] /\ sidTo'[d] = sidTo[d]
    /\ UNCHANGED <<didTo, sidTo>> \/ at = "idle" \/ dtu'[s] \in moved'

LEMMA SessionBeside ==
    ASSUME NEW s \in Sess, OpInv, SessionStep(s)
    PROVE  Beside(s) /\ Noticed(s)
<1> USE DEF Beside, Noticed, mapVars, platVars, opVars, agentVars
<1>0. /\ conn \in [Sess -> {"new", "up", "leaving", "closed"}]
      /\ dtu \in [Sess -> Dtu \cup {Absent}]
      /\ io \in [Sess -> {"idle", "reg", "did", "sid", "kids", "data"}]
      /\ kids \in [Sess -> SUBSET Child]
      /\ didTo \in [Dtu -> Sess \cup {Absent}]
      /\ sidTo \in [Dtu -> Sess \cup {Absent}]
      /\ \A t \in Sess : io[t] # "idle" => conn[t] = "up"
      /\ \A t \in Sess : conn[t] # "new" => dtu[t] \in Dtu
  BY DEF OpInv, RateInv, Named, TypeOK
<1>1. CASE Connect(s)
  <2>1. PICK d \in Dtu :
          /\ dtu' = [dtu EXCEPT ![s] = d]
          /\ moved' = IF at # "idle" \/ \E t \in Sess : dtu[t] = d /\ conn[t] # "closed"
                      THEN moved \cup {d} ELSE moved
    BY <1>1 DEF Connect
  <2>2. /\ conn[s] = "new" /\ conn' = [conn EXCEPT ![s] = "up"]
        /\ io' = [io EXCEPT ![s] = "reg"] /\ UNCHANGED <<kids, didTo, sidTo, deaf>>
        /\ UNCHANGED <<listed, kind, goal, child, want, target, ops, at, cursor, cs,
                       log, wrote>>
    BY <1>1 DEF Connect
  <2> QED
    BY <1>0, <2>1, <2>2
<1>2. CASE GetRate(s)
  BY <1>0, <1>2 DEF GetRate, Moves
<1>3. CASE SetDid(s)
  BY <1>0, <1>3 DEF SetDid, Moves
<1>4. CASE SetSid(s)
  BY <1>0, <1>4 DEF SetSid, Moves
<1>5. CASE LoadKids(s)
  BY <1>0, <1>5 DEF LoadKids, Moves
<1>6. CASE OnReadBegin(s)
  BY <1>0, <1>6 DEF OnReadBegin, Moves
<1>7. CASE OnReadEnd(s)
  BY <1>0, <1>7 DEF OnReadEnd, Moves
<1>8. CASE PollLock(s)
  BY <1>0, <1>8 DEF PollLock, Moves
<1>9. CASE CloseBegin(s)
  BY <1>0, <1>9 DEF CloseBegin, Moves
<1>10. CASE CloseEnd(s)
  BY <1>0, <1>10 DEF CloseEnd, Moves
<1> QED
  BY <1>1, <1>2, <1>3, <1>4, <1>5, <1>6, <1>7, <1>8, <1>9, <1>10
     DEF SessionStep

LEMMA SessionOp ==
    ASSUME NEW s \in Sess, OpInv, RateInv', SessionStep(s)
    PROVE  OpInv'
<1>0. /\ conn \in [Sess -> {"new", "up", "leaving", "closed"}]
      /\ dtu \in [Sess -> Dtu \cup {Absent}]
      /\ io \in [Sess -> {"idle", "reg", "did", "sid", "kids", "data"}]
      /\ \A t \in Sess : io[t] # "idle" => conn[t] = "up"
      /\ \A t \in Sess : conn[t] # "new" => dtu[t] \in Dtu
      /\ Beside(s) /\ Noticed(s)
  BY SessionBeside DEF OpInv, RateInv, Named, TypeOK
<1>1. /\ http \in [Sess -> {"null", "pool", "agent"}]
      /\ mutex \in [Sess -> BOOLEAN] /\ kids \in [Sess -> SUBSET Child]
      /\ didTo \in [Dtu -> Sess \cup {Absent}]
      /\ listed \subseteq Child /\ moved \subseteq Dtu /\ deaf \subseteq Sess
  BY DEF OpInv, TypeOK
<1>2. /\ http' \in [Sess -> {"null", "pool", "agent"}]
      /\ mutex' \in [Sess -> BOOLEAN]
  <2>1. CASE Connect(s) \/ GetRate(s) \/ SetDid(s) \/ SetSid(s) \/ LoadKids(s)
    BY <1>1, <2>1 DEF Connect, GetRate, SetDid, SetSid, LoadKids
  <2>2. CASE OnReadBegin(s) \/ OnReadEnd(s) \/ PollLock(s) \/ CloseBegin(s) \/ CloseEnd(s)
    BY <1>1, <2>2 DEF OnReadBegin, OnReadEnd, PollLock, CloseBegin, CloseEnd
  <2> QED
    BY <2>1, <2>2 DEF SessionStep
<1>3. \/ UNCHANGED kids
      \/ /\ io[s] = "kids"
         /\ kids' = [kids EXCEPT ![s] = @ \cup {c \in listed : Owner[c] = dtu[s]}]
  BY DEF SessionStep, Connect, GetRate, SetDid, SetSid, LoadKids, OnReadBegin,
     OnReadEnd, PollLock, CloseBegin, CloseEnd
<1>4. \/ UNCHANGED didTo
      \/ io[s] = "did" /\ didTo' = [didTo EXCEPT ![dtu[s]] = s] /\ UNCHANGED <<conn, dtu>>
      \/ didTo' = [didTo EXCEPT ![dtu[s]] = Absent]
  BY DEF SessionStep, Connect, GetRate, SetDid, SetSid, LoadKids, OnReadBegin,
     OnReadEnd, PollLock, CloseBegin, CloseEnd, mapVars
<1>5. kids' \in [Sess -> SUBSET Child] /\ didTo' \in [Dtu -> Sess \cup {Absent}]
  <2>1. CASE UNCHANGED kids
    BY <1>1, <1>4, <2>1
  <2>2. CASE kids' = [kids EXCEPT ![s] = @ \cup {c \in listed : Owner[c] = dtu[s]}]
    BY <1>1, <1>4, <2>2
  <2> QED
    BY <1>3, <2>1, <2>2
<1>6. moved' \subseteq Dtu /\ deaf' \subseteq Sess
  <2>1. CASE Connect(s)
    BY <1>0, <1>1, <2>1 DEF Connect
  <2>2. CASE ~Connect(s)
    <3>1. conn[s] # "new" /\ dtu[s] \in Dtu
      BY <1>0, <2>2 DEF SessionStep, GetRate, SetDid, SetSid, LoadKids, OnReadBegin,
         OnReadEnd, PollLock, CloseBegin, CloseEnd
    <3>2. moved' \subseteq moved \cup {dtu[s]} /\ deaf' \subseteq deaf \cup {s}
      BY <2>2 DEF SessionStep, GetRate, SetDid, SetSid, LoadKids, OnReadBegin,
         OnReadEnd, PollLock, CloseBegin, CloseEnd, Moves
    <3> QED
      BY <1>1, <3>1, <3>2
  <2> QED
    BY <2>1, <2>2
<1>7. TypeOK'
  BY <1>0, <1>2, <1>5, <1>6 DEF OpInv, TypeOK, RateInv, RateType, Beside
<1>8. Engaged'
  BY <1>0 DEF OpInv, Engaged, Beside
<1>9. Entries'
  BY <1>0, <1>1, <1>4, Constants DEF OpInv, Entries, Beside
<1>10. OwnKids'
  <2>1. \A t \in Sess : conn'[t] = "new" => kids'[t] = {}
    <3>1. \A t \in Sess : conn'[t] = "new" => conn[t] = "new" /\ kids[t] = {}
      BY <1>0 DEF OpInv, OwnKids, Beside
    <3> QED
      BY <1>0, <1>1, <1>3, <3>1
  <2>2. ASSUME NEW t \in Sess, NEW c \in kids'[t] PROVE dtu'[t] = Owner[c]
    <3>1. CASE c \in kids[t]
      BY <1>0, <3>1 DEF OpInv, OwnKids, Beside
    <3>2. CASE c \notin kids[t]
      <4>1. t = s /\ io[s] = "kids" /\ Owner[c] = dtu[s]
        BY <1>1, <1>3, <2>2, <3>2
      <4> QED
        BY <1>0, <4>1 DEF Beside
    <3> QED
      BY <3>1, <3>2
  <2> QED
    BY <2>1, <2>2 DEF OwnKids
<1> QED
  BY <1>7, <1>8, <1>9, <1>10 DEF OpInv

LEMMA SessionLoaded ==
    ASSUME NEW s \in Sess, KidsInv, OpInv', SessionStep(s)
    PROVE  Loaded' /\ Adding'
<1>0. /\ conn \in [Sess -> {"new", "up", "leaving", "closed"}]
      /\ io \in [Sess -> {"idle", "reg", "did", "sid", "kids", "data"}]
      /\ kids \in [Sess -> SUBSET Child]
      /\ sidTo \in [Dtu -> Sess \cup {Absent}]
      /\ Beside(s) /\ Noticed(s) /\ OpInv
  BY SessionBeside DEF KidsInv, OpInv, TypeOK
<1>1. \/ UNCHANGED sidTo
      \/ SetSid(s) \/ sidTo' = [sidTo EXCEPT ![dtu[s]] = Absent]
  BY DEF SessionStep, Connect, GetRate, SetDid, LoadKids, OnReadBegin,
     OnReadEnd, PollLock, CloseBegin, CloseEnd, mapVars
<1>2. SetSid(s) => /\ sidTo' = [sidTo EXCEPT ![dtu[s]] = s]
                   /\ io'[s] = "kids"
  BY <1>0 DEF SetSid
<1>3. \/ io'[s] \notin {"idle", "data"} \/ io[s] \in {"idle", "data"}
      \/ LoadKids(s)
  BY <1>0 DEF SessionStep, Connect, GetRate, SetDid, SetSid, OnReadBegin,
     OnReadEnd, PollLock, CloseBegin, CloseEnd
<1>4. Coming(goal)' = Coming(goal) /\ \A d \in Dtu : Coming(d)' = Coming(d)
  BY <1>0 DEF Beside, Coming
<1>5. ASSUME NEW d \in Dtu, NEW t \in Sess, sidTo'[d] = t, io'[t] \in {"idle", "data"},
             d \notin moved', t \notin deaf'
      PROVE  {c \in listed : Owner[c] = d} \subseteq kids'[t] \cup Coming(d)
  <2>1. sidTo[d] = t
    BY <1>0, <1>1, <1>2, <1>5, Constants
  <2>2. d \notin moved /\ t \notin deaf /\ kids[t] \subseteq kids'[t]
    BY <1>0, <1>5 DEF Beside
  <2>3. CASE io[t] \in {"idle", "data"}
    BY <2>1, <2>2, <2>3 DEF KidsInv, Loaded
  <2>4. CASE t = s /\ LoadKids(s)
    <3>1. dtu[s] = d
      BY <1>0, <2>1, <2>4 DEF OpInv, RateInv, Named
    <3>2. kids' = [kids EXCEPT ![s] = @ \cup {c \in listed : Owner[c] = d}]
      BY <1>5, <2>4, <3>1 DEF LoadKids
    <3> QED
      BY <1>0, <2>4, <3>2
  <2> QED
    BY <1>0, <1>3, <1>5, <2>3, <2>4 DEF Beside
<1>6. Loaded'
  BY <1>0, <1>4, <1>5 DEF Loaded, Beside
<1>7. Adding'
  BY <1>0 DEF KidsInv, Adding, Beside, Noticed, OpInv, Engaged
<1> QED
  BY <1>6, <1>7

LEMMA SessionAim ==
    ASSUME NEW s \in Sess, SetInv, SessionStep(s)
    PROVE  Aiming' /\ Progress' /\ SuccessTrue'
<1>1. Beside(s) /\ Noticed(s)
  BY SessionBeside DEF SetInv, KidsInv
<1>2. Aimed' => Aimed
  BY <1>1 DEF Aimed, Beside
<1>3. Aimed /\ at # "idle" => goal \in Dtu /\ (goal \notin moved' => UNCHANGED <<didTo[goal], sidTo[goal]>>)
  BY <1>1 DEF SetInv, KidsInv, OpInv, Engaged, Aimed, Noticed, Beside
<1>4. Aiming'
  <2> SUFFICES ASSUME Aimed', at' # "idle" PROVE Aiming'
    BY DEF Aiming
  <2>1. Aimed /\ at # "idle" /\ UNCHANGED <<goal, target, child>>
    BY <1>1, <1>2 DEF Beside
  <2>2. /\ target \in Sess /\ didTo[goal] = target /\ sidTo[goal] = target
        /\ child \in kids[target]
    BY <2>1 DEF SetInv, Aiming
  <2>3. goal \notin moved'
    BY <2>1 DEF Aimed
  <2>4. didTo'[goal] = target /\ sidTo'[goal] = target
    BY <1>3, <2>1, <2>2, <2>3
  <2>5. child \in kids'[target]
    BY <1>1, <2>2 DEF Beside
  <2> QED
    BY <2>1, <2>2, <2>4, <2>5 DEF Aiming
<1>5. Progress'
  BY <1>1, <1>2 DEF SetInv, Progress, Failed, Beside
<1>6. SuccessTrue'
  BY <1>1 DEF SetInv, SuccessTrue, Beside
<1> QED
  BY <1>4, <1>5, <1>6

-----------------------------------------------------------------------------
(* Operations arrive.                                                        *)

LEMMA ArrivalOp ==
    ASSUME SetInv, RateInv', Arrival
    PROVE  SetInv'
<1> USE DEF sessVars, mapVars, platVars, Begin
<1>0. OpInv /\ TypeOK /\ RateInv /\ Loaded /\ Entries /\ OwnKids
  BY DEF SetInv, KidsInv, OpInv
<1>1. /\ at = "idle" /\ ops < MaxOps /\ ops' = ops + 1 /\ cursor' = 0
      /\ cs' = Absent /\ wrote' = <<>>
      /\ UNCHANGED <<sessVars, mapVars, told, untold, moved, deaf>>
  BY DEF Arrival, BeginSet, BeginAdd, BeginRate
<1>2. ops' \in 0..MaxOps /\ cursor' \in 0..NDtu
  BY <1>0, <1>1, OperationsAssumption DEF TypeOK
<1>3. /\ conn' = conn /\ dtu' = dtu /\ io' = io /\ http' = http /\ mutex' = mutex
      /\ kids' = kids /\ rate' = rate /\ didTo' = didTo /\ sidTo' = sidTo
      /\ told' = told /\ untold' = untold /\ moved' = moved /\ deaf' = deaf
  BY <1>1
<1>4. Entries' /\ OwnKids'
  BY <1>0, <1>3 DEF Entries, OwnKids
<1>5. ASSUME NEW c \in Child, BeginSet(c) PROVE SetInv'
  <2>1. /\ kind' = "set" /\ goal' = Owner[c] /\ child' = c /\ want' = Default
        /\ log' = <<"EXECUTING">> /\ at' = "scan" /\ listed' = listed
        /\ target' = IF didTo[Owner[c]] # Absent /\ didTo[Owner[c]] = sidTo[Owner[c]]
                          /\ c \in kids[didTo[Owner[c]]]
                     THEN didTo[Owner[c]] ELSE Absent
    BY <1>5 DEF BeginSet
  <2>2. goal' \in Dtu
    BY <2>1, OwnersInDtu
  <2>3. target' \in Sess \cup {Absent} /\ log' \in Seq({"EXECUTING", "SUCCESSFUL", "FAILED"})
    <3>1. didTo[Owner[c]] \in Sess \cup {Absent}
      BY <1>0, OwnersInDtu DEF TypeOK
    <3> QED
      BY <2>1, <3>1
  <2>4. TypeOK'
    BY <1>0, <1>1, <1>2, <1>3, <2>1, <2>2, <2>3, Constants DEF TypeOK
  <2>5. Engaged' /\ Adding'
    BY <2>1, <2>2 DEF Engaged, Adding
  <2>6. Loaded'
    BY <1>0, <1>1, <1>3, <2>1 DEF Loaded, Coming
  <2>7. Aiming'
    BY <1>3, <2>1, <2>2, <2>3 DEF Aiming, Aimed
  <2>8. Progress'
    <3>1. 0 < goal'
      BY <2>2 DEF Dtu
    <3> QED
      BY <1>1, <2>1, <3>1 DEF Progress
  <2>9. SuccessTrue'
    BY <2>1 DEF SuccessTrue
  <2> QED
    BY <1>4, <2>4, <2>5, <2>6, <2>7, <2>8, <2>9 DEF SetInv, KidsInv, OpInv
<1>6. ASSUME NEW c \in Child, BeginAdd(c) PROVE SetInv'
  <2>1. /\ kind' = "add" /\ goal' = Owner[c] /\ child' = c /\ want' = Default
        /\ log' = <<>> /\ at' = "add" /\ listed' = listed \cup {c}
        /\ target' = Absent
    BY <1>6 DEF BeginAdd
  <2>2. goal' \in Dtu
    BY <2>1, OwnersInDtu
  <2>3. TypeOK'
    BY <1>0, <1>1, <1>2, <1>3, <2>1, <2>2, Constants DEF TypeOK
  <2>4. Engaged' /\ Adding'
    BY <2>1, <2>2 DEF Engaged, Adding
  <2>5. Loaded'
    <3>1. ASSUME NEW d \in Dtu
          PROVE  {x \in listed' : Owner[x] = d} \subseteq
                     {x \in listed : Owner[x] = d} \cup Coming(d)'
      BY <2>1 DEF Coming
    <3>2. \A d \in Dtu : Coming(d) = {}
      BY <1>1 DEF Coming
    <3> QED
      BY <1>0, <1>3, <3>1, <3>2 DEF Loaded
  <2>6. Aiming' /\ Progress' /\ SuccessTrue'
    BY <2>1 DEF Aiming, Progress, Aimed, SuccessTrue
  <2> QED
    BY <1>4, <2>3, <2>4, <2>5, <2>6 DEF SetInv, KidsInv, OpInv
<1>7. ASSUME NEW d \in Dtu, NEW r \in Rates, BeginRate(d, r) PROVE SetInv'
  <2>1. /\ kind' = "rate" /\ goal' = d /\ child' = Absent /\ want' = r
        /\ log' = <<"EXECUTING">> /\ at' = "rate" /\ listed' = listed
        /\ target' = Absent
    BY <1>7 DEF BeginRate
  <2>2. TypeOK'
    <3>1. log' \in Seq({"EXECUTING", "SUCCESSFUL", "FAILED"})
      BY <2>1
    <3> QED
      BY <1>0, <1>1, <1>2, <1>3, <2>1, <3>1, Constants DEF TypeOK
  <2>3. Engaged' /\ Adding'
    BY <2>1 DEF Engaged, Adding
  <2>4. Loaded'
    BY <1>0, <1>1, <1>3, <2>1 DEF Loaded, Coming
  <2>5. Aiming' /\ Progress' /\ SuccessTrue'
    BY <2>1 DEF Aiming, Progress, Aimed, SuccessTrue
  <2> QED
    BY <1>4, <2>2, <2>3, <2>4, <2>5 DEF SetInv, KidsInv, OpInv
<1> QED
  BY <1>5, <1>6, <1>7 DEF Arrival

-----------------------------------------------------------------------------
(* The agent thread.                                                         *)

States == {"EXECUTING", "SUCCESSFUL", "FAILED"}

(* A step of a set-value operation changes nothing of the sessions.          *)
Reading ==
    /\ at \in {"scan", "spin", "init", "write"}
    /\ at' \in {"idle", "scan", "spin", "init", "write"}
    /\ at' \in {"spin", "init", "write"} => cs' \in Sess /\ conn[cs'] # "new"
    /\ mutex' \in [Sess -> BOOLEAN]
    /\ cursor' \in 0..NDtu /\ cs' \in Sess \cup {Absent}
    /\ log' \in Seq(States) /\ wrote' \in Seq(Sess)
    /\ UNCHANGED <<conn, dtu, io, http, kids, rate, didTo, sidTo, listed, told, untold,
                   kind, goal, child, want, target, ops, moved, deaf>>

LEMMA ReadingKids ==
    ASSUME KidsInv, RateInv', Reading
    PROVE  KidsInv'
<1>1. TypeOK'
  BY DEF Reading, KidsInv, OpInv, TypeOK, States
<1>2. Engaged'
  BY DEF Reading, KidsInv, OpInv, Engaged
<1>3. Entries' /\ OwnKids'
  BY DEF Reading, KidsInv, OpInv, Entries, OwnKids
<1>4. Loaded'
  BY DEF Reading, KidsInv, Loaded, Coming
<1>5. Adding'
  BY DEF Reading, Adding
<1> QED
  BY <1>1, <1>2, <1>3, <1>4, <1>5 DEF KidsInv, OpInv

LEMMA ReadingAim ==
    ASSUME SetInv, Reading
    PROVE  Aiming' /\ Aimed' = Aimed
  BY DEF Reading, SetInv, Aiming, Aimed

LEMMA PostTypes ==
    ASSUME TypeOK, NEW st \in States, Post(<<st>>)
    PROVE  /\ log' \in Seq(States) /\ Len(log) \in Nat
           /\ Len(log') = Len(log) + 1
           /\ \A i \in 1..Len(log) : log'[i] = log[i]
           /\ log'[Len(log) + 1] = st
  BY DEF TypeOK, Post, States

(* What has failed once does not succeed.                                    *)
LEMMA FailedStays ==
    ASSUME TypeOK, Failed,
           log' = log \/ \E st \in States : Post(<<st>>)
    PROVE  Failed' /\ ~(log' = <<"EXECUTING", "SUCCESSFUL">>)
<1>1. Failed'
  <2>1. CASE log' = log
    BY <2>1 DEF Failed
  <2>2. ASSUME NEW st \in States, Post(<<st>>) PROVE Failed'
    BY <2>2, PostTypes DEF Failed
  <2> QED
    BY <2>1, <2>2
<1> QED
  BY <1>1 DEF Failed

LEMMA ScanSet == SetInv /\ RateInv' /\ Scan => SetInv'
<1> SUFFICES ASSUME SetInv, RateInv', Scan PROVE SetInv'
  OBVIOUS
<1>0. KidsInv /\ OpInv /\ TypeOK /\ Engaged /\ Entries /\ OwnKids
  BY DEF SetInv, KidsInv, OpInv
<1>1. /\ at = "scan" /\ log' = log /\ wrote' = wrote
      /\ UNCHANGED <<conn, dtu, io, http, mutex, kids, rate, didTo, sidTo, listed, told, untold,
                     kind, goal, child, want, target, ops, moved, deaf>>
  BY DEF Scan, sessVars, mapVars, platVars, opVars
<1>2. PICK d \in Left :
        /\ \A e \in Left : d <= e
        /\ cursor' = d
        /\ IF child \in kids[didTo[d]]
           THEN cs' = didTo[d] /\ at' = "spin"
           ELSE UNCHANGED <<cs, at>>
  BY DEF Scan
<1>3. d \in Dtu /\ didTo[d] \in Sess /\ dtu[didTo[d]] = d /\ conn[didTo[d]] # "new"
  BY <1>0 DEF Left, TypeOK, Entries
<1>4. d \in 0..NDtu
  BY <1>3, OperationsAssumption DEF Dtu
<1>5. Reading
  <2>1. /\ cs' \in Sess \cup {Absent} /\ at' \in {"scan", "spin"}
        /\ at' = "spin" => cs' \in Sess /\ conn[cs'] # "new"
    BY <1>0, <1>1, <1>2, <1>3 DEF TypeOK
  <2> QED
    BY <1>0, <1>1, <1>2, <1>4, <2>1 DEF Reading, TypeOK, States
<1>6. Progress'
  <2> SUFFICES ASSUME Aimed, at' # "idle" PROVE Progress'
    BY <1>5, ReadingAim DEF Progress
  <2>1. CASE Failed
    BY <1>0, <1>1, <2>1, FailedStays DEF Progress
  <2>2. CASE log = <<"EXECUTING">> /\ wrote = <<>> /\ cursor < goal
    <3>1. /\ goal \in Dtu /\ didTo[goal] = target /\ target \in Sess
          /\ child \in kids[target] /\ goal = Owner[child]
      BY <1>0, <1>1 DEF SetInv, Aiming, Engaged, Aimed
    <3>2. goal \in Left /\ d <= goal
      BY <1>2, <2>2, <3>1, Constants DEF Left
    <3>3. CASE d = goal
      BY <1>1, <1>2, <2>2, <3>1, <3>3 DEF Progress
    <3>4. CASE d # goal
      <4>1. child \notin kids[didTo[d]]
        BY <1>0, <1>3, <3>1, <3>4 DEF OwnKids
      <4>2. d < goal
        BY <1>3, <3>1, <3>2, <3>4 DEF Dtu
      <4> QED
        BY <1>1, <1>2, <2>2, <4>1, <4>2 DEF Progress
    <3> QED
      BY <3>3, <3>4
  <2> QED
    BY <1>1, <2>1, <2>2 DEF SetInv, Progress
<1>7. SuccessTrue'
  <2>1. at' # "idle"
    BY <1>1, <1>2
  <2> QED
    BY <2>1 DEF SuccessTrue
<1> QED
  BY <1>0, <1>5, <1>6, <1>7, ReadingKids, ReadingAim DEF SetInv

LEMMA ScanEndSet == SetInv /\ RateInv' /\ ScanEnd => SetInv'
<1> SUFFICES ASSUME SetInv, RateInv', ScanEnd PROVE SetInv'
  OBVIOUS
<1>0. KidsInv /\ OpInv /\ TypeOK /\ Engaged
  BY DEF SetInv, KidsInv, OpInv
<1>1. /\ at = "scan" /\ at' = "idle" /\ cs' = Absent /\ cursor' = 0 /\ wrote' = wrote
      /\ UNCHANGED <<conn, dtu, io, http, mutex, kids, rate, didTo, sidTo, listed, told, untold,
                     kind, goal, child, want, target, ops, moved, deaf>>
      /\ Post(<<"SUCCESSFUL">>) /\ Left = {}
  BY DEF ScanEnd, Ends, sessVars, mapVars, platVars, opVars
<1>2. Reading
  <2>1. log' \in Seq(States) /\ 0 \in 0..NDtu
    BY <1>0, <1>1, PostTypes, OperationsAssumption DEF States
  <2> QED
    BY <1>0, <1>1, <2>1 DEF Reading, TypeOK
<1>3. Aimed => Failed
  <2> SUFFICES ASSUME Aimed, ~Failed PROVE FALSE
    OBVIOUS
  <2>1. cursor < goal /\ goal \in Dtu /\ didTo[goal] \in Sess
    BY <1>0, <1>1 DEF SetInv, Progress, Aiming, Engaged, Aimed
  <2> QED
    BY <1>1, <2>1, Constants DEF Left
<1>4. SuccessTrue'
  BY <1>0, <1>1, <1>2, <1>3, FailedStays, ReadingAim DEF SuccessTrue, Aimed, States
<1>5. Progress'
  BY <1>1 DEF Progress
<1> QED
  BY <1>0, <1>2, <1>4, <1>5, ReadingKids, ReadingAim DEF SetInv

LEMMA LockSet == SetInv /\ RateInv' /\ (TryLock \/ Busy) => SetInv'
<1> SUFFICES ASSUME SetInv, RateInv', TryLock \/ Busy PROVE SetInv'
  OBVIOUS
<1>0. KidsInv /\ OpInv /\ TypeOK /\ Engaged
  BY DEF SetInv, KidsInv, OpInv
<1>1. /\ at = "spin" /\ cs' = cs /\ cursor' = cursor /\ wrote' = wrote
      /\ UNCHANGED <<conn, dtu, io, http, kids, rate, didTo, sidTo, listed, told, untold,
                     kind, goal, child, want, target, ops, moved, deaf>>
      /\ mutex' \in [Sess -> BOOLEAN]
      /\ \/ at' = "init" /\ log' = log
         \/ at' = "scan" /\ Post(<<"FAILED">>)
  BY <1>0 DEF TryLock, Busy, sessVars, mapVars, platVars, opVars, TypeOK
<1>2. log' \in Seq(States)
  BY <1>0, <1>1, PostTypes DEF States, TypeOK
<1>3. Reading
  BY <1>0, <1>1, <1>2 DEF Reading, TypeOK, Engaged
<1>4. Progress'
  <2> SUFFICES ASSUME Aimed PROVE Progress'
    BY <1>3, ReadingAim DEF Progress
  <2>1. CASE Failed
    BY <1>0, <1>1, <2>1, FailedStays DEF Progress, States
  <2>2. CASE log = <<"EXECUTING">> /\ wrote = <<>> /\ cs = target
    <3>1. CASE at' = "init" /\ log' = log
      BY <1>1, <2>2, <3>1 DEF Progress
    <3>2. CASE at' = "scan" /\ Post(<<"FAILED">>)
      BY <1>0, <2>2, <3>2, PostTypes DEF Progress, Failed, States
    <3> QED
      BY <1>1, <3>1, <3>2
  <2> QED
    BY <1>1, <2>1, <2>2 DEF SetInv, Progress
<1>5. SuccessTrue'
  BY <1>1 DEF SuccessTrue
<1> QED
  BY <1>0, <1>3, <1>4, <1>5, ReadingKids, ReadingAim DEF SetInv

LEMMA SetValueSet == SetInv /\ RateInv' /\ SetValue => SetInv'
<1> SUFFICES ASSUME SetInv, RateInv', SetValue PROVE SetInv'
  OBVIOUS
<1>0. KidsInv /\ OpInv /\ TypeOK /\ Engaged
  BY DEF SetInv, KidsInv, OpInv
<1>1. /\ at = "init" /\ wrote' = wrote
      /\ UNCHANGED <<conn, dtu, io, http, mutex, kids, rate, didTo, sidTo, listed, told, untold,
                     kind, goal, child, want, target, ops, moved, deaf>>
      /\ \/ /\ child \in Refused /\ Post(<<"SUCCESSFUL">>)
            /\ at' = "idle" /\ cs' = Absent /\ cursor' = 0
         \/ at' = "write" /\ UNCHANGED <<cursor, cs, log>>
  BY DEF SetValue, Ends, sessVars, mapVars, platVars, opVars
<1>2. log' \in Seq(States) /\ 0 \in 0..NDtu
  BY <1>0, <1>1, PostTypes, OperationsAssumption DEF States, TypeOK
<1>3. Reading
  BY <1>0, <1>1, <1>2 DEF Reading, TypeOK, Engaged
<1>4. Progress'
  <2> SUFFICES ASSUME Aimed, at' # "idle" PROVE Progress'
    BY <1>3, ReadingAim DEF Progress
  <2> QED
    BY <1>1 DEF SetInv, Progress, Failed
<1>5. SuccessTrue'
  BY <1>1 DEF SuccessTrue
<1> QED
  BY <1>0, <1>3, <1>4, <1>5, ReadingKids, ReadingAim DEF SetInv

LEMMA WriteSet == SetInv /\ RateInv' /\ Write => SetInv'
<1> SUFFICES ASSUME SetInv, RateInv', Write PROVE SetInv'
  OBVIOUS
<1>0. KidsInv /\ OpInv /\ TypeOK /\ Engaged /\ RateInv
  BY DEF SetInv, KidsInv, OpInv
<1> DEFINE s == sidTo[dtu[cs]]
<1>1. /\ at = "write" /\ at' = "idle" /\ cs' = Absent /\ cursor' = 0
      /\ UNCHANGED <<conn, dtu, io, http, mutex, kids, rate, didTo, sidTo, listed, told, untold,
                     kind, goal, child, want, target, ops, moved, deaf>>
      /\ Post(<<"SUCCESSFUL">>)
      /\ IF s = Absent THEN wrote' = wrote
         ELSE wrote' = IF conn[s] = "closed" THEN wrote ELSE Append(wrote, s)
  BY DEF Write, Ends, sessVars, mapVars, platVars, opVars
<1>2. cs \in Sess /\ dtu[cs] \in Dtu /\ s \in Sess \cup {Absent}
  BY <1>0, <1>1 DEF Engaged, RateInv, Named, TypeOK
<1>3. wrote' \in Seq(Sess)
  <2>1. wrote \in Seq(Sess)
    BY <1>0 DEF TypeOK
  <2> HIDE DEF s
  <2>2. s \in Sess => Append(wrote, s) \in Seq(Sess)
    BY <2>1
  <2> QED
    BY <1>1, <1>2, <2>1, <2>2
<1>4. Reading
  <2>1. log' \in Seq(States) /\ 0 \in 0..NDtu
    BY <1>0, <1>1, PostTypes, OperationsAssumption DEF States
  <2> QED
    BY <1>0, <1>1, <1>3, <2>1 DEF Reading, TypeOK
<1>5. SuccessTrue'
  <2> SUFFICES ASSUME Aimed, log' = <<"EXECUTING", "SUCCESSFUL">> PROVE wrote' = <<target>>
    BY <1>1, <1>4, ReadingAim DEF SuccessTrue, Aimed
  <2>1. ~Failed
    BY <1>0, <1>1, FailedStays DEF States
  <2>2. wrote = <<>> /\ cs = target
    BY <1>1, <2>1 DEF SetInv, Progress
  <2>3. target \in Sess /\ didTo[goal] = target /\ sidTo[goal] = target /\ goal \in Dtu
    BY <1>0, <1>1 DEF SetInv, Aiming, Aimed, Engaged
  <2>4. dtu[target] = goal /\ conn[target] # "closed"
    BY <1>0, <2>3 DEF RateInv, Named, Open
  <2>5. s = target /\ target # Absent
    BY <2>2, <2>3, <2>4, Constants
  <2> HIDE DEF s
  <2> QED
    BY <1>1, <2>2, <2>4, <2>5
<1>6. Progress'
  BY <1>1 DEF Progress
<1> QED
  BY <1>0, <1>4, <1>5, <1>6, ReadingKids, ReadingAim DEF SetInv

(* A device is added.                                                        *)
LEMMA AddDeviceSet == SetInv /\ RateInv' /\ AddDevice => SetInv'
<1> SUFFICES ASSUME SetInv, RateInv', AddDevice PROVE SetInv'
  OBVIOUS
<1>0. KidsInv /\ OpInv /\ TypeOK /\ Engaged /\ RateInv /\ Entries /\ OwnKids /\ Loaded
  BY DEF SetInv, KidsInv, OpInv
<1> DEFINE s == sidTo[goal]
<1>1. /\ at = "add" /\ kind = "add" /\ goal \in Dtu
      /\ UNCHANGED <<conn, dtu, io, mutex, kids, rate, didTo, sidTo, listed, told, untold,
                     kind, goal, child, want, target, ops, wrote, moved, deaf>>
      /\ \/ /\ s = Absent /\ Post(<<"FAILED">>) /\ UNCHANGED http
            /\ at' = "idle" /\ cs' = Absent /\ cursor' = 0
         \/ /\ s # Absent /\ http' = [http EXCEPT ![s] = "agent"]
            /\ cs' = s /\ at' = "model" /\ UNCHANGED <<log, cursor>>
  BY <1>0 DEF AddDevice, Ends, mapVars, platVars, opVars, Engaged
<1>2. s \in Sess \cup {Absent}
  BY <1>0, <1>1 DEF TypeOK
<1>3. /\ log' \in Seq(States) /\ http' \in [Sess -> {"null", "pool", "agent"}]
      /\ cursor' \in 0..NDtu /\ cs' \in Sess \cup {Absent}
  <2>1. log' \in Seq(States) /\ 0 \in 0..NDtu /\ cursor \in 0..NDtu
    BY <1>0, <1>1, PostTypes, OperationsAssumption DEF States, TypeOK
  <2>2. http \in [Sess -> {"null", "pool", "agent"}]
    BY <1>0 DEF TypeOK
  <2> HIDE DEF s
  <2> QED
    BY <1>1, <1>2, <2>1, <2>2
<1>4. TypeOK'
  BY <1>0, <1>1, <1>3 DEF TypeOK, States
<1>5. Engaged'
  <2>1. s # Absent => s \in Sess /\ dtu[s] = goal /\ conn[s] # "new"
    BY <1>0, <1>1, <1>2 DEF RateInv, Named, Open
  <2> HIDE DEF s
  <2> QED
    BY <1>0, <1>1, <2>1 DEF Engaged
<1>6. Entries' /\ OwnKids'
  BY <1>0, <1>1 DEF Entries, OwnKids
<1>7. Loaded'
  <2> SUFFICES ASSUME NEW d \in Dtu, NEW t \in Sess,
                      sidTo[d] = t, io[t] \in {"idle", "data"},
                      d \notin moved, t \notin deaf
               PROVE  {c \in listed : Owner[c] = d} \subseteq kids[t] \cup Coming(d)'
    BY <1>1 DEF Loaded
  <2>1. {c \in listed : Owner[c] = d} \subseteq kids[t] \cup Coming(d)
    BY <1>0 DEF Loaded
  <2>2. Coming(d) \subseteq Coming(d)'
    BY <1>1, Constants DEF Coming
  <2> QED
    BY <2>1, <2>2
<1>8. Adding' /\ Aiming' /\ Progress' /\ SuccessTrue'
  BY <1>1 DEF Adding, Aiming, Progress, Aimed, SuccessTrue
<1> QED
  BY <1>4, <1>5, <1>6, <1>7, <1>8 DEF SetInv, KidsInv, OpInv

LEMMA GetModelSet == SetInv /\ RateInv' /\ GetModel => SetInv'
<1> SUFFICES ASSUME SetInv, RateInv', GetModel PROVE SetInv'
  OBVIOUS
<1>0. KidsInv /\ OpInv /\ TypeOK /\ Engaged /\ RateInv /\ Entries /\ OwnKids /\ Loaded
  BY DEF SetInv, KidsInv, OpInv
<1>1. /\ at = "model" /\ kind = "add" /\ goal \in Dtu /\ cs \in Sess
      /\ conn[cs] # "new" /\ dtu[cs] = goal /\ child \in Child /\ goal = Owner[child]
  BY <1>0 DEF GetModel, Engaged
<1>2. /\ kids' = [kids EXCEPT ![cs] = @ \cup {child}]
      /\ UNCHANGED <<conn, dtu, io, mutex, rate, didTo, sidTo, listed, told, untold,
                     http, kind, goal, child, want, target, ops, wrote, moved, deaf>>
      /\ \/ at' = "crashed" /\ UNCHANGED <<cursor, cs, log>>
         \/ /\ Post(<<"EXECUTING", "SUCCESSFUL">>)
            /\ at' = "idle" /\ cs' = Absent /\ cursor' = 0
  BY DEF GetModel, AddDevices, ForgetHttp, Ends, mapVars, platVars, opVars
<1>3. /\ log' \in Seq(States) /\ cursor' \in 0..NDtu /\ cs' \in Sess \cup {Absent}
      /\ kids' \in [Sess -> SUBSET Child]
  <2>1. log \in Seq(States) /\ cursor \in 0..NDtu /\ 0 \in 0..NDtu
    BY <1>0, OperationsAssumption DEF TypeOK, States
  <2>2. log \o <<"EXECUTING", "SUCCESSFUL">> \in Seq(States)
    BY <2>1 DEF States
  <2>3. kids \in [Sess -> SUBSET Child]
    BY <1>0 DEF TypeOK
  <2> QED
    BY <1>1, <1>2, <2>1, <2>2, <2>3 DEF Post
<1>4. TypeOK'
  BY <1>0, <1>2, <1>3 DEF TypeOK, States
<1>5. Engaged'
  BY <1>1, <1>2 DEF Engaged
<1>6. Entries'
  BY <1>0, <1>2 DEF Entries
<1>7. \A t \in Sess : kids'[t] = kids[t] \cup (IF t = cs THEN {child} ELSE {})
  BY <1>0, <1>1, <1>2 DEF TypeOK
<1>8. OwnKids'
  BY <1>0, <1>1, <1>2, <1>7 DEF OwnKids
<1>9. Loaded'
  <2> SUFFICES ASSUME NEW d \in Dtu, NEW t \in Sess,
                      sidTo[d] = t, io[t] \in {"idle", "data"},
                      d \notin moved, t \notin deaf
               PROVE  {c \in listed : Owner[c] = d} \subseteq kids'[t]
    BY <1>2 DEF Loaded
  <2>1. {c \in listed : Owner[c] = d} \subseteq kids[t] \cup Coming(d)
    BY <1>0 DEF Loaded
  <2>2. Coming(d) \subseteq IF t = cs THEN {child} ELSE {}
    BY <1>1 DEF Coming, SetInv, KidsInv, Adding
  <2> QED
    BY <1>7, <2>1, <2>2
<1>10. Adding' /\ Aiming' /\ Progress' /\ SuccessTrue'
  BY <1>1, <1>2 DEF Adding, Aiming, Progress, Aimed, SuccessTrue
<1> QED
  BY <1>4, <1>5, <1>6, <1>8, <1>9, <1>10 DEF SetInv, KidsInv, OpInv

(* The rate is changed.                                                      *)
LEMMA RateSet == SetInv /\ RateInv' /\ (SetInterval \/ TellRate) => SetInv'
<1> SUFFICES ASSUME SetInv, RateInv', SetInterval \/ TellRate PROVE SetInv'
  OBVIOUS
<1>0. KidsInv /\ OpInv /\ TypeOK /\ Engaged /\ Entries /\ OwnKids /\ Loaded
  BY DEF SetInv, KidsInv, OpInv
<1>1. /\ at \in {"rate", "tell"} /\ kind # "set"
      /\ UNCHANGED <<conn, dtu, io, http, mutex, kids, didTo, sidTo, listed,
                     kind, goal, child, want, target, ops, wrote, moved, deaf>>
      /\ \/ /\ \E st \in States : Post(<<st>>)
            /\ at' = "idle" /\ cs' = Absent /\ cursor' = 0
         \/ at' = "tell" /\ UNCHANGED <<log, cursor, cs>>
  BY <1>0 DEF SetInterval, TellRate, Tell, Ends, sessVars, mapVars, platVars, opVars, Engaged,
     States
<1>2. log' \in Seq(States) /\ cursor' \in 0..NDtu /\ cs' \in Sess \cup {Absent}
  BY <1>0, <1>1, PostTypes, OperationsAssumption DEF States, TypeOK
<1>3. TypeOK'
  BY <1>0, <1>1, <1>2 DEF TypeOK, States, RateInv, RateType
<1>4. Engaged'
  BY <1>0, <1>1 DEF Engaged
<1>5. Entries' /\ OwnKids'
  BY <1>0, <1>1 DEF Entries, OwnKids
<1>6. Loaded'
  BY <1>0, <1>1 DEF Loaded, Coming
<1>7. Adding' /\ Aiming' /\ Progress' /\ SuccessTrue'
  BY <1>1 DEF Adding, Aiming, Progress, Aimed, SuccessTrue
<1> QED
  BY <1>3, <1>4, <1>5, <1>6, <1>7 DEF SetInv, KidsInv, OpInv

LEMMA SetStep == SetInv /\ [Next]_vars => SetInv'
<1> SUFFICES ASSUME SetInv, [Next]_vars PROVE SetInv'
  OBVIOUS
<1>1. RateInv' /\ KidsInv /\ OpInv
  BY RateStep DEF SetInv, KidsInv, OpInv
<1>2. ASSUME NEW s \in Sess, SessionStep(s) PROVE SetInv'
  BY <1>1, <1>2, SessionOp, SessionLoaded, SessionAim DEF SetInv, KidsInv
<1>3. CASE UNCHANGED vars
  <2>1. /\ UNCHANGED <<conn, dtu, io, http, mutex, kids, rate, didTo, sidTo, listed,
                       told, untold, kind, goal, child, want, target, ops>>
        /\ UNCHANGED <<at, cursor, cs, log, wrote, moved, deaf>>
    BY <1>3 DEF vars, sessVars, mapVars, platVars, opVars, agentVars
  <2>2. TypeOK' /\ Engaged' /\ Entries' /\ OwnKids'
    BY <1>1, <2>1 DEF OpInv, TypeOK, Engaged, Entries, OwnKids
  <2>3. Loaded' /\ Adding'
    BY <1>1, <2>1 DEF KidsInv, Loaded, Coming, Adding
  <2>4. Aiming' /\ Progress' /\ SuccessTrue'
    BY <2>1 DEF SetInv, Aiming, Progress, Aimed, Failed, SuccessTrue
  <2> QED
    BY <1>1, <2>2, <2>3, <2>4 DEF SetInv, KidsInv, OpInv
<1> QED
  BY <1>1, <1>2, <1>3, ArrivalOp, ScanSet, ScanEndSet, LockSet, SetValueSet, WriteSet,
     AddDeviceSet, GetModelSet, RateSet DEF Next, AgentStep

LEMMA SetAlways == Spec => []SetInv
<1> QED
  BY OpInit, SetStep, PTL DEF Spec

(* The agent's and the sessions' state keep their types through any number   *)
(* of operations; what is posted is one of the three states.                 *)
THEOREM OperationTypes == Spec => []TypeOK
<1>1. SetInv => TypeOK
  BY DEF SetInv, KidsInv, OpInv
<1> QED
  BY <1>1, SetAlways, PTL

(* A set-value operation that is answered with SUCCESSFUL, without a FAILED  *)
(* before it, has written its request once and to the session of the device, *)
(* while its DTU neither connects nor disconnects.                           *)
THEOREM SuccessMeansWritten == Spec => []SuccessTrue
<1>1. SetInv => SuccessTrue
  BY DEF SetInv
<1> QED
  BY <1>1, SetAlways, PTL

(* A registered session polls all the child devices of its DTU, those that   *)
(* getChildDevices loaded and those that 832 and 847 added, in any order.    *)
THEOREM NoChildForgotten == Spec => []ChildrenKnown
<1>1. SetInv => ChildrenKnown
  <2> SUFFICES ASSUME SetInv, NEW d \in Dtu, sidTo[d] # Absent,
                      io[sidTo[d]] \in {"idle", "data"}, d \notin moved,
                      sidTo[d] \notin deaf, ~(at \in {"add", "model"} /\ goal = d)
               PROVE  {c \in listed : Owner[c] = d} \subseteq kids[sidTo[d]]
    BY DEF ChildrenKnown
  <2>1. sidTo[d] \in Sess /\ Coming(d) = {}
    BY DEF SetInv, KidsInv, OpInv, TypeOK, Coming
  <2> QED
    BY <2>1 DEF SetInv, KidsInv, Loaded
<1> QED
  BY <1>1, SetAlways, PTL

=============================================================================
