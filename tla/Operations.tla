----------------------------- MODULE Operations -----------------------------
(* The operations of the platform: AgentMsgHandler, which runs in the agent  *)
(* thread and takes one at a time, and the sessions it finds in did_to_cs    *)
(* and sid_to_cs while their DTUs connect, register and disconnect.  An      *)
(* operation sets a value (833, 834), adds a child device (832, 847) or      *)
(* changes the polling rate (817).  The platform knows a DTU under its id    *)
(* and its managed object alike, so both are the DTU here.                   *)
EXTENDS Integers, Sequences, FiniteSets

CONSTANTS
    NSess,    \* bound: connections, in the order 1..NSess
    NDtu,     \* the DTUs 1..NDtu, in the order of did_to_cs
    Child,    \* child devices
    Owner,    \* the DTU each child device belongs to
    Early,    \* child devices the platform has from the start
    Refused,  \* child devices whose slave number Modbus::init refuses
    Rates,    \* polling rates
    Default,  \* the rate of a new session, and of a DTU nobody has set one for
    Absent,   \* no entry in a map
    MaxOps    \* bound: operations

Sess == 1..NSess
Dtu == 1..NDtu

ASSUME OperationsAssumption ==
    /\ NSess \in Nat /\ NDtu \in Nat /\ MaxOps \in Nat
    /\ Owner \in [Child -> Dtu]
    /\ Early \subseteq Child /\ Refused \subseteq Child
    /\ Default \in Rates /\ Absent \notin Sess

VARIABLES
    conn,     \* "new", "up", "leaving" (Close has begun) or "closed"
    dtu,      \* the DTU at the other end
    io,       \* where the handler is that holds _io_mutex
    http,     \* _http
    mutex,    \* _mutex
    kids,     \* the keys of _mbdevices._m
    rate,     \* the interval of _timer
    didTo, sidTo, \* did_to_cs and sid_to_cs
    listed,   \* child devices the platform has
    told,     \* the polling rate the platform has
    at,       \* where the agent thread is
    kind, goal, child, want, \* the operation: its kind, DTU, device and rate
    cursor,   \* the entry of did_to_cs the loop has reached
    cs,       \* the session the operation works on
    log,      \* the states posted for the operation
    wrote,    \* the sessions its request was written to
    target,   \* history: the session that should get the request
    moved,    \* history: DTUs whose sessions changed during an operation, or
              \* that had two sessions at a time
    untold,   \* history: DTUs of which the platform has another rate than it
              \* was last sent
    deaf,     \* history: sessions whose getChildDevices failed
    ops

sessVars == <<conn, dtu, io, http, mutex, kids, rate>>
mapVars  == <<didTo, sidTo>>
platVars == <<listed, told, untold>>
opVars   == <<kind, goal, child, want, target, ops>>
agentVars == <<at, cursor, cs, log, wrote>>
vars == <<sessVars, mapVars, platVars, opVars, agentVars, moved, deaf>>

TypeOK ==
    /\ conn \in [Sess -> {"new", "up", "leaving", "closed"}]
    /\ dtu \in [Sess -> Dtu \cup {Absent}]
    /\ io \in [Sess -> {"idle", "reg", "did", "sid", "kids", "data"}]
    /\ http \in [Sess -> {"null", "pool", "agent"}]
    /\ mutex \in [Sess -> BOOLEAN] /\ kids \in [Sess -> SUBSET Child]
    /\ rate \in [Sess -> Rates]
    /\ didTo \in [Dtu -> Sess \cup {Absent}]
    /\ sidTo \in [Dtu -> Sess \cup {Absent}]
    /\ listed \subseteq Child /\ told \in [Dtu -> Rates]
    /\ at \in {"idle", "scan", "spin", "init", "write", "add", "model",
               "rate", "tell", "crashed"}
    /\ kind \in {"none", "set", "add", "rate"} /\ child \in Child \cup {Absent}
    /\ goal \in Dtu \cup {Absent} /\ want \in Rates
    /\ cursor \in 0..NDtu /\ cs \in Sess \cup {Absent}
    /\ log \in Seq({"EXECUTING", "SUCCESSFUL", "FAILED"})
    /\ wrote \in Seq(Sess) /\ target \in Sess \cup {Absent}
    /\ moved \subseteq Dtu /\ untold \subseteq Dtu /\ deaf \subseteq Sess
    /\ ops \in 0..MaxOps

Init ==
    /\ conn = [s \in Sess |-> "new"] /\ dtu = [s \in Sess |-> Absent]
    /\ io = [s \in Sess |-> "idle"] /\ http = [s \in Sess |-> "null"]
    /\ mutex = [s \in Sess |-> FALSE] /\ kids = [s \in Sess |-> {}]
    /\ rate = [s \in Sess |-> Default]
    /\ didTo = [d \in Dtu |-> Absent] /\ sidTo = [d \in Dtu |-> Absent]
    /\ listed = Early /\ told = [d \in Dtu |-> Default]
    /\ at = "idle" /\ kind = "none"
    /\ goal = Absent /\ child = Absent /\ want = Default
    /\ cursor = 0 /\ cs = Absent /\ log = <<>> /\ wrote = <<>>
    /\ target = Absent /\ moved = {} /\ untold = {} /\ deaf = {} /\ ops = 0

-----------------------------------------------------------------------------
(* The sessions.                                                             *)

(* The registration or the end of d's session is noticed.                    *)
Moves(d) == moved' = IF at # "idle" THEN moved \cup {d} ELSE moved

(* A connection is accepted, and its registration package accepted by        *)
(* checkReg: onReadReg holds _io_mutex and takes the connection of its pool  *)
(* thread.                                                                   *)
Connect(s) ==
    /\ conn[s] = "new" /\ \A t \in 1..(s - 1) : conn[t] # "new"
    /\ conn' = [conn EXCEPT ![s] = "up"]
    /\ \E d \in Dtu :
        /\ dtu' = [dtu EXCEPT ![s] = d]
        /\ moved' = IF at # "idle"
                       \/ \E t \in Sess : dtu[t] = d /\ conn[t] # "closed"
                    THEN moved \cup {d} ELSE moved
    /\ io' = [io EXCEPT ![s] = "reg"] /\ http' = [http EXCEPT ![s] = "pool"]
    /\ UNCHANGED <<mutex, kids, rate, mapVars, platVars, opVars, agentVars,
                   deaf>>

(* The platform is sent d's rate with 321.  Nothing looks at the answer: the *)
(* request may be lost.                                                      *)
Tell(d, r) ==
    /\ told' \in {told, [told EXCEPT ![d] = r]}
    /\ untold' = IF told'[d] = r THEN untold \ {d} ELSE untold \cup {d}

(* regDev: getProperties reads the rate.  When that fails the session keeps  *)
(* the rate it was made with, and setModbusParms sends it to the platform.   *)
GetRate(s) ==
    LET d == dtu[s] IN
    /\ io[s] = "reg" /\ io' = [io EXCEPT ![s] = "did"]
    /\ \/ /\ rate' = [rate EXCEPT ![s] = told[d]]
          /\ UNCHANGED told /\ untold' = untold \ {d}
       \/ rate' = [rate EXCEPT ![s] = Default] /\ Tell(d, Default)
    /\ Moves(d)
    /\ UNCHANGED <<conn, dtu, http, mutex, kids, mapVars, listed, opVars,
                   agentVars, deaf>>

SetDid(s) ==
    /\ io[s] = "did"
    /\ didTo' = [didTo EXCEPT ![dtu[s]] = s]
    /\ io' = [io EXCEPT ![s] = "sid"] /\ Moves(dtu[s])
    /\ UNCHANGED <<conn, dtu, http, mutex, kids, rate, sidTo, platVars, opVars,
                   agentVars, deaf>>

SetSid(s) ==
    /\ io[s] = "sid"
    /\ sidTo' = [sidTo EXCEPT ![dtu[s]] = s]
    /\ io' = [io EXCEPT ![s] = "kids"] /\ Moves(dtu[s])
    /\ UNCHANGED <<conn, dtu, http, mutex, kids, rate, didTo, platVars, opVars,
                   agentVars, deaf>>

(* getChildDevices, whose failure is not noticed.  The handler ends and      *)
(* forgets the connection.                                                   *)
LoadKids(s) ==
    /\ io[s] = "kids"
    /\ \/ /\ kids' = [kids EXCEPT ![s] =
                       @ \cup {c \in listed : Owner[c] = dtu[s]}]
          /\ UNCHANGED deaf
       \/ UNCHANGED kids /\ deaf' = deaf \cup {s}
    /\ io' = [io EXCEPT ![s] = "idle"] /\ http' = [http EXCEPT ![s] = "null"]
    /\ Moves(dtu[s])
    /\ UNCHANGED <<conn, dtu, mutex, rate, mapVars, platVars, opVars,
                   agentVars>>

(* onRead begins with a package ...                                          *)
OnReadBegin(s) ==
    /\ conn[s] = "up" /\ io[s] = "idle" /\ didTo[dtu[s]] = s
    /\ io' = [io EXCEPT ![s] = "data"] /\ http' = [http EXCEPT ![s] = "pool"]
    /\ UNCHANGED <<conn, dtu, mutex, kids, rate, mapVars, platVars, opVars,
                   agentVars, moved, deaf>>

(* ... and ends; the answer to a request frees _mutex.                       *)
OnReadEnd(s) ==
    /\ io[s] = "data"
    /\ io' = [io EXCEPT ![s] = "idle"] /\ http' = [http EXCEPT ![s] = "null"]
    /\ mutex' \in {mutex, [mutex EXCEPT ![s] = FALSE]}
    /\ UNCHANGED <<conn, dtu, kids, rate, mapVars, platVars, opVars, agentVars,
                   moved, deaf>>

(* The poll thread takes _mutex for a request; nothing need free it.         *)
PollLock(s) ==
    /\ conn[s] = "up" /\ kids[s] # {} /\ ~mutex[s]
    /\ mutex' = [mutex EXCEPT ![s] = TRUE]
    /\ UNCHANGED <<conn, dtu, io, http, kids, rate, mapVars, platVars, opVars,
                   agentVars, moved, deaf>>

(* Close: erase in one map ...                                               *)
CloseBegin(s) ==
    /\ conn[s] = "up" /\ io[s] = "idle"
    /\ conn' = [conn EXCEPT ![s] = "leaving"]
    /\ didTo' = [didTo EXCEPT ![dtu[s]] = Absent] /\ Moves(dtu[s])
    /\ UNCHANGED <<dtu, io, http, mutex, kids, rate, sidTo, platVars, opVars,
                   agentVars, deaf>>

(* ... and in the other, close the socket and free _mutex.                   *)
CloseEnd(s) ==
    /\ conn[s] = "leaving" /\ io[s] = "idle"
    /\ conn' = [conn EXCEPT ![s] = "closed"]
    /\ sidTo' = [sidTo EXCEPT ![dtu[s]] = Absent] /\ Moves(dtu[s])
    /\ mutex' = [mutex EXCEPT ![s] = FALSE]
    /\ UNCHANGED <<dtu, io, http, kids, rate, didTo, platVars, opVars,
                   agentVars, deaf>>

SessionStep(s) ==
    \/ Connect(s) \/ GetRate(s) \/ SetDid(s) \/ SetSid(s) \/ LoadKids(s)
    \/ OnReadBegin(s) \/ OnReadEnd(s) \/ PollLock(s)
    \/ CloseBegin(s) \/ CloseEnd(s)

-----------------------------------------------------------------------------
(* AgentMsgHandler.                                                          *)

Post(states) == log' = log \o states

Ends == at' = "idle" /\ cs' = Absent /\ cursor' = 0

(* An operation arrives.                                                     *)
Begin(k, d, c, r) ==
    /\ at = "idle" /\ ops < MaxOps /\ ops' = ops + 1
    /\ kind' = k /\ goal' = d /\ child' = c /\ want' = r
    /\ cursor' = 0 /\ cs' = Absent /\ wrote' = <<>>

(* 833 and 834.                                                              *)
BeginSet(c) ==
    /\ Begin("set", Owner[c], c, Default)
    /\ log' = <<"EXECUTING">> /\ at' = "scan"
    /\ LET s == didTo[Owner[c]] IN
       target' = IF s # Absent /\ s = sidTo[Owner[c]] /\ c \in kids[s]
                 THEN s ELSE Absent
    /\ UNCHANGED <<sessVars, mapVars, platVars, moved, deaf>>

(* Mutant: only the first session is looked at.                              *)
Left_First == {d \in Dtu : cursor = 0 /\ didTo[d] # Absent}

(* The entries of did_to_cs that the loop has not reached.                   *)
Left == {d \in Dtu : d > cursor /\ didTo[d] # Absent}

(* The next session is looked through for the child device.                  *)
Scan ==
    /\ at = "scan" /\ Left # {}
    /\ \E d \in Left :
        /\ \A e \in Left : d <= e
        /\ cursor' = d
        /\ IF child \in kids[didTo[d]]
           THEN cs' = didTo[d] /\ at' = "spin"
           ELSE UNCHANGED <<cs, at>>
    /\ UNCHANGED <<sessVars, mapVars, platVars, opVars, log, wrote, moved,
                   deaf>>

(* The end of the loop, whether the device was found or not.                 *)
ScanEnd ==
    /\ at = "scan" /\ Left = {}
    /\ Post(<<"SUCCESSFUL">>) /\ Ends
    /\ UNCHANGED <<sessVars, mapVars, platVars, opVars, wrote, moved, deaf>>

TryLock ==
    /\ at = "spin" /\ ~mutex[cs]
    /\ mutex' = [mutex EXCEPT ![cs] = TRUE] /\ at' = "init"
    /\ UNCHANGED <<conn, dtu, io, http, kids, rate, mapVars, platVars, opVars,
                   cursor, cs, log, wrote, moved, deaf>>

(* Mutant: line 114, commented out: the agent waits for the lock.            *)
Busy_Wait == FALSE /\ UNCHANGED vars

(* All the tries have failed; the loop goes on all the same.                 *)
Busy ==
    /\ at = "spin" /\ mutex[cs]
    /\ Post(<<"FAILED">>) /\ at' = "scan"
    /\ UNCHANGED <<sessVars, mapVars, platVars, opVars, cursor, cs, wrote,
                   moved, deaf>>

(* setValue: a slave number that is refused leaves _mutex locked.            *)
SetValue ==
    /\ at = "init"
    /\ IF child \in Refused
       THEN Post(<<"SUCCESSFUL">>) /\ Ends
       ELSE at' = "write" /\ UNCHANGED <<cursor, cs, log>>
    /\ UNCHANGED <<sessVars, mapVars, platVars, opVars, wrote, moved, deaf>>

(* The request goes to the session in sid_to_cs, under its _io_mutex.        *)
Write ==
    /\ at = "write"
    /\ LET s == sidTo[dtu[cs]] IN
        IF s = Absent THEN UNCHANGED wrote
        ELSE /\ io[s] = "idle"
             /\ wrote' = IF conn[s] = "closed" THEN wrote ELSE Append(wrote, s)
    /\ Post(<<"SUCCESSFUL">>) /\ Ends
    /\ UNCHANGED <<sessVars, mapVars, platVars, opVars, moved, deaf>>

(* 832 and 847: the platform has a new child device.                         *)
BeginAdd(c) ==
    /\ Begin("add", Owner[c], c, Default)
    /\ listed' = listed \cup {c} /\ target' = Absent
    /\ log' = <<>> /\ at' = "add"
    /\ UNCHANGED <<sessVars, mapVars, told, untold, moved, deaf>>

(* The session is given the agent's connection.                              *)
AddDevice ==
    /\ at = "add"
    /\ LET s == sidTo[goal] IN
        IF s = Absent
        THEN Post(<<"FAILED">>) /\ Ends /\ UNCHANGED <<http, kids>>
        ELSE /\ http' = [http EXCEPT ![s] = "agent"]
             /\ cs' = s /\ at' = "model" /\ UNCHANGED <<log, cursor, kids>>
    /\ UNCHANGED <<conn, dtu, io, mutex, rate, mapVars, platVars, opVars,
                   wrote, moved, deaf>>

(* Mutant: the agent takes its connection back.                              *)
ForgetHttp_Agent == http' = [http EXCEPT ![cs] = "null"]

(* The session keeps the agent's connection.                                 *)
ForgetHttp == UNCHANGED http

(* Mutant: the device is not entered, only its type is asked for.            *)
AddDevices_Not == UNCHANGED kids

(* addDevices.                                                               *)
AddDevices == kids' = [kids EXCEPT ![cs] = @ \cup {child}]

(* getModel, which it ends with, uses _http, which a handler may have        *)
(* forgotten.                                                                *)
GetModel ==
    /\ at = "model"
    /\ AddDevices
    /\ IF http[cs] = "null"
       THEN at' = "crashed" /\ UNCHANGED <<http, cursor, cs, log>>
       ELSE ForgetHttp /\ Post(<<"EXECUTING", "SUCCESSFUL">>) /\ Ends
    /\ UNCHANGED <<conn, dtu, io, mutex, rate, mapVars, platVars, opVars,
                   wrote, moved, deaf>>

(* 817.                                                                      *)
BeginRate(d, r) ==
    /\ Begin("rate", d, Absent, r)
    /\ log' = <<"EXECUTING">> /\ at' = "rate" /\ target' = Absent
    /\ UNCHANGED <<sessVars, mapVars, platVars, moved, deaf>>

(* Mutant: the session goes on at its old rate.                              *)
NewRate_Not(s) == UNCHANGED rate

(* Mutant: the rate is converted to milliseconds twice.                      *)
NewRate_Twice(s) == rate' = [rate EXCEPT ![s] = 1000 * want]

NewRate(s) == rate' = [rate EXCEPT ![s] = want]

SetInterval ==
    /\ at = "rate"
    /\ LET s == sidTo[goal] IN
        IF s = Absent
        THEN Post(<<"FAILED">>) /\ Ends /\ UNCHANGED rate
        ELSE NewRate(s) /\ at' = "tell" /\ UNCHANGED <<log, cursor, cs>>
    /\ UNCHANGED <<conn, dtu, io, http, mutex, kids, mapVars, platVars, opVars,
                   wrote, moved, deaf>>

(* The operation is SUCCESSFUL whether the platform has got the rate or not. *)
TellRate ==
    /\ at = "tell" /\ Tell(goal, want)
    /\ Post(<<"SUCCESSFUL">>) /\ Ends
    /\ UNCHANGED <<sessVars, mapVars, listed, opVars, wrote, moved, deaf>>

AgentStep ==
    \/ Scan \/ ScanEnd \/ TryLock \/ Busy \/ SetValue \/ Write
    \/ AddDevice \/ GetModel \/ SetInterval \/ TellRate

Arrival ==
    \/ \E c \in Child : BeginSet(c) \/ BeginAdd(c)
    \/ \E d \in Dtu, r \in Rates : BeginRate(d, r)

Next ==
    /\ at # "crashed"
    /\ (\E s \in Sess : SessionStep(s)) \/ Arrival \/ AgentStep

Spec == Init /\ [][Next]_vars

(* The agent thread and a handler that holds _io_mutex go on; a handler that *)
(* begins again and again does not keep the agent from _io_mutex for ever.   *)
FairSpec ==
    /\ Spec /\ SF_vars(at # "crashed" /\ AgentStep)
    /\ \A s \in Sess : WF_vars(at # "crashed" /\ (GetRate(s) \/ SetDid(s)
                             \/ SetSid(s) \/ LoadKids(s) \/ OnReadEnd(s)))

-----------------------------------------------------------------------------
(* A handler that runs has a connection to the platform: modbus_p.cpp:89,    *)
(* client_session.cpp:221, 309, 362 and 373 use _http without a test.        *)
HandlerHasHttp == \A s \in Sess : io[s] # "idle" => http[s] # "null"

(* When a set-value operation succeeds, and was not busy, its request has    *)
(* been written once, and to the session of the device, if that session was  *)
(* registered when the operation began and its DTU did not connect or        *)
(* disconnect meanwhile, and unless the slave number is refused.             *)
SuccessTrue ==
    /\ at = "idle" /\ kind = "set" /\ log = <<"EXECUTING", "SUCCESSFUL">>
    /\ target # Absent /\ goal \notin moved /\ child \notin Refused
    => wrote = <<target>>

(* The session that is registered for a DTU polls at the rate the platform   *)
(* has, also when the platform did not tell it and got the default instead,  *)
(* and again once the DTU has registered anew after a lost 321; unless the   *)
(* last 321 was lost, or the DTU connected or disconnected during an         *)
(* operation.                                                                *)
RatesAgree ==
    \A d \in Dtu : /\ sidTo[d] # Absent /\ d \notin moved \cup untold
                   /\ ~(at = "tell" /\ goal = d)
        => rate[sidTo[d]] = told[d]

(* A registered session polls every child device that the platform has for   *)
(* its DTU, whether the device was added before the DTU registered, while it *)
(* did or since; with the exceptions of RatesAgree, and unless the platform  *)
(* did not answer getChildDevices, which nothing repeats.                    *)
ChildrenKnown ==
    \A d \in Dtu : /\ sidTo[d] # Absent /\ io[sidTo[d]] \in {"idle", "data"}
                   /\ d \notin moved /\ sidTo[d] \notin deaf
                   /\ ~(at \in {"add", "model"} /\ goal = d)
        => {c \in listed : Owner[c] = d} \subseteq kids[sidTo[d]]

(* Every operation is answered, also when no slave answers and _mutex is     *)
(* never freed; the process may die of a null _http.                         *)
Answered == at # "idle" ~> at \in {"idle", "crashed"}
=============================================================================
