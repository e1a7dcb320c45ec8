---------------------------- MODULE PollSession ----------------------------
(* One registered ClientSession: its poll thread (operator()), the read and  *)
(* write completions of its socket (onRead, onWrite), the slave timer        *)
(* (checkSalveDeadline), the heartbeat deadline (checkDeadline), the agent   *)
(* thread that sets values (AgentMsgHandler), and the DTU at the other end.  *)
(*                                                                           *)
(* `mutex' is _mutex, a lock that is handed over: the thread that asks a     *)
(* slave something takes it and whoever handles the answer, the timeout or   *)
(* the close frees it.  std::mutex does not check the owner.                 *)
EXTENDS Integers, Sequences, FiniteSets

CONSTANTS
    NDev,        \* child devices of the DTU, polled in the order 1..NDev
    Addr,        \* first addresses of the ranges that are read
    NoAddr,      \* _current_num before the first point
    Plan,        \* Plan[d][f]: the ranges to read of device d, function code f
    Addressable, \* devices whose slave number Modbus::init accepts
    Faults,      \* what may go wrong, see FaultKinds
    MaxOps,      \* bound: set-value operations of the platform
    MaxLate,     \* bound: expired slave timers and requests still unanswered
    MaxWrites    \* bound: socket writes whose completion has not run

FaultKinds == {"lose", "exception", "ioError", "silent"}

Dev == 0..NDev    \* 0 is the nameless device an unmatched answer inserts
Code == 1..4      \* coils, discrete inputs, holding and input registers

ASSUME PollAssumption ==
    /\ NDev \in Nat \ {0}
    /\ Plan \in [1..NDev -> [Code -> Seq(Addr)]]
    /\ Addressable \subseteq 1..NDev
    /\ Faults \subseteq FaultKinds
    /\ MaxOps \in Nat /\ MaxLate \in Nat /\ MaxWrites \in Nat

VARIABLES
    mutex,    \* _mutex is locked
    flag,     \* _flag: the slave being polled has timed out
    salve,    \* where checkSalveDeadline is
    armed,    \* _deadline_timer is pending
    due,      \* expirations of it whose handler has not started
    pc,       \* where the poll thread is
    dev, fc, ix, \* the device, function code and range the loops have reached
    curDev, curAddr, \* _current_sid and _current_num
    wire,     \* requests sent and not answered; fc = 0 is a set-value request
    rd,       \* an async read is outstanding
    io,       \* where onRead is, which holds _io_mutex
    reply,    \* the request whose answer onRead handles
    vals,     \* template_msg of curDev: the values read since its clear
    stray,    \* _mbdevices._m holds the nameless device
    wq, wr,   \* write completions waiting, and where onWrite is
    agent, opDev, ops, \* the agent thread, the device it sets, operations begun
    isClose,  \* _is_close
    open,     \* _sock is open
    active,   \* the Timer is active
    strand,   \* where Close is, which runs in the strand of the session
    heard,    \* _receHeartBeat
    released  \* history: the lock was freed under a request in progress, and
              \* the line has not been idle at the start of a device since

pollVars  == <<pc, dev, fc, ix>>
currVars  == <<curDev, curAddr>>
timerVars == <<armed, due>>
ioVars    == <<rd, io, reply, vals, stray>>
agentVars == <<agent, opDev, ops>>
sockVars  == <<isClose, open, active, heard, strand>>
vars == <<mutex, flag, salve, timerVars, pollVars, currVars, wire, ioVars,
          wq, wr, agentVars, sockVars, released>>

Request == [dev : Dev, fc : 0..4, addr : Addr \cup {NoAddr}]
Reading == [fc : Code, addr : Addr \cup {NoAddr}, actual : Addr \cup {NoAddr}]
NoReply == [dev |-> 0, fc |-> 0, addr |-> NoAddr]

Pcs == {"sleep", "gate", "gateHeld", "gateOpen", "reset", "select",
        "point", "locked", "prepared", "send", "ended"}

TypeOK ==
    /\ mutex \in BOOLEAN /\ flag \in {0, 1}
    /\ salve \in {"off", "expired", "flagged"}
    /\ armed \in BOOLEAN /\ due \in Nat
    /\ pc \in Pcs /\ dev \in Dev /\ fc \in 1..5 /\ ix \in Nat \ {0}
    /\ curDev \in Dev /\ curAddr \in Addr \cup {NoAddr}
    /\ wire \in Seq(Request) /\ reply \in Request
    /\ rd \in BOOLEAN
    /\ io \in {"idle", "parsed", "uploaded", "closing", "ending", "crashed"}
    /\ vals \in Seq(Reading) /\ stray \in BOOLEAN
    /\ wq \in Nat /\ wr \in {"idle", "ok", "failed"}
    /\ agent \in {"idle", "spin", "locked"} /\ opDev \in Dev /\ ops \in Nat
    /\ isClose \in BOOLEAN /\ open \in BOOLEAN /\ active \in BOOLEAN
    /\ strand \in {"idle", "shut", "cancelled"}
    /\ heard \in BOOLEAN /\ released \in BOOLEAN

(* The session has just registered: regDev has succeeded, getChildDevices    *)
(* has filled _mbdevices, read(3) is outstanding and the Timer is started.   *)
Init ==
    /\ mutex = FALSE /\ flag = 0 /\ salve = "off"
    /\ armed = FALSE /\ due = 0
    /\ pc = "sleep" /\ dev = 1 /\ fc = 1 /\ ix = 1
    /\ curDev = 0 /\ curAddr = NoAddr
    /\ wire = <<>> /\ rd = TRUE /\ io = "idle" /\ reply = NoReply
    /\ vals = <<>> /\ stray = FALSE
    /\ wq = 0 /\ wr = "idle"
    /\ agent = "idle" /\ opDev = 0 /\ ops = 0
    /\ isClose = FALSE /\ open = TRUE /\ active = TRUE /\ heard = TRUE
    /\ strand = "idle" /\ released = FALSE

-----------------------------------------------------------------------------
(* Who is using the line.  The code means at most one of these to be true,   *)
(* and _mutex to be locked while one is.                                     *)
PollHolds  == pc \in {"gateHeld", "locked", "prepared", "send"}
AgentHolds == agent = "locked"
SalveHolds == salve \in {"expired", "flagged"}
IoHolds    == io \in {"parsed", "uploaded"}
WireHolds  == wire # <<>>
InUse      == PollHolds \/ AgentHolds \/ IoHolds \/ WireHolds

-----------------------------------------------------------------------------
(* The poll thread: Timer::loop and operator().                              *)

(* nanosleep ends: leave if the Timer was stopped, else start a sweep.       *)
Wake ==
    /\ pc = "sleep"
    /\ IF active
       THEN pc' = "gate" /\ dev' = IF stray THEN 0 ELSE 1
       ELSE pc' = "ended" /\ UNCHANGED dev
    /\ UNCHANGED <<mutex, flag, salve, timerVars, fc, ix, currVars, wire,
                   ioVars, wq, wr, agentVars, sockVars, released>>

(* Mutant: the sweep goes on to a slave without waiting for the line.        *)
Gate_NoWait ==
    /\ pc = "gate"
    /\ mutex' = TRUE /\ pc' = "gateHeld"
    /\ UNCHANGED <<flag, salve, timerVars, dev, fc, ix, currVars, wire, ioVars,
                   wq, wr, agentVars, sockVars, released>>

(* Lines 439 and 440: wait until nobody uses the line ...                    *)
Gate ==
    /\ pc = "gate" /\ ~mutex
    /\ mutex' = TRUE /\ pc' = "gateHeld"
    /\ UNCHANGED <<flag, salve, timerVars, dev, fc, ix, currVars, wire, ioVars,
                   wq, wr, agentVars, sockVars, released>>

GateOpen ==
    /\ pc = "gateHeld"
    /\ mutex' = FALSE /\ pc' = "gateOpen"
    /\ UNCHANGED <<flag, salve, timerVars, dev, fc, ix, currVars, wire, ioVars,
                   wq, wr, agentVars, sockVars, released>>

(* ... and give up the sweep when the session is closing.                    *)
CheckClose ==
    /\ pc = "gateOpen"
    /\ pc' = IF isClose THEN "sleep" ELSE "reset"
    /\ UNCHANGED <<mutex, flag, salve, timerVars, dev, fc, ix, currVars, wire,
                   ioVars, wq, wr, agentVars, sockVars, released>>

(* _flag = 0 under _timeout_mutex, which checkSalveDeadline holds.           *)
Reset ==
    /\ pc = "reset" /\ salve = "off"
    /\ flag' = 0 /\ pc' = "select"
    /\ UNCHANGED <<mutex, salve, timerVars, dev, fc, ix, currVars, wire,
                   ioVars, wq, wr, agentVars, sockVars, released>>

Quiet == ~mutex /\ ~InUse /\ ~SalveHolds

(* The function code g is the first from f on with a range of device d to    *)
(* read; 5 when there is none.                                               *)
FirstCode(d, f, g) ==
    /\ g \in f..5
    /\ g # 5 => Plan[d][g] # <<>>
    /\ \A h \in f..(g - 1) : Plan[d][h] = <<>>

NextCode == \E g \in 2..5 : FirstCode(dev, fc + 1, g) /\ fc' = g

(* Mutant: the values of an earlier sweep are not cleared.                   *)
Select_NoClear ==
    /\ pc = "select"
    /\ armed' = TRUE
    /\ curDev' = dev
    /\ pc' = "point" /\ ix' = 1
    /\ IF dev \in Addressable
       THEN \E g \in 1..5 : FirstCode(dev, 1, g) /\ fc' = g
       ELSE fc' = 5
    /\ released' = (released /\ ~Quiet)
    /\ UNCHANGED <<mutex, flag, salve, due, dev, curAddr, wire, ioVars,
                   wq, wr, agentVars, sockVars>>

(* setTimer_1 replaces a pending timer, but an expiration that is already    *)
(* queued still runs its handler; clear; _current_sid; Modbus::init.         *)
Select ==
    /\ pc = "select"
    /\ armed' = TRUE
    /\ vals' = <<>>
    /\ curDev' = dev
    /\ pc' = "point" /\ ix' = 1
    /\ IF dev \in Addressable
       THEN \E g \in 1..5 : FirstCode(dev, 1, g) /\ fc' = g
       ELSE fc' = 5
    /\ released' = (released /\ ~Quiet)
    /\ UNCHANGED <<mutex, flag, salve, due, dev, curAddr, wire, rd, io, reply,
                   stray, wq, wr, agentVars, sockVars>>

(* Mutant: the sweep runs past the last slave.                               *)
NextDevice_OneMore ==
    /\ pc = "point" /\ fc = 5
    /\ IF dev <= NDev
       THEN dev' = dev + 1 /\ pc' = "gate"
       ELSE pc' = "sleep" /\ UNCHANGED dev
    /\ UNCHANGED <<mutex, flag, salve, timerVars, fc, ix, currVars, wire,
                   ioVars, wq, wr, agentVars, sockVars, released>>

NextDevice ==
    /\ pc = "point" /\ fc = 5
    /\ IF dev < NDev
       THEN dev' = dev + 1 /\ pc' = "gate"
       ELSE pc' = "sleep" /\ UNCHANGED dev
    /\ UNCHANGED <<mutex, flag, salve, timerVars, fc, ix, currVars, wire,
                   ioVars, wq, wr, agentVars, sockVars, released>>

(* Line 508: freed by the answer to the previous request, or by its timeout. *)
Lock ==
    /\ pc = "point" /\ fc \in Code /\ ~mutex
    /\ mutex' = TRUE /\ pc' = "locked"
    /\ UNCHANGED <<flag, salve, timerVars, dev, fc, ix, currVars, wire, ioVars,
                   wq, wr, agentVars, sockVars, released>>

(* Mutant: the early way out of the loop forgets to unlock.                  *)
Skip_KeepLock ==
    /\ pc = "locked" /\ flag = 1
    /\ pc' = "point" /\ ix' = 1 /\ NextCode
    /\ UNCHANGED <<mutex, flag, salve, timerVars, dev, currVars, wire, ioVars,
                   wq, wr, agentVars, sockVars, released>>

(* The slave has timed out: leave this function code.                        *)
Skip ==
    /\ pc = "locked" /\ flag = 1
    /\ mutex' = FALSE
    /\ pc' = "point" /\ ix' = 1 /\ NextCode
    /\ UNCHANGED <<flag, salve, timerVars, dev, currVars, wire, ioVars,
                   wq, wr, agentVars, sockVars, released>>

Prepare ==
    /\ pc = "locked" /\ flag = 0
    /\ curAddr' = Plan[dev][fc][ix] /\ pc' = "prepared"
    /\ UNCHANGED <<mutex, flag, salve, timerVars, dev, fc, ix, curDev, wire,
                   ioVars, wq, wr, agentVars, sockVars, released>>

(* Line 522 returns with _mutex locked.                                      *)
CheckClosePoint ==
    /\ pc = "prepared"
    /\ pc' = IF isClose THEN "sleep" ELSE "send"
    /\ UNCHANGED <<mutex, flag, salve, timerVars, dev, fc, ix, currVars, wire,
                   ioVars, wq, wr, agentVars, sockVars, released>>

(* write(): under _io_mutex; a closed socket drops the request.              *)
Write(r) ==
    /\ io = "idle"
    /\ IF open
       THEN /\ wq < MaxWrites
            /\ wire' = Append(wire, r) /\ wq' = wq + 1
       ELSE UNCHANGED <<wire, wq>>

Send ==
    /\ pc = "send"
    /\ Write([dev |-> dev, fc |-> fc, addr |-> Plan[dev][fc][ix]])
    /\ pc' = "point"
    /\ IF ix < Len(Plan[dev][fc])
       THEN ix' = ix + 1 /\ UNCHANGED fc
       ELSE ix' = 1 /\ NextCode
    /\ UNCHANGED <<mutex, flag, salve, timerVars, dev, currVars, ioVars,
                   wr, agentVars, sockVars, released>>

PollStep == \/ Wake \/ Gate \/ GateOpen \/ CheckClose \/ Reset \/ Select
            \/ NextDevice \/ Lock \/ Skip \/ Prepare
            \/ CheckClosePoint \/ Send

-----------------------------------------------------------------------------
(* The slave timer and its handler checkSalveDeadline, under _timeout_mutex. *)

(* The timer fires: its completion is queued for a pool thread.              *)
Expire ==
    /\ armed /\ due + Len(wire) < MaxLate
    /\ armed' = FALSE /\ due' = due + 1
    /\ UNCHANGED <<mutex, flag, salve, pollVars, currVars, wire, ioVars,
                   wq, wr, agentVars, sockVars, released>>

(* try_lock: either way _mutex is locked afterwards.                         *)
SalveTest ==
    /\ salve = "off" /\ due > 0
    /\ due' = due - 1
    /\ IF flag = 0
       THEN /\ mutex' = TRUE /\ salve' = "expired"
            /\ released' = (released \/ InUse)
       ELSE UNCHANGED <<mutex, salve, released>>
    /\ UNCHANGED <<flag, armed, pollVars, currVars, wire, ioVars, wq, wr,
                   agentVars, sockVars>>

SalveFlag ==
    /\ salve = "expired"
    /\ flag' = 1 /\ salve' = "flagged"
    /\ UNCHANGED <<mutex, timerVars, pollVars, currVars, wire, ioVars, wq, wr,
                   agentVars, sockVars, released>>

(* Mutant: the expired timer does not free the line.                         *)
SalveRelease_Keep ==
    /\ salve = "flagged"
    /\ salve' = "off"
    /\ UNCHANGED <<mutex, flag, timerVars, pollVars, currVars, wire, ioVars,
                   wq, wr, agentVars, sockVars, released>>

SalveRelease ==
    /\ salve = "flagged"
    /\ mutex' = FALSE /\ salve' = "off"
    /\ UNCHANGED <<flag, timerVars, pollVars, currVars, wire, ioVars, wq, wr,
                   agentVars, sockVars, released>>

SalveStep == SalveTest \/ SalveFlag \/ SalveRelease

-----------------------------------------------------------------------------
(* toClose, and Close as far as line 167: the Timer is stopped and the socket *)
(* closed; an answer that has been read, but whose handler has not run, is   *)
(* still delivered.  The strand runs Close at once, and one at a time: a     *)
(* second one finds the socket closed.                                       *)
CloseSocket ==
    /\ active' = FALSE /\ open' = FALSE
    /\ IF open
       THEN /\ strand' = "shut"
            /\ \/ wire' = <<>>
               \/ rd /\ wire # <<>> /\ wire' = <<Head(wire)>>
       ELSE UNCHANGED <<strand, wire>>

(* Line 169 cancels the slave timer, also one that the poll thread has set   *)
(* since the socket was closed; not one that it sets afterwards.             *)
CloseTimer ==
    /\ strand = "shut"
    /\ armed' = FALSE /\ strand' = "cancelled"
    /\ UNCHANGED <<mutex, flag, salve, due, pollVars, currVars, wire, ioVars,
                   wq, wr, agentVars, isClose, open, active, heard, released>>

(* Line 170 frees _mutex, whoever holds it; the handler that closes returns. *)
CloseUnlock ==
    /\ strand = "cancelled"
    /\ mutex' = FALSE /\ strand' = "idle"
    /\ released' = (released \/ InUse \/ SalveHolds)
    /\ io' = IF io = "ending" THEN "idle" ELSE io
    /\ UNCHANGED <<flag, salve, timerVars, pollVars, currVars, wire, rd, reply,
                   vals, stray, wq, wr, agentVars, isClose, open, active, heard>>

CloseStep == CloseTimer \/ CloseUnlock

-----------------------------------------------------------------------------
(* onRead, which holds _io_mutex from the first step to the last.            *)

InBlock(d, f, a) == d # 0 /\ \E i \in 1..Len(Plan[d][f]) : Plan[d][f][i] = a

(* getSid: of the devices with the slave number of the answer, the one that  *)
(* is being polled.                                                          *)
GetSid(r) == IF r.dev = curDev THEN {curDev} ELSE {}

(* parseMsg takes the function code from the answer, but device and address  *)
(* from _current_sid and _current_num.  The answer of another slave finds no *)
(* device: parseHR and parseIR then insert the nameless one and count        *)
(* nothing, parseCO and parseDI index an empty vector and the process dies.  *)
OnReadParse ==
    /\ rd /\ io = "idle" /\ wire # <<>>
    /\ heard' = TRUE /\ isClose' = FALSE /\ rd' = FALSE
    /\ LET r == Head(wire) IN
       /\ reply' = r /\ wire' = Tail(wire)
       /\ \/ /\ r.fc = 0 \/ "exception" \in Faults
             /\ io' = "parsed" /\ UNCHANGED <<vals, stray>>
          \/ /\ r.fc # 0 /\ GetSid(r) # {}
             /\ vals' = IF InBlock(curDev, r.fc, curAddr)
                        THEN Append(vals, [fc |-> r.fc, addr |-> curAddr,
                                           actual |-> r.addr])
                        ELSE vals
             /\ io' = "parsed" /\ UNCHANGED stray
          \/ /\ r.fc \in {1, 2} /\ GetSid(r) = {}
             /\ io' = "crashed" /\ UNCHANGED <<vals, stray>>
          \/ /\ r.fc \in {3, 4} /\ GetSid(r) = {}
             /\ stray' = TRUE
             /\ io' = "parsed" /\ UNCHANGED vals
    /\ UNCHANGED <<mutex, flag, salve, timerVars, pollVars, currVars, wq, wr,
                   agentVars, open, active, strand, released>>

Count(f) == Cardinality({i \in 1..Len(vals) : vals[i].fc = f})

(* sendMsg uploads when every function code has as many values as the        *)
(* template has entries.  Line 375 looks up _current_sid, by which the       *)
(* nameless device comes to be when nothing has been polled yet.             *)
Complete == curDev # 0 /\ \A f \in Code : Count(f) = Len(Plan[curDev][f])

OnReadUpload ==
    /\ io = "parsed"
    /\ vals' = IF Complete THEN <<>> ELSE vals
    /\ stray' = (stray \/ curDev = 0)
    /\ io' = "uploaded"
    /\ UNCHANGED <<mutex, flag, salve, timerVars, pollVars, currVars, wire, rd,
                   reply, wq, wr, agentVars, sockVars, released>>

(* The end of process() and read(3).                                         *)
OnReadRelease ==
    /\ io = "uploaded"
    /\ mutex' = FALSE
    /\ rd' = open /\ reply' = NoReply
    /\ io' = "closing"
    /\ UNCHANGED <<flag, salve, timerVars, pollVars, currVars, wire, vals,
                   stray, wq, wr, agentVars, sockVars, released>>

(* The read fails, is cancelled, or delivers a frame checkMsg rejects.       *)
OnReadError ==
    /\ rd /\ io = "idle"
    /\ IF open THEN "ioError" \in Faults ELSE wire = <<>>
    /\ heard' = TRUE /\ isClose' = TRUE /\ rd' = FALSE
    /\ io' = "closing"
    /\ UNCHANGED <<mutex, flag, salve, timerVars, pollVars, currVars, wire,
                   reply, vals, stray, wq, wr, agentVars, open, active,
                   strand, released>>

(* Line 334 reads _is_close again; onWrite may have changed it meanwhile.    *)
OnReadClose ==
    /\ io = "closing"
    /\ io' = IF isClose /\ open THEN "ending" ELSE "idle"
    /\ IF isClose
       THEN CloseSocket
       ELSE UNCHANGED <<active, open, strand, wire>>
    /\ UNCHANGED <<mutex, flag, salve, timerVars, pollVars, currVars, rd, reply,
                   vals, stray, wq, wr, agentVars, isClose, heard, released>>

IoStep == OnReadUpload \/ OnReadRelease \/ OnReadClose
            \/ (OnReadError /\ ~open)

(* checkDeadline: no bytes since the last one closes the session.            *)
CheckDeadline ==
    /\ "silent" \in Faults /\ open /\ io = "idle"
    /\ heard' = FALSE
    /\ IF heard
       THEN UNCHANGED <<active, open, strand, wire, io>>
       ELSE CloseSocket /\ io' = "ending"
    /\ UNCHANGED <<mutex, flag, salve, timerVars, pollVars, currVars, rd, reply,
                   vals, stray, wq, wr, agentVars, isClose, released>>

(* onWrite, which takes no lock.                                             *)
OnWriteBegin ==
    /\ wq > 0 /\ wr = "idle"
    /\ wq' = wq - 1
    /\ isClose' = FALSE
    /\ \/ wr' = "ok"
       \/ wr' = "failed" /\ (~open \/ "ioError" \in Faults)
    /\ UNCHANGED <<mutex, flag, salve, timerVars, pollVars, currVars, wire,
                   ioVars, agentVars, open, active, heard, strand, released>>

OnWriteEnd ==
    /\ wr # "idle"
    /\ wr' = "idle"
    /\ isClose' = (isClose \/ wr = "failed")
    /\ IF isClose'
       THEN CloseSocket
       ELSE UNCHANGED <<active, open, strand, wire>>
    /\ UNCHANGED <<mutex, flag, salve, timerVars, pollVars, currVars, ioVars,
                   wq, agentVars, heard, released>>

OnWriteStep == OnWriteBegin \/ OnWriteEnd

-----------------------------------------------------------------------------
(* The agent thread: operations 833 and 834.                                 *)

AgentBegin ==
    /\ agent = "idle" /\ ops < MaxOps /\ open
    /\ ops' = ops + 1 /\ agent' = "spin"
    /\ opDev' \in 1..NDev
    /\ UNCHANGED <<mutex, flag, salve, timerVars, pollVars, currVars, wire,
                   ioVars, wq, wr, sockVars, released>>

(* Mutant: the agent does not look at the result of try_lock.                *)
AgentLock_NoTry ==
    /\ agent = "spin"
    /\ mutex' = TRUE /\ agent' = "locked"
    /\ UNCHANGED <<flag, salve, timerVars, pollVars, currVars, wire, ioVars,
                   wq, wr, opDev, ops, sockVars, released>>

AgentLock ==
    /\ agent = "spin" /\ ~mutex
    /\ mutex' = TRUE /\ agent' = "locked"
    /\ UNCHANGED <<flag, salve, timerVars, pollVars, currVars, wire, ioVars,
                   wq, wr, opDev, ops, sockVars, released>>

(* All the try_locks of the spin have failed.                                *)
AgentBusy ==
    /\ agent = "spin" /\ mutex
    /\ agent' = "idle" /\ opDev' = 0
    /\ UNCHANGED <<mutex, flag, salve, timerVars, pollVars, currVars, wire,
                   ioVars, wq, wr, ops, sockVars, released>>

(* setValue: Modbus::init may refuse the slave; _mutex stays locked anyway.  *)
AgentWrite ==
    /\ agent = "locked"
    /\ IF opDev \in Addressable
       THEN Write([dev |-> opDev, fc |-> 0, addr |-> NoAddr])
       ELSE UNCHANGED <<wire, wq>>
    /\ agent' = "idle" /\ opDev' = 0
    /\ UNCHANGED <<mutex, flag, salve, timerVars, pollVars, currVars, ioVars,
                   wr, ops, sockVars, released>>

AgentStep == AgentLock \/ AgentBusy \/ AgentWrite

(* The slave does not answer.                                                *)
Lose ==
    /\ "lose" \in Faults /\ wire # <<>>
    /\ wire' = Tail(wire)
    /\ UNCHANGED <<mutex, flag, salve, timerVars, pollVars, currVars, ioVars,
                   wq, wr, agentVars, sockVars, released>>

-----------------------------------------------------------------------------
Next ==
    /\ io # "crashed"
    /\ \/ PollStep
       \/ Expire \/ SalveStep
       \/ OnReadParse \/ OnReadError \/ OnReadUpload \/ OnReadRelease
       \/ OnReadClose
       \/ CheckDeadline \/ OnWriteStep \/ CloseStep
       \/ AgentBegin \/ AgentStep
       \/ Lose

Spec == Init /\ [][Next]_vars

(* Threads that can run do run; timers expire; the DTU answers or loses each *)
(* request in the end; a queued completion gets a pool thread.               *)
Alive(A) == io # "crashed" /\ A
Fairness ==
    /\ WF_vars(Alive(PollStep))
    /\ WF_vars(Alive(Expire)) /\ WF_vars(Alive(SalveStep))
    /\ WF_vars(Alive(OnReadParse \/ Lose)) /\ WF_vars(Alive(IoStep))
    /\ WF_vars(Alive(OnWriteStep)) /\ WF_vars(Alive(CloseStep))
    /\ WF_vars(Alive(AgentStep))

FairSpec == Spec /\ Fairness

-----------------------------------------------------------------------------
(* While nobody has freed the lock under a request in progress, the line has *)
(* one user at a time, that user has _mutex locked, and at most one request  *)
(* is unanswered: answers cannot be taken for one another.                   *)
LineDiscipline ==
    ~released =>
        /\ InUse \/ SalveHolds => mutex
        /\ PollHolds  => ~(AgentHolds \/ SalveHolds \/ IoHolds \/ WireHolds)
        /\ AgentHolds => ~(SalveHolds \/ IoHolds \/ WireHolds)
        /\ SalveHolds => ~(IoHolds \/ WireHolds)
        /\ IoHolds    => ~WireHolds
        /\ Len(wire) <= 1

Matches(r) == r.fc # 0 => r.dev = curDev /\ r.addr = curAddr

(* Lines 435 to 438 and 506: _current_sid and _current_num stay what they    *)
(* were when the outstanding point was sent, until its answer has been       *)
(* parsed and uploaded.  Stated without the exception for an early release,  *)
(* as the comments do, it is CommentReplyInSync.                             *)
CommentReplyInSync ==
    /\ \A i \in 1..Len(wire) : Matches(wire[i])
    /\ IoHolds => Matches(reply)

ReplyInSync == ~released => CommentReplyInSync

(* Every value kept for a device is the value of the address it is kept      *)
(* under, and no answer of another slave has been parsed in its place.       *)
ValuesTrue ==
    ~released => /\ \A i \in 1..Len(vals) : vals[i].addr = vals[i].actual
                 /\ io # "crashed"

(* What sendMsg uploads for a device is one value for each range of its      *)
(* plan, no range twice.  The counts it compares cannot tell.                *)
UploadFaithful ==
    [][~released /\ OnReadUpload /\ Complete =>
         \A f \in Code : \A i \in 1..Len(Plan[curDev][f]) :
            Cardinality({j \in 1..Len(vals) :
                            vals[j].fc = f /\ vals[j].actual = Plan[curDev][f][i]})
              = Cardinality({j \in 1..Len(Plan[curDev][f]) :
                            Plan[curDev][f][j] = Plan[curDev][f][i]})]_vars

(* The readings kept in template_msg are the report DeviceReport promises,   *)
(* which is disturbed when a timeout or a close frees the lock under a       *)
(* request, until clear and Modbus::init find the line idle.                 *)
RangesOf == [d \in Dev |-> IF d = 0 THEN {} ELSE
    UNION {{<<f, Plan[d][f][i]>> : i \in 1..Len(Plan[d][f])} : f \in Code}]

Report == INSTANCE DeviceReport WITH
    Devices <- Dev,
    Ranges  <- RangesOf,
    device  <- curDev,
    known   <- {<<vals[i].fc, vals[i].actual>> : i \in 1..Len(vals)},
    disturbed <- released
ReportSpec == Report!Spec

(* Lines 449 and 507: no slave keeps the others from being polled while the  *)
(* session is open.                                                          *)
PollingProgress ==
    \A d \in 1..NDev : []<>(~open \/ (pc = "select" /\ dev = d))

(* A closed session can be destroyed: ~ClientSession joins the poll thread,  *)
(* which ends, whatever answers, expirations and writes are still under way, *)
(* when Close is over (line 170) and the poll thread is between two sweeps,  *)
(* has yet to set the slave timer of a slave, or has set it again: setTimer_1*)
(* does not ask whether the socket is open, and the timer frees the thread.  *)
(* Not so when line 169 has cancelled the timer of the slave that is being   *)
(* polled: line 170 frees _mutex once, the requests of the other ranges are  *)
(* dropped, and nobody frees it again.                                       *)
PollThreadEnds ==
    (/\ ~open /\ strand = "idle" /\ agent = "idle"
     /\ \/ pc \in {"sleep", "gateHeld", "gateOpen", "reset", "select"}
        \/ pc = "gate" /\ ~mutex
        \/ armed) ~> pc = "ended"
=============================================================================
